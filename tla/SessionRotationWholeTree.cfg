SPECIFICATION Spec
CONSTANTS
    Sessions = {s1, s2, s3}
    Requests = {r1, r2}
    MaxLogins = 2
    None = None
SYMMETRY Symmetry
PROPERTIES
    RevokesWholeTree
