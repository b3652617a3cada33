SPECIFICATION Spec
CONSTANTS
    Sessions = {s1, s2, s3, s4}
    Requests = {r1, r2}
    MaxLogins = 2
    None = None
SYMMETRY Symmetry
INVARIANTS
    SingleUse
    RotationIsAtomic
PROPERTIES
    ImplementsTokenFamily
    RotatesOnlyLiveSessions
    RevocationCoversSnapshot
