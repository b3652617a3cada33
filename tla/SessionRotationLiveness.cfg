SPECIFICATION FairSpec
CONSTANTS
    Sessions = {s1, s2, s3}
    Requests = {r1, r2}
    MaxLogins = 1
    None = None

PROPERTIES
    EveryRequestEnds
