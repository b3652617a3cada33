SPECIFICATION FairSpec
CONSTANTS
    Requests = {r1, r2, r3}
    Keys = {k1, k2}
    Fingerprints = {f1, f2}
    None = None
INVARIANTS
    ReplayIsFaithful
PROPERTIES
    ImplementsIdempotentKey
    ReservationsEnd
CHECK_DEADLOCK FALSE
