SPECIFICATION FairSpec
CONSTANTS
    Requests = {r1, r2, r3}
    Fingerprints = {f1, f2}
    PoolSize = 2
    Faults = {"db error", "expiry", "client gone", "crash"}
    None = None
INVARIANTS
    RetriesAreSound
PROPERTIES
    SavedResponsesStay
    ChecksEnd
CHECK_DEADLOCK FALSE
