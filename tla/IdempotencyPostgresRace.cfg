SPECIFICATION Spec
CONSTANTS
    Requests = {r1, r2}
    Fingerprints = {f1}
    PoolSize = 10
    Faults = {}
    None = None
INVARIANTS
    OneHandlerAtATime
CHECK_DEADLOCK FALSE
