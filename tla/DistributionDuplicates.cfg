SPECIFICATION Spec
CONSTANTS
    Passes = {p1, p2}
    Runs = {n1, n2}
    a = a
    b = b
    c = c
    Ledger <- Ledgers
    BatchSize = 2
    MaxRetries = 2
    Faults = {}
    MaxFaults = 0
    MaxTogether = 0
    None = None
INVARIANTS
    NoDuplicatePayouts
CHECK_DEADLOCK FALSE
