SPECIFICATION Spec
CONSTANTS
    Passes = {p1, p2}
    Runs = {n1, n2, n3, n4}
    a = a
    b = b
    c = c
    Ledger <- Ledgers
    BatchSize = 2
    MaxRetries = 2
    Faults = {"error", "lost reply", "crash"}
    MaxFaults = 3
    MaxTogether = 1
    None = None
SYMMETRY Symmetry
INVARIANTS
    RecordsAreTrue
    TransactionsProtectPayouts
CHECK_DEADLOCK FALSE
