SPECIFICATION FairSpec
CONSTANTS
    Deliveries = {d1}
    Instances = {i1, i2}
    MaxRetries = 5
    MaxCrashes = 2
    MaxErrors = 1
    MayDeactivate = TRUE
INVARIANTS
    OutcomesAreTrue
    SendsAreBounded
PROPERTIES
    UndisturbedDeliveriesEnd
CHECK_DEADLOCK FALSE
