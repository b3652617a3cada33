SPECIFICATION FairSpec
CONSTANTS
    Deliveries = {d1}
    Instances = {i1}
    MaxRetries = 5
    MaxCrashes = 1
    MaxErrors = 0
    MayDeactivate = FALSE
PROPERTIES
    EveryDeliveryEnds
CHECK_DEADLOCK FALSE
