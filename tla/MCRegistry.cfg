SPECIFICATION Spec
CONSTANTS
    Ids = {1, 2}
    Starts = {"s1", "s2", "s3"}
    StartOf <- MCStartOf
    MaxOpen = 1
    PageSizes = {0, 2}
    DefaultPageSize = 0
    MaxPageSize = 2
    BusCapacity = 2
    PendingLimit = 2
    Readers = {"r1", "r2"}
    Scenarios <- MCScenarios
INVARIANTS
    StartsSound
    ViewsComplete
    OneReceipt

    
CHECK_DEADLOCK FALSE
