SPECIFICATION Spec
CONSTANTS
    Ids = {1}
    Starts = {"s1", "s2"}
    StartOf <- MCStartOf
    MaxOpen = 1
    PageSizes = {0}
    DefaultPageSize = 0
    MaxPageSize = 2
    BusCapacity = 2
    PendingLimit = 2
    Readers = {"r1"}
    Scenarios <- MCClaimScenarios
PROPERTIES
    DeletesTerminalOnly
CHECK_DEADLOCK FALSE
