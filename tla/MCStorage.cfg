SPECIFICATION Spec
CONSTANTS
    Parts = {"file", "backend", "migration", "process", "anchors"}
    MaxEntries = 5
    FaultModels <- MCFaultModels
    Kinds = {"file", "rocksdb", "redis", "memory"}
    Writers = {"w1", "w2"}
    MaxStarts = 2
    MaxRevisions = 3
    MaxFailures = 2
    SnapshotFails = TRUE
    StoreLosses = TRUE
    Layouts <- MCLayouts
    MaxRestarts = 3
    Environments <- MCEnvironments
    Trafficked <- MCTrafficked
    Connections = {"a", "b"}
    MaxCommits = 2
    BuiltInMaxPage = 3
    BuiltInPage = 2
    BodyOverhead = 2
    Word = 64
    AnchorIds = {"i"}
    Spans = {"r"}
    MaxSessionStarts = 2
    MaxCrashes = 1
INVARIANTS
    TearCost
    BackendKeeps
    MigrationComplete
    ProcessSound
    AnchorsSound
PROPERTIES
    ImplementsDurableLog
    ShutsDown
    CacheDrains
CHECK_DEADLOCK FALSE
