SPECIFICATION Spec
CONSTANTS
    MaxSuspendMs = 4
    MaxSuspensionCycles = 1
    SemanticsRev = 4
    Participants = {"owner", "target"}
    Initiator = "owner"
    PolicyBound = TRUE
    Authority = "initiator_only"
    DesignatedRoles = {}
    ImplicitAcceptTimeoutMs = 1
    Types = {"HandoffOffer", "HandoffContext"}
    Ttl = 1
    SuspendCap = 1
    StartEnvelopes <- MCStart
    ClientEnvelopes <- MCClient
    OnSessionStart <- HandoffOnSessionStart
    AuthorizeSender <- HandoffAuthorizeSender
    ValidateClientEnvelope <- HandoffValidateClientEnvelope
    OnMessageAt <- HandoffOnMessageAt
    DueSynthetic <- HandoffDueSynthetic
    InitialClock = 1
    MaxClock = 3
    ClockMonotonic = TRUE
    MaxLog = 4
    MaxCrashes = 0
    AppendFaults = {}
    SnapshotFaults = FALSE
    RequestTimeouts = TRUE
    CompactTerminalLogs = TRUE
    CheckpointInterval = 3
    RetentionMs = 1
    ReuseIds = FALSE
PROPERTIES
    ServedConsistent
