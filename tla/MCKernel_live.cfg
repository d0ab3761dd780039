SPECIFICATION FairSpec
CONSTANTS
    MaxSuspendMs = 4
    MaxSuspensionCycles = 1
    SemanticsRev = 4
    Participants = {"owner", "target"}
    Initiator = "owner"
    PolicyBound = TRUE
    Authority = "initiator_only"
    DesignatedRoles = {}
    ImplicitAcceptTimeoutMs = 1
    Types = {"HandoffOffer"}
    Ttl = 2
    SuspendCap = 1
    StartEnvelopes <- MCStart
    ClientEnvelopes <- MCClient
    OnSessionStart <- HandoffOnSessionStart
    AuthorizeSender <- HandoffAuthorizeSender
    ValidateClientEnvelope <- HandoffValidateClientEnvelope
    OnMessageAt <- HandoffOnMessageAt
    DueSynthetic <- HandoffDueSynthetic
    InitialClock = 1
    MaxClock = 4
    ClockMonotonic = TRUE
    MaxLog = 3
    MaxCrashes = 1
    AppendFaults = {"refused"}
    SnapshotFaults = FALSE
    RequestTimeouts = FALSE
    CompactTerminalLogs = FALSE
    CheckpointInterval = 0
    RetentionMs = 2
    ReuseIds = FALSE
PROPERTIES
    TimersFire
