SPECIFICATION Spec
CONSTANTS
    MaxSuspendMs = 4
    MaxSuspensionCycles = 1
    SemanticsRev = 4
    Participants = {"owner", "target"}
    Initiator = "owner"
    PolicyBound = TRUE
    Authority = "initiator_only"
    DesignatedRoles = {}
    ImplicitAcceptTimeoutMs = 1
    Types = {"HandoffOffer", "HandoffAccept", "HandoffDecline", "HandoffContext", "Commitment"}
    Ttl = 2
    SuspendCap = 1
    StartEnvelopes <- MCStart
    ClientEnvelopes <- MCClient
    OnSessionStart <- HandoffOnSessionStart
    AuthorizeSender <- HandoffAuthorizeSender
    ValidateClientEnvelope <- HandoffValidateClientEnvelope
    OnMessageAt <- HandoffOnMessageAt
    DueSynthetic <- HandoffDueSynthetic
    InitialClock = 1
    MaxClock = 5
    ClockMonotonic = TRUE
    MaxLog = 6
    MaxCrashes = 0
    AppendFaults = {}
    SnapshotFaults = FALSE
    RequestTimeouts = FALSE
    CompactTerminalLogs = FALSE
    CheckpointInterval = 0
    RetentionMs = 2
    ReuseIds = FALSE
INVARIANTS
    ClocksSound
PROPERTIES
    AcceptedInTime
