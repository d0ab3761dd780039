SPECIFICATION Spec
CONSTANTS
    Participants = {"a", "b"}
    Initiator = "a"
    RuleExtensions = {}
    ReservedNames = {"decision", "proposal", "task", "handoff", "quorum", "macp.mode.x"}
    Sessions = {"s1"}
    Requests <- MCRequests
    Envelopes <- MCEnvelopes
    Documents <- MCDocuments
    Descriptors <- MCDescriptors
    TargetNames <- MCTargetNames
    Dirs <- MCDirs
    CompactTerminalLogs = FALSE
    ChannelCapacity = 1
    MaxEntries = 2
    MaxChanges = 2
    MaxRestarts = 2
    MaxEdits = 1
INVARIANTS
    AdmissionsSound
    BoundForLife
    WatcherFresh
CHECK_DEADLOCK FALSE
