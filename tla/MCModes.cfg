SPECIFICATION LibrarySpec
CONSTANTS
    Participants = {"a", "b", "c"}
    Initiator = "a"
    PassthroughTypes = {"Note", "Commitment"}
    ExtensionTypes = {"Note", "Commitment"}
    Sessions <- MCSessions
    Envelopes <- MCEnvelopes
    MaxObjections = 2
    MaxRounds = 5
    MaxUpdates = 1
    Candidates <- MCCandidates
    Recorded <- MCRecorded
    MaxHistory = 6
    MaxSuspendMs = 2
    MaxSuspensionCycles = 1
    SemanticsRev = 4
    Deployments <- MCDeployments
    Definitions <- MCDefinitions
    Starts <- MCStarts
    Submissions <- MCSubmissions
    MaxTtlMs = 3
    MaxSyntheticPerStep = 2
    MaxNow = 3
    MaxEvents = 4
INVARIANTS
    OutcomeBacked
    VetoHasExit
    ConvergenceCurrent
    WhatIfSound
    EmbedderFaithful
PROPERTIES
    StatementsStand
CHECK_DEADLOCK FALSE
