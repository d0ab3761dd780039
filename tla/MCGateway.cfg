SPECIFICATION Spec
CONSTANTS
    Parts = {"rate", "keys", "ingress", "receipts", "json"}
    Senders = {"a", "b"}
    Requests = {1, 2}
    Limits <- MCLimits
    Loads <- MCLoads
    Window = 3
    SweepEvery = 2
    MaxWait = 1
    MaxTime = 4
    Keys = {"k1", "k2"}
    Tokens <- MCTokens
    Callers = {"c1", "c2"}
    Ttl = 2
    Grace = 2
    FetchTimeout = 1
    MaxClock = 6
    MaxRotations = 1
    Clients = {"c1", "c2"}
    Identities <- MCIdentities
    Delegates = {"bob"}
    Modes = {"m", "x"}
    Plans <- MCPlans
    Settings <- MCSettings
    Probes <- MCProbes
    StringFields = {"commitment_id", "action"}
    Wires <- MCWires
    KeyEnvs <- MCKeyEnvs
    MaxBoots = 2
    Schema <- MCSchema
    Packages <- MCPackages
    Bodies <- MCBodies
    Received <- MCReceived
    MaxSafeInteger = 99
    MaxInt64 = 200
    MaxInt32 = 20
    MaxDouble = 6
    MinMs <- MCMinMs
    MaxMs = 10
    MAX_DEPTH = 4
    MAX_TEXT_DEPTH = 6
    MaxRespells = 2
INVARIANTS
    LimitHonoured
    KeysFollowEndpoint
    EntrancesGuarded
    ReceiptsSound
    CodecFaithful
PROPERTIES
    FetchesSpaced
CHECK_DEADLOCK FALSE
