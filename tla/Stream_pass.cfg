SPECIFICATION Spec
CONSTANTS
    Bindings = {"grpc", "sse"}
    Capacity = 2
    MaxEnvelopes = 3
    MaxSubscribes = 2
    MaxRestarts = 1
    MaxDrops = 1
INVARIANTS
    ResumedExactly
PROPERTIES
    EndedIsComplete
    StreamServes
CHECK_DEADLOCK FALSE
