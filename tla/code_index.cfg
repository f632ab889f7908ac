CONSTANTS
    Runners = {r1}
    Repos = {"a", "b", "c"}
    LocalRepo = "a"
    Cloned = {"a", "b"}
    Files = {"f", "g"}
    ChunkCount <- MCChunks
    Messages <- MCMessages
    MaxMessages = 2
    MaxPulls = 2
    MaxFaults = 2
SPECIFICATION Spec
INVARIANTS
    IInv
PROPERTIES
    ChunksReturn
CHECK_DEADLOCK FALSE
