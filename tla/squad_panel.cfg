CONSTANTS
    Slots = {s1, s2}
    MaxRequests = 4
    InitSlugs <- MCSlugs
    Catalog = {"dev", "arch"}
    TierOf <- MCTiers
    Setups <- MCSetups
    EventCap = 2
    None = None
SPECIFICATION Spec
SYMMETRY MCSymmetry
INVARIANTS
    IInv
PROPERTIES
    VersionsMoveForward
    LastOfTierOnlyByRace
    RecordedEventsKept
CHECK_DEADLOCK FALSE
