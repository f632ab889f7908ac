CONSTANTS
    Slots = {s1, s2}
    MaxRequests = 3
    MaxCrashes = 1
    KindOrder <- MCKinds
    SiteKinds = {"jira"}
    Names = {n1, n2}
    None = None
SPECIFICATION Spec
SYMMETRY MCSymmetry
INVARIANTS
    IInv
    FileCarriesNewest
CHECK_DEADLOCK FALSE
