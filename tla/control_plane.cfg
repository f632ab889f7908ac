CONSTANTS
    Slots = {s1, s2}
    MaxRequests = 3
    Zero = "zero"
    Root = "root"
    SeedSquad = "core"
    Tenant = "acme"
    Admin = "ana"
    Agents <- MCAgents
    NewClients = {"beta"}
    NewUsers = {"eve"}
    Slugs = {"core", "web"}
    Issues = {"i1"}
    Roles = {"CLIENT_ADMIN", "CLIENT_VIEWER"}
    ClientEdits <- MCClientEdits
    PlanEdits <- MCPlanEdits
    UserEdits <- MCUserEdits
    StackEdits <- MCStackEdits
    STACK_PROFILES <- MCProfiles
    Workspace = "jira"
    None = None
SPECIFICATION Spec
SYMMETRY MCSymmetry
INVARIANTS
    IInv
PROPERTIES
    TenantKept
    EditsKept
CHECK_DEADLOCK FALSE
