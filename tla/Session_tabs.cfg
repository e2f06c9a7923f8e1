SPECIFICATION FairSpec
CONSTANTS
    Acme = Acme
    Ana = Ana
    Tenant = {Acme, Beta}
    Staff = {Ana}
    Home <- MCHome
    Root = Root
    None = None
    Pages <- MCPages
    Shown = {"terminal"}
    AgentEnabled = TRUE
    Expiring = {1}
    MaxLeft = 0
    MaxLogins = 2
    MaxRequests = 2
INVARIANTS RowsOfThisSession
PROPERTIES SessionEndsEverywhere RowsConverge
