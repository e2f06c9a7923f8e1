SPECIFICATION Spec
CONSTANTS
    Acme = Acme
    Ana = Ana
    Tenant = {Acme, Beta}
    Staff = {Ana}
    Home <- MCHome
    Root = Root
    None = None
    Pages <- MCPages
    Shown = {"devices", "terminal"}
    AgentEnabled = TRUE
    Expiring = {1}
    MaxLeft = 2
    MaxLogins = 1
    MaxRequests = 2
INVARIANTS BannerNamesScope
