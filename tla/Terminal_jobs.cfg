SPECIFICATION FairSpec
CONSTANTS
    Acme = Acme
    Pc3 = Pc3
    Tenant = {Acme, Beta}
    Device = {Pc1, Pc2, Pc3}
    Owner <- MCOwner
    Tagged = {Pc1, Pc3}
    None = None
    Roles = {"super_admin", "operator"}
    MaxJobs = 1
    MaxPolls = 2
    MaxFaults = 1
INVARIANTS EntriesOfTenant CommandStaysInTenant FinishedShowsAll
PROPERTIES RunningEnds
