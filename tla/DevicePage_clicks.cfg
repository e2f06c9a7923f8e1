SPECIFICATION FairDevicesSpec
CONSTANTS
    Pc1 = Pc1
    Pc2 = Pc2
    Plain = Plain
    Device = {Pc1, Pc2}
    Branch = {North}
    Alias = {Plain, Desk}
    Tag = {Lab}
    Null = Null
    Numeric = {Pc1}
    FirstRow <- MCFirstRow
    Filters <- MCFilters
    Touched = {Pc1}
    MaxClicks = 3
    MaxEvents = 1
    MaxModals = 2
    MaxLoads = 2
    MaxOps = 2
INVARIANTS DevicesTypeOK SavedIsStored TagsAreShown QuietIsFresh
PROPERTIES PageSettles
CHECK_DEADLOCK FALSE
