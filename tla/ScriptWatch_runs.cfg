SPECIFICATION FairSpec
CONSTANTS
    Device = {Pc1, Pc2}
    Chosen = {}
    None = None
    MaxRuns = 2
    MaxMounts = 2
    MaxPolls = 1
    MaxDetails = 1
INVARIANTS StoppedShowsAll BadgeIsFinal
PROPERTIES BusyEnds
CHECK_DEADLOCK FALSE
