CONSTANTS
    Device = {d1, d2}
    Disturbances = {"lose", "cancel", "restart"}
    MaxFaults = 2
\* the one run is over and its agents are idle
CHECK_DEADLOCK FALSE
SPECIFICATION FairSpec
INVARIANTS
    ClosedMatchesResults
PROPERTIES
    OutcomeIsFinal
    LedgerSpec
    RunCloses
