CONSTANTS
    Machine = {m1}
    Conn = {c1, c2, c3}
    None = None
    HbbsPresence = TRUE
    MaxFaults = 1
    BootEnabled = {TRUE, FALSE}
\* a machine that is switched off for good stops the system
CHECK_DEADLOCK FALSE
SPECIFICATION FairSpec
INVARIANTS
    RegisteredIsLive
PROPERTIES
    TrashPersists
    AgentConverges
    PresenceConverges
    PlaceholderMerges
    MissingPeersExpire
