CONSTANTS
    Machine = {m1, m2}
    Conn = {c1, c2}
    None = None
    HbbsPresence = FALSE
    MaxFaults = 1
    BootEnabled = {TRUE}
\* a machine that is switched off for good stops the system
CHECK_DEADLOCK FALSE
SPECIFICATION Spec
SYMMETRY Symmetry
INVARIANTS
    DeliveredToOwner
