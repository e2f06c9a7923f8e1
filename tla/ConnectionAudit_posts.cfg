SPECIFICATION AuditSpec
CONSTANTS
    Pc1 = Pc1
    Device = {Pc1}
    Session = {s1, s2}
    Tx = {t1, t2, t3}
    None = None
    Target <- MCTarget
    MaxClicks = 2
    MaxPosts = 4
    MaxFaults = 1
SYMMETRY Symmetry
INVARIANTS
    AuditTypeOK
    OneRowPerSession
    AnsweredIsDone
PROPERTIES
    NoLaunchIsWasted
    ClosedIsFinal
\* clients stop posting
CHECK_DEADLOCK FALSE
