SPECIFICATION FairSpec
CONSTANTS
    Setup = Setup
    Imported = Imported
    Start = Start
    Install = Install
    Script = {Setup, Imported}
    Node = {Start, Install, Reboot}
    None = None
    FirstGraphs <- MCFirstGraphs
    File <- MCFile
    Links <- MCLinks
    MaxEdits = 2
    MaxEvents = 1
    MaxSaves = 2
INVARIANTS NodesStayHome CanvasIsStored
PROPERTIES DrawingLands
CHECK_DEADLOCK FALSE
