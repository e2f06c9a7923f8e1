SPECIFICATION FairSpec
CONSTANTS
    Blank = Blank
    Spaces = Spaces
    Acme = Acme
    Untidy = Untidy
    Beta = Beta
    Form = {Blank, Spaces, Acme, Untidy, Beta}
    Filled = {Spaces, Acme, Untidy, Beta}
    Named = {Acme, Untidy, Beta}
    Stored <- MCStored
    Icon = {Logo, Seal}
    None = None
    MaxEdits = 2
    MaxClicks = 2
    MaxEvents = 1
    MaxLoads = 1
INVARIANTS TypingIsKept
PROPERTIES SavedIsStored OneBuildAtATime PageSettles
CHECK_DEADLOCK FALSE
