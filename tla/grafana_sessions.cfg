SPECIFICATION FairSpec
CONSTANTS
    Cells <- MCCells
    Servers = {s1, s2}
    MaxSessions = 2
    MaxCalls = 2
INVARIANTS
    GTypeOK
    DamageExplained
    LoginOkTrue
    FewBrowsers
PROPERTIES
    SavesKeepOthers
    CallsEnd
CHECK_DEADLOCK FALSE
