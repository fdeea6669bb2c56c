SPECIFICATION MCSpec
CONSTANTS
    Groups = {g1, g2}
    Default = g2
    BackendIds = {1, 2, 3}
    Evals = {e1}
    Wants <- Singletons
    Strategies = {"round_robin"}
    Loads = {0, 1}
    DbMayFail = FALSE
    MaxChanges = 0
    NoGroup = NoGroup
INVARIANTS
    RoundRobinFollows
    ScanFindsLeast
PROPERTIES
    EvenRounds
