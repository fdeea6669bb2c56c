SPECIFICATION MCSpec
CONSTANTS
    Groups = {g1, g2}
    Default = g2
    BackendIds = {1, 2}
    Evals = {e1}
    Wants <- AnyWants
    Strategies = {"round_robin", "least_load"}
    Loads = {0}
    DbMayFail = TRUE
    MaxChanges = 2
    NoGroup = NoGroup
INVARIANTS
    TypeOK
PROPERTIES
    AnswerWasServing
    NoNeedlessFallback
    DefaultCatchesAll
    EmptyOnlyForSeveral
