SPECIFICATION WSpec
CONSTANTS
    Groups = {g1, g2}
    Nil = Nil
    Policies = {q1, q2, q3}
    Values <- PolicyValues
    StoredTypes <- MCTypes
    Requests <- OneClient
    Evals = {e1}
    DbMayFail = TRUE
    MaxChanges = 1
    NoPolicy = NoPolicy
SYMMETRY Symmetry
INVARIANTS
    TypeOK
PROPERTIES
    OnlyAllowed
    AllowedAnswered
    QuietIsExact
