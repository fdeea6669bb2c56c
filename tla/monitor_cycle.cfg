SPECIFICATION HSpec
CONSTANTS
    BackendIds = {b1, b2}
    Operators = {op}
    Procs = {op, b1, b2}
    Loads = {0, 1, 2}
    Thresholds = {0}
    Referenced = {}
    NoRow = NoRow
    DbMayFail = TRUE
    OperatorRequests <- MCOperatorRequests
    MaxCalls = 0
    Workloads <- MCWorkloads
    ClusterStates <- FewStates
INVARIANTS
    CallsAreFounded
