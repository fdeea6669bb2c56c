SPECIFICATION FairSpec
CONSTANTS
    BackendIds = {b1}
    Operators = {op}
    Procs = {op, b1}
    Loads = {0, 1, 2}
    Thresholds = {0, 1}
    Referenced = {}
    NoRow = NoRow
    DbMayFail = FALSE
    OperatorRequests <- MCOperatorRequests
    MaxCalls = 1
    Workloads <- MCWorkloads
    ClusterStates <- AllStates
PROPERTIES
    QuietCycleSettles
    DownIsNoticed
    UpIsNoticed
