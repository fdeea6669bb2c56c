SPECIFICATION HSpec
CONSTANTS
    Clusters <- MCClusters
    Requests <- MCRequests
    Pods <- MCPods
    HashLike <- MCHashLike
    Containers <- MCContainers
    Series <- MCSeries
    MaxEvents = 1
    MaxRuns = 2
INVARIANTS
    PodsPartitioned
    NetNeverOverstated
    ReportCoherent
PROPERTIES
    NoFlapping
CHECK_DEADLOCK FALSE
