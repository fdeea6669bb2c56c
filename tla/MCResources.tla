----------------------------- MODULE MCResources -----------------------------
(* A deployment in both clusters and one in the second. Usage is steady   *)
(* or bursty (the 95th percentile lies on the burst).                      *)
EXTENDS ResourceChecks

MCClusters == <<"green", "white">>
MCRequests == {[clusters |-> <<>>, hours |-> 48],
               [clusters |-> <<"white", "white">>, hours |-> 24],
               [clusters |-> <<"green">>, hours |-> 0]}
MCPods == {[cluster |-> "green", name |-> <<"api", "0">>],
           [cluster |-> "white", name |-> <<"api", "x7f9q">>],
           [cluster |-> "white", name |-> <<"mozart", "cronjob", "abc123">>]}
MCHashLike(part) == part \in {"0", "x7f9q"}

Quantity(n, unit) == [n |-> n, unit |-> unit]
Container(cpu, cpu_limit, mem, mem_limit) ==
    [cpu |-> [request |-> cpu, limit |-> cpu_limit],
     memory |-> [request |-> mem, limit |-> mem_limit]]
MCContainers ==
    {Container(Quantity(100, "m"), Quantity(4, "core"),
               NoQuantity, NoQuantity),
     Container(Quantity(1, "core"), Quantity(2, "core"),
               Quantity(256, "Mi"), Quantity(512, "Mi")),
     Container(NoQuantity, NoQuantity, NoQuantity, Quantity(1, "unread"))}

Steady(v) == {[value |-> v, samples |-> 20]}
MCSeries == {Steady(4000),
             {[value |-> 300, samples |-> 18], [value |-> 9000, samples |-> 2]}}
=============================================================================
