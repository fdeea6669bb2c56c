--------------------------- MODULE MCGroupRouting ---------------------------
(* Two groups, one of them the default, over two backends, and every set of *)
(* groups a policy may yield. One evaluation at a time: the changes others  *)
(* make stand for the writes of concurrent evaluations too. A behaviour     *)
(* starts from any tables whose groups have routed nothing and have one     *)
(* strategy each, so the changes others make are spent on the time an       *)
(* evaluation is running, and on the columns that decide who may serve.     *)
EXTENDS RoutingWindows

AnyWants == SUBSET Groups

StrategiesAreSet ==
    \A g \in Groups : group[g] # NoGroup =>
        group[g].strategy = IF g = Default THEN "least_load" ELSE "round_robin"

MCInit ==
    /\ WInit
    /\ \A g \in Groups : group[g] # NoGroup => group[g].last = NoBackend
    /\ StrategiesAreSet
    /\ \A b \in BackendIds : Loads = {0} => backend[b].isFresh

LastOf(g) == IF group[g] = NoGroup THEN NoBackend ELSE group[g].last
IsFresh(b) == backend[b].isFresh

MCNext ==
    /\ WNext
    /\ changes' > changes =>
         /\ StrategiesAreSet'
         /\ \E e \in Evals : eval[e].phase # "done"
         /\ \A g \in Groups : group'[g] # NoGroup => LastOf(g)' = LastOf(g)
         /\ \A b \in BackendIds : IsFresh(b)' = IsFresh(b)

MCSpec == MCInit /\ [][MCNext]_wvars
=============================================================================
