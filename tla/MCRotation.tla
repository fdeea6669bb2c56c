----------------------------- MODULE MCRotation -----------------------------
(* Two round-robin groups over three backends that nobody changes: one with *)
(* any members, one with all of them, each having routed to any backend or  *)
(* to none before.                                                          *)
EXTENDS RoutingRotation

Singletons == {{g} : g \in Groups}

MCInit ==
    /\ RInit
    /\ \A g \in Groups : group[g] # NoGroup /\ group[g].isEnabled
    /\ members[Default] = BackendIds
    /\ \A b \in BackendIds : backend[b].isFresh \/ b = 1

MCSpec == MCInit /\ [][RNext]_rvars
=============================================================================
