--------------------------- MODULE RoutingRotation ---------------------------
(***************************************************************************)
(* GroupRouting with a history of each group's current round: the backends *)
(* that have served it since all its active members had served once.       *)
(***************************************************************************)
EXTENDS GroupRouting

VARIABLE round      \* round[g]: who has served in g's current round

rvars == <<group, members, backend, eval, changes, round>>

RInit == Init /\ round = [g \in Groups |-> {}]

(* e's step answers its request with backend b for group g.                *)
Serves(e, g, b) ==
    /\ eval[e].phase # "done" /\ eval'[e].phase = "done"
    /\ eval'[e].reply = "ok" /\ eval'[e].group = g /\ eval'[e].backend = b

Served(g) == {b \in BackendIds : \E e \in Evals : Serves(e, g, b)}

RNext ==
    /\ Next
    /\ round' = [g \in Groups |->
                   LET now == round[g] \cup Served(g)
                   IN  IF Active(members[g]) \subseteq now THEN {} ELSE now]

RSpec == RInit /\ [][RNext]_rvars

-----------------------------------------------------------------------------
(* What .agents/skills/repo-skill/modules/domain/backend.md:165 says of    *)
(* round robin: "deterministic ordering ensures even distribution without  *)
(* shared state beyond LastRoutedBackend". While the tables are left alone *)
(* and evaluations follow one another, none of which asks for more than    *)
(* one group or meets a failing statement, no backend serves a round-robin *)
(* group twice before each of its active members has served it once. With  *)
(* several groups it is false: those not chosen advance too (core.go:286). *)
EvenRounds ==
    [][\A e \in Evals, g \in Groups, b \in BackendIds :
          Serves(e, g, b) /\ group[g].strategy = "round_robin" =>
            b \notin round[g]]_rvars

(* Of a group's active backends, round_robin goes to the next one in       *)
(* cyclic order and to no other, also when the last routed one has left    *)
(* the group, or there is none yet (core.go:227-246: append, sort, last    *)
(* match, next, wrap).                                                     *)
RoundRobinFollows ==
    \A g \in Groups :
       LET active == Active(members[g])
       IN  active # {} =>
              Picks("round_robin", active, group[g].last, Load)
                 = {b \in active : IsSuccessor(b, active, group[g].last)}

(* The scan of least_load ends at a backend no other active one undercuts, *)
(* at the first listed of them: a busier cluster with old stats included   *)
(* (core.go:248-275).                                                      *)
ScanFindsLeast ==
    \A g \in Groups :
       LET active == Active(members[g])
       IN  active # {} =>
              /\ {LeastLoaded(s, Load) : s \in Listings(active)}
                    = Picks("least_load", active, group[g].last, Load)
              /\ \A s \in Listings(active) : \A i \in DOMAIN s :
                    Load[s[i]] = Load[LeastLoaded(s, Load)] =>
                       \E j \in 1..i : s[j] = LeastLoaded(s, Load)
=============================================================================
