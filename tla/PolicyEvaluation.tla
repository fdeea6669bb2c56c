--------------------------- MODULE PolicyEvaluation ---------------------------
(***************************************************************************)
(* PolicyApi.EvaluateGroupsForClient: which groups a client's query may go *)
(* to. The enabled policies of each rule type are read by a SELECT of its  *)
(* own, while operators create, change and delete policies (Others).       *)
(***************************************************************************)
EXTENDS PolicySets

CONSTANTS
    Policies,       \* policy ids
    Values,         \* rule values
    StoredTypes,    \* the rule types rows have (the column's ENUM)
    Requests,       \* what clients present: a value for each rule type
    Evals,          \* evaluation slots
    DbMayFail,      \* whether a SELECT may fail
    MaxChanges,     \* bound: changes of the policies by others
    NoPolicy        \* "no such row"

(* The rule types in the order EvaluateGroupsForClient looks them up.      *)
RuleTypes == <<"listening_port", "header_host", "header_client_tags",
               "header_connection_properties">>
Dimensions == {"listening_port", "header_host", "header_client_tags",
               "header_connection_properties"}

Row == [isEnabled : BOOLEAN, ruleType : StoredTypes, ruleValue : Values,
        groupId : Groups]

ASSUME PolicyAssumption ==
    /\ Requests \subseteq [Dimensions -> Values]
    /\ DbMayFail \in BOOLEAN /\ MaxChanges \in Nat
    /\ NoPolicy \notin Row

VARIABLES
    policy,     \* policy[p]: its row, or NoPolicy
    eval,       \* eval[e]: the evaluation in slot e, with its locals
    changes     \* how many changes others have made

vars == <<policy, eval, changes>>

(* `sets` has the map of each rule type read so far; `groups` is the       *)
(* answer.                                                                 *)
Eval == [request : Requests, phase : {"read", "done"}, sets : Seq(GroupSet),
         reply : {"none", "ok", "error"}, groups : SUBSET Groups]

TypeOK ==
    /\ policy \in [Policies -> Row \cup {NoPolicy}]
    /\ eval \in [Evals -> Eval]
    /\ \A e \in Evals : Len(eval[e].sets) < Len(RuleTypes)
    /\ changes \in 0..MaxChanges

(* The groups of the enabled policies for a rule, nil if there is none.    *)
Matching(type, value) ==
    LET rows == {policy[p] : p \in Policies} \ {NoPolicy}
        gids == {r.groupId : r \in {r \in rows :
                    r.isEnabled /\ r.ruleType = type /\ r.ruleValue = value}}
    IN  IF gids = {} THEN Nil ELSE gids

Slot(request, phase, sets, reply, groups) ==
    [request |-> request, phase |-> phase, sets |-> sets, reply |-> reply,
     groups |-> groups]

Init ==
    /\ policy \in [Policies -> Row \cup {NoPolicy}]
    /\ \E r \in Requests :
         eval = [e \in Evals |-> Slot(r, "done", <<>>, "none", {})]
    /\ changes = 0

-----------------------------------------------------------------------------
Receive(e, r) ==
    /\ eval[e].phase = "done"
    /\ eval' = [eval EXCEPT ![e] = Slot(r, "read", <<>>, "none", {})]
    /\ UNCHANGED <<policy, changes>>

(* Mutant of Read: the maps are still there for the next request.          *)
ReadKeeps(e) ==
    LET q == eval[e].request
        type == RuleTypes[Len(eval[e].sets) + 1]
        sets == Append(eval[e].sets, Matching(type, q[type]))
    IN
    /\ eval[e].phase = "read"
    /\ eval' = [eval EXCEPT ![e] =
                  IF Len(sets) < Len(RuleTypes)
                  THEN Slot(q, "read", sets, "none", {})
                  ELSE Slot(q, "done", sets, "ok", Elements(IntersectAll(sets)))]
    /\ UNCHANGED <<policy, changes>>

(* One SELECT; the last one is followed by the intersection, where nil and *)
(* empty both become an empty list.                                        *)
Read(e) ==
    LET q == eval[e].request
        type == RuleTypes[Len(eval[e].sets) + 1]
        sets == Append(eval[e].sets, Matching(type, q[type]))
    IN
    /\ eval[e].phase = "read"
    /\ eval' = [eval EXCEPT ![e] =
                  IF Len(sets) < Len(RuleTypes)
                  THEN Slot(q, "read", sets, "none", {})
                  ELSE Slot(q, "done", <<>>, "ok", Elements(IntersectAll(sets)))]
    /\ UNCHANGED <<policy, changes>>

ReadFails(e) ==
    /\ DbMayFail
    /\ eval[e].phase = "read"
    /\ eval' = [eval EXCEPT ![e] =
                  Slot(eval[e].request, "done", <<>>, "error", {})]
    /\ UNCHANGED <<policy, changes>>

(* Another handler of the PolicyApi writes or deletes a row.               *)
Others ==
    /\ changes < MaxChanges /\ changes' = changes + 1
    /\ \E p \in Policies, r \in Row \cup {NoPolicy} :
          policy[p] # r /\ policy' = [policy EXCEPT ![p] = r]
    /\ UNCHANGED eval

Next ==
    \/ \E e \in Evals : (\E r \in Requests : Receive(e, r)) \/ Read(e) \/ ReadFails(e)
    \/ Others

Spec == Init /\ [][Next]_vars
=============================================================================
