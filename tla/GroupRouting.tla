---------------------------- MODULE GroupRouting ----------------------------
(***************************************************************************)
(* GroupApi.EvaluateBackendForGroups: which backend a new query goes to.   *)
(*                                                                         *)
(* An evaluation is a sequence of SQL statements over three tables, with   *)
(* no transaction around them: while it runs, other evaluations, the       *)
(* monitor and the operators (Others) change the rows it has read.         *)
(***************************************************************************)
EXTENDS RoutingStrategy

CONSTANTS
    Groups,         \* group ids
    BackendIds,     \* backend ids, as naturals above 0 in string order
    Evals,          \* evaluation slots: one request each at a time
    Wants,          \* the sets of groups a caller may ask for
    Default,        \* Gateway.DefaultRoutingGroup
    Strategies,     \* the strategies groups may have
    Loads,          \* cluster loads the monitor may report
    DbMayFail,      \* whether a statement may fail
    MaxChanges,     \* bound: changes of the tables by others
    NoGroup         \* "no such row"

GroupRow == [isEnabled : BOOLEAN, strategy : Strategies,
             last : BackendIds \cup {NoBackend}]
BackendRow == [isActive : BOOLEAN, clusterLoad : Loads, isFresh : BOOLEAN]

ASSUME RoutingAssumption ==
    /\ BackendIds \subseteq Nat \ {NoBackend}
    /\ IsFiniteSet(BackendIds) /\ IsFiniteSet(Groups)
    /\ Default \in Groups
    /\ Wants \subseteq SUBSET Groups
    /\ Loads \subseteq Nat
    /\ DbMayFail \in BOOLEAN /\ MaxChanges \in Nat
    /\ NoGroup \notin GroupRow

VARIABLES
    group,      \* group[g]: its row in groups_, or NoGroup
    members,    \* members[g]: the backends mapped to g
    backend,    \* backend[b]: its row; active = is_enabled and is_healthy
    eval,       \* eval[e]: the evaluation in slot e, with its locals
    changes     \* how many changes others have made

tables == <<group, members, backend>>
vars == <<group, members, backend, eval, changes>>

Phases == {"groups", "members", "find", "save", "default", "done"}

(* A group as an evaluation holds it: its row, and then its members.       *)
Copy == [id : Groups, strategy : Strategies, last : BackendIds \cup {NoBackend},
         members : SUBSET BackendIds]

(* `eligible` lists the requested enabled groups, or just the default one  *)
(* when the evaluation is falling back; `at` is the one at hand; picked[g] *)
(* is what findBackend returned for g, NoBackend standing for nil.         *)
Eval == [want : Wants, phase : Phases, fallback : BOOLEAN,
         eligible : Seq(Copy), at : Nat \ {0},
         picked : [Groups -> BackendIds \cup {NoBackend}],
         reply : {"none", "ok", "error", "failed"}, group : Groups \cup {NoGroup},
         backend : BackendIds \cup {NoBackend}]

TypeOK ==
    /\ group \in [Groups -> GroupRow \cup {NoGroup}]
    /\ members \in [Groups -> SUBSET BackendIds]
    /\ backend \in [BackendIds -> BackendRow]
    /\ eval \in [Evals -> Eval]
    /\ changes \in 0..MaxChanges

Active(ids) == {b \in ids : backend[b].isActive}
Load == [b \in BackendIds |-> EffectiveLoad(backend[b])]
Enabled(g) == group[g] # NoGroup /\ group[g].isEnabled

CopyOf(g) == [id |-> g, strategy |-> group[g].strategy,
              last |-> group[g].last, members |-> {}]

NothingPicked == [g \in Groups |-> NoBackend]

(* A slot that starts on, or has answered, the request for `want`.         *)
Fresh(want, phase, reply, g, b) ==
    [want |-> want, phase |-> phase, fallback |-> FALSE,
     eligible |-> <<>>, at |-> 1, picked |-> NothingPicked,
     reply |-> reply, group |-> g, backend |-> b]

(* Foreign keys: only an existing group has mappings.                      *)
Init ==
    /\ group \in [Groups -> GroupRow \cup {NoGroup}]
    /\ members \in [Groups -> SUBSET BackendIds]
    /\ \A g \in Groups : group[g] = NoGroup => members[g] = {}
    /\ backend \in [BackendIds -> BackendRow]
    /\ \E w \in Wants :
         eval = [e \in Evals |-> Fresh(w, "done", "none", NoGroup, NoBackend)]
    /\ changes = 0

-----------------------------------------------------------------------------
Become(e, r) == eval' = [eval EXCEPT ![e] = r]

Answer(e, reply, g, b) ==
    Become(e, Fresh(eval[e].want, "done", reply, g, b))

Fail(e) == Answer(e, "error", NoGroup, NoBackend)

Receive(e, want) ==
    /\ eval[e].phase = "done"
    /\ Become(e, Fresh(want, "groups", "none", NoGroup, NoBackend))
    /\ UNCHANGED <<tables, changes>>

(* SELECT ... WHERE is_enabled, kept when the caller asked for the group.  *)
ReadGroups(e) ==
    /\ eval[e].phase = "groups"
    /\ \E s \in Listings({g \in eval[e].want : Enabled(g)}) :
         Become(e, [eval[e] EXCEPT !.phase = "members",
                       !.eligible = [i \in DOMAIN s |-> CopyOf(s[i])]])
    /\ UNCHANGED <<tables, changes>>

(* The second SELECT of the preload, over the mappings of those groups.    *)
ReadMembers(e) ==
    LET list == eval[e].eligible IN
    /\ eval[e].phase = "members"
    /\ Become(e, [eval[e] EXCEPT !.phase = "find",
                     !.eligible = [i \in DOMAIN list |->
                        [list[i] EXCEPT !.members = members[list[i].id]]]])
    /\ UNCHANGED <<tables, changes>>

(* Mutant of FindBackend: backends that may not serve are not left out.    *)
FindAnyBackend(e) ==
    LET g == eval[e].eligible[eval[e].at] IN
    /\ eval[e].phase = "find" /\ eval[e].at <= Len(eval[e].eligible)
    /\ \/ g.members = {} /\ Become(e, [eval[e] EXCEPT !.at = @ + 1])
       \/ /\ g.members # {}
          /\ \E b \in Picks(g.strategy, g.members, g.last, Load) :
               Become(e, [eval[e] EXCEPT !.phase = "save",
                                         !.picked[g.id] = b])
    /\ UNCHANGED <<tables, changes>>

(* findBackend for the group at hand: its active backends in one SELECT.   *)
FindBackend(e) ==
    LET g == eval[e].eligible[eval[e].at]
        active == Active(g.members)
    IN
    /\ eval[e].phase = "find" /\ eval[e].at <= Len(eval[e].eligible)
    /\ \/ active = {} /\ Become(e, [eval[e] EXCEPT !.at = @ + 1])
       \/ /\ active # {}
          /\ \E b \in Picks(g.strategy, active, g.last, Load) :
               Become(e, [eval[e] EXCEPT !.phase = "save",
                                         !.picked[g.id] = b])
    /\ UNCHANGED <<tables, changes>>

(* Mutant of SaveLast: the column is written without the backend.          *)
SaveNone(e) ==
    LET g == eval[e].eligible[eval[e].at].id IN
    /\ eval[e].phase = "save"
    /\ \/ group[g] # NoGroup /\ group' = [group EXCEPT ![g].last = NoBackend]
       \/ (group[g] = NoGroup \/ DbMayFail) /\ UNCHANGED group
    /\ Become(e, [eval[e] EXCEPT !.phase = "find", !.at = @ + 1])
    /\ UNCHANGED <<members, backend, changes>>

(* ... which ends by updating last_routed_backend, whatever comes of it.   *)
SaveLast(e) ==
    LET g == eval[e].eligible[eval[e].at].id IN
    /\ eval[e].phase = "save"
    /\ \/ /\ group[g] # NoGroup
          /\ group' = [group EXCEPT ![g].last = eval[e].picked[g]]
       \/ (group[g] = NoGroup \/ DbMayFail) /\ UNCHANGED group
    /\ Become(e, [eval[e] EXCEPT !.phase = "find", !.at = @ + 1])
    /\ UNCHANGED <<members, backend, changes>>

(* Mutant of Choose: the first eligible group is answered regardless.      *)
ChooseFirst(e) ==
    /\ eval[e].phase = "find" /\ eval[e].at > Len(eval[e].eligible)
    /\ eval[e].eligible # <<>>
    /\ Answer(e, "ok", eval[e].eligible[1].id,
              eval[e].picked[eval[e].eligible[1].id])
    /\ UNCHANGED <<tables, changes>>

(* With a backend evaluated for some group, the first eligible group is    *)
(* answered, with what was evaluated for it.                               *)
Choose(e) ==
    LET g == eval[e].eligible[1].id IN
    /\ eval[e].phase = "find" /\ eval[e].at > Len(eval[e].eligible)
    /\ eval[e].picked # NothingPicked
    /\ Answer(e, "ok", g, eval[e].picked[g])
    /\ UNCHANGED <<tables, changes>>

(* Otherwise the default group is tried, and nothing after it.             *)
FallBack(e) ==
    /\ eval[e].phase = "find" /\ eval[e].at > Len(eval[e].eligible)
    /\ eval[e].picked = NothingPicked
    /\ \/ eval[e].fallback /\ Fail(e)
       \/ ~eval[e].fallback /\ Become(e, [eval[e] EXCEPT !.phase = "default"])
    /\ UNCHANGED <<tables, changes>>

(* Mutants of ReadDefault: the index of the list is reset to 0; a disabled *)
(* default group is not used.                                              *)
ReadDefaultAtZero(e) ==
    /\ eval[e].phase = "default"
    /\ \/ group[Default] = NoGroup /\ Fail(e)
       \/ /\ group[Default] # NoGroup
          /\ Become(e, [eval[e] EXCEPT !.phase = "members", !.fallback = TRUE,
                           !.eligible = <<CopyOf(Default)>>, !.at = 0])
    /\ UNCHANGED <<tables, changes>>

ReadEnabledDefault(e) ==
    /\ eval[e].phase = "default"
    /\ \/ ~Enabled(Default) /\ Fail(e)
       \/ /\ Enabled(Default)
          /\ Become(e, [eval[e] EXCEPT !.phase = "members", !.fallback = TRUE,
                           !.eligible = <<CopyOf(Default)>>, !.at = 1])
    /\ UNCHANGED <<tables, changes>>

(* The default group is looked up by id, enabled or not.                   *)
ReadDefault(e) ==
    /\ eval[e].phase = "default"
    /\ \/ group[Default] = NoGroup /\ Fail(e)
       \/ /\ group[Default] # NoGroup
          /\ Become(e, [eval[e] EXCEPT !.phase = "members", !.fallback = TRUE,
                           !.eligible = <<CopyOf(Default)>>, !.at = 1])
    /\ UNCHANGED <<tables, changes>>

(* Mutant of ReadFails: a group whose backends cannot be read is skipped.  *)
ReadFailsSkips(e) ==
    /\ DbMayFail
    /\ eval[e].phase = "find" /\ eval[e].at <= Len(eval[e].eligible)
    /\ Become(e, [eval[e] EXCEPT !.at = @ + 1])
    /\ UNCHANGED <<tables, changes>>

(* Any of the SELECTs may fail, and the evaluation with it ("failed": the  *)
(* error returned is the database's).                                      *)
ReadFails(e) ==
    /\ DbMayFail
    /\ \/ eval[e].phase \in {"groups", "members", "default"}
       \/ eval[e].phase = "find" /\ eval[e].at <= Len(eval[e].eligible)
    /\ Answer(e, "failed", NoGroup, NoBackend)
    /\ UNCHANGED <<tables, changes>>

Step(e) ==
    \/ ReadGroups(e) \/ ReadMembers(e) \/ FindBackend(e) \/ SaveLast(e)
    \/ Choose(e) \/ FallBack(e) \/ ReadDefault(e) \/ ReadFails(e)

-----------------------------------------------------------------------------
(* What the BackendApi, the monitor and the other handlers of the GroupApi *)
(* may do meanwhile to the rows: one statement each.                       *)
Change ==
    /\ changes < MaxChanges /\ changes' = changes + 1
    /\ tables' # tables
    /\ UNCHANGED eval

ChangeBackend(b) ==
    /\ \E r \in BackendRow : backend' = [backend EXCEPT ![b] = r]
    /\ UNCHANGED <<group, members>>
    /\ Change

ChangeGroup(g) ==
    /\ \/ \E r \in GroupRow : group' = [group EXCEPT ![g] = r]
       \/ members[g] = {} /\ group' = [group EXCEPT ![g] = NoGroup]
    /\ UNCHANGED <<members, backend>>
    /\ Change

ChangeMembers(g) ==
    /\ group[g] # NoGroup
    /\ \E m \in SUBSET BackendIds : members' = [members EXCEPT ![g] = m]
    /\ UNCHANGED <<group, backend>>
    /\ Change

(* The mappings of a deleted backend go with it (ON DELETE CASCADE); a row *)
(* that is not there is one that is not active.                            *)
RemoveBackend(b) ==
    /\ backend' = [backend EXCEPT ![b].isActive = FALSE]
    /\ members' = [g \in Groups |-> members[g] \ {b}]
    /\ UNCHANGED group
    /\ Change

Others ==
    \/ \E b \in BackendIds : ChangeBackend(b) \/ RemoveBackend(b)
    \/ \E g \in Groups : ChangeGroup(g) \/ ChangeMembers(g)

Next ==
    \/ \E e \in Evals : (\E w \in Wants : Receive(e, w)) \/ Step(e)
    \/ Others

Spec == Init /\ [][Next]_vars
=============================================================================
