---------------------------- MODULE RoutingProofs ----------------------------
(***************************************************************************)
(* Proofs about EvaluateBackendForGroups for any groups, backends, number  *)
(* of evaluations and changes: type correctness, and the four properties   *)
(* of RoutingWindows the code keeps. They rest on WindowInv, which relates *)
(* what an evaluation holds to what was so since its request. First, that  *)
(* whichever sorted list round_robin builds, the entry it takes is the     *)
(* cyclic successor of the last routed backend among the active ones. The  *)
(* last part is about RoutingRotation: both strategies with a state answer *)
(* what they should whatever order the rows come in, and round_robin goes  *)
(* round evenly.                                                           *)
(***************************************************************************)
EXTENDS RoutingWindows, RoutingRotation, FiniteSetTheorems, WellFoundedInduction,
        TLAPS

(* Every active id is in the list, and so is the last routed one.          *)
LEMMA AllListed ==
    ASSUME NEW active, NEW last, NEW s \in SortedWithLast(active, last)
    PROVE  \A x \in active \cup {last} : \E i \in DOMAIN s : s[i] = x
<1> SUFFICES ASSUME NEW x \in active \cup {last}, ~ \E i \in DOMAIN s : s[i] = x
             PROVE  FALSE
    OBVIOUS
<1>1. Occurrences(s, x) \in {1, 2}
    BY DEF SortedWithLast
<1>2. {i \in DOMAIN s : s[i] = x} = {}
    OBVIOUS
<1> QED  BY <1>1, <1>2, FS_EmptySet DEF Occurrences

(* The list ends where the last index says: it holds `last` once or twice, *)
(* so the later of its places is the last one.                             *)
LEMMA LastIndexIsLast ==
    ASSUME NEW active, IsFiniteSet(active), NEW last,
           NEW s \in SortedWithLast(active, last)
    PROVE  LET i == LastIndex(s, last) IN
           /\ i \in DOMAIN s /\ s[i] = last
           /\ \A j \in DOMAIN s : s[j] = last => j <= i
<1> DEFINE at == {i \in DOMAIN s : s[i] = last}
           n == Cardinality(active) + 1
<1>1. n \in Nat /\ DOMAIN s = 1..n
    BY FS_CardinalityType DEF SortedWithLast
<1>2. IsFiniteSet(at)
  <2>1. IsFiniteSet(1..n)
      BY <1>1, FS_Interval
  <2>2. at \in SUBSET (1..n)
      BY <1>1
  <2> QED  BY <2>1, <2>2, FS_Subset
<1>3. Cardinality(at) \in {1, 2}
    BY DEF SortedWithLast, Occurrences
<1>4. PICK i \in at : TRUE
    BY <1>3, FS_EmptySet
<1>5. \E k \in at : \A j \in at : j <= k
  <2>1. CASE \A j \in at : j <= i
      BY <1>4, <2>1
  <2>2. CASE \E j \in at : ~(j <= i)
    <3>1. PICK j \in at : ~(j <= i)
        BY <2>2
    <3>2. i \in Int /\ j \in Int /\ i < j
        BY <1>1, <1>4, <3>1
    <3>3. Cardinality({i, j}) = 2 /\ IsFiniteSet({i, j})
      <4>1. IsFiniteSet({i}) /\ Cardinality({i}) = 1
          BY FS_Singleton
      <4>2. {i, j} = {i} \cup {j} /\ j \notin {i}
          BY <3>2
      <4>3. /\ IsFiniteSet({i} \cup {j})
            /\ Cardinality({i} \cup {j}) = Cardinality({i}) + 1
          BY <4>1, <4>2, FS_AddElement
      <4> QED  BY <4>1, <4>2, <4>3
    <3>4. {i, j} \in SUBSET at
        BY <1>4
    <3>5. Cardinality({i, j}) <= Cardinality(at)
        BY <1>2, <3>4, FS_Subset
    <3>6. at = {i, j}
        BY <1>2, <1>3, <3>3, <3>4, <3>5, FS_Subset
    <3> QED  BY <3>1, <3>2, <3>6
  <2> QED  BY <2>1, <2>2
<1>6. \E k \in DOMAIN s : s[k] = last /\ \A j \in DOMAIN s : s[j] = last => j <= k
    BY <1>5
<1> QED  BY <1>6 DEF LastIndex

(* round_robin (core.go:227-246) picks the cyclic successor: the next      *)
(* active id in string order, the first of all after the greatest, and the *)
(* same answer when the last routed backend is no longer active.           *)
THEOREM RoundRobinIsSuccessor ==
    ASSUME NEW active, IsFiniteSet(active), active \subseteq Nat, active # {},
           NEW last \in Nat, NEW s \in SortedWithLast(active, last)
    PROVE  IsSuccessor(After(s, last), active, last)
<1> DEFINE n == Cardinality(active) + 1
           i == LastIndex(s, last)
           pick == After(s, last)
<1>1. /\ n \in Nat /\ n >= 1
      /\ s \in [1..n -> active \cup {last}] /\ Len(s) = n /\ DOMAIN s = 1..n
    BY FS_CardinalityType DEF SortedWithLast
<1>2. /\ i \in 1..n /\ s[i] = last
      /\ \A j \in 1..n : s[j] = last => j <= i
    BY <1>1, LastIndexIsLast
<1>3. \A j, k \in 1..n : j < k => s[j] <= s[k]
    BY <1>1 DEF SortedWithLast, IsSorted
<1>4. \A x \in active : \E j \in 1..n : s[j] = x
    BY <1>1, AllListed
<1>5. \A j \in 1..n : s[j] \in Nat
    BY <1>1
<1> HIDE DEF i, n
<1>6. CASE i + 1 <= n
  <2>1. i + 1 \in 1..n /\ pick = s[i + 1]
      BY <1>1, <1>2, <1>6 DEF After, i
  <2>2. pick # last /\ pick \in active
      BY <1>1, <1>2, <2>1
  <2>3. pick > last
      BY <1>2, <1>3, <1>5, <2>1, <2>2
  <2>4. ASSUME NEW b \in active  PROVE  b <= last \/ pick <= b
    <3>1. PICK j \in 1..n : s[j] = b
        BY <1>4
    <3>2. j < i \/ j = i \/ j = i + 1 \/ j > i + 1
        BY <1>2
    <3> QED  BY <1>2, <1>3, <1>5, <2>1, <3>1, <3>2
  <2> QED  BY <2>2, <2>3, <2>4 DEF IsSuccessor
<1>7. CASE ~(i + 1 <= n)
  <2>1. i = n /\ 1 \in 1..n /\ pick = s[1]
      BY <1>1, <1>2, <1>7 DEF After, i
  <2>2. ASSUME NEW b \in active  PROVE  b <= last /\ pick <= b
    <3>1. PICK j \in 1..n : s[j] = b
        BY <1>4
    <3>2. j = n \/ j < n
        BY <1>1
    <3>3. 1 = j \/ 1 < j
        BY <1>1
    <3>4. b <= last
        BY <1>2, <1>3, <1>5, <2>1, <3>1, <3>2
    <3>5. pick <= b
        BY <1>3, <1>5, <2>1, <3>1, <3>3
    <3> QED  BY <3>4, <3>5
  <2>3. pick \in active
    <3>1. CASE pick \in active
        BY <3>1
    <3>2. CASE pick = last
      <4>1. PICK b \in active : TRUE
          OBVIOUS
      <4>2. b = last
          BY <2>2, <3>2
      <4> QED  BY <3>2, <4>1, <4>2
    <3> QED  BY <1>1, <2>1, <3>1, <3>2
  <2> QED  BY <2>2, <2>3 DEF IsSuccessor
<1> QED  BY <1>6, <1>7

-----------------------------------------------------------------------------
(* Whatever the strategy, findBackend picks an active backend: for round   *)
(* robin because the cyclic successor is one.                              *)
LEMMA PicksAreActive ==
    ASSUME NEW strategy, NEW active \in SUBSET BackendIds, active # {},
           NEW last \in BackendIds \cup {NoBackend}, NEW load,
           NEW b \in Picks(strategy, active, last, load)
    PROVE  b \in active
<1>1. CASE strategy = "round_robin"
  <2>1. PICK s \in SortedWithLast(active, last) : b = After(s, last)
      BY <1>1 DEF Picks
  <2>2. IsFiniteSet(active)
      BY RoutingAssumption, FS_Subset
  <2>3. active \subseteq Nat /\ last \in Nat
      BY RoutingAssumption DEF NoBackend
  <2>4. IsSuccessor(After(s, last), active, last)
      BY <2>2, <2>3, RoundRobinIsSuccessor
  <2> QED  BY <2>1, <2>4 DEF IsSuccessor
<1>2. CASE strategy = "least_load"
    BY <1>2 DEF Picks
<1>3. CASE strategy \notin {"round_robin", "least_load"}
    BY <1>3 DEF Picks
<1> QED  BY <1>1, <1>2, <1>3

(* The listings of a set of groups are sequences over it that miss none.   *)
LEMMA ListingsOfGroups ==
    ASSUME NEW S \in SUBSET Groups, NEW s \in Listings(S)
    PROVE  /\ Cardinality(S) \in Nat
           /\ s \in [1..Cardinality(S) -> S] /\ DOMAIN s = 1..Cardinality(S)
           /\ \A g \in S : \E i \in DOMAIN s : s[i] = g
<1>1. IsFiniteSet(S)
    BY RoutingAssumption, FS_Subset
<1> QED  BY <1>1, FS_CardinalityType DEF Listings

-----------------------------------------------------------------------------
(* What typing needs besides types: an evaluation that has picked, or is   *)
(* about to save, has a group it does so for.                              *)
WellPlaced(r) ==
    /\ r.phase = "groups" => r.picked = NothingPicked
    /\ r.eligible = <<>> => r.picked = NothingPicked
    /\ r.phase = "save" => r.at <= Len(r.eligible)

TypeInv == TypeOK /\ \A e \in Evals : WellPlaced(eval[e])

LEMMA FreshType ==
    ASSUME NEW want \in Wants, NEW phase \in Phases \ {"save"},
           NEW reply \in {"none", "ok", "error", "failed"},
           NEW g \in Groups \cup {NoGroup}, NEW b \in BackendIds \cup {NoBackend}
    PROVE  /\ Fresh(want, phase, reply, g, b) \in Eval
           /\ WellPlaced(Fresh(want, phase, reply, g, b))
<1>1. <<>> \in Seq(Copy) /\ 1 \in Nat \ {0}
    OBVIOUS
<1>2. NothingPicked \in [Groups -> BackendIds \cup {NoBackend}]
    BY DEF NothingPicked
<1> QED  BY <1>1, <1>2 DEF Fresh, Eval, WellPlaced

(* A step that makes one evaluation a well-formed r keeps all well-formed. *)
LEMMA BecomeType ==
    ASSUME TypeInv, NEW e \in Evals, NEW r \in Eval, WellPlaced(r), Become(e, r)
    PROVE  eval' \in [Evals -> Eval] /\ \A f \in Evals : WellPlaced(eval'[f])
BY DEF TypeInv, TypeOK, Become

LEMMA AnswerType ==
    ASSUME TypeInv, NEW e \in Evals, NEW reply \in {"ok", "error", "failed"},
           NEW g \in Groups \cup {NoGroup}, NEW b \in BackendIds \cup {NoBackend},
           Answer(e, reply, g, b)
    PROVE  eval' \in [Evals -> Eval] /\ \A f \in Evals : WellPlaced(eval'[f])
<1>1. eval[e].want \in Wants
    BY DEF TypeInv, TypeOK, Eval
<1>2. "done" \in Phases \ {"save"}
    BY DEF Phases
<1> QED  BY <1>1, <1>2, FreshType, BecomeType DEF Answer

LEMMA FailType ==
    ASSUME TypeInv, NEW e \in Evals, Fail(e)
    PROVE  eval' \in [Evals -> Eval] /\ \A f \in Evals : WellPlaced(eval'[f])
BY AnswerType DEF Fail

LEMMA CopyType ==
    ASSUME TypeInv, NEW g \in Groups, group[g] # NoGroup
    PROVE  CopyOf(g) \in Copy
BY DEF TypeInv, TypeOK, GroupRow, CopyOf, Copy

LEMMA TypeInit == Init => TypeInv
<1> SUFFICES ASSUME Init PROVE TypeInv
    OBVIOUS
<1>1. PICK w \in Wants :
         eval = [e \in Evals |-> Fresh(w, "done", "none", NoGroup, NoBackend)]
    BY DEF Init
<1>2. /\ Fresh(w, "done", "none", NoGroup, NoBackend) \in Eval
      /\ WellPlaced(Fresh(w, "done", "none", NoGroup, NoBackend))
    BY FreshType DEF Phases
<1>3. 0 \in 0..MaxChanges
    BY RoutingAssumption
<1> QED  BY <1>1, <1>2, <1>3 DEF Init, TypeInv, TypeOK

LEMMA TypeNext == TypeInv /\ [Next]_vars => TypeInv'
<1> SUFFICES ASSUME TypeInv, [Next]_vars PROVE TypeInv'
    OBVIOUS
<1> USE DEF TypeInv
<1> DEFINE EvalsFine == eval' \in [Evals -> Eval] /\ \A f \in Evals : WellPlaced(eval'[f])
<1>a. \A f \in Evals : eval[f] \in Eval /\ WellPlaced(eval[f])
    BY DEF TypeOK
<1>1. CASE UNCHANGED vars
    BY <1>1 DEF vars, tables, TypeOK, WellPlaced
<1>2. ASSUME NEW e \in Evals, NEW w \in Wants, Receive(e, w)  PROVE TypeInv'
  <2>1. EvalsFine
      BY <1>2, FreshType, BecomeType DEF Receive, Phases
  <2> QED  BY <1>2, <2>1 DEF Receive, TypeOK, tables
<1>3. ASSUME NEW e \in Evals, ReadGroups(e)  PROVE TypeInv'
  <2> DEFINE S == {g \in eval[e].want : Enabled(g)}
  <2>1. eval[e].want \subseteq Groups /\ S \in SUBSET Groups
      BY <1>a, RoutingAssumption DEF Eval
  <2>2. PICK s \in Listings(S) :
           Become(e, [eval[e] EXCEPT !.phase = "members",
                        !.eligible = [i \in DOMAIN s |-> CopyOf(s[i])]])
      BY <1>3 DEF ReadGroups
  <2> DEFINE list == [i \in DOMAIN s |-> CopyOf(s[i])]
             r == [eval[e] EXCEPT !.phase = "members", !.eligible = list]
  <2>3. /\ Cardinality(S) \in Nat
        /\ s \in [1..Cardinality(S) -> S] /\ DOMAIN s = 1..Cardinality(S)
      BY <2>1, ListingsOfGroups
  <2>4. \A g \in S : CopyOf(g) \in Copy
      BY <2>1, CopyType DEF Enabled
  <2>5. list \in [1..Cardinality(S) -> Copy]
      BY <2>3, <2>4
  <2>6. list \in Seq(Copy)
      BY <2>3, <2>5
  <2>7. r \in Eval /\ WellPlaced(r)
    <3> HIDE DEF list
    <3>1. eval[e].picked = NothingPicked
        BY <1>3, <1>a DEF ReadGroups, WellPlaced
    <3> QED  BY <1>a, <2>6, <3>1 DEF Eval, Phases, WellPlaced
  <2>8. EvalsFine
      BY <2>2, <2>7, BecomeType
  <2> QED  BY <1>3, <2>8 DEF ReadGroups, TypeOK, tables
<1>4. ASSUME NEW e \in Evals, ReadMembers(e)  PROVE TypeInv'
  <2> DEFINE old == eval[e].eligible
             list == [i \in DOMAIN old |-> [old[i] EXCEPT !.members = members[old[i].id]]]
             r == [eval[e] EXCEPT !.phase = "find", !.eligible = list]
  <2>1. old \in Seq(Copy)
      BY <1>a DEF Eval
  <2>2. \A c \in Copy : [c EXCEPT !.members = members[c.id]] \in Copy
      BY DEF TypeOK, Copy
  <2>3. list \in Seq(Copy) /\ (list = <<>> => old = <<>>)
      BY <2>1, <2>2
  <2>4. r \in Eval /\ WellPlaced(r)
    <3> HIDE DEF list
    <3> QED  BY <1>a, <2>3 DEF Eval, Phases, WellPlaced
  <2>5. EvalsFine
      BY <1>4, <2>4, BecomeType DEF ReadMembers
  <2> QED  BY <1>4, <2>5 DEF ReadMembers, TypeOK, tables
<1>5. ASSUME NEW e \in Evals, FindBackend(e)  PROVE TypeInv'
  <2> DEFINE g == eval[e].eligible[eval[e].at]
             active == Active(g.members)
  <2> DEFINE list == eval[e].eligible
             at == eval[e].at
  <2>l. list \in Seq(Copy) /\ at \in Nat \ {0} /\ at + 1 \in Nat \ {0}
      BY <1>a DEF Eval
  <2>m. at <= Len(list)
      BY <1>5 DEF FindBackend
  <2>a. /\ eval[e].eligible \in Seq(Copy) /\ eval[e].at \in Nat \ {0}
        /\ eval[e].at <= Len(eval[e].eligible)
        /\ eval[e].at + 1 \in Nat \ {0}
      BY <2>l, <2>m
  <2>1. g \in Copy /\ eval[e].eligible # <<>>
      BY <2>a
  <2>2. CASE Become(e, [eval[e] EXCEPT !.at = @ + 1]) /\ eval[e].phase = "find"
    <3>1. /\ [eval[e] EXCEPT !.at = @ + 1] \in Eval
          /\ WellPlaced([eval[e] EXCEPT !.at = @ + 1])
        BY <1>a, <2>a, <2>1, <2>2 DEF Eval, WellPlaced
    <3>2. EvalsFine
        BY <2>2, <3>1, BecomeType
    <3> QED  BY <1>5, <3>2 DEF FindBackend, TypeOK, tables
  <2>3. ASSUME active # {}, NEW b \in Picks(g.strategy, active, g.last, Load),
               Become(e, [eval[e] EXCEPT !.phase = "save", !.picked[g.id] = b])
        PROVE  TypeInv'
    <3>1. active \in SUBSET BackendIds /\ g.last \in BackendIds \cup {NoBackend}
        BY <2>1 DEF Active, Copy
    <3>2. b \in BackendIds
        BY <2>3, <3>1, PicksAreActive
    <3>3. /\ [eval[e] EXCEPT !.phase = "save", !.picked[g.id] = b] \in Eval
          /\ WellPlaced([eval[e] EXCEPT !.phase = "save", !.picked[g.id] = b])
        BY <1>a, <2>a, <2>1, <3>2 DEF Eval, Phases, WellPlaced
    <3>4. EvalsFine
        BY <2>3, <3>3, BecomeType
    <3> QED  BY <1>5, <3>4 DEF FindBackend, TypeOK, tables
  <2> QED  BY <1>5, <2>2, <2>3 DEF FindBackend
<1>6. ASSUME NEW e \in Evals, SaveLast(e)  PROVE TypeInv'
  <2> DEFINE g == eval[e].eligible[eval[e].at].id
             r == [eval[e] EXCEPT !.phase = "find", !.at = @ + 1]
  <2> DEFINE list == eval[e].eligible
             at == eval[e].at
  <2>l. list \in Seq(Copy) /\ at \in Nat \ {0} /\ at + 1 \in Nat \ {0}
      BY <1>a DEF Eval
  <2>m. at <= Len(list)
      BY <1>6, <1>a DEF SaveLast, WellPlaced
  <2>a. /\ eval[e].eligible \in Seq(Copy) /\ eval[e].at \in Nat \ {0}
        /\ eval[e].at <= Len(eval[e].eligible)
        /\ eval[e].at + 1 \in Nat \ {0}
      BY <2>l, <2>m
  <2>1. r \in Eval /\ WellPlaced(r)
      BY <1>a, <2>a DEF Eval, Phases, WellPlaced
  <2>2. EvalsFine
      BY <1>6, <2>1, BecomeType DEF SaveLast
  <2>3. eval[e].eligible[eval[e].at] \in Copy
      BY <2>a
  <2>4. g \in Groups /\ eval[e].picked[g] \in BackendIds \cup {NoBackend}
      BY <2>3, <1>a DEF Copy, Eval
  <2>5. group[g] # NoGroup =>
           [group[g] EXCEPT !.last = eval[e].picked[g]] \in GroupRow
      BY <2>4 DEF TypeOK, GroupRow
  <2>6. group' \in [Groups -> GroupRow \cup {NoGroup}]
    <3>1. group \in [Groups -> GroupRow \cup {NoGroup}]
        BY DEF TypeOK
    <3> HIDE DEF g
    <3>2. CASE group[g] # NoGroup
               /\ group' = [group EXCEPT ![g].last = eval[e].picked[g]]
        BY <2>4, <2>5, <3>1, <3>2
    <3>3. CASE UNCHANGED group
        BY <3>1, <3>3
    <3> QED  BY <1>6, <3>2, <3>3 DEF SaveLast, g
  <2> QED  BY <1>6, <2>2, <2>6 DEF SaveLast, TypeOK
<1>7. ASSUME NEW e \in Evals, Choose(e)  PROVE TypeInv'
  <2> DEFINE g == eval[e].eligible[1].id
  <2>1. eval[e].eligible \in Seq(Copy) /\ eval[e].eligible # <<>>
      BY <1>7, <1>a DEF Choose, Eval, WellPlaced
  <2>2. eval[e].eligible[1] \in Copy
      BY <2>1
  <2>3. g \in Groups /\ eval[e].picked[g] \in BackendIds \cup {NoBackend}
      BY <1>a, <2>2 DEF Copy, Eval
  <2>4. EvalsFine
      BY <1>7, <2>3, AnswerType DEF Choose
  <2> QED  BY <1>7, <2>4 DEF Choose, TypeOK, tables
<1>8. ASSUME NEW e \in Evals, FallBack(e)  PROVE TypeInv'
  <2>1. /\ [eval[e] EXCEPT !.phase = "default"] \in Eval
        /\ WellPlaced([eval[e] EXCEPT !.phase = "default"])
      BY <1>a DEF Eval, Phases, WellPlaced
  <2>2. EvalsFine
      BY <1>8, <2>1, FailType, BecomeType DEF FallBack
  <2> QED  BY <1>8, <2>2 DEF FallBack, TypeOK, tables
<1>9. ASSUME NEW e \in Evals, ReadDefault(e)  PROVE TypeInv'
  <2> DEFINE r == [eval[e] EXCEPT !.phase = "members", !.fallback = TRUE,
                             !.eligible = <<CopyOf(Default)>>, !.at = 1]
  <2>1. CASE Fail(e)
      BY <1>9, <2>1, FailType DEF ReadDefault, TypeOK, tables
  <2>2. CASE group[Default] # NoGroup /\ Become(e, r)
    <3>1. CopyOf(Default) \in Copy
        BY <2>2, CopyType, RoutingAssumption
    <3>2. <<CopyOf(Default)>> \in Seq(Copy) /\ <<CopyOf(Default)>> # <<>>
        BY <3>1
    <3>3. r \in Eval /\ WellPlaced(r)
      <4> DEFINE one == <<CopyOf(Default)>>
      <4>1. one \in Seq(Copy) /\ one # <<>> /\ 1 \in Nat \ {0}
          BY <3>2
      <4> HIDE DEF one
      <4> QED  BY <1>a, <4>1 DEF Eval, Phases, WellPlaced, one
    <3>4. EvalsFine
        BY <2>2, <3>3, BecomeType
    <3> QED  BY <1>9, <3>4 DEF ReadDefault, TypeOK, tables
  <2> QED  BY <1>9, <2>1, <2>2 DEF ReadDefault
<1>10. ASSUME NEW e \in Evals, ReadFails(e)  PROVE TypeInv'
    BY <1>10, AnswerType DEF ReadFails, TypeOK, tables
<1>11. ASSUME Others  PROVE TypeInv'
  <2>1. eval' = eval /\ changes' \in 0..MaxChanges
      BY <1>11, RoutingAssumption DEF Others, ChangeBackend, RemoveBackend,
         ChangeGroup, ChangeMembers, Change, TypeOK
  <2>2. /\ group' \in [Groups -> GroupRow \cup {NoGroup}]
        /\ members' \in [Groups -> SUBSET BackendIds]
        /\ backend' \in [BackendIds -> BackendRow]
    <3>1. CASE \E b \in BackendIds : RemoveBackend(b)
        BY <3>1 DEF RemoveBackend, TypeOK, BackendRow
    <3>2. CASE \E b \in BackendIds : ChangeBackend(b)
        BY <3>2 DEF ChangeBackend, TypeOK
    <3>3. CASE \E g \in Groups : ChangeGroup(g) \/ ChangeMembers(g)
        BY <3>3 DEF ChangeGroup, ChangeMembers, TypeOK
    <3> QED  BY <1>11, <3>1, <3>2, <3>3 DEF Others
  <2> QED  BY <1>a, <2>1, <2>2 DEF TypeOK, WellPlaced
<1> QED
    BY <1>1, <1>2, <1>3, <1>4, <1>5, <1>6, <1>7, <1>8, <1>9, <1>10, <1>11
    DEF Next, Step

(* Every variable of EvaluateBackendForGroups keeps its type, and so do    *)
(* the rows it writes: last_routed_backend is always a backend or empty.   *)
THEOREM TypeCorrect == Spec => []TypeOK
<1>1. TypeInv => TypeOK
    BY DEF TypeInv
<1> QED  BY TypeInit, TypeNext, <1>1, PTL DEF Spec

-----------------------------------------------------------------------------
(* What an evaluation r knows, w being what held since its request.        *)

(* Whatever it has read was so at some moment, of groups it may use.       *)
Sourced(r, w) ==
    /\ \A i \in DOMAIN r.eligible :
         /\ r.eligible[i].id \in IF r.fallback THEN {Default} ELSE r.want
         /\ \A b \in r.eligible[i].members : <<r.eligible[i].id, b>> \in w.mapped
    /\ \A g \in Groups : r.picked[g] # NoBackend =>
         /\ r.picked[g] \in w.seen /\ <<g, r.picked[g]>> \in w.mapped
         /\ \E i \in DOMAIN r.eligible : r.eligible[i].id = g
    /\ r.phase = "default" => r.picked = NothingPicked
    /\ r.phase \in {"groups", "members"} => r.at = 1
    /\ r.phase = "groups" => ~r.fallback

(* The i-th eligible group is gb's, which has been picked for if its turn  *)
(* has passed.                                                             *)
InHand(r, i, gb) ==
    /\ r.eligible[i].id = gb[1]
    /\ r.phase # "members" => gb[2] \in r.eligible[i].members
    /\ i < r.at \/ (i = r.at /\ r.phase = "save") => r.picked[gb[1]] # NoBackend

Wanted(r, w, gb) == gb \in w.live /\ gb[1] \in r.want \cap w.on

(* What was so all along has not been missed.                              *)
Kept(r, w) ==
    /\ \A gb \in w.live : Wanted(r, w, gb) => ~r.fallback /\ r.phase # "default"
    /\ \A gb \in w.live :
         /\ Wanted(r, w, gb) \/ (r.fallback /\ gb[1] = Default)
         /\ r.phase \in {"members", "find", "save"}
         => \E i \in DOMAIN r.eligible : InHand(r, i, gb)

(* The present is part of the window.                                      *)
Observed(w) ==
    /\ Active(BackendIds) \subseteq w.seen /\ Mapped \subseteq w.mapped
    /\ w.live \subseteq Serving /\ w.on \subseteq {g \in Groups : Enabled(g)}

(* Foreign keys: only an existing group has mappings.                      *)
Rooted == \A g \in Groups : group[g] = NoGroup => members[g] = {}

Running(e) == eval[e].phase # "done"

WindowInv ==
    /\ TypeInv /\ Rooted
    /\ \A e \in Evals : Running(e) =>
         /\ Observed(window[e])
         /\ Sourced(eval[e], window[e]) /\ Kept(eval[e], window[e])

-----------------------------------------------------------------------------
LEMMA Wider ==
    ASSUME NEW r, NEW w, NEW w2, Sourced(r, w), Kept(r, w),
           w.seen \subseteq w2.seen, w.mapped \subseteq w2.mapped,
           w2.live \subseteq w.live, w2.on \subseteq w.on
    PROVE  Sourced(r, w2) /\ Kept(r, w2)
<1>1. Sourced(r, w2)
    BY DEF Sourced
<1>2. \A gb \in w2.live : gb \in w.live /\ (Wanted(r, w2, gb) => Wanted(r, w, gb))
    BY DEF Wanted
<1>3. Kept(r, w2)
    BY <1>2 DEF Kept
<1> QED  BY <1>1, <1>3

(* A request that has just come in.                                        *)
LEMMA FreshIsFine ==
    ASSUME NEW want, NEW w
    PROVE  LET r == Fresh(want, "groups", "none", NoGroup, NoBackend)
           IN  Sourced(r, w) /\ Kept(r, w)
<1> DEFINE r == Fresh(want, "groups", "none", NoGroup, NoBackend)
<1>1. /\ r.eligible = <<>> /\ r.phase = "groups" /\ ~r.fallback /\ r.at = 1
      /\ r.picked = NothingPicked
    BY DEF Fresh
<1> HIDE DEF r
<1>2. Sourced(r, w)
    BY <1>1 DEF Sourced, NothingPicked
<1>3. Kept(r, w)
    BY <1>1 DEF Kept
<1> QED  BY <1>2, <1>3 DEF r

(* What each step of a running evaluation needs and keeps.                 *)
Fine(e, w) ==
    Observed(w) /\ Sourced(eval[e], w) /\ Kept(eval[e], w)

LEMMA BecomeIs ==
    ASSUME TypeInv, NEW e \in Evals, NEW r, Become(e, r)
    PROVE  eval'[e] = r /\ \A f \in Evals \ {e} : eval'[f] = eval[f]
BY DEF TypeInv, TypeOK, Become

LEMMA AnswerIs ==
    ASSUME TypeInv, NEW e \in Evals, NEW reply, NEW g, NEW b, Answer(e, reply, g, b)
    PROVE  /\ eval'[e].phase = "done" /\ eval'[e].reply = reply
           /\ eval'[e].group = g /\ eval'[e].backend = b
           /\ \A f \in Evals \ {e} : eval'[f] = eval[f]
BY BecomeIs DEF Answer, Fresh

LEMMA ReadGroupsFine ==
    ASSUME TypeInv, NEW e \in Evals, NEW w, Fine(e, w), ReadGroups(e)
    PROVE  Sourced(eval'[e], w) /\ Kept(eval'[e], w)
<1> DEFINE old == eval[e]
           S == {g \in old.want : Enabled(g)}
<1>1. old \in Eval /\ WellPlaced(old) /\ old.phase = "groups"
    BY DEF TypeInv, TypeOK, ReadGroups
<1>2. S \in SUBSET Groups
    BY <1>1, RoutingAssumption DEF Eval
<1>3. PICK s \in Listings(S) :
         Become(e, [old EXCEPT !.phase = "members",
                      !.eligible = [i \in DOMAIN s |-> CopyOf(s[i])]])
    BY DEF ReadGroups
<1> DEFINE list == [i \in DOMAIN s |-> CopyOf(s[i])]
           new == [old EXCEPT !.phase = "members", !.eligible = list]
<1>4. /\ \A i \in DOMAIN s : s[i] \in S
      /\ \A g \in S : \E i \in DOMAIN s : s[i] = g
      /\ DOMAIN s \subseteq Nat \ {0}
    BY <1>2, ListingsOfGroups
<1>5. /\ DOMAIN list = DOMAIN s
      /\ \A i \in DOMAIN s : list[i].id = s[i] /\ list[i].members = {}
    BY DEF CopyOf
<1>6. /\ new.phase = "members" /\ new.eligible = list /\ new.at = old.at
      /\ new.want = old.want /\ new.fallback = old.fallback
      /\ new.picked = old.picked
    BY <1>1 DEF Eval
<1>7. old.picked = NothingPicked /\ ~old.fallback /\ old.at = 1
    BY <1>1 DEF Fine, Sourced, WellPlaced
<1> HIDE DEF list, new
<1>8. Sourced(new, w)
    BY <1>4, <1>5, <1>6, <1>7 DEF Sourced, NothingPicked
<1>9. \A gb \in w.live : Wanted(old, w, gb) => gb[1] \in S
    BY DEF Fine, Observed, Wanted
<1>10. Kept(new, w)
  <2>1. ASSUME NEW gb \in w.live, Wanted(new, w, gb)
        PROVE  \E i \in DOMAIN list : InHand(new, i, gb)
    <3>1. PICK i \in DOMAIN s : s[i] = gb[1]
        BY <2>1, <1>4, <1>6, <1>9 DEF Wanted
    <3>2. i \in Nat \ {0}
        BY <1>4
    <3>3. ~(i < 1)
        BY <3>2
    <3>4. InHand(new, i, gb)
        BY <3>1, <3>3, <1>5, <1>6, <1>7 DEF InHand
    <3> QED  BY <3>4, <1>5
  <2> QED  BY <2>1, <1>6, <1>7 DEF Kept
<1> QED  BY <1>3, <1>8, <1>10, BecomeIs DEF new, list

LEMMA ReadMembersFine ==
    ASSUME TypeInv, NEW e \in Evals, NEW w, Fine(e, w), ReadMembers(e)
    PROVE  Sourced(eval'[e], w) /\ Kept(eval'[e], w)
<1> DEFINE old == eval[e]
           list == [i \in DOMAIN old.eligible |->
                      [old.eligible[i] EXCEPT !.members = members[old.eligible[i].id]]]
           new == [old EXCEPT !.phase = "find", !.eligible = list]
<1>1. old \in Eval /\ old.phase = "members" /\ Become(e, new)
    BY DEF TypeInv, TypeOK, ReadMembers
<1>2. old.eligible \in Seq(Copy)
    BY <1>1 DEF Eval
<1>3. /\ DOMAIN list = DOMAIN old.eligible /\ DOMAIN list \subseteq Nat \ {0}
      /\ \A i \in DOMAIN list : old.eligible[i].id \in Groups
  <2>1. /\ DOMAIN old.eligible \subseteq Nat \ {0}
        /\ \A i \in DOMAIN old.eligible : old.eligible[i] \in Copy
      BY <1>2
  <2>2. \A c \in Copy : c.id \in Groups
      BY DEF Copy
  <2> QED  BY <2>1, <2>2
<1>4. \A i \in DOMAIN list : /\ list[i].id = old.eligible[i].id
                            /\ list[i].members = members[old.eligible[i].id]
    BY <1>2, <1>3 DEF Copy
<1>5. /\ new.phase = "find" /\ new.eligible = list /\ new.at = old.at
      /\ new.want = old.want /\ new.fallback = old.fallback
      /\ new.picked = old.picked
    BY <1>1 DEF Eval
<1>6. old.at = 1
    BY <1>1 DEF Fine, Sourced
<1> HIDE DEF list, new
<1>7. Sourced(new, w)
  <2>1. ASSUME NEW i \in DOMAIN list, NEW b \in list[i].members
        PROVE  <<list[i].id, b>> \in w.mapped
    <3>1. <<old.eligible[i].id, b>> \in Mapped
        BY <1>3, <1>4 DEF Mapped, TypeInv, TypeOK
    <3> QED  BY <3>1, <1>4 DEF Fine, Observed
  <2> QED  BY <2>1, <1>3, <1>4, <1>5 DEF Fine, Sourced
<1>8. Kept(new, w)
  <2>1. ASSUME NEW gb \in w.live, NEW i \in DOMAIN list, InHand(old, i, gb)
        PROVE  InHand(new, i, gb)
    <3>1. gb[2] \in members[gb[1]]
        BY DEF Fine, Observed, Serving, Mapped
    <3>2. i \in Nat \ {0} /\ ~(i < 1)
        BY <1>3
    <3> QED  BY <2>1, <3>1, <3>2, <1>4, <1>5, <1>6 DEF InHand
  <2>2. \A gb \in w.live : Wanted(new, w, gb) <=> Wanted(old, w, gb)
      BY <1>5 DEF Wanted
  <2> QED  BY <2>1, <2>2, <1>1, <1>3, <1>5 DEF Fine, Kept
<1> QED  BY <1>1, <1>7, <1>8, BecomeIs

LEMMA FindBackendFine ==
    ASSUME TypeInv, NEW e \in Evals, NEW w, Fine(e, w), FindBackend(e)
    PROVE  Sourced(eval'[e], w) /\ Kept(eval'[e], w)
<1> DEFINE old == eval[e]
           g == old.eligible[old.at]
           active == Active(g.members)
<1>1. old \in Eval /\ old.phase = "find"
    BY DEF TypeInv, TypeOK, FindBackend
<1>2. old.eligible \in Seq(Copy) /\ old.at \in Nat \ {0}
    BY <1>1 DEF Eval
<1>3. old.at <= Len(old.eligible)
    BY DEF FindBackend
<1>4. g \in Copy /\ old.at \in DOMAIN old.eligible
    BY <1>2, <1>3
<1>5. DOMAIN old.eligible \subseteq Nat \ {0}
    BY <1>2
<1>6. \A gb \in w.live : /\ gb[2] \in BackendIds /\ backend[gb[2]].isActive
                        /\ gb[1] \in Groups
    BY DEF Fine, Observed, Serving, Mapped
<1>7. CASE active = {} /\ Become(e, [old EXCEPT !.at = @ + 1])
  <2> DEFINE new == [old EXCEPT !.at = @ + 1]
  <2>1. /\ new.phase = "find" /\ new.eligible = old.eligible
        /\ new.at = old.at + 1 /\ new.want = old.want
        /\ new.fallback = old.fallback /\ new.picked = old.picked
      BY <1>1 DEF Eval
  <2> HIDE DEF new
  <2>2. Sourced(new, w)
      BY <1>1, <2>1 DEF Fine, Sourced
  <2>3. ASSUME NEW gb \in w.live, NEW i \in DOMAIN old.eligible, InHand(old, i, gb)
        PROVE  InHand(new, i, gb)
    <3>1. gb[2] \in old.eligible[i].members
        BY <2>3, <1>1 DEF InHand
    <3>2. i # old.at
        BY <3>1, <1>6, <1>7 DEF Active
    <3>3. i < old.at + 1 => i < old.at
        BY <3>2, <1>2, <1>5
    <3> QED  BY <2>3, <3>1, <3>3, <2>1, <1>1 DEF InHand
  <2>4. \A gb \in w.live : Wanted(new, w, gb) <=> Wanted(old, w, gb)
      BY <2>1 DEF Wanted
  <2>5. Kept(new, w)
      BY <2>1, <2>3, <2>4, <1>1 DEF Fine, Kept
  <2> QED  BY <1>7, <2>2, <2>5, BecomeIs DEF new
<1>8. ASSUME active # {}, NEW b \in Picks(g.strategy, active, g.last, Load),
             Become(e, [old EXCEPT !.phase = "save", !.picked[g.id] = b])
      PROVE  Sourced(eval'[e], w) /\ Kept(eval'[e], w)
  <2> DEFINE new == [old EXCEPT !.phase = "save", !.picked[g.id] = b]
  <2>1. /\ g.members \in SUBSET BackendIds /\ g.id \in Groups
        /\ g.last \in BackendIds \cup {NoBackend}
      BY <1>4 DEF Copy
  <2>2. active \in SUBSET BackendIds
      BY <2>1 DEF Active
  <2>3. b \in active /\ b # NoBackend
      BY <1>8, <2>1, <2>2, PicksAreActive, RoutingAssumption
  <2>4. old.picked \in [Groups -> BackendIds \cup {NoBackend}]
      BY <1>1 DEF Eval
  <2>5. /\ new.phase = "save" /\ new.eligible = old.eligible
        /\ new.at = old.at /\ new.want = old.want
        /\ new.fallback = old.fallback
        /\ new.picked = [old.picked EXCEPT ![g.id] = b]
      BY <1>1 DEF Eval
  <2>6. /\ new.picked[g.id] = b
        /\ \A x \in Groups \ {g.id} : new.picked[x] = old.picked[x]
      BY <2>1, <2>4, <2>5
  <2> HIDE DEF new
  <2>7. b \in w.seen /\ <<g.id, b>> \in w.mapped
    <3>1. b \in w.seen
        BY <2>2, <2>3 DEF Active, Fine, Observed
    <3>2. b \in g.members
        BY <2>3 DEF Active
    <3> QED  BY <3>1, <3>2, <1>4 DEF Fine, Sourced
  <2>8. Sourced(new, w)
    <3>1. ASSUME NEW x \in Groups, new.picked[x] # NoBackend
          PROVE  /\ new.picked[x] \in w.seen /\ <<x, new.picked[x]>> \in w.mapped
                 /\ \E i \in DOMAIN old.eligible : old.eligible[i].id = x
      <4>1. CASE x = g.id
          BY <4>1, <2>6, <2>7, <1>4
      <4>2. CASE x # g.id
          BY <3>1, <4>2, <2>6 DEF Fine, Sourced
      <4> QED  BY <4>1, <4>2
    <3> QED  BY <3>1, <2>5 DEF Fine, Sourced
  <2>9. ASSUME NEW gb \in w.live, NEW i \in DOMAIN old.eligible, InHand(old, i, gb)
        PROVE  InHand(new, i, gb)
    <3>1. /\ old.eligible[i].id = gb[1] /\ gb[2] \in old.eligible[i].members
          /\ i < old.at => old.picked[gb[1]] # NoBackend
        BY <2>9, <1>1 DEF InHand
    <3>2. i = old.at => new.picked[gb[1]] # NoBackend
        BY <3>1, <2>3, <2>6
    <3>3. i < old.at => new.picked[gb[1]] # NoBackend
        BY <3>1, <2>3, <2>6, <1>6
    <3> QED  BY <3>1, <3>2, <3>3, <2>5 DEF InHand
  <2>10. \A gb \in w.live : Wanted(new, w, gb) <=> Wanted(old, w, gb)
      BY <2>5 DEF Wanted
  <2>11. Kept(new, w)
      BY <2>5, <2>9, <2>10, <1>1 DEF Fine, Kept
  <2> QED  BY <1>8, <2>8, <2>11, BecomeIs DEF new
<1> QED  BY <1>7, <1>8 DEF FindBackend

LEMMA SaveLastFine ==
    ASSUME TypeInv, NEW e \in Evals, NEW w, Fine(e, w), SaveLast(e)
    PROVE  Sourced(eval'[e], w) /\ Kept(eval'[e], w)
<1> DEFINE old == eval[e]
           new == [old EXCEPT !.phase = "find", !.at = @ + 1]
<1>1. old \in Eval /\ old.phase = "save" /\ Become(e, new)
    BY DEF TypeInv, TypeOK, SaveLast
<1>2. old.eligible \in Seq(Copy) /\ old.at \in Nat \ {0}
    BY <1>1 DEF Eval
<1>3. /\ new.phase = "find" /\ new.eligible = old.eligible
      /\ new.at = old.at + 1 /\ new.want = old.want
      /\ new.fallback = old.fallback /\ new.picked = old.picked
    BY <1>1 DEF Eval
<1> HIDE DEF new
<1>4. Sourced(new, w)
    BY <1>1, <1>3 DEF Fine, Sourced
<1>5. ASSUME NEW gb, NEW i \in DOMAIN old.eligible, InHand(old, i, gb)
      PROVE  InHand(new, i, gb)
  <2>1. i \in Nat
      BY <1>2
  <2>2. i < old.at + 1 => i < old.at \/ i = old.at
      BY <2>1, <1>2
  <2>3. ~(i = new.at /\ new.phase = "save")
      BY <1>3
  <2>4. i < new.at => i < old.at \/ i = old.at
      BY <2>2, <1>3
  <2> HIDE DEF old
  <2> QED  BY <1>5, <2>3, <2>4, <1>1, <1>3 DEF InHand
<1>6. \A gb \in w.live : Wanted(new, w, gb) <=> Wanted(old, w, gb)
    BY <1>3 DEF Wanted
<1>7. Kept(new, w)
    BY <1>1, <1>3, <1>5, <1>6 DEF Fine, Kept
<1> QED  BY <1>1, <1>4, <1>7, BecomeIs

LEMMA FallBackFine ==
    ASSUME TypeInv, NEW e \in Evals, NEW w, Fine(e, w), FallBack(e)
    PROVE  \/ eval'[e].phase = "done"
           \/ Sourced(eval'[e], w) /\ Kept(eval'[e], w)
<1> DEFINE old == eval[e]
           new == [old EXCEPT !.phase = "default"]
<1>1. CASE Fail(e)
    BY <1>1, AnswerIs DEF Fail
<1>2. CASE ~old.fallback /\ Become(e, new)
  <2>1. /\ old \in Eval /\ old.phase = "find" /\ old.picked = NothingPicked
        /\ old.at > Len(old.eligible)
      BY DEF TypeInv, TypeOK, FallBack
  <2>2. old.eligible \in Seq(Copy) /\ old.at \in Nat
      BY <2>1 DEF Eval
  <2>3. \A i \in DOMAIN old.eligible : i < old.at
      BY <2>1, <2>2
  <2>4. /\ new.phase = "default" /\ new.eligible = old.eligible
        /\ new.want = old.want /\ new.fallback = old.fallback
        /\ new.picked = old.picked
      BY <2>1 DEF Eval
  <2> HIDE DEF new
  <2>5. Sourced(new, w)
      BY <2>1, <2>4 DEF Fine, Sourced
  <2>6. \A gb \in w.live : ~Wanted(old, w, gb)
    <3>1. SUFFICES ASSUME NEW gb \in w.live, Wanted(old, w, gb)  PROVE FALSE
        OBVIOUS
    <3>2. PICK i \in DOMAIN old.eligible : InHand(old, i, gb)
        BY <3>1, <2>1 DEF Fine, Kept
    <3>3. gb[1] \in Groups
        BY DEF Fine, Observed, Serving, Mapped
    <3>4. old.picked[gb[1]] # NoBackend
        BY <3>2, <2>3 DEF InHand
    <3> QED  BY <3>3, <3>4, <2>1 DEF NothingPicked
  <2>7. \A gb \in w.live : ~Wanted(new, w, gb)
      BY <2>4, <2>6 DEF Wanted
  <2>8. Kept(new, w)
      BY <2>4, <2>7 DEF Kept
  <2> QED  BY <1>2, <2>5, <2>8, BecomeIs
<1> QED  BY <1>1, <1>2 DEF FallBack

LEMMA ReadDefaultFine ==
    ASSUME TypeInv, Rooted, NEW e \in Evals, NEW w, Fine(e, w), ReadDefault(e)
    PROVE  \/ eval'[e].phase = "done"
           \/ Sourced(eval'[e], w) /\ Kept(eval'[e], w)
<1> DEFINE old == eval[e]
           one == <<CopyOf(Default)>>
           new == [old EXCEPT !.phase = "members", !.fallback = TRUE,
                              !.eligible = one, !.at = 1]
<1>1. CASE Fail(e)
    BY <1>1, AnswerIs DEF Fail
<1>2. CASE Become(e, new)
  <2>1. old \in Eval /\ old.phase = "default"
      BY DEF TypeInv, TypeOK, ReadDefault
  <2>2. old.picked = NothingPicked
      BY <2>1 DEF Fine, Sourced
  <2>3. /\ DOMAIN one = {1} /\ one[1].id = Default /\ one[1].members = {}
      BY DEF CopyOf
  <2> HIDE DEF one
  <2>4. /\ new.phase = "members" /\ new.eligible = one /\ new.at = 1
        /\ new.want = old.want /\ new.fallback /\ new.picked = old.picked
      BY <2>1 DEF Eval
  <2> HIDE DEF new
  <2>5. Sourced(new, w)
      BY <2>2, <2>3, <2>4 DEF Sourced, NothingPicked
  <2>6. \A gb \in w.live : ~Wanted(new, w, gb)
      BY <2>1, <2>4 DEF Fine, Kept, Wanted
  <2>7. ASSUME NEW gb \in w.live, gb[1] = Default
        PROVE  InHand(new, 1, gb)
      BY <2>3, <2>4, <2>7 DEF InHand
  <2>8. Kept(new, w)
      BY <2>3, <2>4, <2>6, <2>7 DEF Kept
  <2> QED  BY <1>2, <2>5, <2>8, BecomeIs
<1> QED  BY <1>1, <1>2 DEF ReadDefault

(* A step of a running evaluation other than its answer keeps it fine.     *)
LEMMA StepFine ==
    ASSUME TypeInv, Rooted, NEW e \in Evals, NEW w, Fine(e, w), Step(e)
    PROVE  \/ eval'[e].phase = "done"
           \/ Sourced(eval'[e], w) /\ Kept(eval'[e], w)
<1>1. CASE Choose(e)
    BY <1>1, AnswerIs DEF Choose
<1>2. CASE ReadFails(e)
    BY <1>2, AnswerIs DEF ReadFails
<1> QED
    BY <1>1, <1>2, ReadGroupsFine, ReadMembersFine, FindBackendFine, SaveLastFine,
       FallBackFine, ReadDefaultFine DEF Step

LEMMA RootedNext == TypeInv /\ Rooted /\ [Next]_vars => Rooted'
<1> SUFFICES ASSUME TypeInv, Rooted, [Next]_vars  PROVE Rooted'
    OBVIOUS
<1>1. CASE UNCHANGED <<group, members>>
    BY <1>1 DEF Rooted
<1>2. ASSUME NEW e \in Evals, Step(e)  PROVE Rooted'
  <2>1. CASE SaveLast(e)
    <3> DEFINE h == eval[e].eligible[eval[e].at].id
    <3>1. CASE group' = [group EXCEPT ![h].last = eval[e].picked[h]] /\ group[h] # NoGroup
      <4>1. members' = members /\ group \in [Groups -> GroupRow \cup {NoGroup}]
          BY <2>1 DEF SaveLast, TypeInv, TypeOK
      <4> HIDE DEF h
      <4>2. \A g \in Groups : group'[g] = NoGroup => g = h \/ group[g] = NoGroup
          BY <3>1, <4>1
      <4>3. h \in Groups => group'[h] # NoGroup
        <5>1. SUFFICES ASSUME h \in Groups  PROVE group'[h] # NoGroup
            OBVIOUS
        <5>2. group[h] \in GroupRow
            BY <5>1, <4>1, <3>1
        <5>3. group'[h] = [group[h] EXCEPT !.last = eval[e].picked[h]]
            BY <5>1, <4>1, <3>1
        <5>4. eval[e].picked[h] \in BackendIds \cup {NoBackend}
            BY <5>1 DEF TypeInv, TypeOK, Eval
        <5>5. group'[h] \in GroupRow
            BY <5>2, <5>3, <5>4 DEF GroupRow
        <5> QED  BY <5>5, RoutingAssumption
      <4> QED  BY <4>1, <4>2, <4>3 DEF Rooted
    <3>2. CASE UNCHANGED group
        BY <3>2, <2>1 DEF SaveLast, Rooted
    <3> QED  BY <2>1, <3>1, <3>2 DEF SaveLast
  <2>2. CASE UNCHANGED tables
      BY <2>2 DEF tables, Rooted
  <2> QED
      BY <1>2, <2>1, <2>2 DEF Step, ReadGroups, ReadMembers, FindBackend, Choose,
         FallBack, ReadDefault, ReadFails
<1>3. ASSUME NEW b \in BackendIds, ChangeBackend(b) \/ RemoveBackend(b)  PROVE Rooted'
  <2>1. CASE ChangeBackend(b)
      BY <2>1 DEF ChangeBackend, Rooted
  <2>2. CASE RemoveBackend(b)
      BY <2>2 DEF RemoveBackend, Rooted
  <2> QED  BY <1>3, <2>1, <2>2
<1>4. ASSUME NEW g \in Groups, ChangeGroup(g) \/ ChangeMembers(g)  PROVE Rooted'
  <2>1. CASE ChangeGroup(g)
    <3>1. \A r \in GroupRow : r # NoGroup
        BY RoutingAssumption
    <3> QED  BY <2>1, <3>1 DEF ChangeGroup, Rooted, TypeInv, TypeOK
  <2>2. CASE ChangeMembers(g)
      BY <2>2 DEF ChangeMembers, Rooted, TypeInv, TypeOK
  <2> QED  BY <1>4, <2>1, <2>2
<1>5. CASE \E e \in Evals, want \in Wants : Receive(e, want)
    BY <1>1, <1>5 DEF Receive, tables
<1> QED
    BY <1>1, <1>2, <1>3, <1>4, <1>5 DEF Next, Others, vars, tables

(* The window grows with the present, and only then.                       *)
LEMMA WindowGrows ==
    ASSUME WNext, NEW e \in Evals, eval'[e].phase # "done"
    PROVE  /\ Observed(window[e])'
           /\ Running(e) =>
                /\ window[e].seen \subseteq window'[e].seen
                /\ window[e].mapped \subseteq window'[e].mapped
                /\ window'[e].live \subseteq window[e].live
                /\ window'[e].on \subseteq window[e].on
<1>1. window'[e] = IF eval[e].phase = "done" THEN Now' ELSE Extend(window[e], Now')
    BY DEF WNext
<1> DEFINE now == Now'
<1>2. /\ now.seen = Active(BackendIds)' /\ now.mapped = Mapped'
      /\ now.live = Serving' /\ now.on = {g \in Groups : Enabled(g)}'
    BY DEF Now
<1> HIDE DEF now
<1>3. CASE Running(e)
  <2>1. window'[e] = Extend(window[e], now)
      BY <1>1, <1>3 DEF Running, now
  <2>2. /\ window'[e].seen = window[e].seen \cup now.seen
        /\ window'[e].mapped = window[e].mapped \cup now.mapped
        /\ window'[e].live = window[e].live \cap now.live
        /\ window'[e].on = window[e].on \cap now.on
      BY <2>1 DEF Extend
  <2> QED  BY <2>2, <1>2 DEF Observed
<1>4. CASE ~Running(e)
  <2>1. window'[e] = now
      BY <1>1, <1>4 DEF Running, now
  <2> QED  BY <2>1, <1>2, <1>4 DEF Observed
<1> QED  BY <1>3, <1>4

LEMMA WindowInit == WInit => WindowInv
<1> SUFFICES ASSUME WInit PROVE WindowInv
    OBVIOUS
<1>1. TypeInv /\ Rooted
    BY TypeInit DEF WInit, Init, Rooted
<1>2. \A e \in Evals : ~Running(e)
    BY DEF WInit, Init, Fresh, Running
<1> QED  BY <1>1, <1>2 DEF WindowInv

LEMMA WindowNext == WindowInv /\ [WNext]_wvars => WindowInv'
<1> SUFFICES ASSUME WindowInv, [WNext]_wvars PROVE WindowInv'
    OBVIOUS
<1>1. CASE UNCHANGED wvars
    BY <1>1 DEF wvars, WindowInv, TypeInv, TypeOK, Rooted, Running, Observed,
       Active, Mapped, Serving, Enabled
<1>2. CASE WNext
  <2>1. TypeInv /\ Rooted /\ [Next]_vars
      BY <1>2 DEF WNext, WindowInv
  <2>2. TypeInv' /\ Rooted'
      BY <2>1, TypeNext, RootedNext
  <2>3. ASSUME NEW e \in Evals, Running(e)'
        PROVE  /\ Observed(window[e])'
               /\ Sourced(eval[e], window[e])' /\ Kept(eval[e], window[e])'
    <3>1. eval'[e].phase # "done"
        BY <2>3 DEF Running
    <3>2. Observed(window[e])'
        BY <1>2, <3>1, WindowGrows
    <3>3. CASE Running(e)
      <4>1. Fine(e, window[e])
          BY <3>3 DEF WindowInv, Fine
      <4>2. Sourced(eval'[e], window[e]) /\ Kept(eval'[e], window[e])
        <5>1. CASE eval'[e] = eval[e]
            BY <4>1, <5>1 DEF Fine
        <5>2. CASE Step(e)
            BY <2>1, <3>1, <4>1, <5>2, StepFine
        <5>3. CASE \E f \in Evals \ {e} : Step(f) \/ \E want \in Wants : Receive(f, want)
          <6>1. PICK f \in Evals \ {e} : Step(f) \/ \E want \in Wants : Receive(f, want)
              BY <5>3
          <6>2. \E r : Become(f, r)
              BY <6>1 DEF Step, Receive, ReadGroups, ReadMembers, FindBackend, SaveLast,
                 Choose, FallBack, ReadDefault, ReadFails, Answer, Fail
          <6>3. eval'[e] = eval[e]
              BY <2>1, <6>2, BecomeIs
          <6> QED  BY <5>1, <6>3
        <5>4. CASE \E want \in Wants : Receive(e, want)
            BY <3>3, <5>4 DEF Receive, Running
        <5>5. CASE Others
            BY <5>1, <5>5 DEF Others, ChangeBackend, RemoveBackend, ChangeGroup,
               ChangeMembers, Change
        <5> QED  BY <1>2, <5>2, <5>3, <5>4, <5>5 DEF WNext, Next
      <4>3. /\ window[e].seen \subseteq window'[e].seen
            /\ window[e].mapped \subseteq window'[e].mapped
            /\ window'[e].live \subseteq window[e].live
            /\ window'[e].on \subseteq window[e].on
          BY <1>2, <3>1, <3>3, WindowGrows
      <4>4. Sourced(eval'[e], window'[e]) /\ Kept(eval'[e], window'[e])
          BY <4>2, <4>3, Wider
      <4> QED  BY <3>2, <4>4
    <3>4. CASE ~Running(e)
      <4>1. PICK want \in Wants : Receive(e, want)
        <5>1. ~Step(e)
            BY <3>4 DEF Running, Step, ReadGroups, ReadMembers, FindBackend, SaveLast,
               Choose, FallBack, ReadDefault, ReadFails
        <5>2. \A f \in Evals : \A r : Become(f, r) /\ f # e => eval'[e] = eval[e]
            BY <2>1, BecomeIs
        <5>3. \A f \in Evals : Step(f) \/ (\E want \in Wants : Receive(f, want))
                 => \E r : Become(f, r)
            BY DEF Step, Receive, ReadGroups, ReadMembers, FindBackend, SaveLast,
               Choose, FallBack, ReadDefault, ReadFails, Answer, Fail
        <5>4. eval'[e] # eval[e]
            BY <3>1, <3>4 DEF Running
        <5>5. ~Others
            BY <5>4 DEF Others, ChangeBackend, RemoveBackend, ChangeGroup,
               ChangeMembers, Change
        <5> QED  BY <1>2, <5>1, <5>2, <5>3, <5>4, <5>5 DEF WNext, Next
      <4>2. eval'[e] = Fresh(want, "groups", "none", NoGroup, NoBackend)
          BY <2>1, <4>1, BecomeIs DEF Receive
      <4>3. Sourced(eval'[e], window'[e]) /\ Kept(eval'[e], window'[e])
          BY <4>2, FreshIsFine
      <4> QED  BY <3>2, <4>3
    <3> QED  BY <3>3, <3>4
  <2> QED  BY <2>2, <2>3 DEF WindowInv
<1> QED  BY <1>1, <1>2

LEMMA WindowInvHolds == WSpec => []WindowInv
BY WindowInit, WindowNext, PTL DEF WSpec

-----------------------------------------------------------------------------
(* The three ways in which an evaluation that can reach its tables is      *)
(* answered: it chooses, it has already fallen back, or there is nothing   *)
(* to fall back to.                                                        *)
Chosen(e) ==
    LET r == eval[e] IN
    /\ r.phase = "find" /\ r.at > Len(r.eligible) /\ r.picked # NothingPicked
    /\ eval'[e].reply = "ok"
    /\ eval'[e].group = r.eligible[1].id
    /\ eval'[e].backend = r.picked[r.eligible[1].id]

Exhausted(e) ==
    LET r == eval[e] IN
    /\ r.phase = "find" /\ r.at > Len(r.eligible)
    /\ r.picked = NothingPicked /\ r.fallback

Undefaulted(e) == eval[e].phase = "default" /\ group[Default] = NoGroup

LEMMA Answering ==
    ASSUME WindowInv, [WNext]_wvars, NEW e \in Evals, Answers(e)
    PROVE  /\ Fine(e, window[e])
           /\ \/ Chosen(e)
              \/ /\ eval'[e].reply = "error"
                 /\ Exhausted(e) \/ Undefaulted(e)
              \/ eval'[e].reply = "failed"
<1>1. Running(e) /\ eval'[e].phase = "done" /\ eval'[e] # eval[e]
    BY DEF Answers, Running
<1>2. TypeInv /\ Fine(e, window[e]) /\ eval[e] \in Eval
    BY <1>1 DEF WindowInv, Fine, TypeInv, TypeOK
<1>3. Next
    BY <1>1 DEF WNext, wvars
<1>4. Step(e)
  <2>1. ~Others
      BY <1>1 DEF Others, ChangeBackend, RemoveBackend, ChangeGroup,
         ChangeMembers, Change
  <2>2. \A f \in Evals \ {e} : \A r : ~Become(f, r)
      BY <1>1, <1>2, BecomeIs
  <2>3. \A f \in Evals : Step(f) \/ (\E want \in Wants : Receive(f, want))
           => \E r : Become(f, r)
      BY DEF Step, Receive, ReadGroups, ReadMembers, FindBackend, SaveLast,
         Choose, FallBack, ReadDefault, ReadFails, Answer, Fail
  <2>4. ~\E want \in Wants : Receive(e, want)
      BY <1>1 DEF Receive, Running
  <2> QED  BY <1>3, <2>1, <2>2, <2>3, <2>4 DEF Next
(* Only these records end an evaluation.                                   *)
<1>5. \A r : Become(e, r) => r.phase = "done"
    BY <1>1, <1>2, BecomeIs
<1>6. ~ReadGroups(e)
    <2>1. \A l : [eval[e] EXCEPT !.phase = "members", !.eligible = l].phase = "members"
        BY <1>2 DEF Eval
    <2> QED  BY <2>1, <1>5 DEF ReadGroups
<1>7. ~ReadMembers(e)
    <2>1. \A l : [eval[e] EXCEPT !.phase = "find", !.eligible = l].phase = "find"
        BY <1>2 DEF Eval
    <2> QED  BY <2>1, <1>5 DEF ReadMembers
<1>8. ~FindBackend(e)
    <2>1. [eval[e] EXCEPT !.at = @ + 1].phase = eval[e].phase
        BY <1>2 DEF Eval
    <2>2. \A g, b : [eval[e] EXCEPT !.phase = "save", !.picked[g] = b].phase = "save"
        BY <1>2 DEF Eval
    <2> QED  BY <2>1, <2>2, <1>1, <1>5 DEF FindBackend, Running
<1>9. ~SaveLast(e)
    <2>1. [eval[e] EXCEPT !.phase = "find", !.at = @ + 1].phase = "find"
        BY <1>2 DEF Eval
    <2> QED  BY <2>1, <1>5 DEF SaveLast
<1>10. Choose(e) => Chosen(e)
    BY <1>2, AnswerIs DEF Choose, Chosen
<1>11. Fail(e) => eval'[e].reply = "error"
    BY <1>2, AnswerIs DEF Fail
<1>12. FallBack(e) => Exhausted(e) /\ Fail(e)
    <2>1. ~Become(e, [eval[e] EXCEPT !.phase = "default"])
        BY <1>2, <1>5 DEF Eval
    <2> QED  BY <2>1 DEF FallBack, Exhausted
<1>13. ReadDefault(e) => Undefaulted(e) /\ Fail(e)
    <2>1. \A l : [eval[e] EXCEPT !.phase = "members", !.fallback = TRUE,
                                 !.eligible = l, !.at = 1].phase = "members"
        BY <1>2 DEF Eval
    <2> QED  BY <2>1, <1>5 DEF ReadDefault, Undefaulted
<1>14. ReadFails(e) => eval'[e].reply = "failed"
    BY <1>2, AnswerIs DEF ReadFails
<1> QED
    BY <1>2, <1>4, <1>6, <1>7, <1>8, <1>9, <1>10, <1>11, <1>12, <1>13, <1>14 DEF Step

(* An evaluation that chooses has an eligible group to choose.             *)
LEMMA ChoiceIsEligible ==
    ASSUME TypeInv, NEW e \in Evals, Chosen(e)
    PROVE  1 \in DOMAIN eval[e].eligible /\ eval[e].eligible[1].id \in Groups
<1>1. eval[e] \in Eval /\ WellPlaced(eval[e])
    BY DEF TypeInv, TypeOK
<1>2. eval[e].eligible \in Seq(Copy) /\ eval[e].eligible # <<>>
    BY <1>1 DEF Eval, WellPlaced, Chosen
<1>3. 1 \in DOMAIN eval[e].eligible /\ eval[e].eligible[1] \in Copy
    BY <1>2
<1> QED  BY <1>3 DEF Copy

(* What was wanted and kept has been picked for by the time all eligible   *)
(* groups have had their turn.                                             *)
LEMMA KeptIsPicked ==
    ASSUME TypeInv, NEW e \in Evals, NEW w, Fine(e, w), NEW gb \in w.live,
           eval[e].phase = "find", eval[e].at > Len(eval[e].eligible),
           Wanted(eval[e], w, gb) \/ (eval[e].fallback /\ gb[1] = Default)
    PROVE  gb[1] \in Groups /\ eval[e].picked[gb[1]] # NoBackend
           /\ eval[e].picked # NothingPicked
<1> DEFINE r == eval[e]
<1>1. r.eligible \in Seq(Copy) /\ r.at \in Nat
    BY DEF TypeInv, TypeOK, Eval
<1>2. \A i \in DOMAIN r.eligible : i < r.at
    BY <1>1
<1>3. PICK i \in DOMAIN r.eligible : InHand(r, i, gb)
    BY DEF Fine, Kept
<1>4. gb[1] \in Groups
    BY DEF Fine, Observed, Serving, Mapped
<1>5. r.picked[gb[1]] # NoBackend
    BY <1>2, <1>3 DEF InHand
<1> QED  BY <1>4, <1>5 DEF NothingPicked

(* An answered backend was mapped to the answered group, and was enabled   *)
(* and healthy, at moments of the evaluation, and the group was asked for  *)
(* or is the default one: whatever changes the tables between the          *)
(* statements of EvaluateBackendForGroups.                                 *)
THEOREM AnswerWasServingHolds == WSpec => AnswerWasServing
<1>1. WindowInv /\ [WNext]_wvars =>
        [\A e \in Evals :
          LET r == eval'[e] IN
          Answers(e) /\ r.reply = "ok" =>
            /\ r.group \in eval[e].want \cup {Default}
            /\ r.backend # NoBackend =>
                 /\ r.backend \in window[e].seen
                 /\ <<r.group, r.backend>> \in window[e].mapped]_wvars
  <2> SUFFICES ASSUME WindowInv, [WNext]_wvars, NEW e \in Evals,
                      Answers(e), eval'[e].reply = "ok"
               PROVE  /\ eval'[e].group \in eval[e].want \cup {Default}
                      /\ eval'[e].backend # NoBackend =>
                           /\ eval'[e].backend \in window[e].seen
                           /\ <<eval'[e].group, eval'[e].backend>> \in window[e].mapped
      OBVIOUS
  <2>1. Fine(e, window[e]) /\ Chosen(e)
      BY Answering
  <2>2. 1 \in DOMAIN eval[e].eligible /\ eval[e].eligible[1].id \in Groups
      BY <2>1, ChoiceIsEligible DEF WindowInv
  <2> QED  BY <2>1, <2>2 DEF Fine, Sourced, Chosen
<1> QED  BY <1>1, WindowInvHolds, PTL DEF WSpec, AnswerWasServing

(* A requested group that stays enabled and keeps an active member all     *)
(* along is never given up for the default group, and then only a failing  *)
(* statement makes the evaluation fail: no interleaving of the reads with  *)
(* changes to other rows, or to other members of the group, matters.       *)
THEOREM NoNeedlessFallbackHolds == WSpec => NoNeedlessFallback
<1>1. WindowInv /\ [WNext]_wvars =>
        [\A e \in Evals :
          LET r == eval'[e] IN
          Answers(e) /\ AlwaysServed(e, eval[e].want \cap window[e].on) =>
            /\ r.reply = "ok" => r.group \in eval[e].want
            /\ r.reply # "error"]_wvars
  <2> SUFFICES ASSUME WindowInv, [WNext]_wvars, NEW e \in Evals, Answers(e),
                      AlwaysServed(e, eval[e].want \cap window[e].on)
               PROVE  /\ eval'[e].reply = "ok" => eval'[e].group \in eval[e].want
                      /\ eval'[e].reply # "error"
      OBVIOUS
  <2> DEFINE w == window[e]
  <2>1. TypeInv /\ Fine(e, w)
      BY Answering DEF WindowInv
  <2>2. PICK gb \in w.live : Wanted(eval[e], w, gb)
      BY DEF AlwaysServed, Wanted
  <2>3. ~eval[e].fallback /\ eval[e].phase # "default"
      BY <2>1, <2>2 DEF Fine, Kept
  <2>4. CASE Chosen(e)
    <3>1. 1 \in DOMAIN eval[e].eligible
        BY <2>1, <2>4, ChoiceIsEligible
    <3>2. eval[e].eligible[1].id \in eval[e].want
        BY <2>1, <2>3, <3>1 DEF Fine, Sourced
    <3> QED  BY <2>4, <3>2 DEF Chosen
  <2>5. ~Exhausted(e) /\ ~Undefaulted(e)
      BY <2>3 DEF Exhausted, Undefaulted
  <2> QED  BY <2>4, <2>5, Answering
<1> QED  BY <1>1, WindowInvHolds, PTL DEF WSpec, NoNeedlessFallback

(* A default group with an active member all along, enabled or not, makes  *)
(* every evaluation succeed unless a statement fails.                      *)
THEOREM DefaultCatchesAllHolds == WSpec => DefaultCatchesAll
<1>1. WindowInv /\ [WNext]_wvars =>
        [\A e \in Evals :
          Answers(e) /\ AlwaysServed(e, {Default}) =>
            eval'[e].reply # "error"]_wvars
  <2> SUFFICES ASSUME WindowInv, [WNext]_wvars, NEW e \in Evals, Answers(e),
                      AlwaysServed(e, {Default})
               PROVE  eval'[e].reply # "error"
      OBVIOUS
  <2> DEFINE w == window[e]
  <2>1. TypeInv /\ Rooted /\ Fine(e, w)
      BY Answering DEF WindowInv
  <2>2. PICK gb \in w.live : gb[1] = Default
      BY DEF AlwaysServed
  <2>3. ~Exhausted(e)
      BY <2>1, <2>2, KeptIsPicked DEF Exhausted
  <2>4. ~Undefaulted(e)
    <3>1. gb[2] \in members[Default]
        BY <2>1, <2>2 DEF Fine, Observed, Serving, Mapped
    <3> QED  BY <2>1, <3>1, RoutingAssumption DEF Undefaulted, Rooted
  <2> QED  BY <2>3, <2>4, Answering DEF Chosen
<1> QED  BY <1>1, WindowInvHolds, PTL DEF WSpec, DefaultCatchesAll

(* An answer without a backend comes only of asking for several groups:    *)
(* the first has nothing active and another, which was seen to, has.       *)
THEOREM EmptyOnlyForSeveralHolds == WSpec => EmptyOnlyForSeveral
<1>1. WindowInv /\ [WNext]_wvars =>
        [\A e \in Evals :
          Answers(e) /\ eval'[e].reply = "ok" /\ eval'[e].backend = NoBackend =>
            \E gb \in window[e].mapped :
                /\ gb[1] \in eval[e].want \ {eval'[e].group}
                /\ gb[2] \in window[e].seen]_wvars
  <2> SUFFICES ASSUME WindowInv, [WNext]_wvars, NEW e \in Evals, Answers(e),
                      eval'[e].reply = "ok", eval'[e].backend = NoBackend
               PROVE  \E gb \in window[e].mapped :
                        /\ gb[1] \in eval[e].want \ {eval'[e].group}
                        /\ gb[2] \in window[e].seen
      OBVIOUS
  <2> DEFINE r == eval[e]
             w == window[e]
  <2>1. TypeInv /\ Fine(e, w) /\ Chosen(e)
      BY Answering DEF WindowInv
  <2>2. 1 \in DOMAIN r.eligible
      BY <2>1, ChoiceIsEligible
  <2>3. PICK g \in Groups : r.picked[g] # NoBackend
    <3>1. r.picked \in [Groups -> BackendIds \cup {NoBackend}]
        BY <2>1 DEF TypeInv, TypeOK, Eval
    <3>2. r.picked # [x \in Groups |-> NoBackend]
        BY <2>1 DEF Chosen, NothingPicked
    <3> QED  BY <3>1, <3>2
  <2>4. /\ r.picked[g] \in w.seen /\ <<g, r.picked[g]>> \in w.mapped
        /\ \E i \in DOMAIN r.eligible : r.eligible[i].id = g
      BY <2>1, <2>3 DEF Fine, Sourced
  <2>5. g # eval'[e].group
      BY <2>1, <2>3 DEF Chosen
  <2>6. g \in r.want
    <3>1. \A i \in DOMAIN r.eligible :
             r.eligible[i].id \in IF r.fallback THEN {Default} ELSE r.want
        BY <2>1 DEF Fine, Sourced
    <3>2. r.eligible[1].id # g
        BY <2>1, <2>5 DEF Chosen
    <3> QED  BY <2>2, <2>4, <3>1, <3>2
  <2> QED  BY <2>4, <2>5, <2>6
<1> QED  BY <1>1, WindowInvHolds, PTL DEF WSpec, EmptyOnlyForSeveral

-----------------------------------------------------------------------------
(* A non-empty set of numbers has a least one.                             *)
LEMMA LeastExists ==
    ASSUME NEW S, S \subseteq Nat, S # {}
    PROVE  \E m \in S : \A k \in S : m <= k
<1>1. PICK m \in S : \A k \in S : ~(<<k, m>> \in OpToRel(<, Nat))
    BY WFMin, NatLessThanWellFounded
<1>2. \A k \in S : ~(k < m)
    BY <1>1 DEF OpToRel
<1> QED  BY <1>2

(* A finite set of numbers can be sorted: an element's place is the number *)
(* of those that are not above it.                                         *)
LEMMA SortedEnumeration ==
    ASSUME NEW A, IsFiniteSet(A), A \subseteq Nat
    PROVE  \E s \in [1..Cardinality(A) -> A] :
              /\ \A i, j \in 1..Cardinality(A) : i < j => s[i] < s[j]
              /\ \A x \in A : \E i \in 1..Cardinality(A) : s[i] = x
<1> DEFINE n == Cardinality(A)
           Below(x) == {y \in A : y <= x}
           rank == [x \in A |-> Cardinality(Below(x))]
<1>1. n \in Nat
    BY FS_CardinalityType
<1>2. \A x \in A : /\ IsFiniteSet(Below(x)) /\ Cardinality(Below(x)) \in Nat
                   /\ Cardinality(Below(x)) <= n
    BY FS_Subset, FS_CardinalityType
<1>3. \A x \in A : Cardinality(Below(x)) # 0
    BY <1>2, FS_EmptySet
<1>4. rank \in [A -> 1..n]
  <2> HIDE DEF Below, n
  <2>1. \A x \in A : Cardinality(Below(x)) \in 1..n
      BY <1>1, <1>2, <1>3
  <2> QED  BY <2>1
<1>5. \A x, y \in A : x < y => rank[x] < rank[y]
  <2> SUFFICES ASSUME NEW x \in A, NEW y \in A, x < y
               PROVE  Cardinality(Below(x)) < Cardinality(Below(y))
      OBVIOUS
  <2>1. Below(x) \in SUBSET Below(y) /\ y \in Below(y) /\ y \notin Below(x)
    <3>1. \A z \in A : z \in Nat
        OBVIOUS
    <3>2. \A z \in A : z <= x => z <= y
        BY <3>1
    <3>3. y <= y /\ ~(y <= x)
        BY <3>1
    <3> QED  BY <3>2, <3>3
  <2>2. /\ Cardinality(Below(x)) <= Cardinality(Below(y))
        /\ Cardinality(Below(x)) # Cardinality(Below(y))
      BY <1>2, <2>1, FS_Subset
  <2> HIDE DEF Below
  <2> QED  BY <1>2, <2>2
<1> HIDE DEF rank
<1>6. \A x, y \in A : rank[x] = rank[y] => x = y
  <2> SUFFICES ASSUME NEW x \in A, NEW y \in A, rank[x] = rank[y], x # y
               PROVE  FALSE
      OBVIOUS
  <2>1. x < y \/ y < x
      OBVIOUS
  <2>2. rank[x] \in Nat /\ rank[y] \in Nat
      BY <1>4
  <2> QED  BY <1>5, <2>1, <2>2
<1>7. rank \in Surjection(A, 1..n)
  <2>1. IsFiniteSet(1..n) /\ Cardinality(1..n) = n
      BY <1>1, FS_Interval
  <2> HIDE DEF n
  <2>2. Cardinality(A) = Cardinality(1..n)
      BY <2>1 DEF n
  <2>3. rank \in Injection(A, 1..n)
      BY <1>4, <1>6 DEF Injection, IsInjective
  <2> QED  BY <2>1, <2>2, <2>3, FS_Injection
<1>8. \A i \in 1..n : \E x \in A : rank[x] = i
    BY <1>7 DEF Surjection
<1> DEFINE s == [i \in 1..n |-> CHOOSE x \in A : rank[x] = i]
<1>9. \A i \in 1..n : s[i] \in A /\ rank[s[i]] = i
    BY <1>8
<1>10. s \in [1..n -> A]
    BY <1>9
<1> HIDE DEF s, n
<1>11. \A i, j \in 1..n : i < j => s[i] < s[j]
  <2> SUFFICES ASSUME NEW i \in 1..n, NEW j \in 1..n, i < j, ~(s[i] < s[j])
               PROVE  FALSE
      OBVIOUS
  <2>1. s[i] \in Nat /\ s[j] \in Nat
      BY <1>9
  <2>2. s[i] = s[j] \/ s[j] < s[i]
      BY <2>1
  <2>3. rank[s[i]] = i /\ rank[s[j]] = j /\ s[i] \in A /\ s[j] \in A
      BY <1>9
  <2>4. ~(j < i) /\ i # j
      BY <1>1
  <2> QED  BY <1>5, <2>2, <2>3, <2>4
<1>12. \A x \in A : rank[x] \in 1..n /\ s[rank[x]] = x
  <2> SUFFICES ASSUME NEW x \in A  PROVE rank[x] \in 1..n /\ s[rank[x]] = x
      OBVIOUS
  <2>1. rank[x] \in 1..n
      BY <1>4
  <2>2. s[rank[x]] \in A /\ rank[s[rank[x]]] = rank[x]
      BY <1>9, <2>1
  <2> QED  BY <1>6, <2>1, <2>2
<1> QED  BY <1>10, <1>11, <1>12 DEF n

(* There is one x in a list only if it is at one place; at two, twice.     *)
LEMMA OneOccurrence ==
    ASSUME NEW s, NEW x, NEW k \in DOMAIN s,
           \A i \in DOMAIN s : s[i] = x <=> i = k
    PROVE  Occurrences(s, x) = 1
<1>1. {i \in DOMAIN s : s[i] = x} = {k}
    OBVIOUS
<1> QED  BY <1>1, FS_Singleton DEF Occurrences

LEMMA TwoOccurrences ==
    ASSUME NEW s, NEW x, NEW k \in DOMAIN s, NEW m \in DOMAIN s, k # m,
           \A i \in DOMAIN s : s[i] = x <=> i = k \/ i = m
    PROVE  Occurrences(s, x) = 2
<1>1. {i \in DOMAIN s : s[i] = x} = {k} \cup {m}
    OBVIOUS
<1>2. IsFiniteSet({k}) /\ Cardinality({k}) = 1 /\ m \notin {k}
    BY FS_Singleton
<1>3. Cardinality({k} \cup {m}) = Cardinality({k}) + 1
    BY <1>2, FS_AddElement
<1> QED  BY <1>1, <1>2, <1>3 DEF Occurrences

(* The sorted list that round_robin walks exists, with the last routed     *)
(* backend twice if it is active.                                          *)
LEMMA SortedWithLastExists ==
    ASSUME NEW active, IsFiniteSet(active), active \subseteq Nat,
           NEW last \in Nat
    PROVE  SortedWithLast(active, last) # {}
<1> DEFINE n == Cardinality(active)
<1>1. n \in Nat
    BY FS_CardinalityType
<1>2. CASE last \notin active
  <2> DEFINE A == active \cup {last}
  <2>1. IsFiniteSet(A) /\ Cardinality(A) = n + 1
      BY <1>2, FS_AddElement
  <2>2. PICK s \in [1..Cardinality(A) -> A] :
              /\ \A i, j \in 1..Cardinality(A) : i < j => s[i] < s[j]
              /\ \A x \in A : \E i \in 1..Cardinality(A) : s[i] = x
      BY <2>1, SortedEnumeration
  <2>3. \A x \in A : Occurrences(s, x) = 1
    <3> SUFFICES ASSUME NEW x \in A  PROVE Occurrences(s, x) = 1
        OBVIOUS
    <3> HIDE DEF n
    <3>1. DOMAIN s = 1..(n + 1) /\ \A i \in 1..(n+1) : s[i] \in Nat
        BY <2>1
    <3>2. PICK k \in 1..(n + 1) : s[k] = x
        BY <2>1, <2>2
    <3>3. \A i \in 1..(n + 1) : i # k => s[i] # x
      <4> SUFFICES ASSUME NEW i \in 1..(n + 1), i # k, s[i] = x PROVE FALSE
          OBVIOUS
      <4>1. i < k \/ k < i
          OBVIOUS
      <4>2. s[i] < s[k] \/ s[k] < s[i]
          BY <4>1, <2>1, <2>2
      <4> QED  BY <4>2, <3>2, <3>1
    <3> QED  BY <3>1, <3>2, <3>3, OneOccurrence
  <2>4. IsSorted(s)
    <3> SUFFICES ASSUME NEW i \in DOMAIN s, NEW j \in DOMAIN s, i < j
                 PROVE  s[i] <= s[j]
        BY DEF IsSorted
    <3> HIDE DEF n
    <3>1. i \in 1..(n + 1) /\ j \in 1..(n + 1)
        BY <2>1
    <3>2. s[i] \in Nat /\ s[j] \in Nat /\ s[i] < s[j]
        BY <2>1, <2>2, <3>1
    <3> QED  BY <3>2
  <2>5. s \in SortedWithLast(active, last)
      BY <1>2, <2>1, <2>3, <2>4 DEF SortedWithLast
  <2> QED  BY <2>5
<1>3. CASE last \in active
  <2>1. PICK t \in [1..n -> active] :
              /\ \A i, j \in 1..n : i < j => t[i] < t[j]
              /\ \A x \in active : \E i \in 1..n : t[i] = x
      BY SortedEnumeration
  <2> HIDE DEF n
  <2>2. PICK k \in 1..n : t[k] = last
      BY <1>3, <2>1
  <2> DEFINE s == [i \in 1..(n + 1) |-> IF i <= k THEN t[i] ELSE t[i - 1]]
  <2>3. \A i \in 1..(n + 1) :
           LET p == IF i <= k THEN i ELSE i - 1
           IN  p \in 1..n /\ s[i] = t[p] /\ s[i] \in active
      BY <1>1
  <2>4. s \in [1..(n + 1) -> active \cup {last}] /\ DOMAIN s = 1..(n + 1)
      BY <2>3
  <2> HIDE DEF s
  <2>5. \A i, j \in 1..n : t[i] = t[j] => i = j
    <3> SUFFICES ASSUME NEW i \in 1..n, NEW j \in 1..n, i # j, t[i] = t[j]
                 PROVE  FALSE
        OBVIOUS
    <3>1. i < j \/ j < i
        BY <1>1
    <3>2. t[i] \in Nat /\ t[j] \in Nat
        BY <2>1
    <3> QED  BY <2>1, <3>1, <3>2
  <2>6. IsSorted(s)
    <3> SUFFICES ASSUME NEW i \in 1..(n + 1), NEW j \in 1..(n + 1), i < j
                 PROVE  s[i] <= s[j]
        BY <2>4 DEF IsSorted
    <3> DEFINE p == IF i <= k THEN i ELSE i - 1
               q == IF j <= k THEN j ELSE j - 1
    <3>1. p \in 1..n /\ q \in 1..n /\ s[i] = t[p] /\ s[j] = t[q] /\ p <= q
        BY <2>3
    <3>2. t[p] \in Nat /\ t[q] \in Nat /\ (p < q => t[p] < t[q])
        BY <2>1, <3>1
    <3>3. CASE p < q
        BY <3>1, <3>2, <3>3
    <3>4. CASE p = q
        BY <3>1, <3>2, <3>4
    <3> QED  BY <3>1, <3>3, <3>4
  <2>7. Occurrences(s, last) = 2
    <3>1. k \in 1..(n + 1) /\ k + 1 \in 1..(n + 1) /\ k # k + 1
        BY <1>1
    <3>2. \A i \in 1..(n + 1) : s[i] = last <=> i = k \/ i = k + 1
      <4> SUFFICES ASSUME NEW i \in 1..(n + 1)
                   PROVE  s[i] = last <=> i = k \/ i = k + 1
          OBVIOUS
      <4>1. CASE i <= k
          BY <2>2, <2>3, <2>5, <4>1
      <4>2. CASE i > k
        <5>1. i - 1 \in 1..n /\ s[i] = t[i - 1]
            BY <2>3, <4>2
        <5>2. s[i] = last <=> i - 1 = k
            BY <2>2, <2>5, <5>1
        <5> QED  BY <5>2, <4>2
      <4> QED  BY <4>1, <4>2
    <3>3. /\ k \in DOMAIN s /\ k + 1 \in DOMAIN s
          /\ \A i \in DOMAIN s : s[i] = last <=> i = k \/ i = k + 1
        BY <2>4, <3>1, <3>2
    <3> QED  BY <3>1, <3>3, TwoOccurrences
  <2>8. ASSUME NEW b \in active \ {last}  PROVE Occurrences(s, b) = 1
    <3>1. PICK m \in 1..n : t[m] = b
        BY <2>1
    <3>2. m # k
        BY <2>2, <3>1
    <3> DEFINE at == IF m <= k THEN m ELSE m + 1
    <3>3. at \in 1..(n + 1)
        BY <1>1
    <3>4. \A i \in 1..(n + 1) : s[i] = b <=> i = at
      <4> SUFFICES ASSUME NEW i \in 1..(n + 1)  PROVE s[i] = b <=> i = at
          OBVIOUS
      <4>1. CASE i <= k
        <5>1. i \in 1..n /\ s[i] = t[i]
            BY <2>3, <4>1
        <5>2. s[i] = b <=> i = m
            BY <2>5, <3>1, <5>1
        <5> QED  BY <5>2, <4>1, <3>2
      <4>2. CASE i > k
        <5>1. i - 1 \in 1..n /\ s[i] = t[i - 1]
            BY <2>3, <4>2
        <5>2. s[i] = b <=> i - 1 = m
            BY <2>5, <3>1, <5>1
        <5> QED  BY <5>2, <4>2, <3>2
      <4> QED  BY <4>1, <4>2
    <3> HIDE DEF at
    <3>5. at \in DOMAIN s /\ \A i \in DOMAIN s : s[i] = b <=> i = at
        BY <2>4, <3>3, <3>4
    <3> QED  BY <3>5, OneOccurrence
  <2>9. s \in SortedWithLast(active, last)
      BY <1>3, <2>4, <2>6, <2>7, <2>8 DEF SortedWithLast, n
  <2> QED  BY <2>9
<1> QED  BY <1>2, <1>3

(* There is at most one successor.                                         *)
LEMMA SuccessorIsUnique ==
    ASSUME NEW active \in SUBSET Nat, NEW last \in Nat, NEW b, NEW c,
           IsSuccessor(b, active, last), IsSuccessor(c, active, last)
    PROVE  b = c
<1>1. b \in active /\ c \in active /\ b \in Nat /\ c \in Nat
    BY DEF IsSuccessor
<1>2. CASE b > last /\ \A x \in active : x <= last \/ b <= x
    BY <1>1, <1>2 DEF IsSuccessor
<1>3. CASE \A x \in active : x <= last /\ b <= x
    BY <1>1, <1>3 DEF IsSuccessor
<1> QED  BY <1>2, <1>3 DEF IsSuccessor

LEMMA RotationType == RSpec => [](TypeInv /\ Rooted)
<1>1. RInit => TypeInv /\ Rooted
    BY TypeInit DEF RInit, Init, Rooted
<1>2. TypeInv /\ Rooted /\ [RNext]_rvars => TypeInv' /\ Rooted'
  <2>1. [RNext]_rvars => [Next]_vars
      BY DEF RNext, rvars, vars
  <2> QED  BY <2>1, TypeNext, RootedNext
<1> QED  BY <1>1, <1>2, PTL DEF RSpec

(* round_robin goes to the next active backend in cyclic order, and to no  *)
(* other.                                                                  *)
THEOREM RoundRobinFollowsHolds == RSpec => []RoundRobinFollows
<1>1. TypeInv /\ Rooted => RoundRobinFollows
  <2> SUFFICES ASSUME TypeInv, Rooted, NEW g \in Groups,
                      Active(members[g]) # {}
               PROVE  Picks("round_robin", Active(members[g]), group[g].last, Load)
                        = {b \in Active(members[g]) :
                             IsSuccessor(b, Active(members[g]), group[g].last)}
      BY DEF RoundRobinFollows
  <2> DEFINE active == Active(members[g])
             last == group[g].last
  <2>1. active \in SUBSET BackendIds /\ IsFiniteSet(active) /\ active \subseteq Nat
      BY RoutingAssumption, FS_Subset DEF Active, TypeInv, TypeOK
  <2>2. last \in Nat
    <3>1. group[g] \in GroupRow
        BY DEF TypeInv, TypeOK, Rooted, Active
    <3>2. last \in BackendIds \cup {NoBackend}
        BY <3>1 DEF GroupRow
    <3> HIDE DEF last
    <3> QED  BY <3>2, RoutingAssumption DEF NoBackend
  <2>3. \A s \in SortedWithLast(active, last) :
            IsSuccessor(After(s, last), active, last)
      BY <2>1, <2>2, RoundRobinIsSuccessor
  <2>4. PICK s \in SortedWithLast(active, last) : TRUE
      BY <2>1, <2>2, SortedWithLastExists
  <2>5. \A b : IsSuccessor(b, active, last) => b \in active /\ b = After(s, last)
      BY <2>1, <2>2, <2>3, <2>4, SuccessorIsUnique DEF IsSuccessor
  <2>6. Picks("round_robin", active, last, Load)
           = {After(x, last) : x \in SortedWithLast(active, last)}
      BY DEF Picks
  <2> HIDE DEF active, last
  <2>7. {After(x, last) : x \in SortedWithLast(active, last)}
           = {b \in active : IsSuccessor(b, active, last)}
      BY <2>3, <2>4, <2>5
  <2> QED  BY <2>6, <2>7 DEF active, last
<1> QED  BY <1>1, RotationType, PTL

(* Where the scan of least_load stands after i backends: at the first of   *)
(* those of least load.                                                    *)
FirstLeast(s, load, i, j) ==
    /\ j \in 1..i
    /\ \A k \in 1..i : load[s[j]] <= load[s[k]]
    /\ \A k \in 1..i : load[s[k]] = load[s[j]] => j <= k

LEMMA FirstLeastExists ==
    ASSUME NEW n \in Nat, NEW s, NEW load, \A i \in 1..n : load[s[i]] \in Nat,
           NEW i \in 1..n
    PROVE  \E j \in 1..i : FirstLeast(s, load, i, j)
<1> DEFINE L == {load[s[k]] : k \in 1..i}
<1>1. \A k \in 1..i : k \in 1..n /\ load[s[k]] \in Nat
    OBVIOUS
<1>2. L \subseteq Nat /\ L # {}
  <2>1. i \in 1..i
      OBVIOUS
  <2> QED  BY <1>1, <2>1
<1>3. PICK l \in L : \A x \in L : l <= x
    BY <1>2, LeastExists
<1> DEFINE K == {k \in 1..i : load[s[k]] = l}
<1>4. K \subseteq Nat /\ K # {}
    BY <1>3
<1>5. PICK j \in K : \A k \in K : j <= k
    BY <1>4, LeastExists
<1> QED  BY <1>3, <1>5 DEF FirstLeast

LEMMA FirstLeastIsUnique ==
    ASSUME NEW s, NEW load, NEW i \in Nat, \A k \in 1..i : load[s[k]] \in Nat,
           NEW j, FirstLeast(s, load, i, j), NEW m, FirstLeast(s, load, i, m)
    PROVE  j = m
<1>1. j \in 1..i /\ m \in 1..i /\ load[s[j]] = load[s[m]]
    BY DEF FirstLeast
<1>2. j <= m /\ m <= j
    BY <1>1 DEF FirstLeast
<1> QED  BY <1>1, <1>2

(* One more backend moves it only if its load is strictly smaller.         *)
LEMMA FirstLeastStep ==
    ASSUME NEW n \in Nat, NEW s, NEW load, \A i \in 1..n : load[s[i]] \in Nat,
           NEW i \in 2..n, NEW j, FirstLeast(s, load, i - 1, j)
    PROVE  FirstLeast(s, load, i, IF load[s[i]] < load[s[j]] THEN i ELSE j)
<1>1. i \in 1..n /\ i - 1 \in 1..n /\ j \in 1..(i - 1) /\ j \in 1..n
    BY DEF FirstLeast
<1>2. \A k \in 1..i : k \in 1..(i - 1) \/ k = i
    BY <1>1
<1>3. \A k \in 1..i : load[s[k]] \in Nat
    BY <1>1
<1>4. CASE load[s[i]] < load[s[j]]
  <2>1. \A k \in 1..(i - 1) : load[s[i]] < load[s[k]]
      BY <1>1, <1>3, <1>4 DEF FirstLeast
  <2> QED  BY <1>1, <1>2, <1>3, <1>4, <2>1 DEF FirstLeast
<1>5. CASE ~(load[s[i]] < load[s[j]])
  <2>1. load[s[j]] <= load[s[i]] /\ j <= i
      BY <1>1, <1>3, <1>5
  <2> QED  BY <1>1, <1>2, <1>3, <1>5, <2>1 DEF FirstLeast
<1> QED  BY <1>4, <1>5

(* So the scan of a whole list returns the first backend of least load.    *)
LEMMA ScanReturnsFirstLeast ==
    ASSUME NEW n \in Nat \ {0}, NEW A, NEW s \in [1..n -> A], NEW load,
           \A i \in 1..n : load[s[i]] \in Nat
    PROVE  \E j \in 1..n : /\ FirstLeast(s, load, n, j)
                           /\ LeastLoaded(s, load) = s[j]
<1> DEFINE Next1(f, i) == IF i = 1 THEN s[1]
                          ELSE IF load[s[i]] < load[f[i - 1]] THEN s[i] ELSE f[i - 1]
           at == [i \in 1..n |-> CHOOSE j \in 1..i : FirstLeast(s, load, i, j)]
           B == [i \in 1..n |-> s[at[i]]]
           Recurs(f) == f = [i \in 1..n |-> Next1(f, i)]
           best == CHOOSE f : Recurs(f)
<1>1. DOMAIN s = 1..n /\ Len(s) = n
    OBVIOUS
<1>2. \A i \in 1..n : at[i] \in 1..i /\ FirstLeast(s, load, i, at[i])
    BY FirstLeastExists
<1> HIDE DEF at
<1>3. Recurs(B)
  <2> SUFFICES ASSUME NEW i \in 1..n  PROVE s[at[i]] = Next1(B, i)
      OBVIOUS
  <2>1. CASE i = 1
    <3>1. at[1] \in 1..1
        BY <1>2, <2>1
    <3>2. at[i] = 1
        BY <2>1, <3>1
    <3> QED  BY <2>1, <3>2
  <2>2. CASE i # 1
    <3>1. i \in 2..n /\ i - 1 \in 1..n
        BY <2>2
    <3> DEFINE m == IF load[s[i]] < load[s[at[i - 1]]] THEN i ELSE at[i - 1]
    <3>2. FirstLeast(s, load, i, m)
        BY <1>2, <3>1, FirstLeastStep
    <3>3. at[i] = m
      <4>1. \A k \in 1..i : load[s[k]] \in Nat
          OBVIOUS
      <4>2. i \in Nat /\ FirstLeast(s, load, i, at[i])
          BY <1>2
      <4> HIDE DEF m, at
      <4> QED  BY <3>2, <4>1, <4>2, FirstLeastIsUnique
    <3>4. B[i - 1] = s[at[i - 1]]
        BY <3>1
    <3> HIDE DEF at, B
    <3> QED  BY <2>2, <3>3, <3>4
  <2> QED  BY <2>1, <2>2
<1> HIDE DEF B
<1>4. Recurs(best)
    BY <1>3
<1> HIDE DEF best
<1>5. best = B
  <2> DEFINE D == {i \in 1..n : best[i] # B[i]}
  <2>1. D = {}
    <3> SUFFICES ASSUME D # {}  PROVE FALSE
        OBVIOUS
    <3>1. PICK i \in D : \A k \in D : i <= k
      <4>1. D \subseteq Nat
          OBVIOUS
      <4> HIDE DEF D
      <4> QED  BY <4>1, LeastExists
    <3>2. best[i] = Next1(best, i) /\ B[i] = Next1(B, i) /\ i \in 1..n
        BY <1>3, <1>4
    <3>3. i # 1
        BY <3>1, <3>2
    <3>4. i - 1 \in 1..n /\ i - 1 \notin D
        BY <3>1, <3>2, <3>3
    <3> QED  BY <3>1, <3>2, <3>3, <3>4
  <2>2. DOMAIN best = 1..n /\ DOMAIN B = 1..n
      BY <1>3, <1>4
  <2>3. best = [i \in 1..n |-> best[i]] /\ B = [i \in 1..n |-> B[i]]
      BY <1>3, <1>4, <2>2
  <2> QED  BY <2>1, <2>3
<1>6. LeastLoaded(s, load) = best[n]
    BY <1>1 DEF LeastLoaded, best
<1>7. B[n] = s[at[n]] /\ at[n] \in 1..n /\ FirstLeast(s, load, n, at[n])
    BY <1>2 DEF B
<1> QED  BY <1>5, <1>6, <1>7

(* The rows of a SELECT may come in an order that starts with any of them. *)
LEMMA ListingFrom ==
    ASSUME NEW S, IsFiniteSet(S), NEW b \in S
    PROVE  \E s \in Listings(S) : s[1] = b
<1> DEFINE n == Cardinality(S)
<1>1. n \in Nat /\ n # 0
    BY FS_CardinalityType, FS_EmptySet
<1>2. PICK f \in Bijection(1..n, S) : TRUE
    BY FS_CardinalityType DEF ExistsBijection
<1> HIDE DEF n
<1>3. f \in [1..n -> S] /\ \A x \in S : \E i \in 1..n : f[i] = x
    BY <1>2 DEF Bijection, Injection, Surjection
<1>4. PICK k \in 1..n : f[k] = b
    BY <1>3
<1> DEFINE s == [i \in 1..n |-> IF i = 1 THEN b ELSE IF i = k THEN f[1] ELSE f[i]]
<1>5. 1 \in 1..n
    BY <1>1
<1>6. s \in [1..n -> S] /\ s[1] = b
    BY <1>3, <1>5
<1>7. ASSUME NEW x \in S  PROVE \E i \in 1..n : s[i] = x
  <2>1. PICK i \in 1..n : f[i] = x
      BY <1>3
  <2>2. CASE i = 1
    <3>1. CASE k = 1
        BY <1>4, <1>5, <2>1, <2>2, <3>1
    <3>2. CASE k # 1
        BY <2>1, <2>2, <3>2
    <3> QED  BY <3>1, <3>2
  <2>3. CASE i = k
      BY <1>4, <1>5, <2>1, <2>3
  <2>4. CASE i # 1 /\ i # k
      BY <2>1, <2>4
  <2> QED  BY <2>2, <2>3, <2>4
<1> HIDE DEF s
<1>8. s \in Listings(S)
    BY <1>6, <1>7 DEF Listings, n
<1> QED  BY <1>6, <1>8

(* What least_load picks of active backends, whatever the order it scans   *)
(* them in: one of least load, the first listed of them, and each of them  *)
(* for some order.                                                         *)
LEMMA ScansFindLeast ==
    ASSUME NEW active, IsFiniteSet(active), active # {}, NEW load,
           \A b \in active : load[b] \in Nat
    PROVE  /\ {LeastLoaded(s, load) : s \in Listings(active)}
                = {b \in active : \A c \in active : load[b] <= load[c]}
           /\ \A s \in Listings(active) : \A i \in DOMAIN s :
                load[s[i]] = load[LeastLoaded(s, load)] =>
                   \E j \in 1..i : s[j] = LeastLoaded(s, load)
<1> DEFINE least == {b \in active : \A c \in active : load[b] <= load[c]}
<1>1. PICK n \in Nat \ {0} : n = Cardinality(active)
    BY FS_CardinalityType, FS_EmptySet
<1>2. ASSUME NEW s \in Listings(active)
      PROVE  /\ s \in [1..n -> active] /\ DOMAIN s = 1..n
             /\ \A x \in active : \E i \in 1..n : s[i] = x
             /\ \A i \in 1..n : load[s[i]] \in Nat
             /\ \E j \in 1..n : FirstLeast(s, load, n, j) /\ LeastLoaded(s, load) = s[j]
  <2>1. /\ s \in [1..n -> active] /\ DOMAIN s = 1..n
        /\ \A x \in active : \E i \in 1..n : s[i] = x
      BY <1>1 DEF Listings
  <2>2. \A i \in 1..n : load[s[i]] \in Nat
      BY <2>1
  <2>3. \E j \in 1..n : FirstLeast(s, load, n, j) /\ LeastLoaded(s, load) = s[j]
      <3>1. s \in [1..n -> active]
          BY <2>1
      <3> QED  BY <1>1, <2>2, <3>1, ScanReturnsFirstLeast
  <2> QED  BY <2>1, <2>2, <2>3
<1>3. ASSUME NEW s \in Listings(active)  PROVE LeastLoaded(s, load) \in least
  <2>1. PICK j \in 1..n : FirstLeast(s, load, n, j) /\ LeastLoaded(s, load) = s[j]
      BY <1>2
  <2>2. s[j] \in active
      BY <1>2
  <2>3. ASSUME NEW c \in active  PROVE load[s[j]] <= load[c]
    <3>1. PICK k \in 1..n : s[k] = c
        BY <1>2
    <3> QED  BY <2>1, <3>1 DEF FirstLeast
  <2> QED  BY <2>1, <2>2, <2>3
<1>4. ASSUME NEW b \in least
      PROVE  \E s \in Listings(active) : LeastLoaded(s, load) = b
  <2>1. PICK s \in Listings(active) : s[1] = b
      BY ListingFrom
  <2>2. PICK j \in 1..n : FirstLeast(s, load, n, j) /\ LeastLoaded(s, load) = s[j]
      BY <1>2, <2>1
  <2>3. 1 \in 1..n /\ j \in 1..n
      BY <1>1
  <2>4. load[s[1]] = load[s[j]]
    <3>1. s[j] \in active /\ load[s[j]] \in Nat /\ load[s[1]] \in Nat
        BY <1>2, <2>3
    <3>2. load[s[j]] <= load[s[1]]
        BY <2>2, <2>3 DEF FirstLeast
    <3>3. load[s[1]] <= load[s[j]]
        BY <2>1, <3>1
    <3> QED  BY <3>1, <3>2, <3>3
  <2>5. j <= 1
      BY <2>2, <2>3, <2>4 DEF FirstLeast
  <2>6. j = 1
      BY <2>3, <2>5, <1>1
  <2> QED  BY <2>1, <2>2, <2>6
<1>5. ASSUME NEW s \in Listings(active), NEW i \in DOMAIN s,
             load[s[i]] = load[LeastLoaded(s, load)]
      PROVE  \E j \in 1..i : s[j] = LeastLoaded(s, load)
  <2>1. PICK j \in 1..n : FirstLeast(s, load, n, j) /\ LeastLoaded(s, load) = s[j]
      BY <1>2
  <2>2. i \in 1..n
      BY <1>2
  <2>3. j <= i
      BY <1>5, <2>1, <2>2 DEF FirstLeast
  <2>4. j \in 1..i
      BY <1>1, <2>2, <2>3
  <2> QED  BY <2>1, <2>4
<1> HIDE DEF least
<1>6. {LeastLoaded(s, load) : s \in Listings(active)} = least
    BY <1>3, <1>4
<1> QED  BY <1>5, <1>6 DEF least

(* least_load's scan answers a backend no other active one undercuts, the  *)
(* first listed of them, and any of them for some order of the rows.       *)
THEOREM ScanFindsLeastHolds == RSpec => []ScanFindsLeast
<1>1. TypeInv => ScanFindsLeast
  <2> SUFFICES ASSUME TypeInv, NEW g \in Groups, Active(members[g]) # {}
               PROVE  LET active == Active(members[g]) IN
                      /\ {LeastLoaded(s, Load) : s \in Listings(active)}
                            = Picks("least_load", active, group[g].last, Load)
                      /\ \A s \in Listings(active) : \A i \in DOMAIN s :
                            Load[s[i]] = Load[LeastLoaded(s, Load)] =>
                               \E j \in 1..i : s[j] = LeastLoaded(s, Load)
      BY DEF ScanFindsLeast
  <2> DEFINE active == Active(members[g])
  <2>1. active \in SUBSET BackendIds /\ IsFiniteSet(active)
      BY RoutingAssumption, FS_Subset DEF Active, TypeInv, TypeOK
  <2>2. \A b \in active : Load[b] \in Nat
    <3>1. \A b \in BackendIds : backend[b] \in BackendRow
        BY DEF TypeInv, TypeOK
    <3>2. \A r \in BackendRow : EffectiveLoad(r) \in Nat
        BY RoutingAssumption DEF BackendRow, EffectiveLoad
    <3>3. \A b \in BackendIds : Load[b] = EffectiveLoad(backend[b])
        BY DEF Load
    <3> QED  BY <2>1, <3>1, <3>2, <3>3
  <2>3. Picks("least_load", active, group[g].last, Load)
           = {b \in active : \A c \in active : Load[b] <= Load[c]}
      BY DEF Picks
  <2> HIDE DEF active
  <2>4. active # {}
      BY DEF active
  <2>5. /\ {LeastLoaded(s, Load) : s \in Listings(active)}
             = Picks("least_load", active, group[g].last, Load)
        /\ \A s \in Listings(active) : \A i \in DOMAIN s :
             Load[s[i]] = Load[LeastLoaded(s, Load)] =>
                \E j \in 1..i : s[j] = LeastLoaded(s, Load)
      BY <2>1, <2>2, <2>3, <2>4, ScansFindLeast
  <2> QED  BY <2>5 DEF active
<1> QED  BY <1>1, RotationType, PTL

(* The active backends from s to p in cyclic order.                        *)
Arc(active, s, p) ==
    {x \in active : IF s <= p THEN s <= x /\ x <= p ELSE s <= x \/ x <= p}

ArcEnds(R, active, p) == p \in active /\ \E s \in active : R = Arc(active, s, p)

(* The successor of an arc's end is outside it, unless the arc is all      *)
(* there is, and makes it an arc that is one longer.                       *)
LEMMA ArcGrows ==
    ASSUME NEW active \in SUBSET Nat, NEW R, NEW p, ArcEnds(R, active, p),
           ~(active \subseteq R), NEW b, IsSuccessor(b, active, p)
    PROVE  b \notin R /\ ArcEnds(R \cup {b}, active, b)
<1>1. p \in active /\ b \in active /\ p \in Nat /\ b \in Nat
    BY DEF ArcEnds, IsSuccessor
<1>2. PICK s \in active : R = Arc(active, s, p)
    BY DEF ArcEnds
<1>3. s \in Nat /\ \A x \in active : x \in Nat
    BY <1>2
<1>4. \A x : x \in R <=> /\ x \in active
                         /\ IF s <= p THEN s <= x /\ x <= p ELSE s <= x \/ x <= p
    BY <1>2 DEF Arc
<1>5. PICK y \in active : y \notin R
    OBVIOUS
<1>6. b \notin R /\ \A x \in active :
           x \in R \/ x = b <=> IF s <= b THEN s <= x /\ x <= b ELSE s <= x \/ x <= b
  <2>1. CASE b > p /\ \A x \in active : x <= p \/ b <= x
    <3>1. CASE s <= p
        BY <1>1, <1>3, <1>4, <2>1, <3>1
    <3>2. CASE ~(s <= p)
      <4>1. b <= s
          BY <1>1, <1>2, <1>3, <2>1, <3>2
      <4>2. b # s
          BY <1>1, <1>3, <1>4, <1>5, <2>1, <3>2
      <4> QED  BY <1>1, <1>3, <1>4, <2>1, <3>2, <4>1, <4>2
    <3> QED  BY <3>1, <3>2
  <2>2. CASE \A x \in active : x <= p /\ b <= x
    <3>1. s <= p /\ b <= s
        BY <1>2, <2>2
    <3>2. b # s
        BY <1>1, <1>3, <1>4, <1>5, <2>2, <3>1
    <3> QED  BY <1>1, <1>3, <1>4, <2>2, <3>1, <3>2
  <2> QED  BY <2>1, <2>2 DEF IsSuccessor
<1>7. R \cup {b} = Arc(active, s, b)
  <2>1. \A x : x \in R \cup {b} => x \in active
      BY <1>1, <1>4
  <2> QED  BY <1>6, <2>1 DEF Arc
<1> QED  BY <1>1, <1>2, <1>6, <1>7 DEF ArcEnds

LEMMA ArcStarts ==
    ASSUME NEW active \in SUBSET Nat, NEW b \in active
    PROVE  ArcEnds({b}, active, b)
<1>1. \A x \in active : x = b <=> b <= x /\ x <= b
    OBVIOUS
<1>2. {b} = Arc(active, b, b)
    BY <1>1 DEF Arc
<1> QED  BY <1>2 DEF ArcEnds

-----------------------------------------------------------------------------
(* Evaluations follow one another, nobody changes the tables, no statement *)
(* fails, and each evaluation asks for one group at most.                  *)
Undisturbed(e) ==
    /\ Evals = {e} /\ MaxChanges = 0 /\ ~DbMayFail
    /\ \A w \in Wants : \A g, h \in w : g = h

(* Such an evaluation sees to one group, and until it picks for it, what   *)
(* it holds of the group is what the tables hold.                          *)
OneGroup(e) ==
    LET r == eval[e] IN
    /\ Len(r.eligible) <= 1
    /\ r.phase # "save" /\ (r.phase = "find" => r.at = 1) => r.picked = NothingPicked
    /\ r.phase \in {"groups", "members"} => r.at = 1
    /\ r.phase = "find" => r.at \in {1, 2}
    /\ r.phase = "save" => r.at = 1 /\ r.picked[r.eligible[1].id] # NoBackend
    /\ r.phase \in {"find", "save"} =>
         \A g \in Groups : r.picked[g] # NoBackend =>
            r.eligible # <<>> /\ r.eligible[1].id = g /\ group[g] # NoGroup
    /\ r.eligible # <<>> /\ (r.phase = "members" \/ (r.phase = "find" /\ r.at = 1)) =>
         LET c == r.eligible[1] IN
         /\ group[c.id] # NoGroup
         /\ c.last = group[c.id].last /\ c.strategy = group[c.id].strategy
         /\ r.phase = "find" => c.members = members[c.id]

(* The current round of g is an arc that ends where the rotation stands:   *)
(* at the last routed backend, or, when the evaluation has picked the next *)
(* one, right before that.                                                 *)
RoundIsArc(e, g) ==
    LET active == Active(members[g])
        next == eval[e].picked[g]
    IN  group[g] # NoGroup /\ group[g].strategy = "round_robin" =>
          /\ round[g] = {} \/ ~(active \subseteq round[g])
          /\ next = NoBackend =>
               round[g] = {} \/ ArcEnds(round[g], active, group[g].last)
          /\ next # NoBackend =>
               /\ \E p \in Nat : /\ IsSuccessor(next, active, p)
                                 /\ round[g] = {} \/ ArcEnds(round[g], active, p)
               /\ eval[e].phase = "find" => group[g].last = next

RotationInv(e) ==
    TypeInv /\ Rooted /\ OneGroup(e) /\ \A g \in Groups : RoundIsArc(e, g)

LEMMA RotationInit ==
    ASSUME NEW e, Undisturbed(e), RInit
    PROVE  RotationInv(e)
<1>1. TypeInv /\ Rooted
    BY TypeInit DEF RInit, Init, Rooted
<1>2. PICK w \in Wants : eval[e] = Fresh(w, "done", "none", NoGroup, NoBackend)
    BY DEF RInit, Init, Undisturbed
<1>3. /\ eval[e].eligible = <<>> /\ eval[e].phase = "done"
      /\ eval[e].picked = NothingPicked /\ eval[e].at = 1
    BY <1>2 DEF Fresh
<1>4. OneGroup(e)
    BY <1>3 DEF OneGroup
<1>5. \A g \in Groups : round[g] = {} /\ eval[e].picked[g] = NoBackend
    BY <1>3 DEF RInit, NothingPicked
<1>6. \A g \in Groups : RoundIsArc(e, g)
    BY <1>5 DEF RoundIsArc
<1> QED  BY <1>1, <1>4, <1>6 DEF RotationInv

(* A step that serves nobody leaves the round as it is.                    *)
LEMMA RoundStays ==
    ASSUME NEW e, NEW g \in Groups, RNext, RoundIsArc(e, g),
           group[g] # NoGroup, group[g].strategy = "round_robin", Served(g) = {}
    PROVE  round'[g] = round[g]
<1>1. round[g] = {} \/ ~(Active(members[g]) \subseteq round[g])
    BY DEF RoundIsArc
<1>2. round'[g] = IF Active(members[g]) \subseteq round[g] \cup {} THEN {}
                  ELSE round[g] \cup {}
    BY DEF RNext
<1> QED  BY <1>1, <1>2

(* The same of the steps before anything is picked.                        *)
LEMMA CalmStep ==
    ASSUME NEW e, NEW g \in Groups, RNext, RoundIsArc(e, g), UNCHANGED tables,
           eval[e].picked = NothingPicked, eval'[e].picked = NothingPicked,
           Served(g) = {}
    PROVE  RoundIsArc(e, g)'
<1>1. eval[e].picked[g] = NoBackend /\ eval'[e].picked[g] = NoBackend
    BY DEF NothingPicked
<1>2. Active(members[g])' = Active(members[g]) /\ group' = group
    BY DEF Active, tables
<1> QED  BY <1>1, <1>2, RoundStays DEF RoundIsArc

(* e's step answers no request with a backend.                             *)
Silent(e) == \A g, b : ~Serves(e, g, b)

LEMMA NobodyServed ==
    ASSUME NEW e, Undisturbed(e), NEW g \in Groups,
           eval[e].phase = "done" \/ eval'[e].phase # "done" \/ eval'[e].reply # "ok"
    PROVE  Served(g) = {} /\ Silent(e)
BY DEF Undisturbed, Served, Serves, Silent

(* The steps that pick, save or answer nothing.                            *)
LEMMA CalmSteps ==
    ASSUME NEW e, Undisturbed(e), RotationInv(e), RNext, UNCHANGED tables,
           eval[e].picked = NothingPicked, eval'[e].picked = NothingPicked,
           eval[e].phase = "done" \/ eval'[e].phase # "done" \/ eval'[e].reply # "ok"
    PROVE  (\A g \in Groups : RoundIsArc(e, g)') /\ Silent(e)
<1>1. Silent(e)
    BY DEF Silent, Serves
<1> QED  BY <1>1, NobodyServed, CalmStep DEF RotationInv

LEMMA OneReceives ==
    ASSUME NEW e, Undisturbed(e), RotationInv(e), RNext,
           NEW w \in Wants, Receive(e, w)
    PROVE  OneGroup(e)' /\ (\A g \in Groups : RoundIsArc(e, g)') /\ Silent(e)
<1>0. e \in Evals /\ UNCHANGED tables
    BY DEF Undisturbed, Receive
<1>1. eval'[e] = Fresh(w, "groups", "none", NoGroup, NoBackend)
    BY <1>0, BecomeIs DEF Receive, RotationInv
<1>2. /\ eval'[e].eligible = <<>> /\ eval'[e].phase = "groups"
      /\ eval'[e].picked = NothingPicked /\ eval'[e].at = 1
    BY <1>1 DEF Fresh
<1>3. OneGroup(e)'
    BY <1>2 DEF OneGroup
<1>4. eval[e].phase = "done" /\ eval[e].picked = NothingPicked
    BY DEF Receive, RotationInv, OneGroup
<1> QED  BY <1>0, <1>2, <1>3, <1>4, CalmSteps

LEMMA OneReadsGroups ==
    ASSUME NEW e, Undisturbed(e), RotationInv(e), RNext, ReadGroups(e)
    PROVE  OneGroup(e)' /\ (\A g \in Groups : RoundIsArc(e, g)') /\ Silent(e)
<1> DEFINE r == eval[e]
           S == {g \in r.want : Enabled(g)}
<1>0. e \in Evals /\ UNCHANGED tables /\ TypeInv /\ r \in Eval
    BY DEF Undisturbed, ReadGroups, RotationInv, TypeInv, TypeOK
<1>1. r.phase = "groups" /\ r.picked = NothingPicked /\ r.at = 1
    BY DEF ReadGroups, RotationInv, OneGroup
<1>2. PICK s \in Listings(S) :
         Become(e, [r EXCEPT !.phase = "members",
                      !.eligible = [i \in DOMAIN s |-> CopyOf(s[i])]])
    BY DEF ReadGroups
<1> DEFINE list == [i \in DOMAIN s |-> CopyOf(s[i])]
<1>3. eval'[e] = [r EXCEPT !.phase = "members", !.eligible = list]
    BY <1>0, <1>2, BecomeIs
<1>4. /\ eval'[e].phase = "members" /\ eval'[e].eligible = list
      /\ eval'[e].at = 1 /\ eval'[e].picked = NothingPicked
    BY <1>0, <1>1, <1>3 DEF Eval
<1>5. S \in SUBSET Groups /\ \A g, h \in S : g = h
  <2>1. r.want \in Wants
      BY <1>0 DEF Eval
  <2> QED  BY <2>1, RoutingAssumption DEF Undisturbed
<1>6. IsFiniteSet(S) /\ Cardinality(S) \in Nat /\ Cardinality(S) <= 1
  <2>1. IsFiniteSet(S)
      BY <1>5, RoutingAssumption, FS_Subset
  <2> HIDE DEF S
  <2>2. CASE S = {}
      BY <2>1, <2>2, FS_EmptySet
  <2>3. CASE S # {}
    <3>1. PICK g \in S : S = {g}
        BY <1>5, <2>3
    <3>2. Cardinality(S) = 1
        BY <3>1, FS_Singleton
    <3> QED  BY <2>1, <3>2
  <2> QED  BY <2>2, <2>3
<1>7. s \in [1..Cardinality(S) -> S] /\ DOMAIN s = 1..Cardinality(S)
    BY <1>5, ListingsOfGroups
<1> HIDE DEF S
<1>8. Len(list) = Cardinality(S) /\ DOMAIN list = DOMAIN s
    BY <1>6, <1>7
<1>9. list # <<>> => /\ list[1] = CopyOf(s[1]) /\ s[1] \in S
  <2> SUFFICES ASSUME list # <<>>  PROVE 1 \in DOMAIN s
      BY <1>7
  <2>1. Cardinality(S) # 0
    <3>1. Cardinality(S) = 0 => list = <<>>
        BY <1>7
    <3> QED  BY <3>1
  <2> QED  BY <1>6, <1>7, <2>1
<1>10. \A g \in S : group'[g] # NoGroup /\ group' = group
    BY <1>0 DEF S, Enabled, tables
<1> HIDE DEF list
<1>11. OneGroup(e)'
  <2>1. eval'[e].eligible # <<>> =>
           LET c == eval'[e].eligible[1] IN
           /\ group'[c.id] # NoGroup
           /\ c.last = group'[c.id].last /\ c.strategy = group'[c.id].strategy
      BY <1>4, <1>9, <1>10 DEF CopyOf
  <2> QED  BY <1>4, <1>6, <1>8, <2>1 DEF OneGroup
<1> QED  BY <1>0, <1>1, <1>4, <1>11, CalmSteps

LEMMA OneReadsMembers ==
    ASSUME NEW e, Undisturbed(e), RotationInv(e), RNext, ReadMembers(e)
    PROVE  OneGroup(e)' /\ (\A g \in Groups : RoundIsArc(e, g)') /\ Silent(e)
<1> DEFINE r == eval[e]
           list == [i \in DOMAIN r.eligible |->
                      [r.eligible[i] EXCEPT !.members = members[r.eligible[i].id]]]
<1>0. e \in Evals /\ UNCHANGED tables /\ TypeInv /\ r \in Eval
    BY DEF Undisturbed, ReadMembers, RotationInv, TypeInv, TypeOK
<1>1. r.phase = "members" /\ r.picked = NothingPicked /\ r.at = 1
    BY DEF ReadMembers, RotationInv, OneGroup
<1>2. eval'[e] = [r EXCEPT !.phase = "find", !.eligible = list]
    BY <1>0, BecomeIs DEF ReadMembers
<1>3. /\ eval'[e].phase = "find" /\ eval'[e].eligible = list
      /\ eval'[e].at = 1 /\ eval'[e].picked = NothingPicked
    BY <1>0, <1>1, <1>2 DEF Eval
<1>4. r.eligible \in Seq(Copy)
    BY <1>0 DEF Eval
<1>5. Len(list) = Len(r.eligible) /\ (list # <<>> => r.eligible # <<>>)
    BY <1>4
<1>6. list # <<>> => /\ r.eligible[1] \in Copy
                     /\ list[1] = [r.eligible[1] EXCEPT !.members =
                                            members[r.eligible[1].id]]
  <2>1. list # <<>> => 1 \in DOMAIN r.eligible
      BY <1>4, <1>5
  <2> QED  BY <1>4, <2>1
<1>7. list # <<>> => /\ list[1].id = r.eligible[1].id
                     /\ list[1].last = r.eligible[1].last
                     /\ list[1].strategy = r.eligible[1].strategy
                     /\ list[1].members = members[r.eligible[1].id]
    BY <1>6 DEF Copy
<1> HIDE DEF list
<1>8. r.eligible # <<>> =>
           LET c == r.eligible[1] IN
           /\ group[c.id] # NoGroup
           /\ c.last = group[c.id].last /\ c.strategy = group[c.id].strategy
    BY <1>1 DEF RotationInv, OneGroup
<1>9. OneGroup(e)'
  <2>1. Len(r.eligible) <= 1 /\ group' = group /\ members' = members
      BY <1>0 DEF RotationInv, OneGroup, tables
  <2> QED  BY <1>3, <1>5, <1>7, <1>8, <2>1 DEF OneGroup, NothingPicked
<1> QED  BY <1>0, <1>1, <1>3, <1>9, CalmSteps

LEMMA OneSkips ==
    ASSUME NEW e, Undisturbed(e), RotationInv(e), RNext, FindBackend(e),
           Become(e, [eval[e] EXCEPT !.at = @ + 1])
    PROVE  OneGroup(e)' /\ (\A g \in Groups : RoundIsArc(e, g)') /\ Silent(e)
<1> DEFINE r == eval[e]
<1>0. e \in Evals /\ UNCHANGED tables /\ TypeInv /\ r \in Eval
    BY DEF Undisturbed, FindBackend, RotationInv, TypeInv, TypeOK
<1>1. r.phase = "find" /\ r.at = 1 /\ r.picked = NothingPicked
  <2>1. r.eligible \in Seq(Copy) /\ r.at \in Nat
      BY <1>0 DEF Eval
  <2>2. /\ r.phase = "find" /\ r.at <= Len(r.eligible) /\ Len(r.eligible) <= 1
        /\ r.at \in {1, 2}
      BY DEF FindBackend, RotationInv, OneGroup
  <2>3. r.at = 1
      BY <2>1, <2>2
  <2> QED  BY <2>2, <2>3 DEF RotationInv, OneGroup
<1>2. /\ eval'[e].phase = "find" /\ eval'[e].at = 2
      /\ eval'[e].picked = NothingPicked /\ eval'[e].eligible = r.eligible
  <2>1. eval'[e] = [r EXCEPT !.at = @ + 1]
      BY <1>0, BecomeIs
  <2> QED  BY <1>0, <1>1, <2>1 DEF Eval
<1>3. OneGroup(e)'
    BY <1>2 DEF RotationInv, OneGroup, NothingPicked
<1> QED  BY <1>0, <1>1, <1>2, <1>3, CalmSteps

LEMMA OnePicks ==
    ASSUME NEW e, Undisturbed(e), RotationInv(e), RNext, FindBackend(e),
           Active(eval[e].eligible[eval[e].at].members) # {},
           NEW b, b \in Picks(eval[e].eligible[eval[e].at].strategy,
                              Active(eval[e].eligible[eval[e].at].members),
                              eval[e].eligible[eval[e].at].last, Load),
           Become(e, [eval[e] EXCEPT !.phase = "save",
                        !.picked[eval[e].eligible[eval[e].at].id] = b])
    PROVE  OneGroup(e)' /\ (\A g \in Groups : RoundIsArc(e, g)') /\ Silent(e)
<1> DEFINE r == eval[e]
           c == r.eligible[1]
           A == Active(members[c.id])
<1>0. e \in Evals /\ UNCHANGED tables /\ TypeInv /\ Rooted /\ r \in Eval
    BY DEF Undisturbed, FindBackend, RotationInv, TypeInv, TypeOK
<1>1. r.phase = "find" /\ r.at = 1 /\ r.picked = NothingPicked /\ r.eligible # <<>>
      /\ r.eligible \in Seq(Copy) /\ c \in Copy
  <2>1. r.eligible \in Seq(Copy) /\ r.at \in Nat
      BY <1>0 DEF Eval
  <2>2. /\ r.phase = "find" /\ r.at <= Len(r.eligible) /\ Len(r.eligible) <= 1
        /\ r.at \in {1, 2}
      BY DEF FindBackend, RotationInv, OneGroup
  <2>3. r.at = 1 /\ r.eligible # <<>> /\ c \in Copy
      BY <2>1, <2>2
  <2> QED  BY <2>1, <2>2, <2>3 DEF RotationInv, OneGroup
<1>2. /\ group[c.id] # NoGroup /\ c.members = members[c.id]
      /\ c.last = group[c.id].last /\ c.strategy = group[c.id].strategy
    BY <1>1 DEF RotationInv, OneGroup
<1>3. c.id \in Groups /\ c.last \in BackendIds \cup {NoBackend} /\ c.members \in SUBSET BackendIds
    BY <1>1 DEF Copy
<1>4. A \in SUBSET BackendIds /\ IsFiniteSet(A) /\ A \in SUBSET Nat /\ c.last \in Nat
      /\ BackendIds \subseteq Nat \ {NoBackend}
  <2>1. BackendIds \subseteq Nat \ {NoBackend} /\ IsFiniteSet(BackendIds)
      BY RoutingAssumption
  <2>2. A \in SUBSET BackendIds
      BY <1>2, <1>3 DEF Active
  <2>3. IsFiniteSet(A)
      BY <2>1, <2>2, FS_Subset
  <2> HIDE DEF A, c
  <2> QED  BY <1>3, <2>1, <2>2, <2>3 DEF NoBackend
<1>5. b \in Picks(c.strategy, A, c.last, Load) /\ A # {}
    BY <1>1, <1>2
<1>6. b \in BackendIds /\ b # NoBackend
    BY <1>3, <1>4, <1>5, PicksAreActive
<1>7. c.strategy = "round_robin" => IsSuccessor(b, A, c.last)
  <2> SUFFICES ASSUME c.strategy = "round_robin"  PROVE IsSuccessor(b, A, c.last)
      OBVIOUS
  <2>1. PICK s \in SortedWithLast(A, c.last) : b = After(s, c.last)
      BY <1>5 DEF Picks
  <2> QED  BY <1>4, <1>5, <2>1, RoundRobinIsSuccessor
<1>8. eval'[e] = [r EXCEPT !.phase = "save", !.picked[c.id] = b]
    BY <1>0, <1>1, BecomeIs
<1>9. /\ eval'[e].phase = "save" /\ eval'[e].at = 1
      /\ eval'[e].eligible = r.eligible
      /\ eval'[e].picked[c.id] = b
      /\ \A g \in Groups \ {c.id} : eval'[e].picked[g] = NoBackend
  <2>1. r.picked \in [Groups -> BackendIds \cup {NoBackend}]
      BY <1>0 DEF Eval
  <2>2. eval'[e].picked = [r.picked EXCEPT ![c.id] = b]
      BY <1>0, <1>8 DEF Eval
  <2>3. eval'[e].phase = "save" /\ eval'[e].at = r.at /\ eval'[e].eligible = r.eligible
      BY <1>0, <1>8 DEF Eval
  <2> QED  BY <1>1, <1>3, <2>1, <2>2, <2>3 DEF NothingPicked
<1>10. OneGroup(e)'
  <2>1. Len(r.eligible) <= 1
      BY DEF RotationInv, OneGroup
  <2>2. \A g \in Groups : eval'[e].picked[g] # NoBackend =>
           r.eligible # <<>> /\ r.eligible[1].id = g /\ group'[g] # NoGroup
      BY <1>0, <1>1, <1>2, <1>9 DEF tables
  <2>3. eval'[e].picked[r.eligible[1].id] # NoBackend
      BY <1>6, <1>9
  <2> HIDE DEF r
  <2> QED  BY <1>9, <2>1, <2>2, <2>3 DEF OneGroup
<1>11. ASSUME NEW g \in Groups  PROVE RoundIsArc(e, g)'
  <2>1. RoundIsArc(e, g) /\ Served(g) = {} /\ r.picked[g] = NoBackend
      BY <1>1, <1>9, NobodyServed DEF RotationInv, NothingPicked
  <2>2. Active(members[g])' = Active(members[g]) /\ group' = group
      BY <1>0 DEF Active, tables
  <2>3. CASE g = c.id
    <3> SUFFICES ASSUME group[g] # NoGroup, group[g].strategy = "round_robin"
                 PROVE  RoundIsArc(e, g)'
        BY <2>2 DEF RoundIsArc
    <3>1. round'[g] = round[g]
        BY <2>1, RoundStays
    <3>2. /\ round[g] = {} \/ ~(A \subseteq round[g])
          /\ round[g] = {} \/ ArcEnds(round[g], A, c.last)
        BY <1>2, <2>1, <2>3 DEF RoundIsArc
    <3>3. IsSuccessor(b, A, c.last)
        BY <1>2, <1>7, <2>3
    <3> HIDE DEF A
    <3> QED
        BY <1>4, <1>6, <1>9, <2>2, <2>3, <3>1, <3>2, <3>3 DEF RoundIsArc, A
  <2>4. CASE g # c.id
    <3>1. eval'[e].picked[g] = NoBackend
        BY <1>9, <2>4
    <3> QED  BY <2>1, <2>2, <3>1, RoundStays DEF RoundIsArc
  <2> QED  BY <2>3, <2>4
<1>12. Silent(e)
    BY <1>9 DEF Silent, Serves
<1> QED  BY <1>10, <1>11, <1>12

LEMMA OneSaves ==
    ASSUME NEW e, Undisturbed(e), RotationInv(e), RNext, SaveLast(e)
    PROVE  OneGroup(e)' /\ (\A g \in Groups : RoundIsArc(e, g)') /\ Silent(e)
<1> DEFINE r == eval[e]
           c == r.eligible[r.at]
           A == Active(members[c.id])
<1>0. /\ e \in Evals /\ members' = members /\ backend' = backend
      /\ TypeInv /\ Rooted /\ r \in Eval /\ WellPlaced(r)
    BY DEF Undisturbed, SaveLast, RotationInv, TypeInv, TypeOK
<1>1. r.phase = "save" /\ r.at = 1 /\ r.eligible # <<>>
      /\ r.eligible \in Seq(Copy) /\ c \in Copy /\ c.id \in Groups
  <2>1. r.eligible \in Seq(Copy)
      BY <1>0 DEF Eval
  <2>2. r.phase = "save" /\ r.at = 1 /\ r.at <= Len(r.eligible)
      BY <1>0 DEF SaveLast, RotationInv, OneGroup, WellPlaced
  <2>3. r.eligible # <<>> /\ c \in Copy
      BY <2>1, <2>2
  <2> QED  BY <2>1, <2>2, <2>3 DEF Copy
<1>2. eval'[e] = [r EXCEPT !.phase = "find", !.at = @ + 1]
    BY <1>0, BecomeIs DEF SaveLast
<1>3. /\ eval'[e].phase = "find" /\ eval'[e].at = 2
      /\ eval'[e].eligible = r.eligible /\ eval'[e].picked = r.picked
    BY <1>0, <1>1, <1>2 DEF Eval
<1>4. \A g \in Groups : r.picked[g] # NoBackend => g = c.id
    BY <1>1 DEF RotationInv, OneGroup
<1>5. \A g \in Groups : /\ group[g] # NoGroup => group'[g] # NoGroup
                        /\ group'[g] # NoGroup => group[g] # NoGroup
                        /\ group[g] # NoGroup =>
                             /\ group'[g].strategy = group[g].strategy
                             /\ g # c.id => group'[g].last = group[g].last
                             /\ g = c.id => group'[g].last = r.picked[g]
  <2>1. group \in [Groups -> GroupRow \cup {NoGroup}]
        /\ group' \in [Groups -> GroupRow \cup {NoGroup}]
    <3>1. TypeInv'
      <4>1. [Next]_vars
          BY DEF RNext
      <4> QED  BY <1>0, <4>1, TypeNext
    <3> QED  BY <1>0, <3>1 DEF TypeInv, TypeOK
  <2>2. CASE group[c.id] # NoGroup
    <3>1. group' = [group EXCEPT ![c.id].last = r.picked[c.id]]
        BY <2>2 DEF SaveLast, Undisturbed
    <3>2. group[c.id] \in GroupRow
        BY <1>1, <2>1, <2>2
    <3>3. group'[c.id] = [group[c.id] EXCEPT !.last = r.picked[c.id]]
        BY <1>1, <2>1, <3>1
    <3>4. group'[c.id].strategy = group[c.id].strategy /\ group'[c.id].last = r.picked[c.id]
        BY <3>2, <3>3 DEF GroupRow
    <3>5. \A g \in Groups \ {c.id} : group'[g] = group[g]
        BY <2>1, <3>1
    <3>6. group'[c.id] # NoGroup
      <4>1. r.picked[c.id] \in BackendIds \cup {NoBackend}
          BY <1>0, <1>1 DEF Eval
      <4>2. group'[c.id] \in GroupRow
          BY <3>2, <3>3, <4>1 DEF GroupRow
      <4> QED  BY <4>2, RoutingAssumption
    <3> QED  BY <2>2, <3>4, <3>5, <3>6
  <2>3. CASE group[c.id] = NoGroup
    <3>1. group' = group
        BY <2>3 DEF SaveLast
    <3> QED  BY <2>3, <3>1
  <2> QED  BY <2>2, <2>3
<1>6. OneGroup(e)'
  <2>1. /\ Len(r.eligible) <= 1
        /\ \A g \in Groups : r.picked[g] # NoBackend =>
             r.eligible # <<>> /\ r.eligible[1].id = g /\ group[g] # NoGroup
      BY <1>1 DEF RotationInv, OneGroup
  <2>2. r.picked[r.eligible[1].id] # NoBackend
      BY <1>1 DEF RotationInv, OneGroup
  <2> HIDE DEF r
  <2> QED  BY <1>3, <1>5, <2>1, <2>2 DEF OneGroup
<1>7. ASSUME NEW g \in Groups  PROVE RoundIsArc(e, g)'
  <2>1. RoundIsArc(e, g) /\ Served(g) = {}
      BY <1>3, NobodyServed DEF RotationInv
  <2>2. Active(members[g])' = Active(members[g])
      BY <1>0 DEF Active
  <2> SUFFICES ASSUME group'[g] # NoGroup, group'[g].strategy = "round_robin"
               PROVE  RoundIsArc(e, g)'
      BY DEF RoundIsArc
  <2>3. group[g] # NoGroup /\ group[g].strategy = "round_robin"
      BY <1>5
  <2>4. round'[g] = round[g]
      BY <2>1, <2>3, RoundStays
  <2>5. CASE r.picked[g] = NoBackend
    <3>1. g # c.id
      <4>1. r.picked[c.id] # NoBackend
          BY <1>1 DEF RotationInv, OneGroup
      <4> QED  BY <2>5, <4>1
    <3> QED  BY <1>3, <1>5, <2>1, <2>2, <2>3, <2>4, <2>5, <3>1 DEF RoundIsArc
  <2>6. CASE r.picked[g] # NoBackend
    <3>1. g = c.id
        BY <1>4, <2>6
    <3> QED  BY <1>3, <1>5, <2>1, <2>2, <2>3, <2>4, <2>6, <3>1 DEF RoundIsArc
  <2> QED  BY <2>5, <2>6
<1>8. Silent(e)
    BY <1>3 DEF Silent, Serves
<1> QED  BY <1>6, <1>7, <1>8

LEMMA OneChooses ==
    ASSUME NEW e, Undisturbed(e), RotationInv(e), RNext, Choose(e)
    PROVE  /\ OneGroup(e)' /\ \A g \in Groups : RoundIsArc(e, g)'
           /\ \A g \in Groups, b \in BackendIds :
                Serves(e, g, b) /\ group[g].strategy = "round_robin" =>
                   b \notin round[g]
<1> DEFINE r == eval[e]
           h == r.eligible[1].id
<1>0. /\ e \in Evals /\ UNCHANGED tables /\ TypeInv /\ Rooted
      /\ r \in Eval /\ WellPlaced(r)
    BY DEF Undisturbed, Choose, RotationInv, TypeInv, TypeOK
<1>1. /\ r.phase = "find" /\ r.picked # NothingPicked /\ h \in Groups
      /\ r.picked \in [Groups -> BackendIds \cup {NoBackend}]
  <2>1. r.eligible \in Seq(Copy) /\ r.eligible # <<>> /\ r.phase = "find"
        /\ r.picked # NothingPicked
      BY <1>0 DEF Choose, Eval, WellPlaced
  <2>2. r.eligible[1] \in Copy
      BY <2>1
  <2> QED  BY <1>0, <2>1, <2>2 DEF Copy, Eval
<1>2. r.picked[h] # NoBackend /\ \A g \in Groups \ {h} : r.picked[g] = NoBackend
  <2>1. \A g \in Groups : r.picked[g] # NoBackend => g = h
      BY <1>1 DEF RotationInv, OneGroup
  <2>2. \E g \in Groups : r.picked[g] # NoBackend
      BY <1>1 DEF NothingPicked
  <2> QED  BY <2>1, <2>2
<1>3. eval'[e] = Fresh(r.want, "done", "ok", h, r.picked[h])
    BY <1>0, BecomeIs DEF Choose, Answer
<1>4. /\ eval'[e].phase = "done" /\ eval'[e].reply = "ok"
      /\ eval'[e].group = h /\ eval'[e].backend = r.picked[h]
      /\ eval'[e].eligible = <<>> /\ eval'[e].picked = NothingPicked
    BY <1>3 DEF Fresh
<1>5. OneGroup(e)'
    BY <1>4 DEF OneGroup
<1>6. \A g \in Groups : Served(g) = IF g = h THEN {r.picked[h]} ELSE {}
  <2>1. \A g, b : Serves(e, g, b) <=> g = h /\ b = r.picked[h]
      BY <1>1, <1>4 DEF Serves
  <2>2. r.picked[h] \in BackendIds
      BY <1>1, <1>2
  <2> HIDE DEF r, h
  <2> QED  BY <2>1, <2>2 DEF Served, Undisturbed
<1>7. \A g \in Groups : eval'[e].picked[g] = NoBackend
    BY <1>4 DEF NothingPicked
<1>8. ASSUME NEW g \in Groups
      PROVE  /\ RoundIsArc(e, g)'
             /\ \A b \in BackendIds :
                  Serves(e, g, b) /\ group[g].strategy = "round_robin" =>
                     b \notin round[g]
  <2> DEFINE A == Active(members[g])
             R == round[g]
  <2>1. RoundIsArc(e, g)
      BY DEF RotationInv
  <2>2. Active(members[g])' = A /\ group' = group
      BY <1>0 DEF Active, tables
  <2>3. A \in SUBSET Nat
      BY <1>0, RoutingAssumption DEF Active, TypeInv, TypeOK
  <2>4. round'[g] = LET now == R \cup Served(g)
                    IN  IF A \subseteq now THEN {} ELSE now
      BY DEF RNext
  <2>5. CASE g # h
    <3>1. \A b : ~Serves(e, g, b)
        BY <1>4, <2>5 DEF Serves
    <3>2. r.picked[g] = NoBackend
        BY <1>2, <2>5
    <3>3. Served(g) = {}
        BY <1>6, <2>5
    <3>4. RoundIsArc(e, g)'
        BY <1>7, <2>1, <2>2, <3>2, <3>3, RoundStays DEF RoundIsArc
    <3> QED  BY <3>1, <3>4
  <2>6. CASE group[g] = NoGroup
    <3>1. g # h
        BY <1>1, <1>2, <2>6 DEF RotationInv, OneGroup
    <3> QED  BY <2>5, <3>1
  <2>7. CASE g = h /\ group[g] # NoGroup /\ group[g].strategy # "round_robin"
      BY <2>2, <2>7 DEF RoundIsArc
  <2>8. CASE g = h /\ group[g] # NoGroup /\ group[g].strategy = "round_robin"
    <3> DEFINE b == r.picked[h]
    <3>1. /\ R = {} \/ ~(A \subseteq R)
          /\ group[g].last = b
      BY <1>1, <1>2, <2>1, <2>8 DEF RoundIsArc
    <3>2. PICK p \in Nat : IsSuccessor(b, A, p) /\ (R = {} \/ ArcEnds(R, A, p))
      BY <1>1, <1>2, <2>1, <2>8 DEF RoundIsArc
    <3>3. b \notin R /\ ArcEnds(R \cup {b}, A, b)
      <4>1. CASE R = {}
        <5>1. b \in A /\ R \cup {b} = {b}
            BY <3>2, <4>1 DEF IsSuccessor
        <5> HIDE DEF A, R, b
        <5> QED  BY <2>3, <4>1, <5>1, ArcStarts
      <4>2. CASE R # {}
        <5> HIDE DEF A, R, b
        <5> QED  BY <2>3, <3>1, <3>2, <4>2, ArcGrows
      <4> QED  BY <4>1, <4>2
    <3>4. round'[g] = IF A \subseteq R \cup {b} THEN {} ELSE R \cup {b}
        BY <1>6, <2>4, <2>8
    <3>5. RoundIsArc(e, g)'
      <4> HIDE DEF A, R, b
      <4> QED  BY <1>7, <2>2, <3>1, <3>3, <3>4 DEF RoundIsArc
    <3>6. \A x : Serves(e, g, x) => x = b
        BY <1>4 DEF Serves
    <3> QED  BY <3>3, <3>5, <3>6
  <2> QED  BY <2>5, <2>6, <2>7, <2>8
<1> QED  BY <1>5, <1>8

LEMMA OneFails ==
    ASSUME NEW e, Undisturbed(e), RotationInv(e), RNext, Fail(e), UNCHANGED tables,
           eval[e].picked = NothingPicked
    PROVE  OneGroup(e)' /\ (\A g \in Groups : RoundIsArc(e, g)') /\ Silent(e)
<1>0. e \in Evals /\ TypeInv
    BY DEF Undisturbed, RotationInv
<1>1. eval'[e] = Fresh(eval[e].want, "done", "error", NoGroup, NoBackend)
    BY <1>0, BecomeIs DEF Fail, Answer
<1>2. /\ eval'[e].eligible = <<>> /\ eval'[e].phase = "done"
      /\ eval'[e].picked = NothingPicked /\ eval'[e].reply = "error"
    BY <1>1 DEF Fresh
<1>3. OneGroup(e)'
    BY <1>2 DEF OneGroup
<1> QED  BY <1>2, <1>3, CalmSteps

LEMMA OneFallsBack ==
    ASSUME NEW e, Undisturbed(e), RotationInv(e), RNext, FallBack(e)
    PROVE  OneGroup(e)' /\ (\A g \in Groups : RoundIsArc(e, g)') /\ Silent(e)
<1> DEFINE r == eval[e]
<1>0. /\ e \in Evals /\ UNCHANGED tables /\ TypeInv /\ r \in Eval
      /\ r.picked = NothingPicked
    BY DEF Undisturbed, FallBack, RotationInv, TypeInv, TypeOK
<1>1. CASE Fail(e)
    BY <1>0, <1>1, OneFails
<1>2. CASE Become(e, [r EXCEPT !.phase = "default"])
  <2>1. eval'[e] = [r EXCEPT !.phase = "default"]
      BY <1>0, <1>2, BecomeIs
  <2>2. /\ eval'[e].phase = "default" /\ eval'[e].eligible = r.eligible
        /\ eval'[e].picked = NothingPicked
      BY <1>0, <2>1 DEF Eval
  <2>3. OneGroup(e)'
      BY <2>2 DEF RotationInv, OneGroup
  <2> QED  BY <1>0, <2>2, <2>3, CalmSteps
<1> QED  BY <1>1, <1>2 DEF FallBack

LEMMA OneReadsDefault ==
    ASSUME NEW e, Undisturbed(e), RotationInv(e), RNext, ReadDefault(e)
    PROVE  OneGroup(e)' /\ (\A g \in Groups : RoundIsArc(e, g)') /\ Silent(e)
<1> DEFINE r == eval[e]
           new == [r EXCEPT !.phase = "members", !.fallback = TRUE,
                            !.eligible = <<CopyOf(Default)>>, !.at = 1]
<1>0. e \in Evals /\ UNCHANGED tables /\ TypeInv /\ r \in Eval
    BY DEF Undisturbed, ReadDefault, RotationInv, TypeInv, TypeOK
<1>1. r.phase = "default" /\ r.picked = NothingPicked
    BY DEF ReadDefault, RotationInv, OneGroup
<1>2. CASE Fail(e)
    BY <1>0, <1>1, <1>2, OneFails
<1>3. CASE group[Default] # NoGroup /\ Become(e, new)
  <2>1. eval'[e] = new
      BY <1>0, <1>3, BecomeIs
  <2>2. /\ eval'[e].phase = "members" /\ eval'[e].at = 1
        /\ eval'[e].eligible = <<CopyOf(Default)>>
        /\ eval'[e].picked = NothingPicked
      BY <1>0, <1>1, <2>1 DEF Eval
  <2>3. group' = group
      BY <1>0 DEF tables
  <2>4. eval'[e].eligible[1] = CopyOf(Default) /\ Len(eval'[e].eligible) = 1
      BY <2>2
  <2>5. OneGroup(e)'
      BY <1>3, <2>2, <2>3, <2>4 DEF OneGroup, CopyOf
  <2> QED  BY <1>0, <1>1, <2>2, <2>5, CalmSteps
<1> QED  BY <1>2, <1>3 DEF ReadDefault

(* One step of an undisturbed evaluation.                                  *)
LEMMA RotationNext ==
    ASSUME NEW e, Undisturbed(e), RotationInv(e), [RNext]_rvars
    PROVE  /\ RotationInv(e)'
           /\ [\A f \in Evals, g \in Groups, b \in BackendIds :
                 Serves(f, g, b) /\ group[g].strategy = "round_robin" =>
                    b \notin round[g]]_rvars
<1> DEFINE Even == \A f \in Evals, g \in Groups, b \in BackendIds :
                      Serves(f, g, b) /\ group[g].strategy = "round_robin" =>
                         b \notin round[g]
           Goal == OneGroup(e)' /\ (\A g \in Groups : RoundIsArc(e, g)') /\ Even
<1>1. CASE UNCHANGED rvars
  <2>1. TypeInv' /\ Rooted'
    <3>1. [Next]_vars
        BY <1>1 DEF rvars, vars
    <3> QED  BY <3>1, TypeNext, RootedNext DEF RotationInv
  <2>2. OneGroup(e)'
      BY <1>1 DEF rvars, RotationInv, OneGroup
  <2>3. \A g \in Groups : RoundIsArc(e, g)'
      BY <1>1 DEF rvars, RotationInv, RoundIsArc, Active
  <2> QED  BY <1>1, <2>1, <2>2, <2>3 DEF RotationInv
<1>2. CASE RNext
  <2>1. TypeInv' /\ Rooted'
    <3>1. [Next]_vars
        BY <1>2 DEF RNext
    <3> QED  BY <3>1, TypeNext, RootedNext DEF RotationInv
  <2>2. ~Others
    <3>1. ~(changes < MaxChanges)
        BY DEF Undisturbed, RotationInv, TypeInv, TypeOK
    <3> QED  BY <3>1 DEF Others, ChangeBackend, RemoveBackend, ChangeGroup,
                ChangeMembers, Change
  <2>3. (\E w \in Wants : Receive(e, w)) \/ Step(e)
      BY <1>2, <2>2 DEF RNext, Next, Undisturbed
  <2>4. CASE Choose(e)
    <3>1. OneGroup(e)' /\ \A g \in Groups : RoundIsArc(e, g)'
        BY <1>2, <2>4, OneChooses
    <3>2. Even
        BY <1>2, <2>4, OneChooses DEF Undisturbed
    <3> QED  BY <2>1, <3>1, <3>2 DEF RotationInv
  <2>5. CASE ~Choose(e)
    <3>1. \A w \in Wants : Receive(e, w) =>
             OneGroup(e)' /\ (\A g \in Groups : RoundIsArc(e, g)') /\ Silent(e)
        BY <1>2, OneReceives
    <3>2. ReadGroups(e) =>
             OneGroup(e)' /\ (\A g \in Groups : RoundIsArc(e, g)') /\ Silent(e)
        BY <1>2, OneReadsGroups
    <3>3. ReadMembers(e) =>
             OneGroup(e)' /\ (\A g \in Groups : RoundIsArc(e, g)') /\ Silent(e)
        BY <1>2, OneReadsMembers
    <3>4. SaveLast(e) =>
             OneGroup(e)' /\ (\A g \in Groups : RoundIsArc(e, g)') /\ Silent(e)
        BY <1>2, OneSaves
    <3>5. FallBack(e) =>
             OneGroup(e)' /\ (\A g \in Groups : RoundIsArc(e, g)') /\ Silent(e)
        BY <1>2, OneFallsBack
    <3>6. ReadDefault(e) =>
             OneGroup(e)' /\ (\A g \in Groups : RoundIsArc(e, g)') /\ Silent(e)
        BY <1>2, OneReadsDefault
    <3>7. FindBackend(e) =>
             OneGroup(e)' /\ (\A g \in Groups : RoundIsArc(e, g)') /\ Silent(e)
        BY <1>2, OneSkips, OnePicks DEF FindBackend
    <3>8. ~ReadFails(e)
        BY DEF ReadFails, Undisturbed
    <3>9. OneGroup(e)' /\ (\A g \in Groups : RoundIsArc(e, g)') /\ Silent(e)
        BY <2>3, <2>5, <3>1, <3>2, <3>3, <3>4, <3>5, <3>6, <3>7, <3>8 DEF Step
    <3>10. Even
        BY <3>9 DEF Silent, Undisturbed
    <3> QED  BY <2>1, <3>9, <3>10 DEF RotationInv
  <2> QED  BY <2>4, <2>5
<1> QED  BY <1>1, <1>2

OneAtATime == \E e \in Evals : Undisturbed(e)

(* While evaluations follow one another and ask for one group each, and    *)
(* neither changes nor failing statements come between, a round-robin      *)
(* group is served in rounds: each active member once before any of them   *)
(* twice, from wherever the rotation stands, for any number of members.    *)
THEOREM EvenRoundsHolds == OneAtATime /\ RSpec => EvenRounds
<1> DEFINE Inv == \E e \in Evals : Undisturbed(e) /\ RotationInv(e)
<1>1. OneAtATime /\ RInit => Inv
    BY RotationInit DEF OneAtATime
<1>2. Inv /\ [RNext]_rvars => Inv'
    BY RotationNext DEF Undisturbed
<1>3. Inv /\ [RNext]_rvars =>
        [\A e \in Evals, g \in Groups, b \in BackendIds :
            Serves(e, g, b) /\ group[g].strategy = "round_robin" =>
               b \notin round[g]]_rvars
    BY RotationNext
<1> QED  BY <1>1, <1>2, <1>3, PTL DEF RSpec, EvenRounds
=============================================================================
