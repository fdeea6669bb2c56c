---------------------------- MODULE BackendProofs ----------------------------
(***************************************************************************)
(* Proofs about the handlers of the BackendApi, for every set of backends, *)
(* loads, thresholds and request slots: their types, what racing handlers  *)
(* still guarantee, and that without overlap they implement the atomic     *)
(* BackendApi.                                                             *)
(***************************************************************************)
EXTENDS BackendRaces, SerialBackends, TLAPS

-----------------------------------------------------------------------------
(* Types, with or without failing statements.                              *)

(* A read-modify-write operation makes a row of a row.                     *)
LEMMA MutatedType ==
    ASSUME NEW op, NEW r \in Row, NEW load \in Loads
    PROVE  Mutated(op, r, load) \in Row
  BY DEF Mutated, Row

(* Every request carries what its operation needs.                         *)
LEMMA RequestFields ==
    ASSUME NEW q \in Requests
    PROVE  /\ q.op \in Ops /\ q.id \in BackendIds /\ q.load \in Loads
           /\ q.new \in Row \cup {NoRow}
           /\ q.op = "CreateOrUpdate" => q.new \in Row
  BY RowAssumption DEF Requests, Ops, FlagOps

LEMMA AnyRequestType == AnyRequest \in Requests
  BY RowAssumption DEF AnyRequest, Requests, FlagOps

(* What a handler is about to write is a row: the strengthening type       *)
(* correctness needs, for UPDATE and INSERT write `held` as it is.         *)
HeldIsRow ==
    \A p \in Procs :
        \/ call[p].phase \in {"recheck", "create", "update"}
        \/ call[p].phase = "find" /\ Op(p) = "CreateOrUpdate"
        => call[p].held \in Row

TypeInv == TypeOK /\ HeldIsRow

LEMMA TypeInvInit == Init => TypeInv
  BY AnyRequestType DEF Init, TypeInv, TypeOK, HeldIsRow, Call, Phases

LEMMA TypeInvNext == TypeInv /\ [Next]_vars => TypeInv'
<1> SUFFICES ASSUME TypeInv, [Next]_vars PROVE TypeInv'
  OBVIOUS
<1> USE DEF TypeInv, TypeOK
<1>1. ASSUME NEW p \in Procs, NEW q \in Requests, Receive(p, q)
      PROVE  TypeInv'
  BY <1>1, RequestFields DEF Receive, HeldIsRow, Call, Phases, Op
<1>2. ASSUME NEW p \in Procs, FindHit(p)
      PROVE  TypeInv'
  <2> DEFINE r == row[Id(p)]
             m == Mutated(Op(p), r, call[p].what.load)
  <2>1. /\ call[p] \in Call /\ call[p].what \in Requests /\ Id(p) \in BackendIds
        /\ call[p].what.load \in Loads
    BY RequestFields DEF Call, Id
  <2>2. r \in Row
    BY <1>2, <2>1 DEF FindHit
  <2>3. m \in Row
    BY <2>1, <2>2, MutatedType
  <2> HIDE DEF m
  <2>4. CASE Op(p) = "CreateOrUpdate" /\ Goto(p, "update", call[p].held)
    BY <1>2, <2>1, <2>4 DEF FindHit, Goto, HeldIsRow, Call, Phases, Op
  <2>5. CASE Op(p) = "Delete" /\ Goto(p, "delete", NoRow)
    BY <1>2, <2>1, <2>5 DEF FindHit, Goto, HeldIsRow, Call, Phases, Op
  <2>6. CASE Goto(p, "recheck", m)
    BY <1>2, <2>1, <2>3, <2>6 DEF FindHit, Goto, HeldIsRow, Call, Phases, Op
  <2>7. CASE Goto(p, "update", m)
    BY <1>2, <2>1, <2>3, <2>7 DEF FindHit, Goto, HeldIsRow, Call, Phases, Op
  <2>8. CASE Reply(p, "ok")
    BY <1>2, <2>1, <2>8 DEF FindHit, Reply, HeldIsRow, Call, Phases, Op
  <2>9. QED
    BY <1>2, <2>4, <2>5, <2>6, <2>7, <2>8 DEF FindHit, m
<1>3. ASSUME NEW p \in Procs, FindMiss(p)
      PROVE  TypeInv'
  BY <1>3 DEF FindMiss, Goto, Reply, HeldIsRow, Call, Phases, Op
<1>4. ASSUME NEW p \in Procs, Recheck(p)
      PROVE  TypeInv'
  BY <1>4 DEF Recheck, Goto, Reply, HeldIsRow, Call, Phases, Op
<1>5. ASSUME NEW p \in Procs, Create(p)
      PROVE  TypeInv'
  BY <1>5 DEF Create, Reply, HeldIsRow, Call, Phases, Op
<1>6. ASSUME NEW p \in Procs, Update(p)
      PROVE  TypeInv'
  BY <1>6 DEF Update, Reply, HeldIsRow, Call, Phases, Op
<1>7. ASSUME NEW p \in Procs, UpdateNoRow(p)
      PROVE  TypeInv'
  <2>1. UNCHANGED row /\ (Reply(p, "ok") \/ Reply(p, "error"))
    BY <1>7 DEF UpdateNoRow
  <2>2. call[p] \in Call
    OBVIOUS
  <2>3. CASE Reply(p, "ok")
    BY <2>1, <2>2, <2>3 DEF Reply, HeldIsRow, Call, Phases, Op
  <2>4. CASE Reply(p, "error")
    BY <2>1, <2>2, <2>4 DEF Reply, HeldIsRow, Call, Phases, Op
  <2>5. QED
    BY <2>1, <2>3, <2>4
<1>8. ASSUME NEW p \in Procs, Delete(p)
      PROVE  TypeInv'
  BY <1>8 DEF Delete, Reply, HeldIsRow, Call, Phases, Op
<1>9. CASE UNCHANGED vars
  BY <1>9 DEF vars, HeldIsRow, Op
<1>10. QED
  BY <1>1, <1>2, <1>3, <1>4, <1>5, <1>6, <1>7, <1>8, <1>9 DEF Next, Step

(* The table holds rows or nothing, and every slot a well-formed call,     *)
(* whatever the callers ask for and however their handlers interleave.     *)
THEOREM TypeCorrect == Spec => []TypeOK
<1>1. TypeInv => TypeOK
  BY DEF TypeInv
<1>2. QED
  BY <1>1, TypeInvInit, TypeInvNext, PTL DEF Spec

-----------------------------------------------------------------------------
(* Handlers that race.                                                     *)

(* A step of one slot leaves the other slots alone.                        *)
LEMMA OtherSlots ==
    ASSUME TypeInv, NEW s \in Procs, NEW p \in Procs, p # s,
           Step(s) \/ \E q \in Requests : Receive(s, q)
    PROVE  call'[p] = call[p]
<1> USE DEF TypeInv, TypeOK
<1>1. CASE \E q \in Requests : Receive(s, q)
  BY <1>1 DEF Receive
<1>2. CASE FindHit(s)
  BY <1>2 DEF FindHit, Goto, Reply
<1>3. CASE FindMiss(s)
  BY <1>3 DEF FindMiss, Goto, Reply
<1>4. CASE Recheck(s)
  BY <1>4 DEF Recheck, Goto, Reply
<1>5. CASE Create(s) \/ Update(s) \/ UpdateNoRow(s) \/ Delete(s)
  BY <1>5 DEF Create, Update, UpdateNoRow, Delete, Reply
<1>6. QED
  BY <1>1, <1>2, <1>3, <1>4, <1>5 DEF Step

(* The step that changes a slot is that slot's own.                        *)
LEMMA OwnStep ==
    ASSUME TypeInv, Next, NEW p \in Procs, call'[p] # call[p]
    PROVE  Step(p) \/ \E q \in Requests : Receive(p, q)
<1>1. PICK s \in Procs : Step(s) \/ \E q \in Requests : Receive(s, q)
  BY DEF Next
<1>2. s = p
  BY <1>1, OtherSlots
<1>3. QED
  BY <1>1, <1>2

LEMMA FreshCopyNext ==
    TypeInv /\ FreshCopy /\ [RaceNext]_race_vars => FreshCopy'
<1> SUFFICES ASSUME TypeInv, FreshCopy, [RaceNext]_race_vars,
                    NEW p \in Procs, HoldsCopy(p)', p \notin stale'
             PROVE  /\ row'[Id(p)'] # NoRow
                    /\ call'[p].held = Mutated(Op(p)', row'[Id(p)'],
                                              call'[p].what.load)
  BY DEF FreshCopy
<1>1. CASE UNCHANGED race_vars
  BY <1>1 DEF race_vars, FreshCopy, HoldsCopy, Op, Id
<1>2. CASE RaceNext /\ call'[p] = call[p]
  <2>1. HoldsCopy(p) /\ Id(p)' = Id(p) /\ Op(p)' = Op(p)
    BY <1>2 DEF HoldsCopy, Id, Op
  <2>2. p \notin stale /\ row'[Id(p)] = row[Id(p)]
    BY <1>2, <2>1 DEF RaceNext
  <2>3. QED
    BY <1>2, <2>1, <2>2 DEF FreshCopy
<1>3. CASE RaceNext /\ call'[p] # call[p]
  <2>1. Step(p) \/ \E q \in Requests : Receive(p, q)
    BY <1>3, OwnStep DEF RaceNext
  <2> USE DEF TypeInv, TypeOK
  <2>2. call[p] \in Call /\ call[p] = call[p]
    OBVIOUS
  <2>3. CASE \E q \in Requests : Receive(p, q)
    BY <2>3 DEF Receive, HoldsCopy
  <2>4. CASE FindHit(p)
    <3>1. UNCHANGED row /\ row[Id(p)] # NoRow
      BY <2>4 DEF FindHit
    <3>2. CASE Op(p) = "CreateOrUpdate" /\ Goto(p, "update", call[p].held)
      BY <2>2, <3>2 DEF Goto, HoldsCopy, Op, Call
    <3>3. CASE Goto(p, "delete", NoRow) \/ Reply(p, "ok")
      BY <2>2, <3>3 DEF Goto, Reply, HoldsCopy, Call
    <3>4. ASSUME NEW phase \in Phases,
                 Goto(p, phase, Mutated(Op(p), row[Id(p)], call[p].what.load))
          PROVE  /\ call'[p].held = Mutated(Op(p), row[Id(p)], call[p].what.load)
                 /\ call'[p].what = call[p].what
      BY <2>2, <3>4 DEF Goto, Call
    <3>5. \/ Goto(p, "recheck", Mutated(Op(p), row[Id(p)], call[p].what.load))
          \/ Goto(p, "update", Mutated(Op(p), row[Id(p)], call[p].what.load))
          \/ Op(p) = "CreateOrUpdate" /\ Goto(p, "update", call[p].held)
          \/ Goto(p, "delete", NoRow) \/ Reply(p, "ok")
      BY <2>4 DEF FindHit
    <3>6. QED
      BY <3>1, <3>2, <3>3, <3>4, <3>5 DEF Phases, Id, Op
  <2>5. CASE FindMiss(p)
    BY <2>2, <2>5 DEF FindMiss, Goto, Reply, HoldsCopy, Op, Call
  <2>6. CASE Recheck(p)
    <3>1. UNCHANGED row /\ call'[p].what = call[p].what
      BY <2>2, <2>6 DEF Recheck, Goto, Reply, Call
    <3>2. call'[p].held = call[p].held /\ HoldsCopy(p)
      BY <2>2, <2>6 DEF Recheck, Goto, Reply, HoldsCopy, Op, Call
    <3>3. p \notin stale
      BY <1>3, <3>2 DEF RaceNext
    <3>4. QED
      BY <3>1, <3>2, <3>3 DEF FreshCopy, Id, Op
  <2>7. CASE Create(p) \/ Update(p) \/ UpdateNoRow(p) \/ Delete(p)
    BY <2>2, <2>7 DEF Create, Update, UpdateNoRow, Delete, Reply,
                      HoldsCopy, Call
  <2>8. QED
    BY <2>1, <2>3, <2>4, <2>5, <2>6, <2>7 DEF Step
<1>4. QED
  BY <1>1, <1>2, <1>3

LEMMA RaceInv == RaceSpec => [](TypeInv /\ FreshCopy)
<1>1. RaceInit => TypeInv /\ FreshCopy
  BY TypeInvInit DEF RaceInit, Init, FreshCopy, HoldsCopy
<1>2. [RaceNext]_race_vars => [Next]_vars
  BY DEF RaceNext, race_vars, vars
<1>3. QED
  BY <1>1, <1>2, TypeInvNext, FreshCopyNext, PTL DEF RaceSpec

(* A handler nobody overtook writes what its operation makes of the row as *)
(* it is at that moment.                                                   *)
THEOREM FreshCopyHolds == RaceSpec => []FreshCopy
  BY RaceInv, PTL

-----------------------------------------------------------------------------
(* Setting a flag twice is setting it once; a row that already has it is   *)
(* what the operation would make of it.                                    *)
LEMMA MutatedTwice ==
    ASSUME NEW op \in FlagOps, NEW r \in Row, NEW load
    PROVE  /\ Mutated(op, Mutated(op, r, load), 0) = Mutated(op, r, load)
           /\ AlreadyInState(op, r) => r = Mutated(op, r, 0)
  BY DEF FlagOps, Mutated, Row, AlreadyInState

(* What a handler's phase says of its request and of the copy it holds,    *)
(* stale or not.                                                           *)
CallInv ==
    \A p \in Procs :
        /\ call[p].phase = "create" => Op(p) = "CreateOrUpdate"
        /\ call[p].phase = "delete" => Op(p) = "Delete"
        /\ call[p].phase = "recheck" => Op(p) = "UpdateClusterLoad"
        /\ call[p].phase = "update" => Op(p) # "Delete"
        /\ Op(p) = "CreateOrUpdate" /\ call[p].phase # "done" =>
              call[p].held = call[p].what.new
        /\ Op(p) \in FlagOps /\ call[p].phase = "update" =>
              call[p].held = Mutated(Op(p), call[p].held, 0)

LEMMA CallInvNext == TypeInv /\ CallInv /\ [Next]_vars => CallInv'
<1> SUFFICES ASSUME TypeInv, CallInv, [Next]_vars, NEW p \in Procs
             PROVE  (/\ call[p].phase = "create" => Op(p) = "CreateOrUpdate"
                     /\ call[p].phase = "delete" => Op(p) = "Delete"
                     /\ call[p].phase = "recheck" => Op(p) = "UpdateClusterLoad"
                     /\ call[p].phase = "update" => Op(p) # "Delete"
                     /\ Op(p) = "CreateOrUpdate" /\ call[p].phase # "done" =>
                           call[p].held = call[p].what.new
                     /\ Op(p) \in FlagOps /\ call[p].phase = "update" =>
                           call[p].held = Mutated(Op(p), call[p].held, 0))'
  BY DEF CallInv
<1>1. CASE call'[p] = call[p]
  BY <1>1 DEF CallInv, Op
<1>2. CASE call'[p] # call[p]
  <2>1. Step(p) \/ \E q \in Requests : Receive(p, q)
    BY <1>2, OwnStep DEF vars
  <2> USE DEF TypeInv, TypeOK
  <2>2. call[p] \in Call
    OBVIOUS
  <2>3. CASE \E q \in Requests : Receive(p, q)
    BY <2>3 DEF Receive, Op
  <2>4. CASE FindHit(p)
    <3> DEFINE m == Mutated(Op(p), row[Id(p)], call[p].what.load)
    <3>1. row[Id(p)] \in Row
      BY <2>2, <2>4, RequestFields DEF FindHit, Call, Id
    <3>2. CASE Op(p) = "CreateOrUpdate" /\ Goto(p, "update", call[p].held)
      BY <2>2, <2>4, <3>2 DEF FindHit, Goto, CallInv, Call, Op, FlagOps
    <3>3. CASE Op(p) = "Delete" /\ Goto(p, "delete", NoRow)
      BY <2>2, <3>3 DEF Goto, Call, Op
    <3>4. CASE Op(p) = "UpdateClusterLoad" /\ Goto(p, "recheck", m)
      BY <2>2, <3>4 DEF Goto, Call, Op
    <3>5. CASE Reply(p, "ok")
      BY <2>2, <3>5 DEF Reply, Call, Op
    <3>6. CASE Op(p) \in FlagOps /\ Goto(p, "update", m)
      <4>1. m = Mutated(Op(p), m, 0)
        BY <3>1, <3>6, MutatedTwice
      <4> HIDE DEF m
      <4>2. QED
        BY <2>2, <3>6, <4>1 DEF Goto, Call, Op, FlagOps
    <3>7. QED
      BY <2>4, <3>2, <3>3, <3>4, <3>5, <3>6 DEF FindHit
  <2>5. CASE FindMiss(p)
    BY <2>2, <2>5 DEF FindMiss, Goto, Reply, CallInv, Op, Call
  <2>6. CASE Recheck(p)
    BY <2>2, <2>6 DEF Recheck, Goto, Reply, CallInv, Op, Call, FlagOps
  <2>7. CASE Create(p) \/ Update(p) \/ UpdateNoRow(p) \/ Delete(p)
    BY <2>2, <2>7 DEF Create, Update, UpdateNoRow, Delete, Reply, Call, Op
  <2>8. QED
    BY <2>1, <2>3, <2>4, <2>5, <2>6, <2>7 DEF Step
<1>3. QED
  BY <1>1, <1>2

LEMMA RaceCallInv == RaceSpec => []CallInv
<1>1. RaceInit => CallInv
  BY DEF RaceInit, Init, CallInv, Op, AnyRequest, FlagOps
<1>2. [RaceNext]_race_vars => [Next]_vars
  BY DEF RaceNext, race_vars, vars
<1>3. QED
  BY <1>1, <1>2, RaceInv, CallInvNext, PTL DEF RaceSpec

(* The slot that answers is the one that takes the step, and it was        *)
(* serving a call.                                                         *)
LEMMA AnswerStep ==
    ASSUME TypeInv, Next, NEW p \in Procs, Answers(p)
    PROVE  Step(p)
<1>1. Step(p) \/ \E q \in Requests : Receive(p, q)
  BY OwnStep DEF Answers
<1>2. ASSUME NEW q \in Requests, Receive(p, q) PROVE FALSE
  BY <1>2 DEF Receive, Answers
<1>3. QED
  BY <1>1, <1>2

-----------------------------------------------------------------------------
(* Only a handler that was overtaken by another write of the row can move  *)
(* a column its operation does not own: the two-flag separation of         *)
(* operators and monitor holds exactly up to overlapping writes.           *)
THEOREM OwnedColumnsHold == RaceSpec => OwnedColumns
<1> DEFINE Kept(p) ==
      LET old == row[Id(p)]  new == row'[Id(p)] IN
      Answers(p) /\ old # NoRow /\ new # NoRow =>
        /\ Op(p) \in MonitorOps =>
             /\ new.isEnabled = old.isEnabled
             /\ new.thresholdClusterLoad = old.thresholdClusterLoad
        /\ Op(p) \in {"Enable", "Disable"} =>
             /\ new.isHealthy = old.isHealthy
             /\ new.clusterLoad = old.clusterLoad
<1>1. ASSUME TypeInv, FreshCopy, RaceNext, NEW p \in Procs \ stale
      PROVE  Kept(p)
  <2> SUFFICES ASSUME Answers(p), row[Id(p)] # NoRow, row'[Id(p)] # NoRow
               PROVE  Kept(p)
    OBVIOUS
  <2>1. Step(p)
    BY <1>1, AnswerStep DEF RaceNext
  <2>2. Id(p) \in BackendIds /\ row[Id(p)] \in Row
    BY <1>1, RequestFields DEF TypeInv, TypeOK, Call, Id
  <2>3. CASE UNCHANGED row
    BY <2>3
  <2>4. CASE Update(p)
    <3>1. CASE Op(p) \in MonitorOps \cup {"Enable", "Disable"}
      <4>1. HoldsCopy(p)
        BY <2>4, <3>1 DEF Update, HoldsCopy, MonitorOps
      <4>2. call[p].held = Mutated(Op(p), row[Id(p)], call[p].what.load)
        BY <1>1, <4>1 DEF FreshCopy
      <4>3. row'[Id(p)] = Mutated(Op(p), row[Id(p)], call[p].what.load)
        BY <1>1, <2>2, <2>4, <4>2 DEF Update, TypeInv, TypeOK
      <4>4. QED
        BY <2>2, <3>1, <4>3 DEF Mutated, MonitorOps, Row
    <3>2. CASE Op(p) \notin MonitorOps \cup {"Enable", "Disable"}
      BY <3>2
    <3>3. QED
      BY <3>1, <3>2
  <2>5. CASE Delete(p)
    BY <1>1, <2>2, <2>5, <2>3 DEF Delete, TypeInv, TypeOK
  <2>6. QED
    BY <2>1, <2>3, <2>4, <2>5
       DEF Step, FindHit, FindMiss, Recheck, Create, UpdateNoRow
<1>2. TypeInv /\ FreshCopy /\ [RaceNext]_race_vars
        => [\A p \in Procs \ stale : Kept(p)]_race_vars
  BY <1>1
<1>3. QED
  BY <1>2, RaceInv, PTL DEF RaceSpec, OwnedColumns

(* No handler that read a backend before its DELETE brings it back.        *)
THEOREM DeletedStaysDeletedHolds == RaceSpec => DeletedStaysDeleted
<1> DEFINE Recreated(b) ==
      row[b] = NoRow /\ row'[b] # NoRow =>
        \E p \in Procs : /\ Answers(p) /\ Id(p) = b
                         /\ Op(p) = "CreateOrUpdate"
                         /\ row'[b] = call[p].what.new
<1>1. ASSUME TypeInv, CallInv, RaceNext, NEW b \in BackendIds
      PROVE  Recreated(b)
  <2> SUFFICES ASSUME row[b] = NoRow, row'[b] # NoRow
               PROVE  Recreated(b)
    OBVIOUS
  <2>1. PICK p \in Procs : (\E q \in Requests : Receive(p, q)) \/ Step(p)
    BY <1>1 DEF RaceNext, Next
  <2>2. Create(p) \/ Update(p) \/ Delete(p)
    BY <2>1 DEF Step, Receive, FindHit, FindMiss, Recheck, UpdateNoRow
  <2> USE <1>1 DEF TypeInv, TypeOK
  <2>3. ~Update(p) /\ ~Delete(p)
    BY DEF Update, Delete
  <2>4. /\ call[p].phase = "create" /\ Id(p) = b
        /\ row'[b] = call[p].held /\ Reply(p, "ok")
    BY <2>2, <2>3 DEF Create
  <2>5. Op(p) = "CreateOrUpdate" /\ call[p].held = call[p].what.new
    BY <2>4 DEF CallInv
  <2>6. call[p] \in Call
    OBVIOUS
  <2>7. Answers(p)
    BY <2>4, <2>6 DEF Answers, Reply, Call
  <2>8. QED
    BY <2>4, <2>5, <2>7
<1>2. TypeInv /\ CallInv /\ [RaceNext]_race_vars
        => [\A b \in BackendIds : Recreated(b)]_race_vars
  BY <1>1
<1>3. QED
  BY <1>2, RaceInv, RaceCallInv, PTL DEF RaceSpec, DeletedStaysDeleted

(* A flag operation that answers "ok" leaves its flag as it was asked to,  *)
(* whatever races with it.                                                 *)
THEOREM FlagAnswerTrueHolds == RaceSpec => FlagAnswerTrue
<1> DEFINE Honest(p) ==
      LET new == row'[Id(p)] IN
      Answers(p) /\ Op(p) \in FlagOps /\ call'[p].reply = "ok" =>
        /\ new # NoRow
        /\ new = Mutated(Op(p), new, 0)
<1>1. ASSUME TypeInv, CallInv, RaceNext, NEW p \in Procs
      PROVE  Honest(p)
  <2> SUFFICES ASSUME Answers(p), Op(p) \in FlagOps, call'[p].reply = "ok"
               PROVE  Honest(p)
    OBVIOUS
  <2>1. Step(p)
    BY <1>1, AnswerStep DEF RaceNext
  <2> USE <1>1 DEF TypeInv, TypeOK
  <2>2. call[p] \in Call /\ Id(p) \in BackendIds
    BY RequestFields DEF Call, Id
  <2>3. CASE FindHit(p)
    <3>1. row[Id(p)] \in Row /\ UNCHANGED row
      BY <2>2, <2>3 DEF FindHit
    <3>2. AlreadyInState(Op(p), row[Id(p)])
      BY <2>2, <2>3 DEF FindHit, Goto, Answers, Call, FlagOps
    <3>3. QED
      BY <3>1, <3>2, MutatedTwice, RowAssumption
  <2>4. CASE Update(p)
    <3>1. row'[Id(p)] = call[p].held
      BY <2>2, <2>4 DEF Update
    <3>2. call[p].held \in Row
      BY <2>4 DEF Update, HeldIsRow
    <3>3. call[p].held = Mutated(Op(p), call[p].held, 0)
      BY <2>4 DEF Update, CallInv
    <3>4. QED
      BY <3>1, <3>2, <3>3, RowAssumption
  <2>5. ~FindMiss(p) /\ ~Recheck(p) /\ ~Create(p) /\ ~Delete(p)
    <3>1. ~Recheck(p) /\ ~Create(p) /\ ~Delete(p)
      BY DEF Recheck, Create, Delete, CallInv, FlagOps
    <3>2. ~FindMiss(p)
      BY <2>2 DEF FindMiss, Reply, Call, FlagOps
    <3>3. QED
      BY <3>1, <3>2
  <2>6. ~UpdateNoRow(p)
    BY <2>2 DEF UpdateNoRow, SwallowsNoRowAffected, Reply, Call, FlagOps
  <2>7. QED
    BY <2>1, <2>3, <2>4, <2>5, <2>6 DEF Step
<1>2. TypeInv /\ CallInv /\ [RaceNext]_race_vars
        => [\A p \in Procs : Honest(p)]_race_vars
  BY <1>1
<1>3. QED
  BY <1>2, RaceInv, RaceCallInv, PTL DEF RaceSpec, FlagAnswerTrue

-----------------------------------------------------------------------------
(* Calls about the same backend that do not overlap, with no failing       *)
(* statements: the handlers implement the atomic BackendApi.               *)

(* One call per backend at a time.                                         *)
Exclusive ==
    \A p, s \in Procs :
        call[p].phase # "done" /\ call[s].phase # "done" /\ Id(p) = Id(s)
            => p = s

SerialInv == TypeInv /\ CallInv /\ Exclusive /\ HeldIsCurrent

LEMMA SerialIsNext == [SerialNext]_vars => [Next]_vars
  BY DEF SerialNext, Next

(* A handler writes no row but the one its call names.                     *)
LEMMA OtherRows ==
    ASSUME TypeInv, NEW s \in Procs, Step(s), NEW b \in BackendIds, b # Id(s)
    PROVE  row'[b] = row[b]
  BY DEF TypeInv, TypeOK, Step, FindHit, FindMiss, Recheck, Create, Update,
         UpdateNoRow, Delete

(* A call is served until it answers, about the same backend.              *)
LEMMA StepKeepsCall ==
    ASSUME TypeInv, NEW p \in Procs, Step(p)
    PROVE  call'[p].what = call[p].what /\ call[p].phase # "done"
<1> USE DEF TypeInv, TypeOK
<1>1. call[p] \in Call
  OBVIOUS
<1>2. CASE FindHit(p)
  BY <1>1, <1>2 DEF FindHit, Goto, Reply, Call
<1>3. CASE FindMiss(p) \/ Recheck(p)
  BY <1>1, <1>3 DEF FindMiss, Recheck, Goto, Reply, Call
<1>4. CASE Create(p) \/ Update(p) \/ UpdateNoRow(p) \/ Delete(p)
  BY <1>1, <1>4 DEF Create, Update, UpdateNoRow, Delete, Reply, Call
<1>5. QED
  BY <1>2, <1>3, <1>4 DEF Step

LEMMA ExclusiveNext ==
    TypeInv /\ Exclusive /\ [SerialNext]_vars => Exclusive'
<1> SUFFICES ASSUME TypeInv, Exclusive, [SerialNext]_vars PROVE Exclusive'
  OBVIOUS
<1>1. CASE UNCHANGED vars
  BY <1>1 DEF vars, Exclusive, Id
<1>2. ASSUME NEW p \in Procs, NEW q \in Requests, Quiet(q.id), Receive(p, q)
      PROVE  Exclusive'
  <2>1. /\ call'[p].what = q
        /\ \A s \in Procs : s # p => call'[s] = call[s]
    BY <1>2 DEF Receive, TypeInv, TypeOK
  <2>2. QED
    BY <1>2, <2>1 DEF Exclusive, Quiet, Id
<1>3. ASSUME NEW p \in Procs, Step(p) PROVE Exclusive'
  <2>1. \A s \in Procs : s # p => call'[s] = call[s]
    BY <1>3, OtherSlots
  <2>2. call'[p].what = call[p].what /\ call[p].phase # "done"
    BY <1>3, StepKeepsCall
  <2>3. QED
    BY <2>1, <2>2 DEF Exclusive, Id
<1>4. QED
  BY <1>1, <1>2, <1>3 DEF SerialNext

(* An operation that is not there yet changes the row.                     *)
LEMMA MutatedDiffers ==
    ASSUME NEW op \in FlagOps, NEW r \in Row, NEW load,
           ~AlreadyInState(op, r)
    PROVE  Mutated(op, r, load) # r
  BY DEF FlagOps, Mutated, Row, AlreadyInState

LEMMA HeldIsCurrentNext ==
    ASSUME ~DbMayFail
    PROVE  SerialInv /\ [SerialNext]_vars => HeldIsCurrent'
<1> SUFFICES ASSUME SerialInv, [SerialNext]_vars, NEW p \in Procs
             PROVE (LET r == row[Id(p)]  c == call[p] IN
                    /\ c.phase \in {"update", "delete", "recheck"} => r # NoRow
                    /\ c.phase = "create" => r = NoRow
                    /\ Op(p) = "CreateOrUpdate" /\ c.phase # "done"
                          => c.held = c.what.new
                    /\ c.phase \in {"update", "recheck"}
                       /\ Op(p) # "CreateOrUpdate" =>
                         /\ c.held = Mutated(Op(p), r, c.what.load)
                         /\ Op(p) \in FlagOps => c.held # r)'
  BY DEF HeldIsCurrent
<1> USE DEF SerialInv
<1>1. call[p] \in Call /\ Id(p) \in BackendIds
  BY RequestFields DEF TypeInv, TypeOK, Call, Id
<1>2. CASE call'[p] = call[p] /\ row'[Id(p)] = row[Id(p)]
  BY <1>2 DEF HeldIsCurrent, Id, Op
<1>3. CASE call'[p] = call[p] /\ row'[Id(p)] # row[Id(p)]
  <2>1. PICK s \in Procs : Step(s)
    BY <1>3 DEF SerialNext, Receive, vars
  <2>2. Id(s) = Id(p)
    BY <1>1, <1>3, <2>1, OtherRows
  <2>3. call[s].phase # "done"
    BY <2>1, StepKeepsCall
  <2>4. CASE s = p
    <3>1. call'[p].phase = "done"
      BY <1>1, <1>3, <2>1, <2>4
         DEF Step, FindHit, FindMiss, Recheck, UpdateNoRow, Create, Update,
             Delete, Reply, Call, TypeInv, TypeOK
    <3>2. QED
      BY <3>1, <1>3
  <2>5. CASE s # p
    <3>1. call[p].phase = "done"
      BY <2>2, <2>3, <2>5 DEF Exclusive
    <3>2. QED
      BY <3>1, <1>3
  <2>6. QED
    BY <2>4, <2>5
<1>4. CASE call'[p] # call[p]
  <2>1. Step(p) \/ \E q \in Requests : Receive(p, q)
    BY <1>4, SerialIsNext, OwnStep DEF vars
  <2> USE DEF TypeInv, TypeOK
  <2>2. CASE \E q \in Requests : Receive(p, q)
    BY <2>2 DEF Receive, Op
  <2>3. CASE FindHit(p)
    <3> DEFINE m == Mutated(Op(p), row[Id(p)], call[p].what.load)
    <3>1. row[Id(p)] \in Row /\ UNCHANGED row
      BY <1>1, <2>3 DEF FindHit
    <3>2. CASE Op(p) = "CreateOrUpdate" /\ Goto(p, "update", call[p].held)
      BY <1>1, <2>3, <3>1, <3>2, RowAssumption
         DEF FindHit, Goto, HeldIsCurrent, Call, Op, Id
    <3>3. CASE Op(p) = "Delete" /\ Goto(p, "delete", NoRow)
      BY <1>1, <3>1, <3>3, RowAssumption DEF Goto, Call, Op, Id
    <3>4. CASE Op(p) = "UpdateClusterLoad" /\ Goto(p, "recheck", m)
      <4> HIDE DEF m
      <4>1. /\ call'[p].held = m /\ call'[p].what = call[p].what
            /\ call'[p].phase = "recheck"
        BY <1>1, <3>4 DEF Goto, Call
      <4>2. QED
        BY <3>1, <3>4, <4>1, RowAssumption DEF m, Op, Id, FlagOps
    <3>5. CASE Reply(p, "ok")
      BY <1>1, <3>5 DEF Reply, Call, Op
    <3>6. CASE /\ Op(p) \in FlagOps /\ ~AlreadyInState(Op(p), row[Id(p)])
               /\ Goto(p, "update", m)
      <4>1. m # row[Id(p)]
        BY <3>1, <3>6, MutatedDiffers
      <4> HIDE DEF m
      <4>2. /\ call'[p].held = m /\ call'[p].what = call[p].what
            /\ call'[p].phase = "update"
        BY <1>1, <3>6 DEF Goto, Call
      <4>3. QED
        BY <3>1, <3>6, <4>1, <4>2, RowAssumption DEF m, Op, Id, FlagOps
    <3>7. QED
      BY <2>3, <3>2, <3>3, <3>4, <3>5, <3>6 DEF FindHit
  <2>4. CASE FindMiss(p)
    BY <1>1, <2>4 DEF FindMiss, Goto, Reply, HeldIsCurrent, Op, Id, Call
  <2>5. CASE Recheck(p)
    <3>1. /\ row[Id(p)] # NoRow /\ UNCHANGED row
          /\ Op(p) = "UpdateClusterLoad"
          /\ call[p].held = Mutated(Op(p), row[Id(p)], call[p].what.load)
      BY <2>5 DEF Recheck, HeldIsCurrent, CallInv
    <3>2. Goto(p, "update", call[p].held)
      BY <2>5, <3>1 DEF Recheck
    <3>3. /\ call'[p].held = call[p].held /\ call'[p].what = call[p].what
          /\ call'[p].phase = "update"
      BY <1>1, <3>2 DEF Goto, Call
    <3>4. QED
      BY <3>1, <3>3 DEF Op, Id, FlagOps
  <2>6. CASE Create(p) \/ Update(p) \/ UpdateNoRow(p) \/ Delete(p)
    BY <1>1, <2>6 DEF Create, Update, UpdateNoRow, Delete, Reply, Call, Op
  <2>7. QED
    BY <2>1, <2>2, <2>3, <2>4, <2>5, <2>6 DEF Step
<1>5. QED
  BY <1>2, <1>3, <1>4

LEMMA SerialInvHolds ==
    ASSUME ~DbMayFail
    PROVE  SerialSpec => []SerialInv
<1>1. Init => SerialInv
  <2>1. Init => TypeInv
    BY TypeInvInit
  <2>2. Init => CallInv /\ Exclusive /\ HeldIsCurrent
    <3> SUFFICES ASSUME Init PROVE CallInv /\ Exclusive /\ HeldIsCurrent
      OBVIOUS
    <3>1. \A p \in Procs : call[p].phase = "done"
      BY DEF Init
    <3>2. QED
      BY <3>1 DEF CallInv, Exclusive, HeldIsCurrent
  <2>3. QED
    BY <2>1, <2>2 DEF SerialInv
<1>2. SerialInv /\ [SerialNext]_vars => SerialInv'
  BY SerialIsNext, TypeInvNext, CallInvNext, ExclusiveNext, HeldIsCurrentNext
     DEF SerialInv
<1>3. QED
  BY <1>1, <1>2, PTL DEF SerialSpec

(* Between its steps a handler that is alone with its row knows the row:   *)
(* the copy it holds is what its operation makes of the row as it is.      *)
THEOREM HeldIsCurrentHolds ==
    ASSUME ~DbMayFail
    PROVE  SerialSpec => []HeldIsCurrent
<1>1. SerialInv => HeldIsCurrent
  BY DEF SerialInv
<1>2. QED
  BY <1>1, SerialInvHolds, PTL

-----------------------------------------------------------------------------
(* What an answer and a silent step look like from outside.                *)
LEMMA BarReply ==
    ASSUME TypeInv, NEW p \in Procs, NEW answer,
           call[p].phase # "done", Reply(p, answer)
    PROVE  /\ reqBar[p].state = "pending" /\ reqBar[p].what = call[p].what
           /\ reqBar' = [reqBar EXCEPT ![p].state = "done", ![p].reply = answer]
<1> USE DEF TypeInv, TypeOK
<1>1. call[p] \in Call
  OBVIOUS
<1>2. \A s \in Procs : s # p => call'[s] = call[s]
  BY DEF Reply
<1>3. /\ call'[p].what = call[p].what /\ call'[p].phase = "done"
      /\ call'[p].reply = answer
  BY <1>1 DEF Reply, Call
<1>4. QED
  BY <1>2, <1>3 DEF reqBar

LEMMA BarGoto ==
    ASSUME TypeInv, NEW p \in Procs, NEW phase, NEW held,
           call[p].phase # "done", phase # "done", Goto(p, phase, held)
    PROVE  reqBar' = reqBar
<1> USE DEF TypeInv, TypeOK
<1>1. call[p] \in Call
  OBVIOUS
<1>2. \A s \in Procs : s # p => call'[s] = call[s]
  BY DEF Goto
<1>3. /\ call'[p].what = call[p].what /\ call'[p].phase = phase
      /\ call'[p].reply = call[p].reply
  BY <1>1 DEF Goto, Call
<1>4. QED
  BY <1>2, <1>3 DEF reqBar

(* The atomic operation a step that answers stands for.                    *)
LEMMA AnswerExecutes ==
    ASSUME SerialInv, NEW p \in Procs, call[p].phase # "done",
           Op(p) \in FlagOps \cup {"UpdateClusterLoad"}, row[Id(p)] # NoRow,
           row' = [row EXCEPT ![Id(p)] =
                     Mutated(Op(p), row[Id(p)], call[p].what.load)],
           Reply(p, "ok")
    PROVE  Atomic!Execute(p)
  BY BarReply DEF SerialInv, Atomic!Execute, Atomic!Answer, Op, Id, Mutated,
     Atomic!Mutated, FlagOps, Atomic!FlagOps

LEMMA AnswerUpserts ==
    ASSUME SerialInv, NEW p \in Procs, call[p].phase # "done",
           Op(p) = "CreateOrUpdate",
           row' = [row EXCEPT ![Id(p)] = call[p].what.new],
           Reply(p, "ok")
    PROVE  Atomic!Upsert(p)
  BY BarReply DEF SerialInv, Atomic!Upsert, Atomic!Answer, Op, Id

LEMMA AnswerRefuses ==
    ASSUME SerialInv, NEW p \in Procs, call[p].phase # "done",
           Op(p) # "CreateOrUpdate",
           row[Id(p)] = NoRow \/ (Op(p) = "Delete" /\ Id(p) \in Referenced),
           UNCHANGED row, Reply(p, "error")
    PROVE  Atomic!Refuse(p)
  BY BarReply DEF SerialInv, Atomic!Refuse, Atomic!Answer, Op, Id

LEMMA StepRefines ==
    ASSUME ~DbMayFail, SerialInv, NEW p \in Procs, Step(p)
    PROVE  Atomic!Next \/ UNCHANGED <<row, reqBar>>
<1> USE DEF SerialInv
<1>1. /\ call[p] \in Call /\ Id(p) \in BackendIds /\ call[p].phase # "done"
      /\ Op(p) \in Ops
  BY StepKeepsCall, RequestFields DEF TypeInv, TypeOK, Call, Id, Op
<1>2. CASE FindHit(p)
  <2> DEFINE m == Mutated(Op(p), row[Id(p)], call[p].what.load)
  <2>1. row[Id(p)] # NoRow /\ row[Id(p)] \in Row /\ UNCHANGED row
    BY <1>1, <1>2 DEF FindHit, TypeInv, TypeOK
  <2>2. CASE \/ Goto(p, "update", call[p].held) \/ Goto(p, "delete", NoRow)
             \/ Goto(p, "recheck", m) \/ Goto(p, "update", m)
    BY <1>1, <2>1, <2>2, BarGoto
  <2>3. CASE /\ Op(p) \in FlagOps /\ AlreadyInState(Op(p), row[Id(p)])
             /\ Reply(p, "ok")
    <3>1. Mutated(Op(p), row[Id(p)], call[p].what.load) = row[Id(p)]
      BY <2>1, <2>3 DEF AlreadyInState, Mutated, Row, FlagOps
    <3>2. row' = [row EXCEPT ![Id(p)] =
                    Mutated(Op(p), row[Id(p)], call[p].what.load)]
      BY <1>1, <2>1, <3>1 DEF TypeInv, TypeOK
    <3>3. Atomic!Execute(p)
      BY <1>1, <2>1, <2>3, <3>2, AnswerExecutes
    <3>4. QED
      BY <3>3 DEF Atomic!Next
  <2>4. QED
    BY <1>2, <2>2, <2>3 DEF FindHit
<1>3. CASE FindMiss(p)
  <2>1. row[Id(p)] = NoRow /\ UNCHANGED row
    BY <1>3 DEF FindMiss
  <2>2. CASE Goto(p, "create", call[p].held)
    BY <1>1, <2>1, <2>2, BarGoto
  <2>3. CASE Op(p) # "CreateOrUpdate" /\ Reply(p, "error")
    <3>1. Atomic!Refuse(p)
      BY <1>1, <2>1, <2>3, AnswerRefuses
    <3>2. QED
      BY <3>1 DEF Atomic!Next
  <2>4. QED
    BY <1>3, <2>2, <2>3 DEF FindMiss
<1>4. CASE Recheck(p)
  <2>1. Goto(p, "update", call[p].held) /\ UNCHANGED row
    BY <1>4 DEF Recheck, HeldIsCurrent
  <2>2. QED
    BY <1>1, <2>1, BarGoto
<1>5. CASE Create(p)
  <2>1. row[Id(p)] = NoRow /\ Op(p) = "CreateOrUpdate"
    BY <1>5 DEF Create, HeldIsCurrent, CallInv
  <2>2. row' = [row EXCEPT ![Id(p)] = call[p].what.new] /\ Reply(p, "ok")
    BY <1>1, <1>5, <2>1 DEF Create, HeldIsCurrent
  <2>3. Atomic!Upsert(p)
    BY <1>1, <2>1, <2>2, AnswerUpserts
  <2>4. QED
    BY <2>3 DEF Atomic!Next
<1>6. CASE Update(p) \/ UpdateNoRow(p)
  <2>1. call[p].phase = "update" /\ row[Id(p)] # NoRow
    BY <1>6 DEF Update, UpdateNoRow, HeldIsCurrent
  <2>2. row' = [row EXCEPT ![Id(p)] = call[p].held]
    BY <1>1, <1>6, <2>1 DEF Update, UpdateNoRow, TypeInv, TypeOK
  <2>3. CASE Op(p) = "CreateOrUpdate"
    <3>1. Reply(p, "ok") /\ call[p].held = call[p].what.new
      BY <1>6, <2>1, <2>3 DEF Update, UpdateNoRow, SwallowsNoRowAffected,
                              HeldIsCurrent
    <3>2. Atomic!Upsert(p)
      BY <1>1, <2>2, <2>3, <3>1, AnswerUpserts
    <3>3. QED
      BY <3>2 DEF Atomic!Next
  <2>4. CASE Op(p) # "CreateOrUpdate" /\ Op(p) # "Delete"
    <3>1. /\ call[p].held = Mutated(Op(p), row[Id(p)], call[p].what.load)
          /\ Op(p) \in FlagOps => call[p].held # row[Id(p)]
      BY <2>1, <2>4 DEF HeldIsCurrent
    <3>2. Op(p) \in FlagOps \cup {"UpdateClusterLoad"}
      BY <1>1, <2>4 DEF Ops
    <3>3. Reply(p, "ok")
      BY <1>6, <2>1, <3>1, <3>2 DEF Update, UpdateNoRow, SwallowsNoRowAffected
    <3>4. Atomic!Execute(p)
      BY <1>1, <2>1, <2>2, <3>1, <3>2, <3>3, AnswerExecutes
    <3>5. QED
      BY <3>4 DEF Atomic!Next
  <2>5. Op(p) # "Delete"
    BY <2>1 DEF CallInv
  <2>6. QED
    BY <2>3, <2>4, <2>5
<1>7. CASE Delete(p)
  <2>1. row[Id(p)] # NoRow /\ Op(p) = "Delete"
    BY <1>7 DEF Delete, HeldIsCurrent, CallInv
  <2>2. CASE Id(p) \in Referenced
    <3>1. UNCHANGED row /\ Reply(p, "error")
      BY <1>7, <2>1, <2>2 DEF Delete
    <3>2. Atomic!Refuse(p)
      BY <1>1, <2>1, <2>2, <3>1, AnswerRefuses
    <3>3. QED
      BY <3>2 DEF Atomic!Next
  <2>3. CASE Id(p) \notin Referenced
    <3>1. row' = [row EXCEPT ![Id(p)] = NoRow] /\ Reply(p, "ok")
      BY <1>7, <2>3 DEF Delete
    <3>2. Atomic!Remove(p)
      BY <1>1, <2>1, <2>3, <3>1, BarReply
         DEF Atomic!Remove, Atomic!Answer, Op, Id
    <3>3. QED
      BY <3>2 DEF Atomic!Next
  <2>4. QED
    BY <2>2, <2>3
<1>8. QED
  BY <1>2, <1>3, <1>4, <1>5, <1>6, <1>7 DEF Step

LEMMA ReceiveRefines ==
    ASSUME SerialInv, NEW p \in Procs, NEW q \in Requests, Receive(p, q)
    PROVE  Atomic!Receive(p)
<1> USE DEF SerialInv, TypeInv, TypeOK
<1>1. /\ call'[p] = [what |-> q, phase |-> "find", held |-> q.new,
                     reply |-> "none"]
      /\ \A s \in Procs : s # p => call'[s] = call[s]
  BY DEF Receive
<1>2. reqBar' = [reqBar EXCEPT ![p] = [what |-> q, state |-> "pending",
                                       reply |-> "none"]]
  <2> DEFINE Bar(c) == [what |-> c.what,
                        state |-> IF c.phase = "done" THEN "done" ELSE "pending",
                        reply |-> c.reply]
  <2>1. Bar(call'[p]) = [what |-> q, state |-> "pending", reply |-> "none"]
    BY <1>1
  <2>2. \A s \in Procs : s # p => Bar(call'[s]) = Bar(call[s])
    BY <1>1
  <2>3. /\ reqBar = [s \in Procs |-> Bar(call[s])]
        /\ reqBar' = [s \in Procs |-> Bar(call'[s])]
    BY DEF reqBar
  <2> HIDE DEF Bar
  <2>4. QED
    BY <2>1, <2>2, <2>3
<1>3. reqBar[p].state = "done"
  BY DEF Receive, reqBar
<1>4. q \in Atomic!Requests
  BY DEF Requests, Atomic!Requests, FlagOps, Atomic!FlagOps, Row, Atomic!Row
<1>5. QED
  BY <1>2, <1>3, <1>4 DEF Atomic!Receive, Receive

(* With no overlap on a backend and no failing statement, every call of    *)
(* the BackendApi takes effect at once, on the column it is named for, and *)
(* answers truly: the handlers implement AtomicBackends.                   *)
THEOREM CallsAreAtomicHolds ==
    ASSUME ~DbMayFail
    PROVE  SerialSpec => CallsAreAtomic
<1>1. Init => Atomic!Init
  BY DEF Init, Atomic!Init, reqBar, AnyRequest, Atomic!AnyRequest, Row,
         Atomic!Row
<1>2. SerialInv /\ [SerialNext]_vars => [Atomic!Next]_(Atomic!vars)
  <2> SUFFICES ASSUME SerialInv, [SerialNext]_vars
               PROVE  [Atomic!Next]_(Atomic!vars)
    OBVIOUS
  <2>1. CASE UNCHANGED vars
    BY <2>1 DEF vars, Atomic!vars, reqBar
  <2>2. ASSUME NEW p \in Procs, NEW q \in Requests, Receive(p, q)
        PROVE  Atomic!Next
    BY <2>2, ReceiveRefines DEF Atomic!Next
  <2>3. ASSUME NEW p \in Procs, Step(p)
        PROVE  [Atomic!Next]_(Atomic!vars)
    BY <2>3, StepRefines DEF Atomic!vars
  <2>4. QED
    BY <2>1, <2>2, <2>3 DEF SerialNext
<1>3. QED
  BY <1>1, <1>2, SerialInvHolds, PTL
     DEF SerialSpec, CallsAreAtomic, Atomic!Spec
=============================================================================
