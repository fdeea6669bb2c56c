----------------------------- MODULE MonitorProofs -----------------------------
(***************************************************************************)
(* The monitor's cycle over any backends, workloads and operators' calls,  *)
(* with or without failing statements.                                     *)
(***************************************************************************)
EXTENDS MonitorWindows, BackendProofs

MTypeInv ==
    /\ TypeInv
    /\ cluster \in [BackendIds -> ClusterStates]
    /\ monitor \in Monitor
    /\ calls \in 0..MaxCalls

LEMMA IdleType == Idle \in Monitor
BY RowAssumption DEF Idle, Monitor, Stages

LEMMA MonitorRequestType ==
    ASSUME NEW b \in BackendIds
    PROVE  /\ \A op \in {"MarkHealthy", "MarkUnhealthy"} :
                 MonitorRequest(op, b, 0) \in Requests
           /\ \A load \in Loads : MonitorRequest("UpdateClusterLoad", b, load) \in Requests
BY DEF MonitorRequest, Requests, FlagOps

LEMMA BackendSlots == BackendIds \subseteq Procs /\ Operators \subseteq Procs
BY MonitorAssumption

LEMMA LoadType ==
    ASSUME MTypeInv, NEW b \in BackendIds
    PROVE  /\ ComputeClusterLoad(cluster[b].work) \in Loads
           /\ cluster[b].scheduled \in BOOLEAN
<1>1. cluster[b] \in Cluster
    BY MonitorAssumption DEF MTypeInv
<1>2. cluster[b].work \in Workloads
    BY <1>1 DEF Cluster
<1> QED  BY <1>1, <1>2, MonitorAssumption DEF Cluster

(* What the monitor does but for its calls.                                *)
LEMMA RejectType ==
    ASSUME MTypeInv, NEW b \in BackendIds, Reject(b)
    PROVE  monitor' \in Monitor
BY RowAssumption DEF MTypeInv, Reject, Monitor, Stages

LEMMA ExecuteType ==
    ASSUME MTypeInv, Execute
    PROVE  monitor' \in Monitor
<1> USE DEF MTypeInv
<1>1. CASE Trigger
    BY <1>1 DEF Trigger, Monitor, Stages
<1>2. CASE ListBackends
  <2>1. CASE monitor' = Idle
      BY <2>1, IdleType
  <2>2. CASE monitor' = [monitor EXCEPT !.stage = "next",
                           !.listed = [b \in BackendIds |->
                              IF row[b] = NoRow THEN NoRow
                              ELSE row[b].thresholdClusterLoad],
                           !.left = {b \in BackendIds : row[b] # NoRow}]
    <3> DEFINE listed == [b \in BackendIds |->
                            IF row[b] = NoRow THEN NoRow
                            ELSE row[b].thresholdClusterLoad]
               left == {b \in BackendIds : row[b] # NoRow}
    <3>1. listed \in [BackendIds -> Thresholds \cup {NoRow}]
        BY DEF TypeInv, TypeOK, Row
    <3>2. left \in SUBSET BackendIds
        OBVIOUS
    <3>3. monitor' = [monitor EXCEPT !.stage = "next", !.listed = listed,
                                     !.left = left]
        BY <2>2
    <3> HIDE DEF listed, left
    <3> QED  BY <3>1, <3>2, <3>3 DEF Monitor, Stages
  <2> QED  BY <1>2, <2>1, <2>2 DEF ListBackends
<1>3. CASE MarkAll
    BY <1>3 DEF MarkAll, Monitor, Stages
<1>4. CASE Finish
    BY <1>4, IdleType DEF Finish
<1>5. ASSUME NEW b \in BackendIds, Take(b)  PROVE monitor' \in Monitor
  <2>1. CASE monitor' = [monitor EXCEPT !.stage = "info", !.at = b]
      BY <2>1 DEF Monitor, Stages
  <2> QED  BY <1>5, <2>1, RejectType DEF Take
<1>6. ASSUME NEW b \in BackendIds, AskInfo(b)  PROVE monitor' \in Monitor
  <2>1. CASE monitor' = [monitor EXCEPT !.stage = "health"]
      BY <2>1 DEF Monitor, Stages
  <2> QED  BY <1>6, <2>1, RejectType DEF AskInfo
<1>7. ASSUME NEW b \in BackendIds, AskHealth(b)  PROVE monitor' \in Monitor
  <2>1. CASE monitor' = [monitor EXCEPT !.stage = "load"]
      BY <2>1 DEF Monitor, Stages
  <2> QED  BY <1>7, <2>1, RejectType DEF AskHealth
<1>8. ASSUME NEW b \in BackendIds, AskLoad(b)  PROVE monitor' \in Monitor
  <2>1. CASE monitor' = [monitor EXCEPT !.stage = "report",
                           !.load = ComputeClusterLoad(cluster[b].work)]
    <3>1. ComputeClusterLoad(cluster[b].work) \in Loads
        BY LoadType
    <3> QED  BY <2>1, <3>1 DEF Monitor, Stages
  <2> QED  BY <1>8, <2>1, RejectType DEF AskLoad
<1>9. ASSUME NEW b \in BackendIds, Report(b)  PROVE monitor' \in Monitor
    BY <1>9 DEF Report, Monitor, Stages
<1>10. ASSUME NEW b \in BackendIds, Judge(b)  PROVE monitor' \in Monitor
  <2>1. CASE monitor' = [monitor EXCEPT !.stage = "next", !.at = NoRow, !.load = 0,
                           !.left = @ \ {b}, !.healthy = @ \cup {b}]
      BY <2>1, RowAssumption DEF Monitor, Stages
  <2> QED  BY <1>10, <2>1, RejectType DEF Judge
<1> QED  BY <1>1, <1>2, <1>3, <1>4, <1>5, <1>6, <1>7, <1>8, <1>9, <1>10 DEF Execute

(* The calls of the monitor are requests like any other's; a cycle's marks *)
(* all begin at once.                                                      *)
LEMMA MarkAllType ==
    ASSUME MTypeInv, MarkAll
    PROVE  TypeInv'
<1> DEFINE marked == monitor.healthy \cup monitor.unhealthy
           what(p) == MonitorRequest(IF p \in monitor.healthy THEN "MarkHealthy"
                                     ELSE "MarkUnhealthy", p, 0)
<1>1. row' = row /\ row \in [BackendIds -> Row \cup {NoRow}]
    BY DEF MarkAll, MTypeInv, TypeInv, TypeOK
<1>2. \A p \in Procs :
        call'[p] = IF p \in marked
                   THEN [what |-> what(p), phase |-> "find", held |-> NoRow,
                         reply |-> "none"]
                   ELSE call[p]
    BY DEF MarkAll
<1>3. marked \subseteq BackendIds
    BY DEF MTypeInv, Monitor
<1>4. \A p \in marked : what(p) \in Requests /\ what(p).op # "CreateOrUpdate"
    BY <1>3, MonitorRequestType DEF MonitorRequest
<1>5. \A p \in Procs : /\ call'[p] \in Call
                       /\ p \in marked => call'[p].phase = "find"
                                          /\ call'[p].what.op # "CreateOrUpdate"
                       /\ p \notin marked => call'[p] = call[p]
  <2> SUFFICES ASSUME NEW p \in Procs
               PROVE  /\ call'[p] \in Call
                      /\ p \in marked => call'[p].phase = "find"
                                         /\ call'[p].what.op # "CreateOrUpdate"
                      /\ p \notin marked => call'[p] = call[p]
      OBVIOUS
  <2> HIDE DEF marked
  <2>1. CASE p \in marked
    <3> DEFINE w == what(p)
    <3>1. w \in Requests /\ w.op # "CreateOrUpdate"
        BY <1>4, <2>1
    <3>2. call'[p] = [what |-> w, phase |-> "find", held |-> NoRow, reply |-> "none"]
        BY <1>2, <2>1
    <3> HIDE DEF w
    <3> QED  BY <2>1, <3>1, <3>2 DEF Call, Phases
  <2>2. CASE p \notin marked
      BY <1>2, <2>2 DEF MTypeInv, TypeInv, TypeOK
  <2> QED  BY <2>1, <2>2
<1> HIDE DEF what, marked
<1>6. call' \in [Procs -> Call]
    BY <1>5 DEF MarkAll
<1>7. HeldIsRow'
    BY <1>5 DEF HeldIsRow, MTypeInv, TypeInv, Op
<1> QED  BY <1>1, <1>6, <1>7 DEF TypeInv, TypeOK

LEMMA MTypeNext == MTypeInv /\ [MNext]_mvars => MTypeInv'
<1> SUFFICES ASSUME MTypeInv, [MNext]_mvars  PROVE MTypeInv'
    OBVIOUS
<1>1. [Next]_vars => TypeInv'
    BY TypeInvNext DEF MTypeInv
<1>2. CASE Execute
  <2>1. cluster' = cluster /\ calls' = calls
      BY <1>2 DEF Execute, Trigger, ListBackends, MarkAll, Finish, Take, AskInfo,
                  AskHealth, AskLoad, Report, Judge
  <2>2. ASSUME NEW b \in BackendIds, Report(b)  PROVE [Next]_vars
      BY <2>2, MonitorRequestType, BackendSlots DEF Report, Next, MTypeInv, Monitor
  <2>3. MarkAll \/ (\E b \in BackendIds : Report(b)) \/ UNCHANGED vars
      BY <1>2 DEF Execute, Trigger, ListBackends, Finish, Take, AskInfo,
                  AskHealth, AskLoad, Judge, vars
  <2>4. TypeInv'
      BY <1>1, <2>2, <2>3, MarkAllType
  <2> QED  BY <1>2, <2>1, <2>4, ExecuteType DEF MTypeInv
<1>3. ASSUME NEW p \in Procs, Serve(p)  PROVE MTypeInv'
    BY <1>1, <1>3 DEF Serve, Next, MTypeInv
<1>4. ASSUME NEW p \in Operators, NEW q \in OperatorRequests, OperatorCall(p, q)
      PROVE  MTypeInv'
  <2>1. [Next]_vars
      BY <1>4, MonitorAssumption DEF OperatorCall, Next
  <2>2. calls' \in 0..MaxCalls
      BY <1>4, MonitorAssumption DEF OperatorCall, MTypeInv
  <2> QED  BY <1>1, <1>4, <2>1, <2>2 DEF OperatorCall, MTypeInv
<1>5. ASSUME NEW b \in BackendIds, ClusterChanges(b)  PROVE MTypeInv'
  <2>1. UNCHANGED vars
      BY <1>5 DEF ClusterChanges, vars
  <2> QED  BY <1>1, <1>5, <2>1 DEF ClusterChanges, MTypeInv
<1>6. CASE UNCHANGED mvars
    BY <1>1, <1>6 DEF mvars, vars, MTypeInv
<1> QED  BY <1>2, <1>3, <1>4, <1>5, <1>6 DEF MNext

LEMMA MTypeInit == MInit => MTypeInv
BY TypeInvInit, IdleType, MonitorAssumption DEF MInit, MTypeInv

(* The locals of the monitor, its calls and the table keep their types.    *)
THEOREM MTypeCorrect == MSpec => []MTypeOK
<1>1. MTypeInv => MTypeOK
    BY DEF MTypeInv, MTypeOK, TypeInv
<1> QED  BY <1>1, MTypeInit, MTypeNext, PTL DEF MSpec

-----------------------------------------------------------------------------
(* What a handler's step leaves of its call, and of the others.            *)
LEMMA ServeKeeps ==
    ASSUME MTypeInv, NEW p \in Procs, Serve(p), NEW q \in Procs
    PROVE  call'[q].phase # "done" =>
              call[q].phase # "done" /\ call'[q].what = call[q].what
<1>0. call \in [Procs -> Call]
    BY DEF MTypeInv, TypeInv, TypeOK
<1>1. ASSUME NEW phase, NEW held, Goto(p, phase, held), call[p].phase # "done"
      PROVE  call'[q].phase # "done" =>
                call[q].phase # "done" /\ call'[q].what = call[q].what
    BY <1>0, <1>1 DEF Goto, Call
<1>2. ASSUME NEW answer, Reply(p, answer)
      PROVE  call'[q].phase # "done" =>
                call[q].phase # "done" /\ call'[q].what = call[q].what
    BY <1>0, <1>2 DEF Reply, Call
<1>3. CASE FindHit(p)
    BY <1>1, <1>2, <1>3 DEF FindHit
<1>4. CASE FindMiss(p)
    BY <1>1, <1>2, <1>4 DEF FindMiss
<1>5. CASE Recheck(p)
    BY <1>1, <1>2, <1>5 DEF Recheck
<1>6. CASE Create(p) \/ Update(p) \/ UpdateNoRow(p) \/ Delete(p)
    BY <1>2, <1>6 DEF Create, Update, UpdateNoRow, Delete
<1> QED  BY <1>3, <1>4, <1>5, <1>6 DEF Serve, Step

Founded(b) ==
    \/ call[b].what.op = "MarkHealthy" /\ b \in fit
    \/ call[b].what.op = "MarkUnhealthy" /\ b \in unfit

(* The verdicts of a cycle so far, and the calls it has open, rest on what *)
(* its clusters have been like since it listed them.                       *)
FoundInv ==
    /\ monitor.stage \in {"idle", "list"} =>
          monitor.healthy = {} /\ monitor.unhealthy = {}
    /\ monitor.stage \notin {"idle", "list"} =>
          /\ monitor.healthy \subseteq fit /\ monitor.unhealthy \subseteq unfit
          /\ FitNow \subseteq fit /\ UnfitNow \subseteq unfit
          /\ \A b \in monitor.left : monitor.listed[b] # NoRow
    /\ monitor.stage \in {"info", "health", "load", "report", "reported"} =>
          monitor.at \in monitor.left
    /\ monitor.stage \in {"report", "reported"} =>
          IF WithinThreshold(monitor.load, monitor.listed[monitor.at])
          THEN monitor.at \in fit ELSE monitor.at \in unfit
    /\ \A b \in BackendIds : call[b].phase # "done" =>
          \/ monitor.stage = "reported" /\ b = monitor.at
          \/ monitor.stage = "mark" /\ Founded(b)

LEMMA History ==
    ASSUME HNext
    PROVE  /\ FitNow' \subseteq fit' /\ UnfitNow' \subseteq unfit'
           /\ monitor.stage \notin {"idle", "list"} =>
                 fit \subseteq fit' /\ unfit \subseteq unfit'
BY DEF HNext

(* A verdict with a reason in the history, none of the calls being open.   *)
LEMMA VerdictFounded ==
    ASSUME MTypeInv, FoundInv, HNext, NEW b \in monitor.left, UNCHANGED call,
           \/ Reject(b) /\ b \in unfit
           \/ /\ monitor' = [monitor EXCEPT !.stage = "next", !.at = NoRow, !.load = 0,
                               !.left = @ \ {b}, !.healthy = @ \cup {b}]
              /\ b \in fit,
           monitor.stage \notin {"idle", "list"},
           \A q \in BackendIds : call[q].phase = "done"
    PROVE  FoundInv'
<1>1. /\ monitor'.stage = "next" /\ monitor'.listed = monitor.listed
      /\ monitor'.left = monitor.left \ {b}
      /\ monitor'.unhealthy \subseteq monitor.unhealthy \cup unfit
      /\ monitor'.healthy \subseteq monitor.healthy \cup fit
  <2>1. CASE Reject(b) /\ b \in unfit
      BY <2>1 DEF Reject, MTypeInv, Monitor
  <2>2. CASE /\ monitor' = [monitor EXCEPT !.stage = "next", !.at = NoRow, !.load = 0,
                             !.left = @ \ {b}, !.healthy = @ \cup {b}]
             /\ b \in fit
      BY <2>2 DEF MTypeInv, Monitor
  <2> QED  BY <2>1, <2>2
<1> QED  BY <1>1, History DEF FoundInv

(* A probe passed: the monitor goes on with the backend at hand.           *)
LEMMA ProbePassed ==
    ASSUME MTypeInv, FoundInv, HNext, UNCHANGED call, NEW b \in monitor.left,
           \A q \in BackendIds : call[q].phase = "done",
           NEW stage \in {"info", "health", "load"},
           monitor' = [monitor EXCEPT !.stage = stage, !.at = b],
           monitor.stage \notin {"idle", "list"}
    PROVE  FoundInv'
<1>1. /\ monitor'.stage = stage /\ monitor'.listed = monitor.listed
      /\ monitor'.left = monitor.left /\ monitor'.at = b
      /\ monitor'.unhealthy = monitor.unhealthy
      /\ monitor'.healthy = monitor.healthy
    BY DEF MTypeInv, Monitor
<1> QED  BY <1>1, History DEF FoundInv

(* The steps that are nobody's but a handler's, an operator's, a cluster's.*)
LEMMA OthersFounded ==
    ASSUME MTypeInv, FoundInv, HNext, monitor' = monitor,
           \A b \in BackendIds : call'[b].phase # "done" =>
               call[b].phase # "done" /\ call'[b].what = call[b].what
    PROVE  FoundInv'
<1>1. \A b \in BackendIds : call'[b].phase # "done" =>
          \/ monitor'.stage = "reported" /\ b = monitor'.at
          \/ monitor'.stage = "mark" /\ Founded(b)'
    BY History DEF FoundInv, Founded
<1>2. monitor.stage \in {"report", "reported"} =>
          IF WithinThreshold(monitor'.load, monitor'.listed[monitor'.at])
          THEN monitor'.at \in fit' ELSE monitor'.at \in unfit'
    BY History DEF FoundInv
<1> QED  BY <1>1, <1>2, History DEF FoundInv

LEMMA ExecuteFounded ==
    ASSUME MTypeInv, FoundInv, HNext, Execute
    PROVE  FoundInv'
<1> USE DEF MTypeInv
<1>0. monitor.stage \notin {"reported", "mark"} =>
          \A q \in BackendIds : call[q].phase = "done"
    BY DEF FoundInv
<1>1. CASE Trigger
  <2>1. /\ monitor'.stage = "list" /\ monitor'.healthy = monitor.healthy
        /\ monitor'.unhealthy = monitor.unhealthy
      BY <1>1 DEF Trigger, Monitor
  <2> QED  BY <1>0, <1>1, <2>1 DEF Trigger, FoundInv
<1>2. CASE ListBackends
  <2>1. CASE monitor' = Idle
      BY <1>0, <1>2, <2>1 DEF ListBackends, Idle, FoundInv
  <2>2. CASE monitor' = [monitor EXCEPT !.stage = "next",
                           !.listed = [b \in BackendIds |->
                              IF row[b] = NoRow THEN NoRow
                              ELSE row[b].thresholdClusterLoad],
                           !.left = {b \in BackendIds : row[b] # NoRow}]
    <3>1. /\ monitor'.stage = "next" /\ monitor'.healthy = {}
          /\ monitor'.unhealthy = {}
          /\ monitor'.listed = [b \in BackendIds |->
                                  IF row[b] = NoRow THEN NoRow
                                  ELSE row[b].thresholdClusterLoad]
          /\ monitor'.left = {b \in BackendIds : row[b] # NoRow}
        BY <1>2, <2>2 DEF ListBackends, Monitor, FoundInv
    <3>2. \A b \in BackendIds : row[b] # NoRow => row[b].thresholdClusterLoad # NoRow
        BY MonitorAssumption DEF TypeInv, TypeOK, Row
    <3>3. \A b \in monitor'.left : monitor'.listed[b] # NoRow
        BY <3>1, <3>2
    <3>4. \A q \in BackendIds : call'[q].phase = "done"
        BY <1>0, <1>2 DEF ListBackends
    <3> QED  BY <3>1, <3>3, <3>4, History DEF FoundInv
  <2> QED  BY <1>2, <2>1, <2>2 DEF ListBackends
<1>3. CASE MarkAll
  <2>1. /\ monitor'.stage = "mark" /\ monitor'.healthy = monitor.healthy
        /\ monitor'.unhealthy = monitor.unhealthy /\ monitor'.left = monitor.left
        /\ monitor'.listed = monitor.listed /\ monitor.stage = "next"
      BY <1>3 DEF MarkAll, Monitor
  <2>2. monitor'.healthy \subseteq fit' /\ monitor'.unhealthy \subseteq unfit'
      BY <2>1, History DEF FoundInv
  <2>3. \A b \in BackendIds : call'[b].phase # "done" => Founded(b)'
    <3> SUFFICES ASSUME NEW b \in BackendIds, call'[b].phase # "done"
                 PROVE  Founded(b)'
        OBVIOUS
    <3>1. b \in Procs /\ call[b].phase = "done"
        BY <1>0, <2>1, BackendSlots
    <3>2. b \in monitor.healthy \cup monitor.unhealthy
        BY <1>3, <3>1 DEF MarkAll
    <3>3. call'[b].what.op = IF b \in monitor.healthy THEN "MarkHealthy"
                             ELSE "MarkUnhealthy"
        BY <1>3, <3>1, <3>2 DEF MarkAll, MonitorRequest
    <3> QED  BY <2>1, <2>2, <3>2, <3>3 DEF Founded
  <2>4. FitNow' \subseteq fit' /\ UnfitNow' \subseteq unfit'
      BY History
  <2>5. \A b \in monitor'.left : monitor'.listed[b] # NoRow
      BY <2>1 DEF FoundInv
  <2> QED  BY <2>1, <2>2, <2>3, <2>4, <2>5 DEF FoundInv
<1>4. CASE Finish
    BY <1>4 DEF Finish, Idle, FoundInv
<1>5. ASSUME NEW b \in BackendIds, Take(b)  PROVE FoundInv'
  <2>1. /\ b \in monitor.left /\ monitor.stage = "next" /\ UNCHANGED call
        /\ \A q \in BackendIds : call[q].phase = "done"
      BY <1>0, <1>5 DEF Take
  <2>2. CASE cluster[b].scheduled
      BY <1>5, <2>1, <2>2, ProbePassed DEF Take
  <2>3. CASE ~cluster[b].scheduled
    <3>1. b \in UnfitNow
        BY <2>1, <2>3 DEF UnfitNow, FoundInv
    <3>2. b \in unfit
        BY <2>1, <3>1 DEF FoundInv
    <3> QED  BY <1>5, <2>1, <2>3, <3>2, VerdictFounded DEF Take
  <2> QED  BY <2>2, <2>3
<1>6. ASSUME NEW b \in BackendIds, monitor.stage \in {"info", "health", "load"},
             monitor.at = b, UNCHANGED call,
             \/ cluster[b].state # "up" /\ Reject(b)
             \/ /\ cluster[b].state = "up"
                /\ \E stage \in {"health", "load"} :
                      monitor' = [monitor EXCEPT !.stage = stage]
      PROVE  FoundInv'
  <2>1. b \in monitor.left /\ \A q \in BackendIds : call[q].phase = "done"
      BY <1>0, <1>6 DEF FoundInv
  <2>2. CASE cluster[b].state # "up" /\ Reject(b)
    <3>1. b \in UnfitNow
        BY <1>6, <2>1, <2>2 DEF UnfitNow, FoundInv
    <3>2. b \in unfit
        BY <1>6, <3>1 DEF FoundInv
    <3> QED  BY <1>6, <2>1, <2>2, <3>2, VerdictFounded
  <2>3. ASSUME NEW stage \in {"health", "load"},
               monitor' = [monitor EXCEPT !.stage = stage]
        PROVE  FoundInv'
    <3>1. monitor' = [monitor EXCEPT !.stage = stage, !.at = b]
        BY <1>6, <2>3 DEF Monitor
    <3> QED  BY <1>6, <2>1, <2>3, <3>1, ProbePassed
  <2> QED  BY <1>6, <2>2, <2>3
<1>7. ASSUME NEW b \in BackendIds, AskInfo(b) \/ AskHealth(b)  PROVE FoundInv'
    BY <1>6, <1>7 DEF AskInfo, AskHealth
<1>8. ASSUME NEW b \in BackendIds, AskLoad(b)  PROVE FoundInv'
  <2>1. CASE cluster[b].state # "up"
      BY <1>6, <1>8, <2>1 DEF AskLoad
  <2>2. CASE cluster[b].state = "up"
    <3> DEFINE load == ComputeClusterLoad(cluster[b].work)
    <3>1. b \in monitor.left /\ \A q \in BackendIds : call[q].phase = "done"
        BY <1>0, <1>8 DEF AskLoad, FoundInv
    <3>2. monitor.stage = "load" /\ monitor.at = b /\ call' = call
        BY <1>8 DEF AskLoad
    <3>3. monitor' = [monitor EXCEPT !.stage = "report", !.load = load]
        BY <1>8, <2>2 DEF AskLoad
    <3>4. IF WithinThreshold(load, monitor.listed[b]) THEN b \in fit ELSE b \in unfit
        BY <2>2, <3>1, <3>2 DEF FoundInv, FitNow, UnfitNow
    <3> HIDE DEF load
    <3>5. /\ monitor'.stage = "report" /\ monitor'.listed = monitor.listed
          /\ monitor'.left = monitor.left /\ monitor'.at = b /\ monitor'.load = load
          /\ monitor'.unhealthy = monitor.unhealthy
          /\ monitor'.healthy = monitor.healthy
        BY <3>2, <3>3 DEF Monitor
    <3>6. IF WithinThreshold(monitor'.load, monitor'.listed[monitor'.at])
          THEN monitor'.at \in fit' ELSE monitor'.at \in unfit'
        BY <3>2, <3>4, <3>5, History
    <3> QED  BY <3>1, <3>2, <3>5, <3>6, History DEF FoundInv
  <2> QED  BY <2>1, <2>2
<1>9. ASSUME NEW b \in BackendIds, Report(b)  PROVE FoundInv'
  <2>1. /\ monitor'.stage = "reported" /\ monitor'.listed = monitor.listed
        /\ monitor'.left = monitor.left /\ monitor'.at = monitor.at
        /\ monitor'.load = monitor.load /\ monitor.stage = "report"
        /\ monitor'.unhealthy = monitor.unhealthy
        /\ monitor'.healthy = monitor.healthy /\ monitor.at = b
      BY <1>9 DEF Report, Monitor
  <2>2. \A q \in BackendIds \ {b} : call'[q] = call[q] /\ call[q].phase = "done"
      BY <1>0, <1>9, <2>1, BackendSlots DEF Report, Receive, TypeInv, TypeOK
  <2>3. IF WithinThreshold(monitor'.load, monitor'.listed[monitor'.at])
        THEN monitor'.at \in fit' ELSE monitor'.at \in unfit'
      BY <2>1, History DEF FoundInv
  <2> QED  BY <2>1, <2>2, <2>3, History DEF FoundInv
<1>10. ASSUME NEW b \in BackendIds, Judge(b)  PROVE FoundInv'
  <2>1. /\ b \in monitor.left /\ UNCHANGED call /\ monitor.stage = "reported"
        /\ monitor.at = b
      BY <1>10 DEF Judge, FoundInv
  <2>2. \A q \in BackendIds : call[q].phase = "done"
      BY <1>10, <2>1 DEF Judge, FoundInv
  <2>3. IF WithinThreshold(monitor.load, monitor.listed[b])
        THEN b \in fit ELSE b \in unfit
      BY <2>1 DEF FoundInv
  <2> QED  BY <1>10, <2>1, <2>2, <2>3, VerdictFounded DEF Judge
<1> QED  BY <1>1, <1>2, <1>3, <1>4, <1>5, <1>7, <1>8, <1>9, <1>10 DEF Execute

LEMMA FoundInit == HInit => MTypeInv /\ FoundInv
<1> SUFFICES ASSUME HInit  PROVE MTypeInv /\ FoundInv
    OBVIOUS
<1>1. MTypeInv /\ monitor = Idle /\ \A b \in BackendIds : call[b].phase = "done"
    BY MTypeInit, BackendSlots DEF HInit, MInit, Init
<1> QED  BY <1>1 DEF FoundInv, Idle

LEMMA FoundNext == MTypeInv /\ FoundInv /\ [HNext]_hvars => MTypeInv' /\ FoundInv'
<1> SUFFICES ASSUME MTypeInv, FoundInv, [HNext]_hvars
             PROVE  MTypeInv' /\ FoundInv'
    OBVIOUS
<1>1. MTypeInv'
    BY MTypeNext DEF HNext, hvars, mvars
<1>2. CASE UNCHANGED hvars
  <2>1. FitNow' = FitNow /\ UnfitNow' = UnfitNow
      BY <1>2 DEF hvars, FitNow, UnfitNow
  <2>2. \A b : Founded(b)' <=> Founded(b)
      BY <1>2 DEF hvars, Founded
  <2> QED  BY <1>1, <1>2, <2>1, <2>2 DEF hvars, FoundInv
<1>3. CASE HNext
  <2>1. ASSUME NEW p \in Procs, Serve(p)  PROVE FoundInv'
      BY <1>3, <2>1, ServeKeeps, OthersFounded, BackendSlots DEF Serve
  <2>2. ASSUME NEW p \in Operators, NEW q \in OperatorRequests, OperatorCall(p, q)
        PROVE  FoundInv'
    <3>1. \A b \in BackendIds : call'[b] = call[b]
        BY <2>2, MonitorAssumption DEF OperatorCall, Receive, MTypeInv, TypeInv, TypeOK
    <3> QED  BY <1>3, <2>2, <3>1, OthersFounded DEF OperatorCall
  <2>3. ASSUME NEW b \in BackendIds, ClusterChanges(b)  PROVE FoundInv'
      BY <1>3, <2>3, OthersFounded DEF ClusterChanges
  <2>4. MNext
      BY <1>3 DEF HNext
  <2>5. Execute => FoundInv'
      BY <1>3, ExecuteFounded
  <2> QED  BY <1>1, <2>1, <2>2, <2>3, <2>4, <2>5 DEF MNext
<1> QED  BY <1>1, <1>2, <1>3

(* Each mark a cycle asks for is founded on its backend's cluster as it    *)
(* was since the cycle listed it, whatever operators, clusters and failing *)
(* statements do meanwhile.                                                *)
THEOREM CallsFounded == HSpec => []CallsAreFounded
<1>1. MTypeInv /\ FoundInv => CallsAreFounded
    BY DEF FoundInv, Founded, CallsAreFounded
<1> QED  BY <1>1, FoundInit, FoundNext, PTL DEF HSpec

-----------------------------------------------------------------------------
(* A call of the monitor about b, from its request to its answer, while    *)
(* nobody else writes b's row: it ends with the column as asked.           *)
Pending(b, q) ==
    /\ call[b].what = q
    /\ call[b].phase \in {"find", "recheck", "update", "done"}
    /\ call[b].phase = "recheck" => q.op = "UpdateClusterLoad"
    /\ call[b].phase \in {"recheck", "update"} =>
          call[b].held = Mutated(q.op, row[b], q.load)
    /\ call[b].phase = "done" => row[b] = Mutated(q.op, row[b], q.load)

LEMMA MonitorMutates ==
    ASSUME NEW op \in MonitorOps, NEW r \in Row, NEW load \in Loads
    PROVE  /\ Mutated(op, Mutated(op, r, load), load) = Mutated(op, r, load)
           /\ AlreadyInState(op, r) => Mutated(op, r, load) = r
           /\ Mutated(op, r, load).thresholdClusterLoad = r.thresholdClusterLoad
<1>1. CASE op = "MarkHealthy"
    BY <1>1 DEF Mutated, AlreadyInState, Row
<1>2. CASE op = "MarkUnhealthy"
    BY <1>2 DEF Mutated, AlreadyInState, Row
<1>3. CASE op = "UpdateClusterLoad"
    BY <1>3 DEF Mutated, AlreadyInState, Row
<1> QED  BY <1>1, <1>2, <1>3 DEF MonitorOps

LEMMA PendingServe ==
    ASSUME MTypeInv, ~DbMayFail, NEW b \in BackendIds, row[b] # NoRow,
           NEW q \in Requests, q.op \in MonitorOps, q.id = b, Pending(b, q), Step(b)
    PROVE  /\ Pending(b, q)'
           /\ row' = row \/ row' = [row EXCEPT ![b] = Mutated(q.op, row[b], q.load)]
           /\ \A p \in Procs \ {b} : call'[p] = call[p]
<1> DEFINE m == Mutated(q.op, row[b], q.load)
<1>0. /\ call \in [Procs -> Call] /\ b \in Procs /\ row[b] \in Row
      /\ row \in [BackendIds -> Row \cup {NoRow}] /\ q.load \in Loads
      /\ Op(b) = q.op /\ Id(b) = b /\ call[b].what = q
    BY BackendSlots, RequestFields DEF MTypeInv, TypeInv, TypeOK, Pending, Op, Id
<1>1. PICK op \in MonitorOps : op = q.op
    OBVIOUS
<1>2. PICK r \in Row : r = row[b]
    BY <1>0
<1>10. PICK load \in Loads : load = q.load
    BY <1>0
<1>11. /\ Mutated(op, r, load) \in Row
       /\ Mutated(op, Mutated(op, r, load), load) = Mutated(op, r, load)
       /\ AlreadyInState(op, r) => Mutated(op, r, load) = r
  <2>1. Mutated(op, r, load) \in Row
      BY MutatedType
  <2>2. /\ Mutated(op, Mutated(op, r, load), load) = Mutated(op, r, load)
        /\ AlreadyInState(op, r) => Mutated(op, r, load) = r
      BY MonitorMutates
  <2> QED  BY <2>1, <2>2
<1>12. /\ m \in Row /\ m # NoRow /\ Mutated(q.op, m, q.load) = m
       /\ AlreadyInState(q.op, row[b]) => m = row[b]
    BY <1>1, <1>2, <1>10, <1>11, RowAssumption
<1> HIDE DEF m
<1>3. ASSUME NEW phase, NEW held, Goto(b, phase, held)
      PROVE  /\ call'[b].what = q /\ call'[b].phase = phase /\ call'[b].held = held
             /\ \A p \in Procs \ {b} : call'[p] = call[p]
    BY <1>0, <1>3 DEF Goto, Call
<1>4. ASSUME NEW answer, Reply(b, answer)
      PROVE  /\ call'[b].what = q /\ call'[b].phase = "done"
             /\ \A p \in Procs \ {b} : call'[p] = call[p]
    BY <1>0, <1>4 DEF Reply, Call
<1>5. CASE FindHit(b)
  <2>1. CASE q.op = "UpdateClusterLoad" /\ Goto(b, "recheck", m)
      BY <1>3, <1>5, <2>1 DEF FindHit, Pending, m
  <2>2. CASE AlreadyInState(q.op, row[b]) /\ Reply(b, "ok")
      BY <1>12, <1>4, <1>5, <2>2 DEF FindHit, Pending, m
  <2>3. CASE Goto(b, "update", m)
      BY <1>3, <1>5, <2>3 DEF FindHit, Pending, m
  <2> QED  BY <1>0, <1>5, <2>1, <2>2, <2>3 DEF FindHit, MonitorOps, FlagOps, m
<1>6. CASE Recheck(b)
    BY <1>0, <1>3, <1>6 DEF Recheck, Pending
<1>7. CASE Update(b)
  <2>1. row' = [row EXCEPT ![b] = m] /\ row'[b] = m
      BY <1>0, <1>7 DEF Update, Pending, m
  <2> QED  BY <1>12, <1>4, <1>7, <2>1 DEF Update, Pending, m
<1>8. CASE UpdateNoRow(b)
  <2>1. row[b] = m
      BY <1>0, <1>8 DEF UpdateNoRow, Pending, m
  <2>2. \E answer : Reply(b, answer)
      BY <1>8 DEF UpdateNoRow
  <2> QED  BY <1>4, <1>8, <2>1, <2>2 DEF UpdateNoRow, Pending, m
<1>9. ~FindMiss(b) /\ ~Create(b) /\ ~Delete(b)
    BY <1>0 DEF FindMiss, Create, Delete, Pending
<1> QED  BY <1>5, <1>6, <1>7, <1>8, <1>9 DEF Step

-----------------------------------------------------------------------------
ReportOf(b) == MonitorRequest("UpdateClusterLoad", b, monitor.load)

MarkOf(b) == MonitorRequest(IF b \in monitor.healthy THEN "MarkHealthy"
                            ELSE "MarkUnhealthy", b, 0)

Judged == monitor.healthy \cup monitor.unhealthy

(* What a quiet cycle has brought about so far.                            *)
Settled ==
    /\ \A p \in Operators : call[p].phase = "done"
    /\ \A b \in BackendIds : monitor.listed[b] # NoRow =>
          /\ row[b] # NoRow /\ row[b].thresholdClusterLoad = monitor.listed[b]
          /\ b \in monitor.left \cup Judged
    /\ \A b \in Judged : b \notin monitor.left /\ monitor.listed[b] # NoRow
    /\ monitor.healthy \cap monitor.unhealthy = {}
    /\ \A b \in monitor.healthy : WithinThreshold(row[b].clusterLoad, monitor.listed[b])
    /\ monitor.stage = "reported" => Pending(monitor.at, ReportOf(monitor.at))
    /\ monitor.stage = "mark" =>
          /\ monitor.left = {}
          /\ \A b \in Judged : Pending(b, MarkOf(b))
          /\ \A b \in BackendIds \ Judged : call[b].phase = "done"

(* A step that changes neither the table nor a call, only the monitor.     *)
LEMMA SettledVerdict ==
    ASSUME MTypeInv, FoundInv, Settled, NEW b \in monitor.left,
           row' = row, call' = call,
           monitor.stage \notin {"idle", "list"},
           \/ Reject(b)
           \/ /\ monitor' = [monitor EXCEPT !.stage = "next", !.at = NoRow, !.load = 0,
                               !.left = @ \ {b}, !.healthy = @ \cup {b}]
              /\ WithinThreshold(row[b].clusterLoad, monitor.listed[b])
    PROVE  Settled'
<1>1. CASE Reject(b)
  <2>1. /\ monitor'.stage = "next" /\ monitor'.listed = monitor.listed
        /\ monitor'.left = monitor.left \ {b}
        /\ monitor'.unhealthy = monitor.unhealthy \cup {b}
        /\ monitor'.healthy = monitor.healthy
      BY <1>1 DEF Reject, MTypeInv, Monitor
  <2> QED  BY <2>1 DEF Settled, FoundInv, Judged
<1>2. CASE /\ monitor' = [monitor EXCEPT !.stage = "next", !.at = NoRow, !.load = 0,
                           !.left = @ \ {b}, !.healthy = @ \cup {b}]
           /\ WithinThreshold(row[b].clusterLoad, monitor.listed[b])
  <2>1. /\ monitor'.stage = "next" /\ monitor'.listed = monitor.listed
        /\ monitor'.left = monitor.left \ {b}
        /\ monitor'.unhealthy = monitor.unhealthy
        /\ monitor'.healthy = monitor.healthy \cup {b}
      BY <1>2 DEF MTypeInv, Monitor
  <2> QED  BY <1>2, <2>1 DEF Settled, FoundInv, Judged
<1> QED  BY <1>1, <1>2

LEMMA SettledPass ==
    ASSUME MTypeInv, Settled, row' = row, call' = call,
           monitor'.stage \notin {"reported", "mark"},
           monitor'.listed = monitor.listed, monitor'.left = monitor.left,
           monitor'.healthy = monitor.healthy,
           monitor'.unhealthy = monitor.unhealthy
    PROVE  Settled'
BY DEF Settled, Judged

LEMMA Columns ==
    ASSUME NEW r \in Row
    PROVE  /\ \A load \in Loads : Mutated("UpdateClusterLoad", r, load).clusterLoad = load
           /\ \A op \in {"MarkHealthy", "MarkUnhealthy"} :
                 Mutated(op, r, 0).clusterLoad = r.clusterLoad
           /\ ~Mutated("MarkUnhealthy", r, 0).isHealthy
           /\ Mutated("MarkHealthy", r, 0).isHealthy
BY DEF Mutated, Row

LEMMA SettledServe ==
    ASSUME MTypeInv, FoundInv, Settled, ~DbMayFail, NEW p \in Procs, Serve(p),
           monitor.stage \notin {"idle", "list"}
    PROVE  Settled'
<1>0. /\ Step(p) /\ monitor' = monitor /\ call[p].phase # "done"
      /\ row \in [BackendIds -> Row \cup {NoRow}]
      /\ monitor \in Monitor
    BY DEF Serve, Step, FindHit, FindMiss, Recheck, Create, Update, UpdateNoRow,
           Delete, MTypeInv, TypeInv, TypeOK
<1>1. p \in BackendIds
    BY <1>0, MonitorAssumption DEF Settled
<1>2. \A c \in Operators : c \in Procs \ {p}
    BY <1>1, MonitorAssumption
<1>3. CASE monitor.stage = "reported"
  <2>1. p = monitor.at /\ p \in monitor.left /\ p \notin Judged
      BY <1>0, <1>1, <1>3 DEF FoundInv, Settled
  <2>2. row[p] # NoRow /\ row[p] \in Row
      BY <1>0, <1>1, <2>1 DEF FoundInv, Settled
  <2>3. monitor.load \in Loads
      BY <1>0 DEF Monitor
  <2>4. /\ ReportOf(p) \in Requests /\ ReportOf(p).op \in MonitorOps
        /\ ReportOf(p).id = p /\ ReportOf(p).op = "UpdateClusterLoad"
        /\ ReportOf(p).load = monitor.load
      BY <1>1, <2>3, MonitorRequestType DEF ReportOf, MonitorRequest, MonitorOps
  <2>5. Pending(p, ReportOf(p))
      BY <1>3, <2>1 DEF Settled
  <2> DEFINE m == Mutated("UpdateClusterLoad", row[p], monitor.load)
  <2>6. /\ Pending(p, ReportOf(p))'
        /\ row' = row \/ row' = [row EXCEPT ![p] = m]
        /\ \A c \in Procs \ {p} : call'[c] = call[c]
    <3>1. PICK q \in Requests : q = ReportOf(p)
        BY <2>4
    <3>2. /\ Pending(p, q)'
          /\ row' = row \/ row' = [row EXCEPT ![p] = Mutated(q.op, row[p], q.load)]
          /\ \A c \in Procs \ {p} : call'[c] = call[c]
        BY <1>0, <1>1, <2>2, <2>4, <2>5, <3>1, PendingServe
    <3>3. ReportOf(p)' = ReportOf(p)
        BY <1>0 DEF ReportOf
    <3> QED  BY <2>4, <3>1, <3>2, <3>3 DEF Pending
  <2>7. m \in Row /\ m # NoRow /\ m.thresholdClusterLoad = row[p].thresholdClusterLoad
    <3>1. PICK r \in Row : r = row[p]
        BY <2>2
    <3>2. Mutated("UpdateClusterLoad", r, monitor.load).thresholdClusterLoad
            = r.thresholdClusterLoad
        BY <2>3, MonitorMutates DEF MonitorOps
    <3>3. m \in Row
        BY <2>3, <3>1, MutatedType
    <3> QED  BY <3>1, <3>2, <3>3, RowAssumption
  <2> HIDE DEF m
  <2>8. /\ \A b \in BackendIds : monitor.listed[b] # NoRow =>
              /\ row'[b] # NoRow /\ row'[b].thresholdClusterLoad = monitor.listed[b]
              /\ b \in monitor.left \cup Judged
        /\ \A b \in Judged : row'[b] = row[b]
    <3>1. CASE row' = row
        BY <3>1 DEF Settled
    <3>2. CASE row' = [row EXCEPT ![p] = m]
        BY <1>0, <2>1, <2>7, <3>2 DEF Settled, Judged, Monitor
    <3> QED  BY <2>6, <3>1, <3>2
  <2>9. Judged' = Judged
      BY <1>0 DEF Judged
  <2>10. \A b \in monitor.healthy : WithinThreshold(row'[b].clusterLoad, monitor.listed[b])
      BY <2>8 DEF Settled, Judged
  <2>11. Pending(monitor.at, ReportOf(monitor.at))'
      BY <1>0, <2>1, <2>6
  <2>12. \A c \in Operators : call'[c].phase = "done"
      BY <1>2, <2>6 DEF Settled
  <2> QED  BY <1>0, <1>3, <2>8, <2>9, <2>10, <2>11, <2>12 DEF Settled
<1>4. CASE monitor.stage = "mark"
  <2>1. p \in Judged /\ monitor.listed[p] # NoRow
      BY <1>0, <1>1, <1>4 DEF Settled
  <2>2. row[p] # NoRow /\ row[p] \in Row
      BY <1>0, <1>1, <2>1 DEF Settled
  <2> DEFINE op == IF p \in monitor.healthy THEN "MarkHealthy" ELSE "MarkUnhealthy"
             m == Mutated(op, row[p], 0)
  <2>3. op \in MonitorOps /\ op \in {"MarkHealthy", "MarkUnhealthy"} /\ 0 \in Loads
      BY RowAssumption DEF MonitorOps
  <2>4. /\ MarkOf(p) \in Requests /\ MarkOf(p).op = op
        /\ MarkOf(p).id = p /\ MarkOf(p).load = 0
      BY <1>1, MonitorRequestType DEF MarkOf, MonitorRequest
  <2>5. Pending(p, MarkOf(p))
      BY <1>4, <2>1 DEF Settled
  <2> HIDE DEF op
  <2>6. /\ Pending(p, MarkOf(p))'
        /\ row' = row \/ row' = [row EXCEPT ![p] = m]
        /\ \A c \in Procs \ {p} : call'[c] = call[c]
    <3>1. PICK q \in Requests : q = MarkOf(p)
        BY <2>4
    <3>2. /\ Pending(p, q)'
          /\ row' = row \/ row' = [row EXCEPT ![p] = Mutated(q.op, row[p], q.load)]
          /\ \A c \in Procs \ {p} : call'[c] = call[c]
        BY <1>0, <1>1, <2>2, <2>3, <2>4, <2>5, <3>1, PendingServe
    <3>3. MarkOf(p)' = MarkOf(p)
        BY <1>0 DEF MarkOf
    <3> QED  BY <2>4, <3>1, <3>2, <3>3 DEF Pending
  <2>7. /\ m \in Row /\ m # NoRow /\ m.clusterLoad = row[p].clusterLoad
        /\ m.thresholdClusterLoad = row[p].thresholdClusterLoad
    <3>1. PICK r \in Row : r = row[p]
        BY <2>2
    <3>2. Mutated(op, r, 0).thresholdClusterLoad = r.thresholdClusterLoad
        BY <2>3, MonitorMutates
    <3>3. Mutated(op, r, 0) \in Row /\ Mutated(op, r, 0).clusterLoad = r.clusterLoad
        BY <2>3, MutatedType, Columns
    <3> QED  BY <3>1, <3>2, <3>3, RowAssumption
  <2> HIDE DEF m
  <2>8. /\ \A b \in BackendIds : monitor.listed[b] # NoRow =>
              /\ row'[b] # NoRow /\ row'[b].thresholdClusterLoad = monitor.listed[b]
              /\ b \in monitor.left \cup Judged
        /\ \A b \in BackendIds : row'[b].clusterLoad = row[b].clusterLoad
        /\ \A b \in BackendIds \ {p} : row'[b] = row[b]
    <3>1. CASE row' = row
        BY <3>1 DEF Settled
    <3>2. CASE row' = [row EXCEPT ![p] = m]
        BY <1>0, <1>1, <2>7, <3>2 DEF Settled
    <3> QED  BY <2>6, <3>1, <3>2
  <2>9. Judged' = Judged /\ Judged \subseteq BackendIds
      BY <1>0 DEF Judged, Monitor
  <2>10. \A b \in monitor.healthy : WithinThreshold(row'[b].clusterLoad, monitor.listed[b])
      BY <2>8, <2>9 DEF Settled, Judged
  <2>11. \A b \in Judged : Pending(b, MarkOf(b))'
    <3> SUFFICES ASSUME NEW b \in Judged  PROVE Pending(b, MarkOf(b))'
        OBVIOUS
    <3>1. CASE b = p
        BY <2>6, <3>1
    <3>2. CASE b # p
      <4>1. Pending(b, MarkOf(b)) /\ row'[b] = row[b] /\ call'[b] = call[b]
          BY <1>4, <2>6, <2>8, <2>9, <3>2, BackendSlots DEF Settled
      <4>2. MarkOf(b)' = MarkOf(b)
          BY <1>0 DEF MarkOf
      <4> QED  BY <4>1, <4>2 DEF Pending
    <3> QED  BY <3>1, <3>2
  <2>12. /\ \A c \in Operators : call'[c].phase = "done"
         /\ \A b \in BackendIds \ Judged : call'[b].phase = "done"
      BY <1>2, <1>4, <2>1, <2>6, BackendSlots DEF Settled
  <2> QED  BY <1>0, <1>4, <2>8, <2>9, <2>10, <2>11, <2>12 DEF Settled
<1> QED  BY <1>0, <1>1, <1>3, <1>4 DEF FoundInv

(* The list is where a cycle begins.                                       *)
LEMMA SettledList ==
    ASSUME MTypeInv, FoundInv, ListBackends, monitor'.stage # "idle", QuietNow'
    PROVE  Settled'
<1>1. /\ monitor.stage = "list" /\ row' = row /\ call' = call
      /\ monitor.healthy = {} /\ monitor.unhealthy = {} /\ monitor \in Monitor
    BY DEF ListBackends, FoundInv, MTypeInv
<1>2. monitor' = [monitor EXCEPT !.stage = "next",
                    !.listed = [b \in BackendIds |->
                       IF row[b] = NoRow THEN NoRow ELSE row[b].thresholdClusterLoad],
                    !.left = {b \in BackendIds : row[b] # NoRow}]
    BY DEF ListBackends, Idle
<1>3. /\ monitor'.stage = "next" /\ monitor'.healthy = {} /\ monitor'.unhealthy = {}
      /\ monitor'.listed = [b \in BackendIds |->
                              IF row[b] = NoRow THEN NoRow
                              ELSE row[b].thresholdClusterLoad]
      /\ monitor'.left = {b \in BackendIds : row[b] # NoRow}
    BY <1>1, <1>2 DEF Monitor
<1>4. \A p \in Operators : call'[p].phase = "done"
    BY DEF QuietNow
<1> QED  BY <1>1, <1>3, <1>4 DEF Settled, Judged

LEMMA SettledMarkAll ==
    ASSUME MTypeInv, FoundInv, Settled, MarkAll
    PROVE  Settled'
<1>1. /\ monitor'.stage = "mark" /\ monitor'.healthy = monitor.healthy
      /\ monitor'.unhealthy = monitor.unhealthy /\ monitor'.left = monitor.left
      /\ monitor'.listed = monitor.listed /\ monitor.stage = "next"
      /\ monitor.left = {} /\ row' = row /\ Judged \subseteq BackendIds
    BY DEF MarkAll, MTypeInv, Monitor, Judged
<1>2. /\ \A b \in Judged : call'[b].what = MarkOf(b) /\ call'[b].phase = "find"
      /\ \A p \in Procs \ Judged : call'[p] = call[p]
    BY <1>1, BackendSlots DEF MarkAll, MarkOf, Judged
<1>3. \A b \in BackendIds : call[b].phase = "done"
    BY <1>1 DEF FoundInv
<1>4. Judged' = Judged /\ \A b : MarkOf(b)' = MarkOf(b)
    BY <1>1 DEF Judged, MarkOf
<1>5. \A b \in Judged : Pending(b, MarkOf(b))'
    BY <1>2, <1>4 DEF Pending
<1>6. /\ \A p \in Operators : call'[p].phase = "done"
      /\ \A b \in BackendIds \ Judged : call'[b].phase = "done"
    BY <1>1, <1>2, <1>3, MonitorAssumption DEF Settled
<1> QED  BY <1>1, <1>4, <1>5, <1>6 DEF Settled

LEMMA SettledReport ==
    ASSUME MTypeInv, FoundInv, Settled, NEW b \in BackendIds, Report(b)
    PROVE  Settled'
<1>1. /\ monitor'.stage = "reported" /\ monitor'.healthy = monitor.healthy
      /\ monitor'.unhealthy = monitor.unhealthy /\ monitor'.left = monitor.left
      /\ monitor'.listed = monitor.listed /\ monitor'.at = b
      /\ monitor'.load = monitor.load /\ row' = row
    BY DEF Report, Receive, MTypeInv, Monitor
<1>2. /\ call'[b].what = ReportOf(b) /\ call'[b].phase = "find"
      /\ \A p \in Operators : call'[p] = call[p]
  <2>1. call \in [Procs -> Call]
      BY DEF MTypeInv, TypeInv, TypeOK
  <2>2. call' = [call EXCEPT ![b] = [what |-> ReportOf(b), phase |-> "find",
                                     held |-> ReportOf(b).new, reply |-> "none"]]
      BY DEF Report, Receive, ReportOf
  <2> QED  BY <2>1, <2>2, BackendSlots, MonitorAssumption
<1>3. Judged' = Judged /\ ReportOf(b)' = ReportOf(b)
    BY <1>1 DEF Judged, ReportOf
<1>4. Pending(monitor.at, ReportOf(monitor.at))'
    BY <1>1, <1>2, <1>3 DEF Pending
<1> QED  BY <1>1, <1>2, <1>3, <1>4 DEF Settled

(* When the report is answered, the row has the load that is judged.       *)
LEMMA SettledJudge ==
    ASSUME MTypeInv, FoundInv, Settled, NEW b \in BackendIds, Judge(b)
    PROVE  Settled'
<1>1. /\ monitor.stage = "reported" /\ monitor.at = b /\ b \in monitor.left
      /\ row' = row /\ call' = call /\ call[b].phase = "done"
    BY DEF Judge, FoundInv
<1>2. row[b] \in Row
    BY <1>1 DEF FoundInv, Settled, MTypeInv, TypeInv, TypeOK
<1>3. Pending(b, ReportOf(b)) /\ ReportOf(b).op = "UpdateClusterLoad"
      /\ ReportOf(b).load = monitor.load
    BY <1>1 DEF Settled, ReportOf, MonitorRequest
<1>4. row[b] = Mutated("UpdateClusterLoad", row[b], monitor.load)
    BY <1>1, <1>3 DEF Pending
<1>5. row[b].clusterLoad = monitor.load
  <2>1. monitor.load \in Loads
      BY DEF MTypeInv, Monitor
  <2>2. PICK r \in Row : r = row[b]
      BY <1>2
  <2>3. Mutated("UpdateClusterLoad", r, monitor.load).clusterLoad = monitor.load
      BY <2>1, Columns
  <2> QED  BY <1>4, <2>2, <2>3
<1> QED  BY <1>1, <1>5, SettledVerdict DEF Judge

LEMMA SettledExecute ==
    ASSUME MTypeInv, FoundInv, Settled, Execute,
           monitor.stage \notin {"idle", "list"},
           monitor'.stage \notin {"idle", "list"}
    PROVE  Settled'
<1>1. ~Trigger /\ ~ListBackends /\ ~Finish
    BY DEF Trigger, ListBackends, Finish, Idle
<1>2. ASSUME NEW b \in BackendIds, Take(b)  PROVE Settled'
  <2>1. CASE monitor' = [monitor EXCEPT !.stage = "info", !.at = b]
    <3>1. /\ monitor'.stage = "info" /\ monitor'.healthy = monitor.healthy
          /\ monitor'.unhealthy = monitor.unhealthy
          /\ monitor'.left = monitor.left /\ monitor'.listed = monitor.listed
        BY <2>1 DEF MTypeInv, Monitor
    <3> QED  BY <1>2, <3>1, SettledPass DEF Take
  <2> QED  BY <1>2, <2>1, SettledVerdict DEF Take
<1>3. ASSUME NEW b \in BackendIds, AskInfo(b) \/ AskHealth(b) \/ AskLoad(b)
      PROVE  Settled'
  <2>1. b \in monitor.left /\ row' = row /\ call' = call
      BY <1>3 DEF AskInfo, AskHealth, AskLoad, FoundInv
  <2>2. CASE Reject(b)
      BY <2>1, <2>2, SettledVerdict
  <2>3. ASSUME NEW stage \in {"health", "load", "report"}, NEW load,
               \/ monitor' = [monitor EXCEPT !.stage = stage]
               \/ monitor' = [monitor EXCEPT !.stage = stage, !.load = load]
        PROVE  Settled'
    <3>1. /\ monitor'.stage = stage /\ monitor'.healthy = monitor.healthy
          /\ monitor'.unhealthy = monitor.unhealthy
          /\ monitor'.left = monitor.left /\ monitor'.listed = monitor.listed
        BY <2>3 DEF MTypeInv, Monitor
    <3> QED  BY <2>1, <2>3, <3>1, SettledPass
  <2> QED  BY <1>3, <2>2, <2>3 DEF AskInfo, AskHealth, AskLoad
<1> QED  BY <1>1, <1>2, <1>3, SettledMarkAll, SettledReport, SettledJudge DEF Execute

(* The cycle that ends has done what it was to do.                         *)
LEMMA SettledFinish ==
    ASSUME MTypeInv, FoundInv, Settled, Finish, NEW b \in BackendIds,
           monitor.listed[b] # NoRow
    PROVE  /\ row[b] # NoRow
           /\ b \in IF row[b].isHealthy THEN fit ELSE unfit
           /\ row[b].isHealthy =>
                WithinThreshold(row[b].clusterLoad, row[b].thresholdClusterLoad)
<1>1. /\ monitor.stage = "mark" /\ call[b].phase = "done" /\ b \in Judged
      /\ row[b] # NoRow /\ row[b] \in Row
      /\ row[b].thresholdClusterLoad = monitor.listed[b]
    BY DEF Finish, Settled, MTypeInv, TypeInv, TypeOK
<1>2. Pending(b, MarkOf(b)) /\ MarkOf(b).load = 0
      /\ MarkOf(b).op = IF b \in monitor.healthy THEN "MarkHealthy" ELSE "MarkUnhealthy"
    BY <1>1 DEF Settled, MarkOf, MonitorRequest
<1>3. row[b] = Mutated(MarkOf(b).op, row[b], 0)
    BY <1>1, <1>2 DEF Pending
<1>4. PICK r \in Row : r = row[b]
    BY <1>1
<1>5. row[b].isHealthy <=> b \in monitor.healthy
  <2>1. ~Mutated("MarkUnhealthy", r, 0).isHealthy /\ Mutated("MarkHealthy", r, 0).isHealthy
      BY Columns
  <2>2. CASE b \in monitor.healthy
      BY <1>2, <1>3, <1>4, <2>1, <2>2
  <2>3. CASE b \notin monitor.healthy
      BY <1>2, <1>3, <1>4, <2>1, <2>3
  <2> QED  BY <2>2, <2>3
<1>6. monitor.healthy \subseteq fit /\ monitor.unhealthy \subseteq unfit
    BY <1>1 DEF FoundInv
<1> QED  BY <1>1, <1>5, <1>6 DEF Judged, Settled

QuietInv ==
    quiet /\ ~DbMayFail /\ monitor.stage \notin {"idle", "list"} => Settled

LEMMA QuietHistory ==
    ASSUME HNext, quiet'
    PROVE  QuietNow' /\ (monitor.stage \notin {"idle", "list"} => quiet)
BY DEF HNext

LEMMA QuietStep ==
    ASSUME MTypeInv, FoundInv, QuietInv, HNext
    PROVE  QuietInv'
<1> SUFFICES ASSUME quiet', ~DbMayFail, monitor'.stage \notin {"idle", "list"}
             PROVE  Settled'
    BY DEF QuietInv
<1>0. MNext
    BY DEF HNext
<1>1. CASE monitor.stage \in {"idle", "list"}
  <2>1. ListBackends
    <3>1. monitor'.stage # monitor.stage
        BY <1>1
    <3>2. Execute
        BY <1>0, <3>1 DEF MNext, Serve, OperatorCall, ClusterChanges
    <3>3. ~Trigger
        BY <1>1 DEF Trigger, MTypeInv, Monitor
    <3> QED  BY <1>1, <3>2, <3>3 DEF Execute, MarkAll, Finish, Take, AskInfo,
             AskHealth, AskLoad, Report, Judge
  <2> QED  BY <2>1, QuietHistory, SettledList
<1>2. CASE monitor.stage \notin {"idle", "list"}
  <2>1. Settled /\ QuietNow'
      BY <1>2, QuietHistory DEF QuietInv
  <2>2. CASE Execute
      BY <1>2, <2>1, <2>2, SettledExecute
  <2>3. ASSUME NEW p \in Procs, Serve(p)  PROVE Settled'
      BY <1>2, <2>1, <2>3, SettledServe
  <2>4. ASSUME NEW p \in Operators, NEW q \in OperatorRequests, OperatorCall(p, q)
        PROVE  Settled'
    <3>1. call'[p].phase = "find"
        BY <2>4, MonitorAssumption DEF OperatorCall, Receive, MTypeInv, TypeInv, TypeOK
    <3> QED  BY <2>1, <3>1 DEF QuietNow
  <2>5. ASSUME NEW b \in BackendIds, ClusterChanges(b)  PROVE Settled'
    <3>1. row' = row /\ call' = call /\ monitor' = monitor
        BY <2>5 DEF ClusterChanges
    <3> QED  BY <2>1, <3>1 DEF Settled, Judged, Pending, MarkOf, ReportOf
  <2> QED  BY <1>0, <2>2, <2>3, <2>4, <2>5 DEF MNext
<1> QED  BY <1>1, <1>2

(* A cycle no operator's call overlapped with and no statement failed in   *)
(* leaves every backend it listed with the flag its cluster deserved, and  *)
(* no healthy one with a reported load above its threshold, for any number *)
(* of backends and whatever the clusters do meanwhile.                     *)
THEOREM QuietCyclesSettle == HSpec => QuietCycleSettles
<1> DEFINE Inv == MTypeInv /\ FoundInv /\ QuietInv
           Settles ==
             monitor.stage = "mark" /\ monitor'.stage = "idle" /\ quiet /\ ~DbMayFail =>
               \A b \in BackendIds : monitor.listed[b] # NoRow =>
                 /\ row[b] # NoRow
                 /\ b \in IF row[b].isHealthy THEN fit ELSE unfit
                 /\ row[b].isHealthy =>
                      WithinThreshold(row[b].clusterLoad, row[b].thresholdClusterLoad)
<1>1. HInit => Inv
  <2>1. HInit => MTypeInv /\ FoundInv
      BY FoundInit
  <2> QED  BY <2>1 DEF HInit, MInit, Idle, QuietInv
<1>2. Inv /\ [HNext]_hvars => Inv'
  <2> SUFFICES ASSUME Inv, [HNext]_hvars  PROVE Inv'
      OBVIOUS
  <2>1. MTypeInv' /\ FoundInv'
      BY FoundNext
  <2>2. CASE UNCHANGED hvars
    <3>1. Settled' <=> Settled
        BY <2>2 DEF hvars, Settled, Judged, Pending, MarkOf, ReportOf
    <3> QED  BY <2>1, <2>2, <3>1 DEF hvars, QuietInv
  <2> QED  BY <2>1, <2>2, QuietStep
<1>3. Inv /\ [HNext]_hvars => [Settles]_hvars
  <2> SUFFICES ASSUME Inv, HNext, monitor.stage = "mark", monitor'.stage = "idle",
                      quiet, ~DbMayFail
               PROVE  \A b \in BackendIds : monitor.listed[b] # NoRow =>
                        /\ row[b] # NoRow
                        /\ b \in IF row[b].isHealthy THEN fit ELSE unfit
                        /\ row[b].isHealthy =>
                             WithinThreshold(row[b].clusterLoad,
                                             row[b].thresholdClusterLoad)
      OBVIOUS
  <2>1. Settled
      BY DEF QuietInv
  <2>2. Finish
    <3>1. MNext
        BY DEF HNext
    <3>2. Execute
        BY <3>1 DEF MNext, Serve, OperatorCall, ClusterChanges
    <3> QED  BY <3>2 DEF Execute, Trigger, ListBackends, MarkAll, Take, AskInfo,
             AskHealth, AskLoad, Report, Judge
  <2> QED  BY <2>1, <2>2, SettledFinish
<1> QED  BY <1>1, <1>2, <1>3, PTL DEF HSpec, QuietCycleSettles
=============================================================================
