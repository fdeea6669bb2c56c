---------------------------- MODULE MonitorCycle ----------------------------
(***************************************************************************)
(* The health monitor over the BackendApi (Backends): a scheduled job that *)
(* lists the backends, probes their clusters one after the other, reports  *)
(* loads, and marks every backend it listed healthy or unhealthy.          *)
(*                                                                         *)
(* The monitor's calls are served like any other. Each has the slot named  *)
(* after its backend, as a cycle never has two calls about one backend;    *)
(* the other slots are the operators'.                                     *)
(***************************************************************************)
EXTENDS Backends, FiniteSets

CONSTANTS
    Operators,          \* the request slots operators use
    OperatorRequests,   \* what they may ask for
    MaxCalls,           \* bound: calls of operators
    Workloads,          \* query counts a cluster may have
    ClusterStates       \* what a cluster may be like

(* computeClusterLoad: `running` counts the planning, finishing and        *)
(* dispatching queries too, `queued` the starting ones.                    *)
ComputeClusterLoad(work) == work.running * 2 + (work.queued * 1) \div 3

Cluster == [scheduled : BOOLEAN, state : {"up", "down", "silent"}, work : Workloads]

ASSUME MonitorAssumption ==
    /\ Procs = Operators \cup BackendIds /\ Operators \cap BackendIds = {}
    /\ OperatorRequests \subseteq {q \in Requests : q.op \notin MonitorOps}
    /\ NoRow \notin BackendIds \cup Thresholds
    /\ MaxCalls \in Nat
    /\ Workloads \subseteq [running : Nat, queued : Nat]
    /\ {ComputeClusterLoad(w) : w \in Workloads} \subseteq Loads
    /\ ClusterStates \subseteq Cluster

VARIABLES
    cluster,    \* cluster[b]: whether now is in b's uptime schedule, and its Trino
    monitor,    \* the locals of Monitor.Execute
    calls       \* how many calls operators have made

mvars == <<row, call, cluster, monitor, calls>>

Stages == {"idle", "list", "next", "info", "health", "load", "report",
           "reported", "mark"}

(* `listed` has the threshold of every backend in the list, `left` those   *)
(* whose turn is still to come, `at` the one being probed.                 *)
Monitor == [stage : Stages, listed : [BackendIds -> Thresholds \cup {NoRow}],
            left : SUBSET BackendIds, at : BackendIds \cup {NoRow}, load : Loads,
            healthy : SUBSET BackendIds, unhealthy : SUBSET BackendIds]

MTypeOK ==
    /\ TypeOK
    /\ cluster \in [BackendIds -> ClusterStates]
    /\ monitor \in Monitor
    /\ calls \in 0..MaxCalls

(* Between two cycles nothing is kept.                                     *)
Idle == [stage |-> "idle", listed |-> [b \in BackendIds |-> NoRow], left |-> {},
         at |-> NoRow, load |-> 0, healthy |-> {}, unhealthy |-> {}]

(* Mutant of WithinThreshold: no threshold is a threshold of 0.            *)
ZeroIsALimit(load, threshold) == load <= threshold

WithinThreshold(load, threshold) == threshold = 0 \/ load <= threshold

MInit ==
    /\ Init
    /\ cluster \in [BackendIds -> ClusterStates]
    /\ monitor = Idle
    /\ calls = 0

-----------------------------------------------------------------------------
(* The scheduler starts the job; while it runs, later starts are put off.  *)
Trigger ==
    /\ monitor.stage = "idle"
    /\ monitor' = [monitor EXCEPT !.stage = "list"]
    /\ UNCHANGED <<row, call, cluster, calls>>

(* ListAllBackends is one SELECT. If it fails, so does the cycle.          *)
ListBackends ==
    /\ monitor.stage = "list"
    /\ \/ monitor' = [monitor EXCEPT !.stage = "next",
                        !.listed = [b \in BackendIds |->
                           IF row[b] = NoRow THEN NoRow ELSE row[b].thresholdClusterLoad],
                        !.left = {b \in BackendIds : row[b] # NoRow}]
       \/ DbMayFail /\ monitor' = Idle
    /\ UNCHANGED <<row, call, cluster, calls>>

(* The backend at hand is not healthy, for whatever reason.                *)
Reject(b) ==
    monitor' = [monitor EXCEPT !.stage = "next", !.at = NoRow, !.load = 0,
                  !.left = @ \ {b}, !.unhealthy = @ \cup {b}]

(* Mutant of Take: out of its schedule a backend is skipped.               *)
TakeOrSkip(b) ==
    /\ monitor.stage = "next" /\ b \in monitor.left
    /\ IF cluster[b].scheduled
       THEN monitor' = [monitor EXCEPT !.stage = "info", !.at = b]
       ELSE monitor' = [monitor EXCEPT !.left = @ \ {b}]
    /\ UNCHANGED <<row, call, cluster, calls>>

(* Out of its uptime schedule, a backend is unhealthy unasked.             *)
Take(b) ==
    /\ monitor.stage = "next" /\ b \in monitor.left
    /\ IF cluster[b].scheduled
       THEN monitor' = [monitor EXCEPT !.stage = "info", !.at = b]
       ELSE Reject(b)
    /\ UNCHANGED <<row, call, cluster, calls>>

(* /v1/info, over a client that waits for an answer without a limit.       *)
AskInfo(b) ==
    /\ monitor.stage = "info" /\ monitor.at = b
    /\ cluster[b].state # "silent"
    /\ IF cluster[b].state = "up"
       THEN monitor' = [monitor EXCEPT !.stage = "health"]
       ELSE Reject(b)
    /\ UNCHANGED <<row, call, cluster, calls>>

(* The healthcheck query; the driver gives up on a silent cluster.         *)
AskHealth(b) ==
    /\ monitor.stage = "health" /\ monitor.at = b
    /\ IF cluster[b].state = "up"
       THEN monitor' = [monitor EXCEPT !.stage = "load"]
       ELSE Reject(b)
    /\ UNCHANGED <<row, call, cluster, calls>>

(* The query for the cluster's query counts.                               *)
AskLoad(b) ==
    /\ monitor.stage = "load" /\ monitor.at = b
    /\ IF cluster[b].state = "up"
       THEN monitor' = [monitor EXCEPT !.stage = "report",
                          !.load = ComputeClusterLoad(cluster[b].work)]
       ELSE Reject(b)
    /\ UNCHANGED <<row, call, cluster, calls>>

MonitorRequest(op, b, load) == [op |-> op, id |-> b, new |-> NoRow, load |-> load]

Report(b) ==
    /\ monitor.stage = "report" /\ monitor.at = b
    /\ Receive(b, MonitorRequest("UpdateClusterLoad", b, monitor.load))
    /\ monitor' = [monitor EXCEPT !.stage = "reported"]
    /\ UNCHANGED <<cluster, calls>>

(* Mutant of Judge: whatever answers its probes is healthy.                *)
JudgeIgnoresLoad(b) ==
    /\ monitor.stage = "reported" /\ monitor.at = b
    /\ call[b].phase = "done"
    /\ monitor' = [monitor EXCEPT !.stage = "next", !.at = NoRow, !.load = 0,
                     !.left = @ \ {b}, !.healthy = @ \cup {b}]
    /\ UNCHANGED <<row, call, cluster, calls>>

(* Whatever came of the report, the load decides, by the listed threshold. *)
Judge(b) ==
    /\ monitor.stage = "reported" /\ monitor.at = b
    /\ call[b].phase = "done"
    /\ IF WithinThreshold(monitor.load, monitor.listed[b])
       THEN monitor' = [monitor EXCEPT !.stage = "next", !.at = NoRow, !.load = 0,
                          !.left = @ \ {b}, !.healthy = @ \cup {b}]
       ELSE Reject(b)
    /\ UNCHANGED <<row, call, cluster, calls>>

(* One goroutine for each backend listed.                                  *)
MarkAll ==
    /\ monitor.stage = "next" /\ monitor.left = {}
    /\ call' = [p \in Procs |->
          IF p \in monitor.healthy \cup monitor.unhealthy
          THEN [what |-> MonitorRequest(IF p \in monitor.healthy THEN "MarkHealthy"
                                        ELSE "MarkUnhealthy", p, 0),
                phase |-> "find", held |-> NoRow, reply |-> "none"]
          ELSE call[p]]
    /\ monitor' = [monitor EXCEPT !.stage = "mark"]
    /\ UNCHANGED <<row, cluster, calls>>

(* Mutant of Finish: the two lists are kept for the next cycle.            *)
FinishKeepsLists ==
    /\ monitor.stage = "mark"
    /\ \A b \in BackendIds : call[b].phase = "done"
    /\ monitor' = [Idle EXCEPT !.healthy = monitor.healthy, !.unhealthy = monitor.unhealthy]
    /\ UNCHANGED <<row, call, cluster, calls>>

(* The cycle ends when all of them have their answers.                     *)
Finish ==
    /\ monitor.stage = "mark"
    /\ \A b \in BackendIds : call[b].phase = "done"
    /\ monitor' = Idle
    /\ UNCHANGED <<row, call, cluster, calls>>

Execute ==
    \/ Trigger \/ ListBackends \/ MarkAll \/ Finish
    \/ \E b \in BackendIds :
         \/ Take(b) \/ AskInfo(b) \/ AskHealth(b) \/ AskLoad(b)
         \/ Report(b) \/ Judge(b)

-----------------------------------------------------------------------------
(* A statement of a handler of the BackendApi, whoever called it.          *)
Serve(p) == Step(p) /\ UNCHANGED <<cluster, monitor, calls>>

OperatorCall(p, q) ==
    /\ calls < MaxCalls /\ calls' = calls + 1
    /\ Receive(p, q)
    /\ UNCHANGED <<cluster, monitor>>

ClusterChanges(b) ==
    /\ \E c \in ClusterStates \ {cluster[b]} : cluster' = [cluster EXCEPT ![b] = c]
    /\ UNCHANGED <<row, call, monitor, calls>>

MNext ==
    \/ Execute
    \/ \E p \in Procs : Serve(p)
    \/ \E p \in Operators, q \in OperatorRequests : OperatorCall(p, q)
    \/ \E b \in BackendIds : ClusterChanges(b)

MSpec == MInit /\ [][MNext]_mvars

(* The scheduler starts the job again and again, a running goroutine gets  *)
(* on unless it waits for a silent cluster, and handlers finish. Nothing   *)
(* is assumed of operators and clusters.                                   *)
Fairness ==
    /\ WF_mvars(Execute)
    /\ \A p \in Procs : WF_mvars(Serve(p))

-----------------------------------------------------------------------------
Answering == \A b \in BackendIds : cluster[b].state # "silent"

OutOfSchedule(b) == ~cluster[b].scheduled

Down(b) == cluster[b].state = "down"

Available(b) ==
    /\ cluster[b].scheduled /\ cluster[b].state = "up"
    /\ \/ row[b] = NoRow \/ row[b].thresholdClusterLoad = 0
       \/ ComputeClusterLoad(cluster[b].work) <= row[b].thresholdClusterLoad

StaysUnhealthy(b) == <>[](row[b] = NoRow \/ ~row[b].isHealthy)

StaysHealthy(b) == <>[](row[b] = NoRow \/ row[b].isHealthy)

(* As long as no cluster is silent, a backend whose cluster stays down, or *)
(* stays out of its schedule, ends up unhealthy and stays so, whatever     *)
(* stale rows were written back meanwhile (monitor.go Execute).            *)
DownIsNoticed ==
    \A b \in BackendIds :
        <>[](Answering /\ Down(b)) \/ <>[](Answering /\ OutOfSchedule(b)) =>
            StaysUnhealthy(b)

(* And one whose cluster stays up, in its schedule and within the load     *)
(* threshold, if it has one, ends up healthy and stays so.                 *)
UpIsNoticed ==
    \A b \in BackendIds : <>[](Answering /\ Available(b)) => StaysHealthy(b)
=============================================================================
