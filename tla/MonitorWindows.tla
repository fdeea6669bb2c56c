--------------------------- MODULE MonitorWindows ---------------------------
(***************************************************************************)
(* MonitorCycle with a history of the running cycle: what its clusters     *)
(* have been like, and whether an operator's call overlapped with it.      *)
(***************************************************************************)
EXTENDS MonitorCycle

VARIABLES
    fit,    \* backends that could have been found healthy since the list
    unfit,  \* backends that could have been found unhealthy since
    quiet   \* no operator's call has been open since

hvars == <<row, call, cluster, monitor, calls, fit, unfit, quiet>>

(* Judged by the threshold the cycle has listed.                           *)
FitNow == {b \in BackendIds :
              /\ monitor.listed[b] # NoRow
              /\ cluster[b].state = "up"
              /\ WithinThreshold(ComputeClusterLoad(cluster[b].work), monitor.listed[b])}

UnfitNow == {b \in BackendIds :
                /\ monitor.listed[b] # NoRow
                /\ \/ ~cluster[b].scheduled \/ cluster[b].state # "up"
                   \/ ~WithinThreshold(ComputeClusterLoad(cluster[b].work),
                                       monitor.listed[b])}

QuietNow == \A p \in Operators : call[p].phase = "done"

HInit == MInit /\ fit = {} /\ unfit = {} /\ quiet = TRUE

HNext ==
    /\ MNext
    /\ IF monitor.stage \in {"idle", "list"}
       THEN fit' = FitNow' /\ unfit' = UnfitNow' /\ quiet' = QuietNow'
       ELSE /\ fit' = fit \cup FitNow' /\ unfit' = unfit \cup UnfitNow'
            /\ quiet' = (quiet /\ QuietNow')

HSpec == HInit /\ [][HNext]_hvars

FairSpec == HSpec /\ Fairness

-----------------------------------------------------------------------------
(* A call of the monitor that marks a backend is founded on what was so of *)
(* its cluster since the cycle began, under the threshold it listed: never *)
(* on an earlier cycle, nor on another backend (monitor.go:61-100).        *)
CallsAreFounded ==
    monitor.stage = "mark" =>
        \A b \in BackendIds :
            call[b].phase # "done" =>
                \/ call[b].what.op = "MarkHealthy" /\ b \in fit
                \/ call[b].what.op = "MarkUnhealthy" /\ b \in unfit

(* A cycle no operator's call overlapped with, and no failing statement    *)
(* hit, leaves each backend it listed with the flag its cluster deserved   *)
(* at some moment, and no healthy one with a reported load above its       *)
(* threshold.                                                              *)
QuietCycleSettles ==
    [][monitor.stage = "mark" /\ monitor'.stage = "idle" /\ quiet /\ ~DbMayFail =>
         \A b \in BackendIds : monitor.listed[b] # NoRow =>
            /\ row[b] # NoRow
            /\ b \in IF row[b].isHealthy THEN fit ELSE unfit
            /\ row[b].isHealthy =>
                 WithinThreshold(row[b].clusterLoad, row[b].thresholdClusterLoad)]_hvars
=============================================================================
