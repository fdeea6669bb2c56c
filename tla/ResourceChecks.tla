---------------------------- MODULE ResourceChecks ----------------------------
(***************************************************************************)
(* ResourceAnalyzer with a history of the pods each analysis could count   *)
(* and of the advice that was followed.                                    *)
(***************************************************************************)
EXTENDS ResourceAnalyzer

VARIABLES
    counted,    \* the pods that were analyzable when their cluster answered
    stale,      \* resources whose usage changed since the last analysis
                \* began
    settled,    \* {<<group, resource>>} whose advice was followed, with the
                \* usage it was given for still the same
    judged      \* those settled when the present analysis began, and still

hvars == <<vars, counted, stale, settled, judged>>

HInit ==
    /\ Init
    /\ counted = {} /\ stale = {} /\ settled = {} /\ judged = {}

Changed == {r \in Resources : usage'[r] # usage[r]}

\* What the operator has just followed: advice for the request of a resource
\* whose usage is still the one it was given for.
Followed == {gr \in Groups \X Resources :
                /\ pc = "idle" /\ gr[2] \notin stale
                /\ container'[gr[1]][gr[2]] # container[gr[1]][gr[2]]
                /\ report.results[gr[1]].advice[gr[2]].new_request # NoValue}

HNext ==
    /\ Next
    /\ counted' =
          IF pc = "idle" \/ pc' = "idle" THEN {}
          ELSE IF all_pods_by_deployment' # all_pods_by_deployment
               THEN counted \cup {p \in Pods :
                                     /\ p.cluster = NextCluster.cluster
                                     /\ Analyzable(p)}
               ELSE counted
    /\ stale' = IF pc = "idle" /\ pc' = "pods" THEN {} ELSE stale \cup Changed
    /\ settled' = {gr \in settled \cup Followed : gr[2] \notin Changed}
    /\ judged' = IF pc = "idle" /\ pc' = "pods" THEN settled
                 ELSE {gr \in judged : gr[2] \notin Changed}

HSpec == HInit /\ [][HNext]_hvars

-----------------------------------------------------------------------------
Reported == report.status = "success"

(* An analysis counts every pod that was analyzable when its cluster       *)
(* answered, once, under one deployment, and no other, whichever clusters  *)
(* are named twice, share a deployment or fail to answer; its report's     *)
(* summary and its deployments add up to the same pods (main.py            *)
(* parse_inputs, analyze_namespace).                                       *)
PodsPartitioned ==
    /\ pc \in {"cpu", "memory", "analyze"} =>
         LET found == all_pods_by_deployment
             listed == UNION {found[g].pods : g \in DOMAIN found}
         IN  /\ {e.pod : e \in listed} = counted
             /\ \A e, f \in listed : e.pod = f.pod => e = f
             /\ \A g, h \in DOMAIN found :
                   g # h => found[g].pods \cap found[h].pods = {}
    /\ Reported =>
         report.summary.running + report.summary.cronjobs =
            MapThenSumSet(LAMBDA g : report.results[g].pods,
                          DOMAIN report.results)

(* While its usage stays as it was, a resource whose advice was followed   *)
(* is not told to grow or to shrink by the next analysis (analyze.py       *)
(* recommend_cpu, recommend_memory: the factors 2, 1.5 and 0.5). Usage     *)
(* below 2m or 2Mi is left out: int(p95 * 1.5) can be smaller than p95.    *)
NoFlapping ==
    [][pc = "analyze" /\ pc' = "idle" =>
         \A gr \in judged :
            gr[1] \in DOMAIN report'.results =>
               \/ all_metrics[gr[1]][gr[2]].p95 < 20
               \/ report'.results[gr[1]].advice[gr[2]].type
                     \notin {"INCREASE_REQUEST", "DECREASE_REQUEST"}]_hvars

\* What following a report's advice frees of a resource.
Freed(results, r) ==
    MapThenSumSet(
        LAMBDA g : IF results[g].advice[r].new_request = NoValue THEN 0
                   ELSE results[g].pods * (results[g].spec[r].request
                                           - results[g].advice[r].new_request),
        DOMAIN results)

(* The net impact a report promises is never more than what following all  *)
(* of its advice frees (report_generator.py                                *)
(* generate_memory_optimization_summary).                                  *)
NetNeverOverstated ==
    Reported => \A r \in Resources : report.freed[r] <= Freed(report.results, r)

(* The parts of a report agree: what is at risk is to be increased, what   *)
(* needs attention is exactly what is to be increased, and no advice is    *)
(* given without metrics (analyze.py, report_generator.py).                *)
ReportCoherent ==
    Reported =>
       /\ report.at_risk \subseteq report.increase
       /\ report.increase = {g \in DOMAIN report.results :
                                report.results[g].status = "NEEDS ATTENTION"}
       /\ \A g \in DOMAIN report.results :
             report.results[g].status = "NO_METRICS" =>
                g \notin report.set_limit \cup report.increase
                         \cup report.decrease \cup report.hpa
=============================================================================
