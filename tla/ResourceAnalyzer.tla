--------------------------- MODULE ResourceAnalyzer ---------------------------
(***************************************************************************)
(* The k8s-resource-analyzer tool (main.py, fetch_pods.py,                 *)
(* fetch_metrics.py): one analysis after the other of the same namespace.  *)
(* An analysis lists the pods of each cluster, groups them by the name     *)
(* their deployment seems to have, asks Prometheus for the usage of each   *)
(* group and reports advice (ResourceAdvice).  Meanwhile pods come and go, *)
(* usage changes, and an operator follows the advice of the last report.   *)
(* The containers of one group's pods are alike.                           *)
(*                                                                         *)
(* A list is the set of its entries, each with the place in it (or, of a   *)
(* pod, the place of the answer it came with): what is listed twice has    *)
(* two entries.                                                            *)
(***************************************************************************)
EXTENDS ResourceAdvice, SequencesExt

CONSTANTS
    Clusters,       \* the clusters there are, in order
    Requests,       \* what users ask for, [clusters, hours]
    Pods,           \* the pods of the namespace, [cluster, name]
    HashLike(_),    \* parts of a name that have 5 letters or are a number
    Containers,     \* what first containers can ask for
    Series,         \* what Prometheus can hold: sets of series
    MaxEvents,      \* bound: changes of usage and of pods, failed requests
    MaxRuns         \* bound: analyses

ASSUME ResourceAssumption ==
    /\ \A p \in Pods : p.cluster \in ToSet(Clusters) /\ p.name # <<>>
    /\ Clusters \in Seq(ToSet(Clusters)) \ {<<>>}
    /\ \A request \in Requests :
          request.clusters \in Seq(ToSet(request.clusters))
    /\ IsFiniteSet(Pods)
    /\ Containers \subseteq
          [Resources -> [request : Quantities, limit : Quantities]]
    /\ \A series \in Series :
          /\ IsFiniteSet(series)
          /\ series \subseteq [value : Nat, samples : Nat \ {0}]
    /\ MaxEvents \in Nat /\ MaxRuns \in Nat

VARIABLES
    pod_state,      \* the states of each pod's containers
    container,      \* the first container of each group's pods
    usage,          \* the series of each resource, of all pods
    pc,             \* where the analysis is
    clusters_todo, groups_todo,     \* what it has still to ask for, the
                                    \* clusters as a list
    all_pods_by_deployment,         \* what it has found so far
    total_pods_all,                 \* the same, in one list
    all_metrics,    \* what it has measured so far
    report,         \* what the last analysis came to
    runs, events

world == <<pod_state, container, usage>>
vars == <<pod_state, container, usage, pc, clusters_todo, groups_todo,
          all_pods_by_deployment, total_pods_all, all_metrics, report, runs,
          events>>

-----------------------------------------------------------------------------
\* extract_deployment_name: names are their parts between hyphens.
DeploymentName(name) ==
    IF Len(name) > 1 /\ HashLike(Last(name)) THEN Front(name) ELSE name

Groups == {DeploymentName(p.name) : p \in Pods}

\* The states of a pod's containers: not started, running, one of two
\* still starting, ended.
PodStates == {{}, {"ready"}, {"ready", "waiting"}, {"terminated"}}

\* filter_pods. The age of a pod is never looked at: its start time has a time
\* zone, the present has none, and their difference raises.
Analyzable(p) ==
    pod_state[p] # {} /\ pod_state[p] \subseteq {"ready", "terminated"}

NoReport == [status |-> "none"]

Init ==
    /\ \E s \in {{}, {"ready"}} : pod_state = [p \in Pods |-> s]
    /\ container \in [Groups -> Containers]
    /\ usage \in [Resources -> Series]
    /\ pc = "idle"
    /\ clusters_todo = {} /\ groups_todo = {}
    /\ all_pods_by_deployment = <<>>
    /\ total_pods_all = {}
    /\ all_metrics = <<>>
    /\ report = NoReport
    /\ runs = 0 /\ events = 0

Event == events < MaxEvents /\ events' = events + 1

-----------------------------------------------------------------------------
(* An analysis.                                                            *)

MaxHours == 720

Named(request) ==
    IF request.clusters = <<>> THEN Clusters ELSE request.clusters

\* Mutant: a cluster that is named twice is asked twice.
ParseInputsTwice(request) ==
    {[at |-> i, cluster |-> Named(request)[i]] : i \in 1..Len(Named(request))}

\* parse_inputs: the clusters asked for, where they are first named; all when
\* none is.
ParseInputs(request) ==
    {[at |-> i, cluster |-> Named(request)[i]] :
        i \in {j \in 1..Len(Named(request)) :
                 \A k \in 1..j - 1 : Named(request)[k] # Named(request)[j]}}

Valid(request) == /\ ToSet(request.clusters) \subseteq ToSet(Clusters)
                  /\ request.hours \in 1..MaxHours

Start ==
    /\ pc = "idle" /\ runs < MaxRuns
    /\ runs' = runs + 1
    /\ \E request \in Requests :
          IF Valid(request)
          THEN /\ pc' = "pods" /\ clusters_todo' = ParseInputs(request)
               /\ UNCHANGED report
          ELSE /\ report' = [status |-> "error"]
               /\ UNCHANGED <<pc, clusters_todo>>
    /\ UNCHANGED <<world, groups_todo, all_pods_by_deployment, total_pods_all,
                   all_metrics, events>>

\* The cluster that is asked next.
NextCluster ==
    CHOOSE c \in clusters_todo : \A d \in clusters_todo : c.at <= d.at

GroupOf(entry) == DeploymentName(entry.pod.name)

\* Pods join their group; its spec is that of its first pod.
Grouped(found) ==
    LET group(g) == {e \in found : GroupOf(e) = g}
        known == DOMAIN all_pods_by_deployment
    IN  [g \in known \cup {GroupOf(e) : e \in found} |->
            IF g \in known
            THEN [all_pods_by_deployment[g] EXCEPT !.pods = @ \cup group(g)]
            ELSE [pods |-> group(g), spec |-> ExtractSpec(container[g])]]

\* A new group's spec cannot be read.
Unreadable(found) ==
    \E e \in found : /\ GroupOf(e) \notin DOMAIN all_pods_by_deployment
                     /\ ~Readable(container[GroupOf(e)])

\* What follows when the last cluster has answered, or has not.
AfterPods(groups) ==
    /\ clusters_todo' = clusters_todo \ {NextCluster}
    /\ IF clusters_todo' # {}
       THEN pc' = "pods" /\ UNCHANGED <<groups_todo, report>>
       ELSE /\ groups_todo' = groups
            /\ IF groups = {}
               THEN pc' = "idle" /\ report' = [status |-> "no_data"]
               ELSE pc' = "cpu" /\ UNCHANGED report

\* fetch_pods_from_cluster, filter_pods and the grouping. kubectl or a Friday
\* endpoint answers with the cluster's pods. What cannot be read ends the
\* analysis.
FetchPods ==
    /\ pc = "pods"
    /\ LET found == {[pod |-> p, at |-> NextCluster.at] :
                        p \in {q \in Pods : q.cluster = NextCluster.cluster
                                            /\ Analyzable(q)}}
       IN  IF Unreadable(found)
           THEN /\ pc' = "idle" /\ report' = [status |-> "error"]
                /\ clusters_todo' = {} /\ total_pods_all' = {}
                /\ all_pods_by_deployment' = <<>>
                /\ UNCHANGED groups_todo
           ELSE /\ all_pods_by_deployment' = Grouped(found)
                /\ total_pods_all' = total_pods_all \cup found
                /\ AfterPods(DOMAIN Grouped(found))
    /\ UNCHANGED <<world, all_metrics, runs, events>>

\* None of them answers: the cluster counts as one without pods.
FetchPodsFails ==
    /\ pc = "pods" /\ Event
    /\ AfterPods(DOMAIN all_pods_by_deployment)
    /\ UNCHANGED <<world, all_pods_by_deployment, total_pods_all, all_metrics,
                   runs>>

\* call_grafana_mcp_range_query: Prometheus answers with the series of the
\* whole namespace, whichever pods were asked for, or nothing comes back.
Statistics == [series \in Series |-> Aggregate(series)]

Measured(r, m) == \/ m = Statistics[usage[r]] /\ UNCHANGED events
                  \/ m = NoMetrics /\ Event

\* fetch_metrics_from_prometheus for one group after the other: CPU, then
\* memory.
FetchCpuMetrics ==
    /\ pc = "cpu"
    /\ \E g \in groups_todo, m \in {Statistics[usage["cpu"]], NoMetrics} :
          /\ Measured("cpu", m)
          /\ all_metrics' = [h \in DOMAIN all_metrics \cup {g} |->
                               IF h = g THEN [cpu |-> m, memory |-> NoMetrics]
                               ELSE all_metrics[h]]
    /\ pc' = "memory"
    /\ UNCHANGED <<world, clusters_todo, groups_todo, all_pods_by_deployment,
                   total_pods_all, report, runs>>

FetchMemoryMetrics ==
    /\ pc = "memory"
    /\ \E g \in groups_todo \cap DOMAIN all_metrics,
          m \in {Statistics[usage["memory"]], NoMetrics} :
          /\ Measured("memory", m)
          /\ all_metrics' = [all_metrics EXCEPT ![g].memory = m]
          /\ groups_todo' = groups_todo \ {g}
          /\ pc' = IF groups_todo = {g} THEN "analyze" ELSE "cpu"
    /\ UNCHANGED <<world, clusters_todo, all_pods_by_deployment,
                   total_pods_all, report, runs>>

\* categorize_pods and summarize_pod_categories, by the words of a pod's name.
Category(name) ==
    CASE "cronjob" \in ToSet(name) -> "cronjob"
      [] "cronjob" \notin ToSet(name) /\ "worker" \in ToSet(name) -> "worker"
      [] ToSet(name) \cap {"cronjob", "worker"} = {}
         /\ ToSet(name) \cap {"live", "test", "baseline", "canary"} # {} ->
             "web"
      [] OTHER -> "other"

Summary(pods) ==
    LET of(categories) == Cardinality({e \in pods :
                                         Category(e.pod.name) \in categories})
    IN  [running |-> of({"web", "worker", "other"}),
         cronjobs |-> of({"cronjob"})]

Analyses ==
    [g \in DOMAIN all_pods_by_deployment |->
        Analyze(all_pods_by_deployment[g].spec, all_metrics[g],
                Cardinality(all_pods_by_deployment[g].pods))]

\* The analyses and their report.
AnalyzeAndReport ==
    /\ pc = "analyze"
    /\ pc' = "idle"
    /\ report' = Report(Analyses, Summary(total_pods_all))
    /\ all_pods_by_deployment' = <<>> /\ total_pods_all' = {}
    /\ all_metrics' = <<>>
    /\ UNCHANGED <<world, clusters_todo, groups_todo, runs, events>>

-----------------------------------------------------------------------------
(* The namespace and its operator.                                         *)

UsageChanges ==
    /\ Event
    /\ \E r \in Resources, s \in Series :
           s # usage[r] /\ usage' = [usage EXCEPT ![r] = s]
    /\ UNCHANGED <<pod_state, container, pc, clusters_todo, groups_todo,
                   all_pods_by_deployment, total_pods_all, all_metrics, report,
                   runs>>

PodChanges ==
    /\ Event
    /\ \E p \in Pods, s \in PodStates :
           s # pod_state[p] /\ pod_state' = [pod_state EXCEPT ![p] = s]
    /\ UNCHANGED <<container, usage, pc, clusters_todo, groups_todo,
                   all_pods_by_deployment, total_pods_all, all_metrics, report,
                   runs>>

\* A container as advised for one resource. Kubernetes gives a container with a
\* limit and no request a request that equals the limit.
Advised(c, r, advice) ==
    LET quantity(n) == [n |-> n, unit |-> IF r = "cpu" THEN "m" ELSE "Mi"]
        limit == IF advice.new_limit = NoValue THEN c[r].limit
                 ELSE quantity(advice.new_limit)
        request == CASE advice.new_request # NoValue ->
                            quantity(advice.new_request)
                     [] advice.new_request = NoValue
                        /\ c[r].request.n = NoValue -> limit
                     [] OTHER -> c[r].request
    IN  [c EXCEPT ![r] = [request |-> request, limit |-> limit]]

\* Kubernetes refuses a request above its limit (both in units the tool reads
\* as Kubernetes does).
Admitted(c, r) ==
    c[r].limit.n # NoValue => Parsed(c[r].request) <= Parsed(c[r].limit)

\* The operator does what the last report advises for one resource.
Apply ==
    /\ report.status = "success"
    /\ \E g \in DOMAIN report.results, r \in Resources :
          LET advice == report.results[g].advice[r]
              new == Advised(container[g], r, advice)
          IN  /\ advice.type \in {"SET_LIMIT", "INCREASE_REQUEST",
                                  "DECREASE_REQUEST"}
              /\ Admitted(new, r) /\ new # container[g]
              /\ container' = [container EXCEPT ![g] = new]
    /\ UNCHANGED <<pod_state, usage, events, pc, clusters_todo, groups_todo,
                   all_pods_by_deployment, total_pods_all, all_metrics, report,
                   runs>>

Analysis == \/ FetchPods \/ FetchPodsFails \/ FetchCpuMetrics
            \/ FetchMemoryMetrics \/ AnalyzeAndReport

Next == Start \/ Analysis \/ UsageChanges \/ PodChanges \/ Apply

Spec == Init /\ [][Next]_vars
=============================================================================
