---------------------------- MODULE ResourceAdvice ----------------------------
(***************************************************************************)
(* What the k8s-resource-analyzer tool makes of one deployment: the units  *)
(* of its spec, the statistics of its metrics, the advice for CPU, memory  *)
(* and autoscaling (analyze.py) and its place in the report                *)
(* (report_generator.py).                                                  *)
(***************************************************************************)
EXTENDS Integers, Sequences, FiniteSets, FiniteSetsExt

NoValue == -1       \* None

Resources == {"cpu", "memory"}

-----------------------------------------------------------------------------
(* Quantities of a container spec, [n, unit]; NoQuantity where it is left  *)
(* out.  A fraction of a core, Gi, G, Ti or T is rounded down to millicores*)
(* or mebibytes, and stands here as the quantity in those.                 *)

NoQuantity == [n |-> NoValue, unit |-> "m"]

\* parse_resource_value: millicores and mebibytes. Kibibytes and bytes count
\* as mebibytes.
Factor == [m |-> 1, core |-> 1000, Ki |-> 1, Mi |-> 1, Gi |-> 1024,
           Ti |-> 1024 * 1024, K |-> 1, M |-> 1, G |-> 1024,
           T |-> 1024 * 1024, bytes |-> 1]

\* Any other number or unit, of those that Kubernetes takes, is "unread".
Units == DOMAIN Factor \cup {"n", "unread"}
Quantities == [n : Nat \cup {NoValue}, unit : Units]

\* The units a quantity can have without the conversion of its text raising.
UnitsRead == [cpu |-> {"m", "n", "core"},
              memory |-> DOMAIN Factor \ {"m", "core"}]

Readable(container) ==
    \A r \in Resources : \A q \in {container[r].request, container[r].limit} :
        q.n = NoValue \/ q.unit \in UnitsRead[r]

Parsed(q) ==
    CASE q.n = NoValue -> NoValue
      [] q.n # NoValue /\ q.unit = "n" -> q.n \div 1000000
      [] OTHER -> q.n * Factor[q.unit]

\* extract_resource_spec: the first container's, with defaults for requests.
DefaultRequest == [cpu |-> 100, memory |-> 128]

ExtractSpec(container) ==
    [r \in Resources |->
        [request |-> IF container[r].request.n = NoValue THEN DefaultRequest[r]
                     ELSE Parsed(container[r].request),
         limit |-> Parsed(container[r].limit)]]

-----------------------------------------------------------------------------
(* Statistics of a set of series, [value, samples]: constant values that   *)
(* were sampled so many times.  Values are tenths of a millicore or of a   *)
(* mebibyte: metrics are floats, specs and advice are integers.            *)

NoMetrics == [p95 |-> NoValue, variance |-> 0]

Samples(series) == MapThenSumSet(LAMBDA s : s.samples, series)

\* calculate_percentiles: the sorted values' entry at int(n * 0.95), counted
\* from 0.
P95(series) ==
    LET rank == (95 * Samples(series)) \div 100 + 1
    IN  CHOOSE v \in {s.value : s \in series} :
            /\ Samples({s \in series : s.value <= v}) >= rank
            /\ Samples({s \in series : s.value < v}) < rank

\* calculate_variance: the standard deviation over the average, in percent
\* (both rounded down).
Variance(series) ==
    LET n == Samples(series)
        average == MapThenSumSet(LAMBDA s : s.samples * s.value, series) \div n
        off(s) == s.value - average
        squares == MapThenSumSet(LAMBDA s : s.samples * off(s) * off(s), series)
                       \div (n - 1)
        std_dev == CHOOSE d \in 0..Max({s.value : s \in series}) :
                       d * d <= squares /\ squares < (d + 1) * (d + 1)
    IN  IF n < 2 \/ average = 0 THEN 0 ELSE (100 * std_dev) \div average

\* aggregate_metrics over all series that Prometheus returned.
Aggregate(series) ==
    IF series = {} THEN NoMetrics
    ELSE [p95 |-> P95(series), variance |-> Variance(series)]

-----------------------------------------------------------------------------
(* recommend_cpu and recommend_memory, which are alike: v is a metric, in  *)
(* tenths.                                                                 *)

Advice(type, request, limit, priority) ==
    [type |-> type, new_request |-> request, new_limit |-> limit,
     priority |-> priority]

Healthy == Advice("OK", NoValue, NoValue, "NONE")

\* Mutant: what is given to a deployment is at once too much again.
Fivefold(v) == (5 * v) \div 10

Double(v) == (2 * v) \div 10        \* int(p95 * 2)

HalfMore(v) == (3 * v) \div 20      \* int(p95 * 1.5)

\* Mutant: usage over the limit calls for a new limit alone.
RecommendLimitFirst(spec, m) ==
    IF m.p95 # NoValue /\ spec.limit # NoValue /\ m.p95 > 10 * spec.limit
    THEN Advice("SET_LIMIT", NoValue, HalfMore(m.p95), "CRITICAL")
    ELSE Healthy

Recommend(spec, m) ==
    LET known == m.p95 # NoValue /\ spec.request # NoValue
        limited == known /\ spec.limit # NoValue
        over == limited /\ m.p95 > 10 * spec.request
        beyond == over /\ spec.limit # 0 /\ m.p95 > 10 * spec.limit
        idle == limited /\ ~over /\ spec.request # 0
                /\ 2 * m.p95 < 10 * spec.request
    IN  CASE ~known -> Healthy
          [] known /\ ~limited ->
                 Advice("SET_LIMIT", NoValue, HalfMore(m.p95), "MEDIUM")
          [] beyond -> Advice("INCREASE_REQUEST", Double(m.p95),
                              HalfMore(m.p95), "CRITICAL")
          [] over /\ ~beyond ->
                 Advice("INCREASE_REQUEST", Double(m.p95), NoValue, "HIGH")
          [] idle -> Advice("DECREASE_REQUEST", HalfMore(m.p95), NoValue, "LOW")
          [] OTHER -> IF m.variance > 30 /\ m.p95 < 8 * spec.limit
                      THEN Advice("MONITOR", NoValue, NoValue, "LOW")
                      ELSE Healthy

\* recommend_hpa: is autoscaling recommended, and by which metric.
RecommendHpa(cpu, memory) ==
    LET both == cpu.variance # 0 /\ memory.variance # 0
        sum == cpu.variance + memory.variance
    IN  [enabled |-> IF both THEN sum > 60 ELSE sum > 30,
         metric |-> IF cpu.variance > memory.variance THEN "cpu" ELSE "memory"]

\* analyze_deployment_metrics. check_for_issues looks for the numbers of the
\* spec in the texts made of them, finds none and flags missing limits always:
\* "HEALTHY" is never given.
Analyze(spec, metrics, pods) ==
    LET advice == [r \in Resources |-> Recommend(spec[r], metrics[r])]
        known == {r \in Resources : metrics[r].p95 # NoValue}
    IN  [spec |-> spec, pods |-> pods, advice |-> advice,
         hpa |-> known # {}
                 /\ RecommendHpa(metrics.cpu, metrics.memory).enabled,
         status |-> IF known = {} THEN "NO_METRICS"
                    ELSE IF \E r \in known :
                                advice[r].priority \in {"CRITICAL", "HIGH"}
                         THEN "NEEDS ATTENTION" ELSE "OK"]

-----------------------------------------------------------------------------
(* The report over the analyses of all deployments.                        *)

SectionOf(results, type) ==
    {d \in DOMAIN results : \E r \in Resources :
        results[d].advice[r].type = type}

SetLimitFindings(results) == SectionOf(results, "SET_LIMIT")
IncreaseFindings(results) == SectionOf(results, "INCREASE_REQUEST")
DecreaseFindings(results) == SectionOf(results, "DECREASE_REQUEST")
HpaCandidates(results) == {d \in DOMAIN results : results[d].hpa}
AtRiskFindings(results) ==
    {d \in DOMAIN results : \E r \in Resources :
        results[d].advice[r].priority = "CRITICAL"}

\* generate_summary_stats.
SummaryStats(results) ==
    [analyzed |-> Cardinality(DOMAIN results),
     increase |-> Cardinality(IncreaseFindings(results)),
     decrease |-> Cardinality(DecreaseFindings(results)),
     hpa |-> Cardinality(HpaCandidates(results)),
     critical |-> Cardinality(AtRiskFindings(results))]

\* Mutant: the request is looked for in the limits.
CurrentFromLimit(analysis, r) == analysis.spec[r].limit

\* The request is parsed from its text, "500m CPU / 512Mi Memory"; the word
\* behind the unit makes the conversion fail, and 0 is taken instead.
CurrentRequest(analysis, r) == 0

\* generate_memory_optimization_summary: what is freed, for all pods, by the
\* deployments whose request is to be lowered, and taken by the others.
Change(analysis, r, type, sign) ==
    LET perPod == sign * (analysis.advice[r].new_request
                             - CurrentRequest(analysis, r))
    IN  IF analysis.advice[r].type = type /\ perPod > 0
        THEN perPod * analysis.pods ELSE 0

NetFreed(results, r) ==
    MapThenSumSet(
        LAMBDA d : Change(results[d], r, "DECREASE_REQUEST", -1)
                   - Change(results[d], r, "INCREASE_REQUEST", 1),
        DOMAIN results)

\* generate_report.
Report(results, summary) ==
    [status |-> "success", results |-> results, summary |-> summary,
     set_limit |-> SetLimitFindings(results),
     increase |-> IncreaseFindings(results),
     decrease |-> DecreaseFindings(results), hpa |-> HpaCandidates(results),
     at_risk |-> AtRiskFindings(results), stats |-> SummaryStats(results),
     freed |-> [r \in Resources |-> NetFreed(results, r)]]
=============================================================================
