# trino-gateway: specifications, model checking and proofs

TLA+ specifications of [trino-gateway](../src), a reverse proxy that routes
Trino queries to one of several Trino clusters, and of the Python tools the
repository carries beside it under `.agents/skills`. Every definition is
translated from the code at this commit; `PROJECT.json` maps it to the lines it
stands for. Checked with TLC and proved with TLAPS.

## The system

One process runs three things, over a MySQL database that several instances
may share (`src/README.md:10`):

    client --HTTP--> router (one server per port)
                       | Twirp calls
                       v
    operator -------> gateway server: BackendApi GroupApi PolicyApi QueryApi
                       ^      | one SQL statement at a time
                       |      v
    monitor ----------+      MySQL: backends groups_ group_backends_mappings
      | probes                      policies queries
      v
    Trino clusters

A query is routed in two calls. `PolicyApi.EvaluateGroupsForClient` turns what
the client presents (port, host, tags, connection properties) into the groups
it may use. `GroupApi.EvaluateBackendForGroups` turns the groups into one
backend, with the group's strategy. The router forwards the request and, when
the cluster has answered, saves in the background which backend has the query,
so that later requests about it (kill, UI) find it. The monitor is a periodic
job: it probes every cluster, reports its load and marks it healthy or
unhealthy through the BackendApi.

The Python tools are separate programs that share nothing with the gateway nor
with each other:

    scan_logs --> estimate_volume --> batch_analyze --report--> github_api_prs --> GitHub
                                           ^ git clone          ^ decision_engine

    MCP server (one per editor) --> login.py (browser) --> cookies.json --> Grafana
         +------------------ tools of client.py -----------------^

    main --> fetch_pods (each cluster) --> fetch_metrics (Prometheus)
         --> analyze (each deployment) --> report_generator --> operator

The **log volume optimizer** finds log calls that are made too often and opens
pull requests that turn them into debug calls. The **Grafana MCP server** gives
an editor read access to Grafana with the user's own browser session. The
**Kubernetes resource analyzer** compares what pods request with what they use
and advises what to change.

### Inventory

| Component | State | Operations | Correct when |
|---|---|---|---|
| Backend registry `backendApi/`, `repo/backend.go` | table `backends`: two flags, load, configuration | create-or-update, enable, disable, mark healthy / unhealthy, report load, delete, list | operators own `is_enabled`, the monitor owns `is_healthy` and the load; a deleted backend stays deleted; answers are true |
| Query routing `groupApi/core.go` | reads `groups_`, mappings, `backends`; writes `last_routed_backend` | `EvaluateBackendForGroups`, `findBackend` | the backend answered could serve; the default group is used when, and only when, nothing else can serve; strategies do what they are named for |
| Group administration `groupApi/`, `repo/group.go` | `groups_`, mappings | create-or-update, enable, disable, delete | row and mappings change together |
| Policy evaluation `policyApi/core.go` | reads `policies` | `EvaluateGroupsForClient`, `setIntersection` | a group is answered when every rule type that says anything allows it |
| Policy administration, auth delegation, request source `policyApi/`, `repo/policy.go` | `policies` | create-or-update, enable, disable, delete, two lookups | a policy that is accepted takes part in evaluation |
| Query registry `queryApi/`, `pkg/fetcher` | `queries` | create-or-update, find the backend of a query, list | every query routed is found, with the backend it is on |
| Health monitor `internal/monitor` | none between cycles | cycle: list, probe, report load, mark | flags follow the clusters, cycle after cycle |
| Router `internal/router` | request context | parse, evaluate, prepare, forward, save | a request goes where it was routed, or is refused; its query is saved |
| Router authentication `router/auth.go` | credential cache | authenticate, cache, expire | only what the provider accepted is accepted, until it expires |
| API token hook, health API, process, configuration, frontend | | | |
| Log volume optimizer `log-volume-optimizer/scripts` | scanners: counters over one file; `batch_analyze`: clones and a report; `github_api_prs`: branches and pull requests on GitHub, a results file | scan, estimate, decide, clone, analyse, branch, commit, open a pull request | loops and error handlers are missed for known reasons only; errors and business events keep their logs; reports, pull requests and results say what is there |
| Grafana MCP server `grafana-mcp/scripts` | `cookies.json`, shared by all servers of a user; one login process per call | login, save a cookie, six data tools with login on demand | a login is kept; a save changes one cell's cookie; every call ends |
| Kubernetes resource analyzer `k8s-resource-analyzer/scripts` | the locals of one analysis | list pods, group, measure, analyse, report | every pod is counted once; the report agrees with itself and with its advice; advice settles |
| Other skills (`flink-optimizer`, `trino-analyzer`, `baseline-alerting`, ...) | none between steps | one pass over a text | |

### What is hard here

* **No transactions.** No handler opens one and gorm's default is switched off
  (`pkg/spine/db/db.go`, `SkipDefaultTransaction`), so a handler is a sequence
  of atomic SQL statements and others run between any two of them. Writes are
  whole-row: gorm's `Updates` writes every column the struct has a value for,
  and the structs come from an earlier `SELECT`.
* **Errors that look like success.** `updateSelective` answers `NoRowAffected`
  before it looks at the error, and `BackendRepo.Update` (also those of groups,
  policies and queries) turns that into success. `CreateOrUpdate` takes every
  failing read for "does not exist".
* **Answers assembled from several moments.** Policy evaluation reads four
  times, routing reads groups, mappings, backends, and then perhaps the default
  group.
* **Small algorithms with corner cases.** The round-robin index when the last
  backend has left the group, nil against empty in `setIntersection`, loads
  that are too old.
* **Background work.** The query is saved after the client has its answer; the
  monitor writes what it observed some time ago and has no timeout.
* **One counter for nested things.** The scanners keep a depth, a set of loop
  depths, and one flag and one depth for all open error handlers, which every line
  that matches a pattern overwrites, whether it opens a block or not.
* **Stale line numbers.** The report names lines of a clone; the changes are made
  to the branch as it is by then. Git and GitHub calls fail, time out, or take
  effect and fail, and the tool goes on from each.
* **A file without a lock.** Several servers and their login processes load,
  change and rewrite the same JSON file, and are killed by timeouts.
* **Advice that changes what it is derived from.** A request that was set as
  advised is what the next analysis compares the usage with.

`PROJECT.json` lists these hazards one by one with the line each bites at and
the properties that cover it; those without a property say why.

## Modules

    BackendRows <- Backends <- BackendRaces <- MCBackends
         ^            ^  ^----- SerialBackends <- MCSerialBackends
         |            |             | INSTANCE (refinement)
         +---- AtomicBackends <-----+
                BackendProofs EXTENDS BackendRaces, SerialBackends

    RoutingStrategy <- GroupRouting <- RoutingWindows  <- MCGroupRouting
                                 ^---- RoutingRotation <- MCRotation
                RoutingProofs EXTENDS RoutingWindows, RoutingRotation

    PolicySets <- PolicyEvaluation <- PolicyWindows <- MCPolicy
                PolicyProofs EXTENDS PolicyWindows

    Backends <- MonitorCycle <- MonitorWindows <- MCMonitor
                MonitorProofs EXTENDS MonitorWindows, BackendProofs

    LogScanner
                LogScannerProofs EXTENDS LogScanner
    LogDecisions <- LogOptimizer <- MCLogOptimizer
                LogOptimizerProofs EXTENDS LogOptimizer

    GrafanaSessions <- GrafanaChecks <- MCGrafana
                GrafanaProofs EXTENDS GrafanaChecks

    ResourceAdvice <- ResourceAnalyzer <- ResourceChecks <- MCResources
                ResourceProofs EXTENDS ResourceChecks

The arrows are `EXTENDS` except the one marked `INSTANCE`. A module whose name
ends in `Races`, `Windows`, `Checks` or `Rotation` adds history variables to the
code's model and states properties with them; they never restrict a step.

### Backend registry

`BackendRows` has the row (the two flags, the load, and one threshold that
stands for every column only `CreateOrUpdateBackend` writes), the requests, and
`Mutated`: what each operation makes of a row. `Backends` is the code: a
request slot receives a call and takes its statements one by one. `phase` is
the statement that comes next and `held` the struct the handler will write.

| Action | Code |
|---|---|
| `FindHit`, `FindMiss` | the first `SELECT` of every handler, with the early returns of the flag operations |
| `Recheck` | the second `SELECT` of `core.UpdateBackend`, for existence only |
| `Create`, `Update`, `Delete` | the writing statement, duplicate keys and foreign keys included |
| `UpdateNoRow` | no row affected: it is gone, it already has these values, or the statement failed; swallowed by `BackendRepo.Update`, reported by the flag operations |

`BackendRaces` adds a history variable, the handlers whose copy of the row is
out of date, and states what is true of racing handlers. `AtomicBackends` is
what the API is meant to be: each call takes effect at one moment between
request and answer, on its own column. `SerialBackends` restricts `Backends` to
calls that do not overlap on a backend and shows that it then implements
`AtomicBackends` (a call is pending until its handler answers).

### Routing

`RoutingStrategy` has the three strategies as functions of the active backends,
the last routed one and the loads. Backend ids are compared as strings in the
code; only their order matters, so they are naturals and `""` is 0.
`GroupRouting` is `EvaluateBackendForGroups` statement by statement:

| Action | Code |
|---|---|
| `ReadGroups` | `GetAllActiveGroups` and the intersection with the requested groups, in any order the database lists them |
| `ReadMembers` | the `SELECT` of the preloaded mappings |
| `FindBackend` | `findBackend` up to the strategy: active backends in one `SELECT`, then the pick |
| `SaveLast` | the `UPDATE` of `last_routed_backend` that ends it, error ignored |
| `Choose`, `FallBack`, `ReadDefault` | step 4: the first eligible group, or the default group by id |
| `ReadFails` | a failing `SELECT` ends the evaluation |
| `Change*`, `RemoveBackend` | one statement of another handler or of the monitor (bound: `MaxChanges`) |

`RoutingWindows` adds what held of the tables over each evaluation's window,
from request to answer: at some moment (`seen`, `mapped`) or all along (`live`,
`on`). An evaluation has no consistent snapshot, so this is what its answer can
be measured against. `RoutingRotation` instead records who has served in each
group's current round, and compares the loops of the strategies with
definitions of what they are for, whenever an evaluation uses them.

### Policies

`PolicySets` has `setIntersection` over sets and the nil map, and `Allowed`,
its meaning. `PolicyEvaluation` takes the four reads as four steps between
which policies change. Rule values are members of a small set; what a client
presents is one value per rule type. `PolicyWindows` adds what each rule type
said over the window of an evaluation.

### Health monitor

`MonitorCycle` composes the monitor with `Backends`: its calls are served
statement by statement like any operator's. `monitor` has the locals of
`Monitor.Execute` and `EvaluateBackendNewState`, `cluster` what each backend's
Trino is like and whether now is in its uptime schedule.

| Action | Code |
|---|---|
| `Trigger` | gocron starts the job; one at a time |
| `ListBackends` | `ListAllBackends`; an error ends the cycle |
| `Take` | the schedule check of the next backend in the list |
| `AskInfo`, `AskHealth`, `AskLoad` | the three probes of `isBackendUp` and `getBackendLoad`, any of which may find the cluster changed |
| `Report` | `UpdateClusterLoadBackend`; its error is only logged |
| `Judge` | the threshold test, once the report is answered |
| `MarkAll`, `Finish` | one goroutine per backend, and `wg.Wait` |
| `Serve`, `OperatorCall`, `ClusterChanges` | statements of the BackendApi, and the world |

`MonitorWindows` adds what could have been found of each cluster since the
cycle began, and whether an operator's call was open meanwhile.

### Log volume optimizer

`LogScanner` is `scan_file` of the four languages, one action each, one step per
line of the file. A line is what the scanners see of it (how many braces it closes
and then opens, whether the loop and the handler patterns match, the call on it)
and what the blocks it opens really are, which they do not see. The two are
independent: a line may open a loop that the pattern does not know (`do {`,
`for await (`), match a pattern and open nothing (`if (err) return;`,
`x.map(f)`), open a loop and a block inside it (`for (...) { if (x) {`), or be a
header whose brace stands on the next line. Only Go is restricted: every loop of Go
starts with `for`, which its pattern finds. `blocks` has the open blocks with
what a flag is measured against: whether the pattern saw the line a block was
opened on (`seen`), the last block of that line (`upto`), and whether the block was
the innermost one after a match of the error pattern (`marked`). A brace closed and
opened again on one line counts as in the code, by its balance; braces inside
literals are taken to balance on their line. The brace scanners share `ScanLine`.
`LogDecisions`
has the pure parts: the estimate (`estimate_volume.py`), the fourteen rules of
`decision_engine.py`, of which the first that matches wins, and what
`github_api_prs.py` still knows of a log call when it decides. A message is the
set of the words the rules look for, those among them that stand after its
hundredth character apart (`late`): the report does not have them (`Reported`).
`LogOptimizer` has the two programs:

| Action | Code |
|---|---|
| `StartBatch`, `CloneRepo`, `AnalyzeRepo`, `EndBatch`, `InterruptBatch` | `main` of `batch_analyze.py`: each repository cloned, scanned, estimated; the report; `finally` removes a temporary directory and keeps a given one |
| `StartPRs`, `GetBase` | `main` of `github_api_prs.py`: the repositories of the report; default branch and its head |
| `DeleteOldBranch`, `DeleteTimesOut`, `CreateBranch` | `create_branch`: the DELETE that closes an open pull request, then the POST; each may fail, also after its effect |
| `UpdateFile` | one file: fetched from the branch, changed line by line, validated, committed |
| `CreatePR`, `WriteResults` | the pull request, and the results file |
| `CommitToMain`, `MergePR` | developers, meanwhile |

A branch's content is the number of lines developers have inserted above
everything (`shift`) and the places whose call is now `Debug`; that is enough to
say which statement a line number of an older report names. A new branch starts at
the head that was read before the DELETE (`opt.base`), whatever developers commit
between the two. A clone that was killed holds some set of the files (`Checkouts`)
and is analysed like a whole one when a later run finds it.

### Grafana sessions

A cookie is the index of the session it belongs to; Grafana decides with each
request whether it still accepts it. `call` is the tool call a server works on,
`save` its login process (or, for `save_session`, its own saving).

| Action | Code |
|---|---|
| `CallTool` | one of the tools of `server.py`: login for a cell or `all`, saving a pasted cookie, a data tool |
| `GetCookie`, `EnsureAuth`, `Relogin`, `Reread` | `_ensure_auth` with its two reads of the file, and `_auto_login` |
| `Request`, `Return` | `_get`, `_post`: one more login after a 401, then the answer |
| `SignIn`, `NoSignIn` | the browser of `login.py`: a session cookie, or three minutes without one, or an exception, which ends the process and leaves the other cells |
| `LoadCookies`, `OpenFile`, `WriteFile`, `Validate` | `save_cookie`: read, empty, write; `validate_cookie`, which reads again |
| `LoginTimesOut`, `Report` | the parent kills the login wherever it is, or takes its exit code |
| `Expire` | Grafana ends a session |

`GrafanaChecks` records whose save overlapped another, which good cookies the
file held during a login, the browsers of a call, and whether a writer was
killed or two were writing (`damage`).

### Kubernetes resource analyzer

`ResourceAdvice` has the pure parts: quantities with their units (`"unread"` stands
for those `parse_resource_value` raises on), percentiles
and variance of the series, `recommend_cpu`, `recommend_memory` and
`recommend_hpa`, the sections of the report and the summary of what is freed.
`int(p95 * 2)` truncates: usage is in tenths of a unit. `ResourceAnalyzer` is an
analysis, repeated:

| Action | Code |
|---|---|
| `Start` | `parse_inputs` with its validation and its dropping of clusters named twice, `analyze_namespace` |
| `FetchPods`, `FetchPodsFails` | `fetch_pods_from_cluster` and `filter_pods`, cluster after cluster; a failure counts as no pods, a quantity that cannot be read ends the analysis with the status `error` |
| `FetchCpuMetrics`, `FetchMemoryMetrics` | one query per deployment and resource, which may fail |
| `AnalyzeAndReport` | an analysis per deployment, `generate_report` |
| `PodChanges`, `UsageChanges`, `Apply` | the cluster, and an operator who sets what was advised, where Kubernetes admits it (a request within its limit) |

The code's lists of pods are sets of entries here, an entry being a pod and the
place of its cluster among those asked: a pod that is listed once more, for a
cluster asked twice, is another entry.

`ResourceChecks` records which pods were analyzable when their cluster answered,
and which resources have followed the last advice at unchanged usage.

### External behaviour assumed

From how the code uses them: a MySQL statement is atomic; a `SELECT` without
`ORDER BY` lists its rows in any order; gorm's preload is a second `SELECT`;
an `UPDATE` that changes nothing affects no row; foreign keys as in
`migrations/20210805195304_bootstrap.go` (mappings follow a deleted backend,
rows of `queries` keep it from being deleted). gocron puts a start off while
the job runs (`SetMaxConcurrentJobs(1, RescheduleMode)`). The Trino driver
gives up on a query that gets no answer, the plain HTTP client of
`IsClusterUp` does not. One monitor runs: with several instances there is one
for each, and the calls of another one are among the overlapping calls of
`backend_races` only.

For the tools: deleting a branch on GitHub closes its open pull request; a commit
through the contents API is atomic; a clone that fails or is killed can leave a
directory behind; truncating and writing a small file are two steps, and two
writers that both emptied it can leave one text behind the other; Grafana accepts
a cookie for its own cell until the session ends; Kubernetes refuses a request
above its limit.

## Runs

| Run | Shows | Instance |
|---|---|---|
| `backend_races` | `FreshCopy`, `OwnedColumns`: a column is lost only to an overlapping write (which both leave out). `DeletedStaysDeleted`, `FlagAnswerTrue`: these hold whatever overlaps | one backend, two slots, statements may fail |
| `monitor_reenables` | **violation** of `MonitorNeverEnables` | the same, nothing fails |
| `backends_atomic` | `CallsAreAtomic` (refinement), with `HeldIsCurrent` behind it | two backends, one referenced by a query; two slots |
| `routing_windows` | `AnswerWasServing`, `NoNeedlessFallback`, `DefaultCatchesAll`, `EmptyOnlyForSeveral` | two groups with one strategy each, two backends, every requested set, two changes by others, failing statements |
| `rotation_even` | `RoundRobinFollows`, `ScanFindsLeast`: the loops pick the cyclic successor and a least load. `EvenRounds`, since every client here may use one group | two groups, three backends with loads 0 and 1, one of them possibly without fresh statistics, any last routed backend |
| `policy_windows` | `OnlyAllowed`, `AllowedAnswered`, `QuietIsExact` | three policies, two groups, one change, failures |
| `monitor_cycle` | `CallsAreFounded`: nothing of an earlier cycle or of another backend leaks into a mark | two backends, clusters up, down or silent, statements may fail |
| `monitor_flags` | `QuietCycleSettles`: what an undisturbed cycle leaves; `DownIsNoticed`, `UpIsNoticed` (liveness) | one backend with threshold 0 or 1, loads 1 and 2, all cluster states, one operator's call |
| `log_scan` | `MissedLoopsExplained`, `MissedHandlersExplained`: the reasons for which alone the three brace scanners miss a loop or a handler | every file of blocks nested at most two deep, whose lines close up to two and open up to two, with any matches of the patterns |
| `log_prs` | `OnlyInfoChanged`, `ShieldedStatementsKept`, `ClaimsCoverCommits`, `ResultsTrue`, `ReportsWholeRepos`: what may be said and done when calls fail and developers go on | two repositories, three runs of the two programs in any order, one commit of developers, every call may fail |
| `grafana_sessions` | `SavesKeepOthers`, `DamageExplained`, `LoginOkTrue`, `FewBrowsers`; `CallsEnd` (liveness) | two servers, two cells, two sessions, two calls |
| `resource_advice` | `PodsPartitioned`, `NetNeverOverstated`, `ReportCoherent`, `NoFlapping` | two clusters, three pods of two deployments, two analyses, one event besides |

Bounds. One backend and two slots are enough for races on a row: handlers of
different backends touch different rows, and while one handler is between its
statements the other slot can serve any number of calls, so every sequence of
interfering writes occurs. Slots are symmetric. Two groups give every pattern
of eligible and default group; one evaluation at a time is enough because the
changes of others include every write a concurrent evaluation makes to what the
properties look at, and two changes suffice to move a backend away and back, or
to change two of the tables, during one evaluation. `MCGroupRouting` spends
these changes on running evaluations and on the columns that decide who may
serve; `last` starts empty there, since `rotation_even` covers it.
In `policy_windows` three policies give three sets with one more type that
matches nothing; rows of type `header_host` do not exist because the column's
`ENUM` has no such value, so that lookup always answers nil.

In the monitor's runs loads are computed from two query counts, chosen so that
one load equals the threshold of 1 and one exceeds it. Two backends show that a
cycle does not mix them up; one is enough for what a cycle leaves in a row and
for liveness, since a probe that is answered does not depend on the other
backends (one that is not blocks all of them, see below). Cycles are not
bounded; `MaxCalls` bounds operators only.

For the scanners two levels are a loop or a handler with any block around or
inside it, and two braces a line are what it takes to open or close both at a time;
every combination of pattern matches is among the lines. The theorems hold for every
depth and any number of braces. In `log_prs` the second repository shows what a
failure in the first does to those after it (which is why one statement is enough
for it), three runs are an analysis, its pull requests and either once more, and
one commit by developers shifts every line by one, so that each line number names
another statement; a clone that is killed has no file yet or the first one. The pairs of statements are those whose neighbours differ in
level, in being protected, or in where the protecting word stands; file `web` is in a language other than the
repository's and is not scanned. Two Grafana servers suffice for saves that
overlap; with two calls each of them can log in, or one can twice; two cells are
needed for a cookie to be lost. In `resource_advice` one deployment is in both
clusters and the other is a cron job in one; the user names no cluster, or one of
them twice, or asks for an invalid time; usage is steady or bursty, requests
and limits are set or missing; the one event is a change of usage, of a pod, or a
failing request, and an operator may follow any advice.

Deadlock is checked, except in `log_prs`, `grafana_sessions` and
`resource_advice`, where a bounded number of runs or calls comes to its end.

Fairness is assumed in two places. In `FairSpec` of `MonitorWindows`: weak fairness of the monitor's next
step, since gocron starts the job again at every interval and a goroutine that
is not blocked gets on, and of each handler's next statement. `AskInfo` is not
enabled while the cluster is silent, so fairness does not end that wait.
No fairness is assumed of operators and clusters; operators make `MaxCalls` calls
at most. `DownIsNoticed` and `UpIsNoticed`
are stated for a cluster that stays as it is, and for the same reason all along:
one that is out of its schedule whenever it is up, and down whenever it is in
its schedule, can be caught by a cycle that passes the schedule check and then
finds it up. They need `~DbMayFail`: a database that fails for ever at the wrong
moments keeps any flag as it is.

In `FairSpec` of `GrafanaChecks`: weak fairness of each server's own next step and
of the load, open, write and validate steps of a process that saves. Nobody has to
sign in, and sessions may end at any time: to a browser without a user only the
timeouts of the code put an end, which are steps of the server. `CallsEnd` is false
without them.

### What the passing properties leave out

Some of them are true because they say under which condition a thing goes right, and
so do not catch the hazard that lies outside it:

* `FreshCopy`, `OwnedColumns`, `HeldIsCurrent` and `CallsAreAtomic` are about calls
  no other write of the row overlapped. The overlap itself is `monitor_reenables`.
* `ScanFindsLeast` is about the scan over the effective loads. That a cluster without
  fresh statistics has load 0 there is the code's decision (`groupApi/core.go:253`).
* `ReportsWholeRepos` is about temporary clone directories. With `--clone-dir` an
  incomplete clone of an earlier run is reported as the repository.
* `SavesKeepOthers` is about saves that do not overlap; of two that do, one may be lost.
* `NetNeverOverstated` bounds what the report promises; the savings it leaves out
  (below) only make that smaller.
* `DefaultCatchesAll` is about evaluations that fail. An answer with an empty backend
  is none of them: `EmptyOnlyForSeveral` says when that can be.

### What the violation says

* `monitor_reenables`: the monitor's `MarkHealthy` reads the row, the operator
  disables the backend, the monitor's write sets `is_enabled` back. The
  repository's notes promise that operators can disable "without worrying about
  monitor re-enabling".

### Observed disagreements

Other places where the models follow the code and a text says something else.
No run is spent on them; each is plain from the lines quoted.

Routing and monitor (texts under `.agents/skills/repo-skill/modules`):

* With two eligible groups of which only the second has an active backend,
  `eligibleGrps[0]` is answered with an empty backend id (`groupApi/core.go:168`);
  the fallback is not used since some backend was evaluated. `domain/group.md:124`:
  the fallback "ensures queries are never dropped due to transient group/backend
  unavailability". `EmptyOnlyForSeveral` is what remains true.
* `findBackend` saves `last_routed_backend` for every eligible group, the ones not
  chosen too (`groupApi/core.go:286`), so a backend can be served twice in a round.
  `domain/backend.md:165`: "even distribution without shared state beyond
  `LastRoutedBackend`". `EvenRounds` holds where clients may use one group.
* While a cycle waits for a cluster that accepted the connection and never answers
  `/v1/info` (`monitor/trino.go:107`), no other cycle starts and a backend that is
  down keeps its healthy flag. `integration/service-contracts.md:194`, without a
  condition: "Monitoring marks backend unhealthy".

Log volume optimizer:

* `SKILL.md:112-113` keeps every statement whose message tells of an error or of a
  business event. The report has `message[:100]` only (`batch_analyze.py:203`): with
  such a word after the hundredth character and, say, "starting" before it the
  statement is made a debug call. `ShieldedStatementsKept` is about the words that are
  reported; the statement `LatePayment` of `MCLogOptimizer` is changed.
* `SKILL.md:111` keeps statements in error handlers, and every pull request says
  "Preserved: Logs in error handlers" (`github_api_prs.py:635`). The report drops the
  scanner's flags (`batch_analyze.py:197-204`) and they are guessed again from the words
  of the message (`github_api_prs.py:382-386`): a call in a handler whose message has
  none of four words is changed (`InHandler` there).
* The Python scanner pops the scope a line has just pushed (`scan_logs.py:584-600`):
  it never reports a loop or a handler. `MissedLoopsExplained` and
  `MissedHandlersExplained` except it.
* The loops and handlers that these two properties except are ordinary code: `do {` and
  `for await (` match no pattern (`scan_logs.py:277-281`, `:412-420`), `for (...) { if (x)
  {` is forgotten when the inner block closes (`:171-178`), and a line such as
  `if (err) return;` inside a block of a handler moves the handler's depth there
  (`:182-184`), so that the flag goes down with that block.
* Without production data the estimate in megabytes is compared with thresholds in
  calls per day (`github_api_prs.py:410`).

Grafana MCP server:

* `SKILL.md:48`, "Auth is automatic": once `cookies.json` is torn, every login
  loads it first and fails (`auth.py:36-42`), until somebody removes it. Of two
  saves that overlap one can be lost.
* The login tool answers "ok" for `all` also when every cell was refused: `login.py`
  exits with 0 then (`server.py:40-42`). `LoginOkTrue` is about single cells.
* A login that was not accepted still replaces a good cookie (`login.py:38-51`), and
  `_ensure_auth` returns the cookie of its first read although it validated that of
  its second (`client.py:23-27`).

Kubernetes resource analyzer:

* Advice is refused by Kubernetes where the new request, twice the 95th percentile,
  exceeds the limit; with CRITICAL advice it always does, the limit being 1.5 times
  it. `analyze.py:303` calls that "Invalid configuration!". `Admitted` is why
  `NoFlapping` speaks of advice that could be followed.
* Savings are always reported as 0: the current request is parsed from a text of
  another form (`report_generator.py:234-242`, against `:203`). `NetNeverOverstated`
  is what is left.
* New pods are not excluded: a time with a zone is subtracted from one without, which
  raises, and the handler keeps the pod (`fetch_pods.py:248`, `:297`). Failed pods
  whose containers ended are counted as completed (`:249`, against `:284`).
* Metrics are those of the namespace, whatever the deployment: the pods' names are not
  in the query (`fetch_metrics.py:87`). Ki counts as Mi (`main.py:320`).
* Below two units advice can shrink a request below the usage by truncation, and the
  next analysis raises it again: `NoFlapping` leaves these out.
* The examples of `extract_deployment_name` (`main.py:251-252`) are not what it
  returns: six letters are not taken for a hash.

## Proofs

Proved by TLAPS for every value of the constants that satisfies the named
assumptions (`RowAssumption`, `DbAssumption`, `RoutingAssumption`,
`SetsAssumption`, `PolicyAssumption`, `MonitorAssumption`, `BoundsAssumption`,
`AvgRpsAssumption`, `OptimizerAssumption`, `SourcesAssumption`,
`SessionsAssumption`, `ResourceAssumption`). Most of them only say that a bound is
a number or that a set is finite. Four say more: `SourcesAssumption`, that the scanner reads INFO off every
call the tool knows a Debug form of (the patterns and `_extract_level` of
`scan_logs.py`, `console.log` included, `:520`), so that a line the tool could change
holds a statement of that level: lines with an `.Info(` that is no log call are
outside the model; `OptimizerAssumption`, that `--repos`
names at least one repository and none twice (the list is not deduplicated; with a
repository named twice the second analysis would stand for both); `ResourceAssumption`,
that there is a cluster, that pods have a name and belong to one of the clusters, and
that every value of a Prometheus series was sampled at least once; `AvgRpsAssumption`, that the estimate's rate is
positive.

* **Backends.** `TypeCorrect`; `FreshCopyHolds`, by induction together with
  `TypeInv` (typing, plus which phases which operations can be in):
  a step either is the handler's own, or changes its row and makes it stale.
  `OwnedColumnsHold` then follows: the writing step of a fresh handler writes
  `Mutated` of the current row. `DeletedStaysDeletedHolds` and `FlagAnswerTrueHolds`
  hold of stale handlers too and use `CallInv`: what is held carries the flag the
  operation is named for, and a create holds the row of its request.
* **Refinement.** `CallsAreAtomicHolds`, for `~DbMayFail`: initial states map to
  initial states, and each step maps to the atomic step (the answering one) or to
  a stutter. It needs `HeldIsCurrent`, which is inductive only with the exclusion
  of overlapping calls.
* **Routing.** `RoundRobinIsSuccessor`: sorting, last match, next and wrap give
  the cyclic successor, in or out of the list. `TypeCorrect` rests on it, since
  that what round robin indexes is a backend at all, and not the empty id that is
  appended to the list, is a fact about the loop. The four properties of
  `RoutingWindows` (`AnswerWasServingHolds`, `NoNeedlessFallbackHolds`,
  `DefaultCatchesAllHolds`, `EmptyOnlyForSeveralHolds`) follow from `WindowInv`,
  for any number of concurrent evaluations and changes. None of them is
  inductive, as they speak of the answering step only; `WindowInv` says of every
  running evaluation that the present is part of its window (`Observed`), that
  whatever it holds was so at some moment of the window, of a group it may use
  (`Sourced`), and that a member that served all along has not been missed: its
  group is still in the list, with the member, and has been picked for once its
  turn has passed (`Kept`). `Rooted`, that only an existing group has mappings, is
  needed where the default group is looked up.
* **Rotation.** `RoundRobinFollowsHolds`: every answer of the loop, from whatever
  listing, is the cyclic successor, and there is only one
  (`SuccessorIsUnique`, `SortedWithLastExists`). `ScanFindsLeastHolds`: the loop of
  `least_load` is a recursive function over the list; a least position at which it
  would be wrong, and `FirstLeastStep` from the one before, rule such a position out
  (`ScanReturnsFirstLeast`). `EvenRoundsHolds` is an action property over many
  evaluations, under `OneAtATime`: one evaluation at a time, each for one group at
  most, no changes, no failing statements, as the run has it. Each of these premises is
  needed: with several groups asked for, those not chosen advance too
  (`groupApi/core.go:286`), and a backend is served twice in a round.
  The invariant `RotationInv` says that who has served in a round is an arc of the
  cycle of active members that ends at the last routed one (`Arc`, `ArcGrows`): the
  successor then lies outside it until the arc is all of them.
* **Policies.** `IntersectionIsMeet` and `IntersectAllIsAllowed`: although only
  the shorter map is tested for nil, the nested intersection is `Allowed`.
  `OnlyAllowedHolds`, `AllowedAnsweredHolds` and `QuietIsExactHolds` combine this
  with an invariant of the running evaluation: each map it has read, and what it
  would read now, lies between what its rule type allowed all along and what it
  ever allowed in the window (`Within`).

* **Monitor.** `MTypeCorrect`: the composition's types, with the lemmas of
  `BackendProofs` for the steps of the handlers. `CallsFounded`: `FoundInv` says that
  every verdict the monitor holds, and every call it has open, rests on something
  that could be found of that backend since the list was read; a probe's answer is
  the only way in, and `MarkAll` and the handlers carry it on unchanged.
  `QuietCyclesSettle`, for `~DbMayFail`: `Settled` says what is already in the row of
  each backend that was judged while nothing interfered, and `Pending` that a call of
  the monitor, wherever it stands, ends with its column as asked; the marks of a
  cycle are made in any order and each leaves the others' rows alone.
* **Scanners.** `STypeCorrect`: `TypeInv` adds to the types that `brace_depth` is the
  number of open blocks, which keeps the depth in its range.
  `MissedLoopsExplainedHolds` from `LoopInv`: for every seen loop `loop_start_depths`
  holds a depth not above that of the last block of its line, which is still open, and
  pruning keeps what does not exceed the current depth; a header that awaits its brace
  has its own depth there. `MissedHandlersExplainedHolds` from `HandlerInv`: while a
  handler is seen, the flag is up and its depth is that of a marked block at the handler
  or inside it, so a line that takes the flag down closes that block. For every nesting
  depth, any lines and any number of braces on them. Both properties state the
  exceptions in full, and nothing is assumed of the lines beyond the balance of braces
  in literals and, for Go, that a loop starts with `for`.
* **Grafana.** `SessionsTyped`, from `TypeInv`, which ties each save to its call.
  `DamageIsExplained` from `DamageInv`: a torn file has a writer, or had one killed or
  overlapped. `LoneSavesKeepOthers` from `LoadedInv`: what a save has loaded is what
  the file holds, unless another save overlapped. `LoginOkIsTrue` and `BrowsersAreFew`
  from invariants of the calls (`LoginCarried`, `QueryCarried` carry them over other
  servers' steps). For any number of servers, cells, sessions and calls.
* **Log optimizer.** `Inv` has seven parts. `Entries` and `Cloned`: an entry of a report is about
  statements as they stood at the shift it records, and a temporary directory never
  holds a clone of a repository still to come; `ReportsWholeReposHolds` follows.
  `Lowered`: beyond its base a branch has Info calls only, and no shielded ones while
  it is at the shift of the report. `AppliedLines` derives this of each commit from
  the rules (`ActionSpares`: the fourteen rules are tried in order, and the least one
  that matches acts on no message that is shielded by what is reported of it), from `Entries` and from
  `SourcesAssumption`. `Branching` says how the counts of the running program stand to the commits:
  details <= commits <= total; a commit adds a set of places disjoint from what the
  branch has, so its size is added on both sides, and a call that fails after its
  effect leaves the details behind. `Covered` hands that over to the pull request, and
  stays true because the old branch's deletion closes it: a new branch is made only where
  none exists, so that no pull request is open then. `Resulting` relates each result to
  GitHub; it needs that no repository still to come has a result. Each step of a
  program leaves what the other one owns alone (`BatchFrame`, `OptFrame`), and only
  one of them runs. For any number of repositories, files, statements, runs, merges
  and commits of developers.
* **Resources.** `HInv` has six parts. `Grouping`: the groups found are those of the
  pods counted, by `DeploymentName`, a partition whatever the names. `Asking`: no
  cluster is asked twice, and none that is still to be asked has pods listed, so that
  no pod is listed twice; the report's
  total is then a sum over a partition (`PodsPartitionedHolds`). `Reporting`: a report
  is `Report` of its results, each of them `Analyzed`; `ReportCoherentHolds` and
  `NetNeverOverstatedHolds` compare its sections and sums, deployment by
  deployment (`PromisesAreKept`). `Settling`: what advice and spec of a settled resource
  came from is the usage it has still (`Suits`), so that `NoFlappingHolds` is left with
  arithmetic: a request of `int(2 * p95)` or `int(1.5 * p95)` is neither below
  the usage nor above its double, from two units up. The sums are the
  community module's `MapThenSumSet`; `SumTableExists` shows that its recursion has a
  solution over the subsets of every finite set, from which the laws used here follow.

Some of these need induction over data, which the provers have no rule for that they
can instantiate. It is replaced by least counterexamples: a non-empty set of
numbers has a least member (`LeastExists`, from the well-foundedness of `<`), and what
fails at the least size, position or rule would have failed before.

Only model-checked: liveness (`DownIsNoticed`, `UpIsNoticed`, `CallsEnd`), which is
out of the provers' reach: it is about fairness and ENABLED. `MonitorNeverEnables` is
violated, and its run shows how. Every other property of the runs is a theorem.

## Not modelled, and why

* The handlers of **group and policy administration** appear as single-statement
  changes of the tables the evaluations read. Their own hazards (mappings replaced
  before the row, whole-row writes that revert `last_routed_backend`) are listed
  without a property: the code promises nothing about them that holds.
* The **schedule test** of the monitor is an input: it asks a cron library about the
  wall clock. Two monitors over one database are two of the overlapping callers of
  `backend_races`.
* The **router** is a straight line around the two evaluations. What it keeps across
  requests are its credential cache, with wall-clock expiry, and the **query
  registry**, which it writes in the background: no property holds of a lookup that
  can come before the write, or after the backend is gone. For the same reason the
  whole gateway has no abstract specification that its composition implements; what
  its two evaluations promise is proved of each.
* Of the **log volume optimizer**: dry runs, the estimator's own report, the scripts
  that print (`analyze_logs.py`), and the similarity of message templates by which
  `coralogix_integration.py` finds a measured frequency; the frequency itself is an
  input of `LogOptimizer`.
* **Other skills** (`flink-optimizer`, `trino-analyzer`, `baseline-alerting`,
  `post-deployment-monitor`, `agent-readiness-score`, ...): single passes over a text
  that print findings. What matters in them is regular expressions and wording, and
  nothing is kept between steps.
* Configuration, logging, metrics, the frontend, migrations and generated RPC code (no
  state over several steps), the API token hook and the health check API (one
  comparison, and a flag nothing sets), start and shutdown.
