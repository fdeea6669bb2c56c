-------------------------- MODULE LogOptimizerProofs --------------------------
(***************************************************************************)
(* What LogOptimizer promises of branches, pull requests, results and      *)
(* reports, proved for any repositories, files, code and frequencies and   *)
(* any number of runs and of developers' commits.  First the decision      *)
(* rules; then the inductive invariant Inv, of which every part is needed: *)
(* a claim covers a branch because the counts of the running program cover *)
(* its commits, and a commit changes Info calls only because of what the   *)
(* report is about.                                                        *)
(***************************************************************************)
EXTENDS LogOptimizer, FiniteSetTheorems, WellFoundedInduction, TLAPS

(* A non-empty set of numbers has a least one.                             *)
LEMMA LeastExists ==
    ASSUME NEW S, S \subseteq Nat, S # {}
    PROVE  \E m \in S : \A k \in S : m <= k
<1>1. PICK m \in S : \A k \in S : ~(<<k, m>> \in OpToRel(<, Nat))
    BY WFMin, NatLessThanWellFounded
<1>2. \A k \in S : ~(k < m)
    BY <1>1 DEF OpToRel
<1> QED  BY <1>2

(* The last rule always matches, so some rule is the first that does.      *)
LEMMA RuleIsFirst ==
    ASSUME NEW log, NEW frequency
    PROVE  LET r == RuleOf(log, frequency) IN
           /\ r \in 1..14
           /\ \A q \in 1..14 : Matches(log, frequency)[q] => r <= q
<1> DEFINE M(q) == Matches(log, frequency)[q]
           Rules == {q \in 1..14 : M(q)}
<1>1. M(14)
    BY DEF Matches
<1> HIDE DEF M
<1>2. 14 \in Rules /\ Rules \subseteq Nat
    BY <1>1
<1>3. PICK r \in Rules : \A q \in Rules : r <= q
  <2> HIDE DEF Rules
  <2> QED  BY <1>2, LeastExists
<1>4. M(r) /\ \A q \in 1..r - 1 : ~M(q)
    BY <1>3
<1>5. RuleOf(log, frequency) = CHOOSE x \in 1..14 : M(x) /\ \A q \in 1..x - 1 : ~M(q)
    BY DEF RuleOf, M
<1> DEFINE x == RuleOf(log, frequency)
<1>6. x \in 1..14 /\ M(x) /\ \A q \in 1..x - 1 : ~M(q)
  <2>1. \E y \in 1..14 : M(y) /\ \A q \in 1..y - 1 : ~M(q)
      BY <1>3, <1>4
  <2> QED  BY <1>5, <2>1
<1> HIDE DEF x
<1>7. \A q \in 1..14 : M(q) => x <= q
    BY <1>6
<1> QED  BY <1>6, <1>7 DEF x, M

(* What is acted upon is never a removal, and never a message that tells   *)
(* of an error or of a business event.                                     *)
THEOREM ActionSpares ==
    ASSUME NEW rec, NEW frequency,
           DecideActionForLog(rec, frequency) \in Actionable
    PROVE  /\ DecideActionForLog(rec, frequency) \in {"DOWNGRADE_TO_DEBUG", "SAMPLE"}
           /\ ~Has(rec.words, ErrorKeywords \cup BusinessKeywords)
<1> DEFINE log == InferredLog(rec)
           freq == FrequencyFor(rec, frequency)
           r == RuleOf(log, freq)
<1>1. DecideActionForLog(rec, frequency) = ActionOfRule[r]
    BY DEF DecideActionForLog, Decide
<1>2. r \in 1..14 /\ \A q \in 1..14 : Matches(log, freq)[q] => r <= q
    BY RuleIsFirst
<1> HIDE DEF r
<1>3. log.words = rec.words
    BY DEF InferredLog
<1> HIDE DEF log, freq
<1>4. /\ r \in 1..5 => ActionOfRule[r] = "KEEP"
      /\ ActionOfRule[r] # "REMOVE"
  <2>1. r \in {1, 2, 3, 4, 5, 6, 7, 8, 9, 10, 11, 12, 13, 14}
      BY <1>2
  <2> QED  BY <2>1 DEF ActionOfRule
<1>5. r > 5
    BY <1>1, <1>2, <1>4 DEF Actionable
<1>6. ~Matches(log, freq)[4] /\ ~Matches(log, freq)[5]
    BY <1>2, <1>5
<1>7. ~Has(log.words, ErrorKeywords) /\ ~Has(log.words, BusinessKeywords)
    BY <1>6 DEF Matches
<1> QED  BY <1>1, <1>3, <1>4, <1>7 DEF Has, Actionable

-----------------------------------------------------------------------------
(* The inductive invariant.                                                *)
Lines == Files \X Nat
Contents == [shift : Nat, debug : SUBSET Lines]
Branches == [exists : {TRUE}, shift : Nat, base : SUBSET Lines,
             debug : SUBSET Lines, asof : Nat]
PullRequests == [state : {"open", "closed", "merged"}, claimed : Nat,
                 listed : Nat, run : Nat]

\* What stands on GitHub, and the code.
Shape ==
    /\ source \in Sources
    /\ main \in [RepoNames -> Contents]
    /\ branch \in [RepoNames -> {NoBranch} \cup Branches]
    /\ pr \in [RepoNames -> {NoPR} \cup PullRequests]

\* The two programs, of which one runs at a time.
Programs ==
    /\ DOMAIN batch = {"phase", "next", "runs", "analyses"}
    /\ batch.phase \in {"idle", "clone", "analyze", "write"}
    /\ batch.next \in 1..Len(Repos)
    /\ DOMAIN batch.analyses = RepoNames
    /\ DOMAIN opt = {"phase", "next", "runs", "base", "files", "total", "details",
                   "results"}
    /\ opt.base \in Contents
    /\ opt.phase \in {"idle", "base", "delete", "create", "files", "results"}
    /\ opt.next \in 1..Len(Repos)
    /\ opt.runs \in Nat /\ opt.total \in Nat /\ opt.details \in Nat
    /\ opt.phase # "files" => opt.total = 0 /\ opt.details = 0
    /\ DOMAIN opt.results = RepoNames
    /\ batch.phase = "idle" \/ opt.phase = "idle"

\* A recommendation is about a statement of the code, at the line it had.
AboutStatement(r, shift, c) ==
    \E q \in Lines : /\ c.file = q[1] /\ c.line = q[2] + shift
                      /\ c.rec.words = Reported(Statement(r, q).log)

EntryOK(r, e) ==
    /\ e.status \in {"analyzed", "skipped"} =>
          e.shift \in Nat /\ (~keep_dir => e.whole = TRUE)
    /\ e.status = "analyzed" => \A c \in e.recs : AboutStatement(r, e.shift, c)

Entries == \A r \in RepoNames :
              EntryOK(r, report[r]) /\ EntryOK(r, batch.analyses[r])

\* A temporary directory holds no clone of a repository still to come, and
\* none between two runs.
Fresh(i) == clones[Repos[i]] = NoClone

Cloned ==
    /\ DOMAIN clones = RepoNames
    /\ \A r \in RepoNames : clones[r] # NoClone => clones[r].shift \in Nat
    /\ batch.phase = "analyze" => clones[BatchRepo] # NoClone
    /\ ~keep_dir =>
          /\ batch.phase = "idle" => \A i \in 1..Len(Repos) : Fresh(i)
          /\ batch.phase = "clone" =>
                \A i \in 1..Len(Repos) : i >= batch.next => Fresh(i)
          /\ batch.phase = "analyze" =>
                /\ clones[BatchRepo].state = "whole"
                /\ \A i \in 1..Len(Repos) : i > batch.next => Fresh(i)

\* What a branch holds beyond its base.
Lowered(r) ==
    /\ branch[r].base \subseteq branch[r].debug
    /\ IsFiniteSet(Changed(r))
    /\ \A p \in Changed(r) : Statement(r, p).log.level = "INFO"
    /\ branch[r].shift = branch[r].asof =>
          \A p \in Changed(r) : ~Has(Reported(Statement(r, p).log),
                                     ErrorKeywords \cup BusinessKeywords)

Branching ==
    /\ \A r \in RepoNames : branch[r] \in Branches => Lowered(r)
    /\ opt.phase \in {"delete", "create", "files"} => Eligible(OptRepo)
    /\ opt.phase = "files" =>
          /\ branch[OptRepo] \in Branches
          /\ branch[OptRepo].asof = report[OptRepo].shift
          /\ pr[OptRepo].state # "open"
          /\ opt.details <= Cardinality(Changed(OptRepo))
          /\ Cardinality(Changed(OptRepo)) <= opt.total

\* A pull request covers its branch.
Covered ==
    \A r \in RepoNames : pr[r].state = "open" =>
        /\ branch[r] \in Branches
        /\ pr[r].listed <= Cardinality(Changed(r))
        /\ Cardinality(Changed(r)) <= pr[r].claimed

\* Results are true, and there are none of repositories still to come.
Resulting ==
    /\ \A r \in RepoNames :
          /\ opt.results[r] = "success" =>
                pr[r].state \in {"open", "merged"} /\ pr[r].run = opt.runs
          /\ opt.results[r] = "no_changes" =>
                branch[r] \in Branches /\ Changed(r) = {}
    /\ opt.phase \in {"base", "delete", "create", "files"} =>
          \A i \in 1..Len(Repos) : i >= opt.next => opt.results[Repos[i]] = "none"

Inv == Shape /\ Programs /\ Entries /\ Cloned /\ Branching /\ Covered /\ Resulting

-----------------------------------------------------------------------------
(* Repositories and their positions in --repos.                            *)
LEMMA Names ==
    /\ \A i \in 1..Len(Repos) : Repos[i] \in RepoNames
    /\ \A r \in RepoNames : \E i \in 1..Len(Repos) : r = Repos[i]
BY DEF RepoNames

(* The repository each program is at is one of them.                       *)
LEMMA RunningRepos ==
    ASSUME Programs
    PROVE  OptRepo \in RepoNames /\ BatchRepo \in RepoNames
BY DEF Programs, OptRepo, BatchRepo, RepoNames

(* A branch that exists is a record of one, and the other way round.       *)
LEMMA ExistingBranches ==
    ASSUME Shape, NEW r \in RepoNames
    PROVE  branch[r].exists <=> branch[r] \in Branches
<1>1. branch[r] \in {NoBranch} \cup Branches
    BY DEF Shape
<1>2. \A b \in Branches : b.exists = TRUE
    BY DEF Branches
<1>3. NoBranch.exists = FALSE
    BY DEF NoBranch
<1>4. NoBranch \notin Branches
    BY <1>2, <1>3
<1>5. CASE branch[r] = NoBranch
    BY <1>3, <1>4, <1>5
<1>6. CASE branch[r] \in Branches
    BY <1>2, <1>6
<1> QED  BY <1>1, <1>5, <1>6

(* What opt.base is while no branch is being made.                         *)
LEMMA NoBaseIsContents == NoBase \in Contents
BY DEF NoBase, Contents

(* The invariant holds before anything has run.                            *)
LEMMA InvInit == Init => Inv
<1> SUFFICES ASSUME Init  PROVE Inv
    OBVIOUS
<1>0. Len(Repos) \in Nat \ {0}
    BY OptimizerAssumption
<1>1. Shape
    BY DEF Init, Shape, Contents
<1>2. Programs
    BY <1>0, NoBaseIsContents DEF Init, Programs
<1>3. Entries
    BY DEF Init, Entries, EntryOK, NoEntry
<1>4. Cloned
    BY Names DEF Init, Cloned, Fresh, NoClone
<1>5. \A r \in RepoNames : branch[r] \notin Branches /\ pr[r].state = "none"
  <2>1. NoBranch \notin Branches
    <3>1. \A b \in Branches : b.exists = TRUE
        BY DEF Branches
    <3> QED  BY <3>1 DEF NoBranch
  <2> QED  BY <2>1 DEF Init, NoPR
<1>6. Branching
    BY <1>5 DEF Init, Branching
<1>7. Covered
    BY <1>5 DEF Covered
<1>8. Resulting
    BY DEF Init, Resulting
<1> QED  BY <1>1, <1>2, <1>3, <1>4, <1>6, <1>7, <1>8 DEF Inv

(* What Finish does, and where it leaves the program.                      *)
LEMMA FinishEnds ==
    ASSUME Programs, NEW result, Finish(result)
    PROVE  /\ DOMAIN opt' = DOMAIN opt
           /\ opt'.phase \in {"base", "results"}
           /\ opt'.next \in 1..Len(Repos)
           /\ opt'.phase = "base" => opt'.next = opt.next + 1
           /\ opt'.runs = opt.runs /\ opt'.total = 0 /\ opt'.details = 0
           /\ opt'.base = NoBase
           /\ opt'.results = [opt.results EXCEPT ![OptRepo] = result]
<1>1. opt' = [opt EXCEPT
        !.results = [opt.results EXCEPT ![OptRepo] = result],
        !.phase = IF opt.next = Len(Repos) THEN "results" ELSE "base",
        !.next = IF opt.next = Len(Repos) THEN 1 ELSE opt.next + 1,
        !.base = NoBase, !.files = {}, !.total = 0, !.details = 0]
    BY DEF Finish
<1>2. DOMAIN opt = {"phase", "next", "runs", "base", "files", "total", "details",
                   "results"}
    BY DEF Programs
<1>3. /\ DOMAIN opt' = DOMAIN opt
      /\ opt'.phase = IF opt.next = Len(Repos) THEN "results" ELSE "base"
      /\ opt'.next = IF opt.next = Len(Repos) THEN 1 ELSE opt.next + 1
      /\ opt'.runs = opt.runs /\ opt'.total = 0 /\ opt'.details = 0
      /\ opt'.base = NoBase
      /\ opt'.results = [opt.results EXCEPT ![OptRepo] = result]
    BY <1>1, <1>2
<1>4. opt.next \in 1..Len(Repos) /\ Len(Repos) \in Nat \ {0}
    BY OptimizerAssumption DEF Programs
<1> QED  BY <1>3, <1>4

(* What the entry of a repository does to batch_analyze.py.                *)
LEMMA AnalysedEnds ==
    ASSUME Programs, NEW entry, Analysed(entry)
    PROVE  /\ DOMAIN batch' = DOMAIN batch
           /\ batch'.phase \in {"clone", "write"}
           /\ batch'.next \in 1..Len(Repos)
           /\ batch'.phase = "clone" => batch'.next = batch.next + 1
           /\ batch'.analyses = [batch.analyses EXCEPT ![BatchRepo] = entry]
<1>1. batch' = [batch EXCEPT
        !.analyses = [batch.analyses EXCEPT ![BatchRepo] = entry],
        !.phase = IF batch.next = Len(Repos) THEN "write" ELSE "clone",
        !.next = IF batch.next = Len(Repos) THEN 1 ELSE batch.next + 1]
    BY DEF Analysed
<1>2. DOMAIN batch = {"phase", "next", "runs", "analyses"}
    BY DEF Programs
<1>3. /\ DOMAIN batch' = DOMAIN batch
      /\ batch'.phase = IF batch.next = Len(Repos) THEN "write" ELSE "clone"
      /\ batch'.next = IF batch.next = Len(Repos) THEN 1 ELSE batch.next + 1
      /\ batch'.analyses = [batch.analyses EXCEPT ![BatchRepo] = entry]
    BY <1>1, <1>2
<1>4. batch.next \in 1..Len(Repos) /\ Len(Repos) \in Nat \ {0}
    BY OptimizerAssumption DEF Programs
<1> QED  BY <1>3, <1>4

-----------------------------------------------------------------------------
(* The lines a commit changes: Info calls, none of them changed before,    *)
(* and no shielded ones while the file is the one analysed.                *)
LEMMA AppliedLines ==
    ASSUME Inv, opt.phase = "files", NEW file \in Files
    PROVE  LET A == Applied(OptRepo, file) IN
           /\ A \subseteq Lines /\ IsFiniteSet(A)
           /\ A \cap branch[OptRepo].debug = {}
           /\ \A p \in A : Statement(OptRepo, p).log.level = "INFO"
           /\ branch[OptRepo].shift = branch[OptRepo].asof =>
                 \A p \in A : ~Has(Reported(Statement(OptRepo, p).log),
                                   ErrorKeywords \cup BusinessKeywords)
<1> DEFINE R == OptRepo
           A == Applied(R, file)
           n == Len(source[R][file])
<1>1. R \in RepoNames /\ source \in Sources
    BY RunningRepos DEF Inv, Shape
<1>2. /\ n \in Nat
      /\ \A i \in 1..n : source[R][file][i].call \in DOMAIN DebugCall[LanguageOf[file]] =>
                            source[R][file][i].log.level = "INFO"
  <2> HIDE DEF R
  <2> QED  BY <1>1, SourcesAssumption
<1>3. A = {p \in {file} \X (1..n) :
              /\ p \notin branch[R].debug
              /\ \E c \in ToChange(R) :
                     /\ c.file = file /\ c.line = p[2] + branch[R].shift
                     /\ Rewritten(R, p, DecideActionForLog(c.rec, measured))}
    BY DEF Applied
<1> HIDE DEF R, A, n
<1>4. A \subseteq Lines /\ A \cap branch[R].debug = {}
    BY <1>2, <1>3 DEF Lines
<1>5. IsFiniteSet(A)
  <2>1. IsFiniteSet({file}) /\ IsFiniteSet(1..n)
    <3>1. IsFiniteSet({file})
        BY FS_Singleton
    <3>2. 1 \in Int /\ n \in Int
        BY <1>2
    <3> QED  BY <3>1, <3>2, FS_Interval
  <2>2. IsFiniteSet({file} \X (1..n))
      BY <2>1, FS_Product
  <2>3. A \subseteq {file} \X (1..n)
      BY <1>3
  <2> QED  BY <2>2, <2>3, FS_Subset
<1>6. ASSUME NEW p \in A
      PROVE  /\ Statement(R, p).log.level = "INFO"
             /\ branch[R].shift = branch[R].asof =>
                   ~Has(Reported(Statement(R, p).log), ErrorKeywords \cup BusinessKeywords)
  <2>1. PICK c \in ToChange(R) :
           /\ c.file = file /\ c.line = p[2] + branch[R].shift
           /\ Rewritten(R, p, DecideActionForLog(c.rec, measured))
      BY <1>3
  <2>2. p[1] = file /\ p[2] \in 1..n
      BY <1>3
  <2> DEFINE action == DecideActionForLog(c.rec, measured)
             call == Statement(R, p).call
             language == LanguageOf[file]
  <2>3. c \in report[R].recs /\ action \in Actionable
      BY DEF ToChange
  <2>4. /\ action \in {"DOWNGRADE_TO_DEBUG", "SAMPLE"}
        /\ ~Has(c.rec.words, ErrorKeywords \cup BusinessKeywords)
      BY <2>3, ActionSpares
  <2>5. call \in DOMAIN DebugCall[language]
    <3>1. Apply(call, language, action) # call
      <4>1. Rewritten(R, p, action)
          BY <2>1
      <4> HIDE DEF action
      <4> QED  BY <2>2, <4>1 DEF Rewritten, Valid
    <3> HIDE DEF action, call, language
    <3> QED  BY <2>4, <3>1 DEF Apply
  <2>6. Statement(R, p) = source[R][file][p[2]]
      BY <2>2 DEF Statement
  <2>7. Statement(R, p).log.level = "INFO"
      BY <1>2, <2>2, <2>5, <2>6
  <2>8. ASSUME branch[R].shift = branch[R].asof
        PROVE  Reported(Statement(R, p).log) = c.rec.words
    <3>1. report[R].status = "analyzed" /\ branch[R].asof = report[R].shift
        BY DEF Inv, Branching, Eligible, R
    <3>2. report[R].shift \in Nat /\ AboutStatement(R, report[R].shift, c)
        BY <1>1, <2>3, <3>1 DEF Inv, Entries, EntryOK
    <3>3. PICK q \in Lines : /\ c.file = q[1] /\ c.line = q[2] + report[R].shift
                              /\ c.rec.words = Reported(Statement(R, q).log)
        BY <3>2 DEF AboutStatement
    <3>4. q[2] \in Nat /\ p[2] \in Nat
        BY <1>2, <2>2 DEF Lines
    <3>5. q[1] = p[1] /\ q[2] = p[2]
        BY <2>1, <2>2, <2>8, <3>1, <3>2, <3>3, <3>4
    <3> QED  BY <3>3, <3>5 DEF Statement
  <2> QED  BY <2>4, <2>7, <2>8
<1> QED  BY <1>4, <1>5, <1>6 DEF R, A

(* What a commit does to the branch and to the counts.                     *)
LEMMA UpdateEffects ==
    ASSUME Inv, NEW file \in Files, UpdateFile(file)
    PROVE  LET A == Applied(OptRepo, file)
               n == Cardinality(A) IN
           /\ opt.phase = "files"
           /\ DOMAIN opt' = DOMAIN opt /\ opt'.phase = "files"
           /\ opt'.next = opt.next /\ opt'.runs = opt.runs
           /\ opt'.results = opt.results /\ opt'.base = opt.base
           /\ n \in Nat
           /\ \/ /\ branch' = [branch EXCEPT ![OptRepo].debug = @ \cup A]
                 /\ opt'.total = opt.total + n
                 /\ opt'.details \in {opt.details + n, opt.details}
              \/ /\ branch' = branch
                 /\ opt'.total \in {opt.total + n, opt.total}
                 /\ opt'.details = opt.details
<1> DEFINE A == Applied(OptRepo, file)
           n == Cardinality(A)
<1>0. opt.phase = "files"
    BY DEF UpdateFile
<1>1. n \in Nat
    BY <1>0, AppliedLines, FS_CardinalityType
<1>2. DOMAIN opt = {"phase", "next", "runs", "base", "files", "total", "details",
                   "results"}
    BY DEF Inv, Programs
<1>3. \/ /\ branch' = [branch EXCEPT ![OptRepo].debug = @ \cup A]
         /\ \/ opt' = [opt EXCEPT !.files = @ \ {file}, !.total = @ + n, !.details = @ + n]
            \/ opt' = [opt EXCEPT !.files = @ \ {file}, !.total = @ + n, !.details = @]
      \/ branch' = branch
         /\ opt' = [opt EXCEPT !.files = @ \ {file}, !.total = @ + n, !.details = @]
      \/ branch' = branch /\ opt' = [opt EXCEPT !.files = @ \ {file}]
    BY DEF UpdateFile
<1> HIDE DEF A, n
<1>4. /\ DOMAIN opt' = DOMAIN opt /\ opt'.phase = opt.phase
      /\ opt'.next = opt.next /\ opt'.runs = opt.runs
      /\ opt'.results = opt.results /\ opt'.base = opt.base
    BY <1>2, <1>3
<1>5. \/ /\ branch' = [branch EXCEPT ![OptRepo].debug = @ \cup A]
         /\ opt'.total = opt.total + n
         /\ opt'.details \in {opt.details + n, opt.details}
      \/ /\ branch' = branch
         /\ opt'.total \in {opt.total + n, opt.total}
         /\ opt'.details = opt.details
    BY <1>2, <1>3
<1> QED  BY <1>0, <1>1, <1>4, <1>5 DEF A, n

-----------------------------------------------------------------------------
(* Steps, by who takes them.                                               *)
BatchStep ==
    StartBatch \/ CloneRepo \/ AnalyzeRepo \/ WriteReports \/ InterruptBatch

OptStep ==
    \/ StartPRs \/ GetBase \/ DeleteOldBranch \/ DeleteTimesOut \/ CreateBranch
    \/ (\E file \in Files : UpdateFile(file)) \/ CreatePR \/ WriteResults

(* batch_analyze.py leaves GitHub alone, and does not run beside the other.*)
LEMMA BatchFrame ==
    ASSUME Inv, BatchStep
    PROVE  /\ UNCHANGED <<source, measured, keep_dir, main, branch, pr, opt>>
           /\ opt.phase = "idle"
<1>1. batch.phase = "idle" \/ opt.phase = "idle"
    BY DEF Inv, Programs
<1> QED  BY <1>1 DEF BatchStep, StartBatch, CloneRepo, AnalyzeRepo, WriteReports,
                     InterruptBatch

(* github_api_prs.py leaves the clones and the report alone.               *)
LEMMA OptFrame ==
    ASSUME Inv, OptStep
    PROVE  /\ UNCHANGED <<source, measured, keep_dir, main, clones, report, batch>>
           /\ batch.phase = "idle"
<1>1. batch.phase = "idle" \/ opt.phase = "idle"
    BY DEF Inv, Programs
<1>2. UNCHANGED <<source, measured, keep_dir, main, clones, report, batch>>
    BY DEF OptStep, StartPRs, GetBase, DeleteOldBranch, DeleteTimesOut, CreateBranch,
           UpdateFile, CreatePR, WriteResults
<1>3. opt.phase # "idle" \/ batch.phase = "idle"
    BY DEF OptStep, StartPRs, GetBase, DeleteOldBranch, DeleteTimesOut, CreateBranch,
           UpdateFile, CreatePR, WriteResults
<1> QED  BY <1>1, <1>2, <1>3

(* A branch nothing happened to is still what it was.                      *)
LEMMA SameBranch ==
    ASSUME NEW r, branch'[r] = branch[r], source' = source
    PROVE  Changed(r)' = Changed(r) /\ (Lowered(r) => Lowered(r)')
BY DEF Changed, Lowered, Statement

(* A repository that is done with: what Programs, Branching and Resulting  *)
(* need of its result.                                                     *)
LEMMA FinishKeeps ==
    ASSUME Inv, NEW R, R = OptRepo, NEW result, Finish(result),
           UNCHANGED <<source, batch>>,
           batch.phase = "idle",
           opt.phase \in {"base", "delete", "create", "files"},
           \A r \in RepoNames : r # R =>
              branch'[r] = branch[r] /\ pr'[r] = pr[r],
           result = "success" =>
              pr'[R].state = "open" /\ pr'[R].run = opt.runs,
           result = "no_changes" =>
              branch'[R] \in Branches /\ Changed(R)' = {},
           \A r \in RepoNames : branch'[r] \in Branches => Lowered(r)'
    PROVE  Programs' /\ Branching' /\ Resulting'
<1>1. /\ DOMAIN opt' = DOMAIN opt
      /\ opt'.phase \in {"base", "results"}
      /\ opt'.next \in 1..Len(Repos)
      /\ opt'.phase = "base" => opt'.next = opt.next + 1
      /\ opt'.runs = opt.runs /\ opt'.total = 0 /\ opt'.details = 0
      /\ opt'.base = NoBase
      /\ opt'.results = [opt.results EXCEPT ![R] = result]
    BY FinishEnds DEF Inv
<1>2. R \in RepoNames /\ DOMAIN opt.results = RepoNames /\ opt.next \in 1..Len(Repos)
    BY RunningRepos DEF Inv, Programs
<1>3. DOMAIN opt'.results = RepoNames
    BY <1>1, <1>2
<1>4. Programs'
    BY <1>1, <1>3, NoBaseIsContents DEF Inv, Programs
<1>5. Branching'
  <2>1. opt'.phase \notin {"delete", "create", "files"}
      BY <1>1
  <2> QED  BY <2>1 DEF Branching
<1>6. ASSUME NEW r \in RepoNames
      PROVE  /\ opt'.results[r] = "success" =>
                   pr'[r].state \in {"open", "merged"} /\ pr'[r].run = opt'.runs
             /\ opt'.results[r] = "no_changes" =>
                   branch'[r] \in Branches /\ Changed(r)' = {}
  <2>1. CASE r = R
    <3>1. opt'.results[r] = result
        BY <1>1, <1>2, <2>1
    <3>2. result = "success" => pr'[r].state = "open" /\ pr'[r].run = opt.runs
        BY <2>1
    <3>3. result = "no_changes" => branch'[r] \in Branches /\ Changed(r)' = {}
        BY <2>1
    <3> QED  BY <1>1, <3>1, <3>2, <3>3
  <2>2. CASE r # R
    <3>1. opt'.results[r] = opt.results[r]
        BY <1>1, <1>2, <2>2
    <3>2. branch'[r] = branch[r] /\ pr'[r] = pr[r] /\ Changed(r)' = Changed(r)
        BY <2>2, SameBranch
    <3> QED  BY <1>1, <3>1, <3>2 DEF Inv, Resulting
  <2> QED  BY <2>1, <2>2
<1>7. ASSUME opt'.phase = "base", NEW i \in 1..Len(Repos), i >= opt'.next
      PROVE  opt'.results[Repos[i]] = "none"
  <2>1. i >= opt.next /\ i # opt.next
      BY <1>1, <1>2, <1>7
  <2>2. Repos[i] # R /\ Repos[i] \in RepoNames
      BY <1>2, <2>1, OptimizerAssumption, Names DEF OptRepo
  <2>3. opt.results[Repos[i]] = "none"
      BY <2>1 DEF Inv, Resulting
  <2> QED  BY <1>1, <1>2, <2>2, <2>3
<1>8. Resulting'
    BY <1>1, <1>6, <1>7 DEF Resulting
<1> QED  BY <1>4, <1>5, <1>8

(* Every step of batch_analyze.py keeps the invariant: a clone that failed *)
(* is not reported, and the temporary directory holds none but its own.    *)
LEMMA BatchNext ==
    ASSUME Inv, BatchStep
    PROVE  Inv'
<1>1. /\ UNCHANGED <<source, measured, keep_dir, main, branch, pr, opt>>
      /\ opt.phase = "idle"
    BY BatchFrame
<1>2. Shape'
    BY <1>1 DEF Inv, Shape
<1>3. \A r : Changed(r)' = Changed(r) /\ (Lowered(r) => Lowered(r)')
    BY <1>1, SameBranch
<1>4. Branching'
    BY <1>1, <1>3 DEF Inv, Branching
<1>5. Covered'
    BY <1>1, <1>3 DEF Inv, Covered
<1>6. Resulting'
    BY <1>1, <1>3 DEF Inv, Resulting
<1>7. BatchRepo \in RepoNames
    BY RunningRepos DEF Inv
<1>8. Len(Repos) \in Nat \ {0} /\ 1 \in 1..Len(Repos)
    BY OptimizerAssumption
<1>9. DOMAIN batch = {"phase", "next", "runs", "analyses"}
    BY DEF Inv, Programs
<1>10. ASSUME NEW r, NEW e
       PROVE  EntryOK(r, e) => EntryOK(r, e)'
    BY <1>1 DEF EntryOK, AboutStatement, Statement
<1>11. CASE StartBatch
  <2>1. PICK phase \in {"clone", "idle"} :
           batch' = [batch EXCEPT !.phase = phase, !.runs = @ + 1]
      BY <1>11 DEF StartBatch
  <2>2. /\ DOMAIN batch' = DOMAIN batch /\ batch'.phase = phase
        /\ batch'.next = batch.next /\ batch'.analyses = batch.analyses
      BY <1>9, <2>1
  <2>3. Programs'
      BY <1>1, <2>2 DEF Inv, Programs
  <2>4. report' = report /\ clones' = clones /\ batch.phase = "idle"
      BY <1>11 DEF StartBatch
  <2>5. Entries'
      BY <1>10, <2>2, <2>4 DEF Inv, Entries
  <2>6. Cloned'
      BY <1>1, <2>2, <2>4 DEF Inv, Cloned, Fresh
  <2> QED  BY <1>2, <1>4, <1>5, <1>6, <2>3, <2>5, <2>6 DEF Inv
<1>12. CASE CloneRepo
  <2>0. batch.phase = "clone" /\ report' = report
      BY <1>12 DEF CloneRepo
  <2>1. CASE /\ IF clones[BatchRepo] # NoClone THEN UNCHANGED clones
                ELSE clones' = [clones EXCEPT ![BatchRepo] =
                                   CloneOf("whole", Files)]
             /\ batch' = [batch EXCEPT !.phase = "analyze"]
    <3>1. /\ DOMAIN batch' = DOMAIN batch /\ batch'.phase = "analyze"
          /\ batch'.next = batch.next /\ batch'.analyses = batch.analyses
        BY <1>9, <2>1
    <3>2. Programs'
        BY <1>1, <3>1 DEF Inv, Programs
    <3>3. Entries'
        BY <1>10, <2>0, <3>1 DEF Inv, Entries
    <3>4. BatchRepo' = BatchRepo
        BY <3>1 DEF BatchRepo
    <3>5. CASE clones[BatchRepo] # NoClone
      <4>1. clones' = clones
          BY <2>1, <3>5
      <4>2. keep_dir
        <5> SUFFICES ASSUME ~keep_dir  PROVE FALSE
            OBVIOUS
        <5>1. Fresh(batch.next)
            BY <2>0 DEF Inv, Programs, Cloned
        <5> QED  BY <3>5, <5>1 DEF Fresh, BatchRepo
      <4>3. Cloned'
          BY <1>1, <3>1, <3>4, <3>5, <4>1, <4>2 DEF Inv, Cloned
      <4> QED  BY <1>2, <1>4, <1>5, <1>6, <3>2, <3>3, <4>3 DEF Inv
    <3>6. CASE clones[BatchRepo] = NoClone
      <4> DEFINE c == CloneOf("whole", Files)
      <4>1. clones' = [clones EXCEPT ![BatchRepo] = c]
          BY <2>1, <3>6
      <4>2. c.state = "whole" /\ c # NoClone /\ c.shift \in Nat
          BY <1>7 DEF Inv, Shape, Contents, CloneOf, NoClone
      <4> HIDE DEF c
      <4>3. /\ DOMAIN clones' = RepoNames /\ clones'[BatchRepo] = c
            /\ \A r \in RepoNames : r # BatchRepo => clones'[r] = clones[r]
          BY <1>7, <4>1 DEF Inv, Cloned
      <4>4. \A r \in RepoNames : clones'[r] # NoClone => clones'[r].shift \in Nat
          BY <4>2, <4>3 DEF Inv, Cloned
      <4>5. ~keep_dir => \A i \in 1..Len(Repos) : i > batch.next => Fresh(i)'
        <5> SUFFICES ASSUME ~keep_dir, NEW i \in 1..Len(Repos), i > batch.next
                     PROVE  clones'[Repos[i]] = NoClone
            BY DEF Fresh
        <5>1. batch.next \in 1..Len(Repos)
            BY DEF Inv, Programs
        <5>2. Repos[i] # BatchRepo /\ Repos[i] \in RepoNames
            BY <5>1, OptimizerAssumption, Names DEF BatchRepo
        <5>3. Fresh(i)
            BY <2>0, <5>1 DEF Inv, Cloned
        <5> QED  BY <4>3, <5>2, <5>3 DEF Fresh
      <4>6. Cloned'
          BY <1>1, <3>1, <3>4, <4>2, <4>3, <4>4, <4>5 DEF Cloned
      <4> QED  BY <1>2, <1>4, <1>5, <1>6, <3>2, <3>3, <4>6 DEF Inv
    <3> QED  BY <3>5, <3>6
  <2>2. ASSUME NEW left \in LeftByFailure,
               clones' = [clones EXCEPT ![BatchRepo] = left],
               Analysed([status |-> "error"])
        PROVE  Inv'
    <3>1. /\ DOMAIN batch' = DOMAIN batch
          /\ batch'.phase \in {"clone", "write"}
          /\ batch'.next \in 1..Len(Repos)
          /\ batch'.phase = "clone" => batch'.next = batch.next + 1
          /\ batch'.analyses = [batch.analyses EXCEPT ![BatchRepo] = [status |-> "error"]]
        BY <2>2, AnalysedEnds DEF Inv
    <3>2. Programs'
        BY <1>1, <3>1 DEF Inv, Programs
    <3>3. Entries'
      <4>1. EntryOK(BatchRepo, [status |-> "error"])
          BY DEF EntryOK
      <4>2. \A r \in RepoNames : EntryOK(r, batch'.analyses[r])
          BY <1>7, <3>1, <4>1 DEF Inv, Entries, Programs
      <4> QED  BY <1>10, <2>0, <4>2 DEF Inv, Entries
    <3>4. /\ DOMAIN clones' = RepoNames
          /\ clones'[BatchRepo] = left
          /\ \A r \in RepoNames : r # BatchRepo => clones'[r] = clones[r]
        BY <1>7, <2>2 DEF Inv, Cloned
    <3>5. left # NoClone => left.shift \in Nat
      <4>1. main[BatchRepo].shift \in Nat
          BY <1>7 DEF Inv, Shape, Contents
      <4>2. PICK files : left = NoClone \/ left = CloneOf("partial", files)
          BY DEF LeftByFailure
      <4> QED  BY <4>1, <4>2 DEF CloneOf
    <3>6. \A r \in RepoNames : clones'[r] # NoClone => clones'[r].shift \in Nat
        BY <3>4, <3>5 DEF Inv, Cloned
    <3>7. ASSUME ~keep_dir, batch'.phase = "clone", NEW i \in 1..Len(Repos),
                 i >= batch'.next
          PROVE  clones'[Repos[i]] = NoClone
      <4>1. batch.next \in 1..Len(Repos) /\ i > batch.next
          BY <3>1, <3>7 DEF Inv, Programs
      <4>2. Repos[i] # BatchRepo /\ Repos[i] \in RepoNames
          BY <4>1, OptimizerAssumption, Names DEF BatchRepo
      <4>3. Fresh(i)
          BY <2>0, <3>7, <4>1 DEF Inv, Cloned
      <4> QED  BY <3>4, <4>2, <4>3 DEF Fresh
    <3>8. Cloned'
        BY <1>1, <3>1, <3>4, <3>6, <3>7 DEF Cloned, Fresh
    <3> QED  BY <1>2, <1>4, <1>5, <1>6, <3>2, <3>3, <3>8 DEF Inv
  <2> QED  BY <1>12, <2>1, <2>2 DEF CloneRepo
<1>13. CASE AnalyzeRepo
  <2> DEFINE clone == clones[BatchRepo]
             found == Scanned(BatchRepo, clone)
  <2>1. PICK e : /\ Analysed(e)
                 /\ \/ e = [status |-> "error"]
                    \/ e = [status |-> IF found = {} THEN "skipped" ELSE "analyzed",
                            recs |-> Recommendations(found),
                            shift |-> clone.shift,
                            whole |-> clone.state = "whole"]
      BY <1>13 DEF AnalyzeRepo
  <2>2. batch.phase = "analyze" /\ report' = report /\ clones' = clones
      BY <1>13 DEF AnalyzeRepo
  <2>3. /\ DOMAIN batch' = DOMAIN batch
        /\ batch'.phase \in {"clone", "write"}
        /\ batch'.next \in 1..Len(Repos)
        /\ batch'.phase = "clone" => batch'.next = batch.next + 1
        /\ batch'.analyses = [batch.analyses EXCEPT ![BatchRepo] = e]
      BY <2>1, AnalysedEnds DEF Inv
  <2>4. Programs'
      BY <1>1, <2>3 DEF Inv, Programs
  <2>5. EntryOK(BatchRepo, e)
    <3>1. CASE e = [status |-> "error"]
        BY <3>1 DEF EntryOK
    <3>2. CASE e = [status |-> IF found = {} THEN "skipped" ELSE "analyzed",
                    recs |-> Recommendations(found), shift |-> clone.shift,
                    whole |-> clone.state = "whole"]
      <4>1. /\ e.recs = Recommendations(found) /\ e.shift = clone.shift
            /\ ~keep_dir => e.whole = TRUE
          BY <2>2, <3>2 DEF Inv, Cloned
      <4>2. clone.shift \in Nat
          BY <1>7, <2>2 DEF Inv, Cloned
      <4>3. ASSUME NEW c \in Recommendations(found)
            PROVE  AboutStatement(BatchRepo, clone.shift, c)
        <5> HIDE DEF clone, found
        <5>1. PICK s \in found :
                 c = [file |-> s.file, line |-> s.line, rec |-> Recommendation(s.log)]
            BY <4>3 DEF Recommendations
        <5>2. PICK p \in Places(BatchRepo) :
                    s = [file |-> p[1], line |-> p[2] + clone.shift,
                         log |-> IF p \in clone.debug
                                 THEN [source[BatchRepo][p[1]][p[2]].log
                                          EXCEPT !.level = "DEBUG"]
                                 ELSE source[BatchRepo][p[1]][p[2]].log]
            BY <5>1 DEF Scanned, found
        <5>0. p[1] \in Files /\ p[2] \in 1..Len(source[BatchRepo][p[1]])
            BY DEF Places
        <5> DEFINE log == source[BatchRepo][p[1]][p[2]].log
        <5>3. log \in LogStatement
          <6>1. source \in Sources
              BY DEF Inv, Shape
          <6> QED  BY <1>7, <5>0, <6>1, SourcesAssumption
        <5>4. Reported(s.log) = Reported(log)
          <6>1. Reported([log EXCEPT !.level = "DEBUG"]) = Reported(log)
              BY <5>3 DEF LogStatement, Reported
          <6>2. s.log \in {log, [log EXCEPT !.level = "DEBUG"]}
              BY <5>2
          <6> HIDE DEF log
          <6> QED  BY <6>1, <6>2
        <5>5. c.file = p[1] /\ c.line = p[2] + clone.shift /\ c.rec.words = Reported(s.log)
            BY <5>1, <5>2 DEF Recommendation
        <5>6. p \in Lines /\ p = <<p[1], p[2]>>
          <6>1. Len(source[BatchRepo][p[1]]) \in Nat
              BY <1>7, <5>0, SourcesAssumption DEF Inv, Shape
          <6>2. p[2] \in Nat
              BY <5>0, <6>1
          <6>3. p = <<p[1], p[2]>>
              BY DEF Places
          <6> QED  BY <5>0, <6>2, <6>3 DEF Lines
        <5> QED  BY <5>4, <5>5, <5>6 DEF AboutStatement, Statement
      <4> HIDE DEF clone, found
      <4> QED  BY <4>1, <4>2, <4>3 DEF EntryOK
    <3> HIDE DEF clone, found
    <3> QED  BY <2>1, <3>1, <3>2
  <2>6. Entries'
    <3>1. \A r \in RepoNames : EntryOK(r, batch'.analyses[r])
        BY <1>7, <2>3, <2>5 DEF Inv, Entries, Programs
    <3> QED  BY <1>10, <2>2, <3>1 DEF Inv, Entries
  <2>7. Cloned'
    <3>1. batch.next \in 1..Len(Repos)
        BY DEF Inv, Programs
    <3>2. ~keep_dir /\ batch'.phase = "clone" =>
             \A i \in 1..Len(Repos) : i >= batch'.next => Fresh(i)
        BY <2>2, <2>3, <3>1 DEF Inv, Cloned
    <3> QED  BY <1>1, <2>2, <2>3, <3>2 DEF Inv, Cloned, Fresh
  <2> QED  BY <1>2, <1>4, <1>5, <1>6, <2>4, <2>6, <2>7 DEF Inv
<1>14. CASE WriteReports \/ InterruptBatch
  <2>1. EndBatch /\ report' \in {report, batch.analyses}
      BY <1>14 DEF WriteReports, InterruptBatch
  <2>2. /\ DOMAIN batch' = DOMAIN batch /\ batch'.phase = "idle" /\ batch'.next = 1
        /\ batch'.analyses = [r \in RepoNames |-> NoEntry]
        /\ clones' = IF keep_dir THEN clones ELSE [r \in RepoNames |-> NoClone]
      BY <1>9, <2>1 DEF EndBatch
  <2>3. Programs'
      BY <1>1, <1>8, <2>2 DEF Inv, Programs
  <2>4. Entries'
    <3>1. \A r \in RepoNames : EntryOK(r, NoEntry)
        BY DEF EntryOK, NoEntry
    <3>2. \A r \in RepoNames : EntryOK(r, batch'.analyses[r]) /\ EntryOK(r, report'[r])
        BY <2>1, <2>2, <3>1 DEF Inv, Entries
    <3> QED  BY <1>10, <3>2 DEF Entries
  <2>5. Cloned'
    <3>1. CASE keep_dir
        BY <1>1, <2>2, <3>1 DEF Inv, Cloned
    <3>2. CASE ~keep_dir
      <4>1. clones' = [r \in RepoNames |-> NoClone]
          BY <2>2, <3>2
      <4>2. \A r \in RepoNames : clones'[r] = NoClone
          BY <4>1
      <4>3. \A i \in 1..Len(Repos) : Fresh(i)'
          BY <4>1, Names DEF Fresh
      <4> QED  BY <2>2, <4>1, <4>2, <4>3 DEF Cloned
    <3> QED  BY <3>1, <3>2
  <2> QED  BY <1>2, <1>4, <1>5, <1>6, <2>3, <2>4, <2>5 DEF Inv
<1> QED  BY <1>11, <1>12, <1>13, <1>14 DEF BatchStep

-----------------------------------------------------------------------------
(* A repository whose branch and pull request become b and p, the others   *)
(* staying: what GitHub holds is as it should be if b and p are.           *)
LEMMA GitHubKept ==
    ASSUME Inv, NEW R \in RepoNames,
           NEW b \in {NoBranch} \cup Branches, NEW p \in {NoPR} \cup PullRequests,
           source' = source, main' \in [RepoNames -> Contents],
           branch' = [branch EXCEPT ![R] = b], pr' = [pr EXCEPT ![R] = p],
           b \in Branches => Lowered(R)',
           p.state = "open" => /\ b \in Branches
                               /\ p.listed <= Cardinality(Changed(R)')
                               /\ Cardinality(Changed(R)') <= p.claimed
    PROVE  /\ Shape' /\ Covered'
           /\ \A r \in RepoNames : branch'[r] \in Branches => Lowered(r)'
           /\ branch'[R] = b /\ pr'[R] = p
           /\ \A r \in RepoNames : r # R => branch'[r] = branch[r] /\ pr'[r] = pr[r]
<1>1. /\ branch \in [RepoNames -> {NoBranch} \cup Branches]
      /\ pr \in [RepoNames -> {NoPR} \cup PullRequests]
      /\ source \in Sources
    BY DEF Inv, Shape
<1>2. /\ branch'[R] = b /\ pr'[R] = p
      /\ \A r \in RepoNames : r # R => branch'[r] = branch[r] /\ pr'[r] = pr[r]
    BY <1>1
<1>3. Shape'
  <2>1. branch' \in [RepoNames -> {NoBranch} \cup Branches]
      BY <1>1
  <2>2. pr' \in [RepoNames -> {NoPR} \cup PullRequests]
      BY <1>1
  <2> QED  BY <1>1, <2>1, <2>2 DEF Shape
<1>4. \A r \in RepoNames : r # R =>
         Changed(r)' = Changed(r) /\ (Lowered(r) => Lowered(r)')
    BY <1>2, SameBranch
<1>5. \A r \in RepoNames : branch'[r] \in Branches => Lowered(r)'
  <2> SUFFICES ASSUME NEW r \in RepoNames, branch'[r] \in Branches
               PROVE  Lowered(r)'
      OBVIOUS
  <2>1. CASE r = R
      BY <1>2, <2>1
  <2>2. CASE r # R
      BY <1>2, <1>4, <2>2 DEF Inv, Branching
  <2> QED  BY <2>1, <2>2
<1>6. Covered'
  <2> SUFFICES ASSUME NEW r \in RepoNames, pr'[r].state = "open"
               PROVE  /\ branch'[r] \in Branches
                      /\ pr'[r].listed <= Cardinality(Changed(r)')
                      /\ Cardinality(Changed(r)') <= pr'[r].claimed
      BY DEF Covered
  <2>1. CASE r = R
      BY <1>2, <2>1
  <2>2. CASE r # R
      BY <1>2, <1>4, <2>2 DEF Inv, Covered
  <2> QED  BY <2>1, <2>2
<1> QED  BY <1>2, <1>3, <1>5, <1>6

(* The deletion of a branch, which closes its pull request, or none.       *)
LEMMA DeletionKeeps ==
    ASSUME Inv, NEW R \in RepoNames, UNCHANGED <<source, main>>,
           \/ /\ branch' = [branch EXCEPT ![R] = NoBranch]
              /\ pr' = [pr EXCEPT ![R] = Closed(@)]
           \/ UNCHANGED <<branch, pr>>
    PROVE  /\ Shape' /\ Covered'
           /\ \A r \in RepoNames : branch'[r] \in Branches => Lowered(r)'
           /\ \A r \in RepoNames : r # R => branch'[r] = branch[r] /\ pr'[r] = pr[r]
<1>0. main' \in [RepoNames -> Contents]
    BY DEF Inv, Shape
<1>1. CASE /\ branch' = [branch EXCEPT ![R] = NoBranch]
           /\ pr' = [pr EXCEPT ![R] = Closed(@)]
  <2> DEFINE p == Closed(pr[R])
  <2>1. pr[R] \in {NoPR} \cup PullRequests
      BY DEF Inv, Shape
  <2>2. p \in {NoPR} \cup PullRequests /\ p.state # "open"
    <3>1. CASE pr[R].state = "open"
      <4>1. pr[R] \in PullRequests
          BY <2>1, <3>1 DEF NoPR
      <4>2. p = [pr[R] EXCEPT !.state = "closed"]
          BY <3>1 DEF Closed
      <4> QED  BY <4>1, <4>2 DEF PullRequests
    <3>2. CASE pr[R].state # "open"
        BY <2>1, <3>2 DEF Closed
    <3> QED  BY <3>1, <3>2
  <2>3. NoBranch \notin Branches
    <3>1. \A x \in Branches : x.exists = TRUE
        BY DEF Branches
    <3> QED  BY <3>1 DEF NoBranch
  <2>4. pr' = [pr EXCEPT ![R] = p]
      BY <1>1
  <2> HIDE DEF p
  <2> QED  BY <1>0, <1>1, <2>2, <2>3, <2>4, GitHubKept
<1>2. CASE UNCHANGED <<branch, pr>>
  <2>1. Shape' /\ Covered'
      BY <1>2 DEF Inv, Shape, Covered, Changed
  <2>2. \A r : Lowered(r) => Lowered(r)'
      BY <1>2, SameBranch
  <2> QED  BY <1>2, <2>1, <2>2 DEF Inv, Branching
<1> QED  BY <1>1, <1>2

(* Every step of github_api_prs.py keeps the invariant: a pull request is  *)
(* opened over a branch whose commits the counts have followed.            *)
LEMMA OptNext ==
    ASSUME Inv, OptStep
    PROVE  Inv'
<1>1. /\ UNCHANGED <<source, measured, keep_dir, main, clones, report, batch>>
      /\ batch.phase = "idle"
    BY OptFrame
<1>2. Entries' /\ Cloned'
  <2>1. Entries'
      BY <1>1 DEF Inv, Entries, EntryOK, AboutStatement, Statement
  <2>2. Cloned'
      BY <1>1 DEF Inv, Cloned, Fresh, BatchRepo
  <2> QED  BY <2>1, <2>2
<1>3. PICK R : R = OptRepo
    OBVIOUS
<1>4. R \in RepoNames
    BY <1>3, RunningRepos DEF Inv
<1>5. \A r : Eligible(r)' <=> Eligible(r)
    BY <1>1 DEF Eligible
<1>6. main' \in [RepoNames -> Contents]
    BY <1>1 DEF Inv, Shape
<1>7. ASSUME UNCHANGED <<branch, pr>>
      PROVE  /\ Shape' /\ Covered'
             /\ \A r \in RepoNames : branch'[r] \in Branches => Lowered(r)'
             /\ \A r : Changed(r)' = Changed(r)
  <2>1. Shape' /\ Covered'
      BY <1>1, <1>7 DEF Inv, Shape, Covered, Changed
  <2>2. \A r : Changed(r)' = Changed(r) /\ (Lowered(r) => Lowered(r)')
      BY <1>1, <1>7, SameBranch
  <2> QED  BY <1>7, <2>1, <2>2 DEF Inv, Branching
<1>8. DOMAIN opt = {"phase", "next", "runs", "base", "files", "total", "details",
                   "results"}
    BY DEF Inv, Programs
<1>9. branch[R] \in {NoBranch} \cup Branches /\ pr[R] \in {NoPR} \cup PullRequests
    BY <1>4 DEF Inv, Shape
<1>10. CASE StartPRs
  <2>1. /\ opt' = [phase |-> "base", next |-> 1, runs |-> opt.runs + 1,
                   base |-> NoBase, files |-> {}, total |-> 0, details |-> 0,
                   results |-> [r \in RepoNames |-> "none"]]
        /\ UNCHANGED <<branch, pr>>
      BY <1>10 DEF StartPRs
  <2>2. 1 \in 1..Len(Repos)
      BY OptimizerAssumption
  <2>3. /\ DOMAIN opt' = DOMAIN opt /\ opt'.phase = "base" /\ opt'.next = 1
        /\ opt'.runs = opt.runs + 1 /\ opt'.total = 0 /\ opt'.details = 0
        /\ opt'.base = NoBase
        /\ opt'.results = [r \in RepoNames |-> "none"]
      BY <1>8, <2>1
  <2>4. Programs'
      BY <1>1, <2>2, <2>3, NoBaseIsContents DEF Inv, Programs
  <2>5. Branching'
      BY <1>7, <2>1, <2>3 DEF Branching
  <2>6. Resulting'
    <3>1. \A r \in RepoNames : opt'.results[r] = "none"
        BY <2>3
    <3> QED  BY <3>1, Names DEF Resulting
  <2> QED  BY <1>2, <1>7, <2>1, <2>4, <2>5, <2>6 DEF Inv
<1>11. CASE GetBase
  <2>0. opt.phase = "base" /\ UNCHANGED <<branch, pr>>
      BY <1>11 DEF GetBase
  <2>1. ASSUME NEW result \in {"none", "error"}, Finish(result)
        PROVE  Inv'
    <3>1. Programs' /\ Branching' /\ Resulting'
        BY <1>1, <1>3, <1>7, <2>0, <2>1, FinishKeeps
    <3> QED  BY <1>2, <1>7, <2>0, <3>1 DEF Inv
  <2>2. CASE Eligible(OptRepo) /\ opt' = [opt EXCEPT !.phase = "delete", !.base = main[R]]
    <3>1. /\ DOMAIN opt' = DOMAIN opt /\ opt'.phase = "delete"
          /\ opt'.base \in Contents
          /\ opt'.next = opt.next /\ opt'.runs = opt.runs
          /\ opt'.total = opt.total /\ opt'.details = opt.details
          /\ opt'.results = opt.results
        BY <1>4, <1>8, <2>2 DEF Inv, Shape
    <3>2. Programs'
        BY <1>1, <2>0, <3>1 DEF Inv, Programs
    <3>3. OptRepo' = R
        BY <1>3, <3>1 DEF OptRepo
    <3>4. Branching'
        BY <1>1, <1>3, <1>7, <2>0, <2>2, <3>1, <3>3 DEF Branching, Eligible
    <3>5. Resulting'
        BY <1>7, <2>0, <3>1 DEF Inv, Resulting
    <3> QED  BY <1>2, <1>7, <2>0, <3>2, <3>4, <3>5 DEF Inv
  <2> QED  BY <1>3, <1>11, <2>1, <2>2 DEF GetBase
<1>12. CASE DeleteOldBranch \/ DeleteTimesOut
  <2>1. /\ opt.phase = "delete"
        /\ \/ /\ branch' = [branch EXCEPT ![R] = NoBranch]
              /\ pr' = [pr EXCEPT ![R] = Closed(@)]
           \/ UNCHANGED <<branch, pr>>
        /\ \/ opt' = [opt EXCEPT !.phase = "create"]
           \/ opt' = [opt EXCEPT !.phase = "idle", !.base = NoBase,
                                 !.results = [r \in RepoNames |-> "none"]]
      BY <1>3, <1>12 DEF DeleteOldBranch, DeleteTimesOut
  <2>2. /\ Shape' /\ Covered'
        /\ \A r \in RepoNames : branch'[r] \in Branches => Lowered(r)'
        /\ \A r \in RepoNames : r # R => branch'[r] = branch[r] /\ pr'[r] = pr[r]
    <3> USE <1>1, <1>4, <2>1
    <3> QED  BY DeletionKeeps
  <2>3. CASE opt' = [opt EXCEPT !.phase = "create"]
    <3>1. /\ DOMAIN opt' = DOMAIN opt /\ opt'.phase = "create"
          /\ opt'.base = opt.base
          /\ opt'.next = opt.next /\ opt'.runs = opt.runs
          /\ opt'.total = opt.total /\ opt'.details = opt.details
          /\ opt'.results = opt.results
        BY <1>8, <2>3
    <3>2. Programs'
        BY <1>1, <2>1, <3>1 DEF Inv, Programs
    <3>3. OptRepo' = R
        BY <1>3, <3>1 DEF OptRepo
    <3>4. Branching'
      <4>1. Eligible(R)
          BY <1>3, <2>1 DEF Inv, Branching
      <4> QED  BY <1>1, <2>2, <3>1, <3>3, <4>1 DEF Branching, Eligible
    <3>5. Resulting'
      <4>1. opt.results[R] = "none"
        <5>1. opt.next \in 1..Len(Repos)
            BY DEF Inv, Programs
        <5> QED  BY <1>3, <2>1, <5>1 DEF Inv, Resulting, OptRepo
      <4>2. \A r \in RepoNames : r # R => Changed(r)' = Changed(r)
          BY <1>1, <2>2, SameBranch
      <4> QED  BY <2>1, <2>2, <3>1, <4>1, <4>2 DEF Inv, Resulting
    <3> QED  BY <1>2, <2>2, <3>2, <3>4, <3>5 DEF Inv
  <2>4. CASE opt' = [opt EXCEPT !.phase = "idle", !.base = NoBase,
                                !.results = [r \in RepoNames |-> "none"]]
    <3>1. /\ DOMAIN opt' = DOMAIN opt /\ opt'.phase = "idle"
          /\ opt'.base = NoBase
          /\ opt'.next = opt.next /\ opt'.runs = opt.runs
          /\ opt'.total = opt.total /\ opt'.details = opt.details
          /\ opt'.results = [r \in RepoNames |-> "none"]
        BY <1>8, <2>4
    <3>2. Programs'
        BY <1>1, <2>1, <3>1, NoBaseIsContents DEF Inv, Programs
    <3>3. Branching'
        BY <2>2, <3>1 DEF Branching
    <3>4. Resulting'
      <4>1. \A r \in RepoNames : opt'.results[r] = "none"
          BY <3>1
      <4> QED  BY <3>1, <4>1 DEF Resulting
    <3> QED  BY <1>2, <2>2, <3>2, <3>3, <3>4 DEF Inv
  <2> QED  BY <2>1, <2>3, <2>4
<1>13. CASE CreateBranch
  <2>0. opt.phase = "create" /\ pr' = pr
      BY <1>13 DEF CreateBranch
  <2> DEFINE b == [exists |-> TRUE, shift |-> opt.base.shift,
                   base |-> opt.base.debug, debug |-> opt.base.debug,
                   asof |-> report[R].shift]
  <2>1. \/ /\ ~branch[R].exists /\ branch' = [branch EXCEPT ![R] = b]
           /\ \/ \E x : opt' = [opt EXCEPT !.phase = "files", !.base = NoBase,
                                          !.files = x]
              \/ Finish("error")
        \/ UNCHANGED branch /\ Finish("error")
      BY <1>3, <1>13 DEF CreateBranch, NewBranch, ToFiles
  <2>2. ASSUME ~branch[R].exists, branch' = [branch EXCEPT ![R] = b]
        PROVE  /\ Shape' /\ Covered'
               /\ \A r \in RepoNames : branch'[r] \in Branches => Lowered(r)'
               /\ branch'[R] \in Branches /\ Changed(R)' = {}
               /\ branch'[R].asof = report[R].shift
               /\ pr'[R].state # "open"
               /\ \A r \in RepoNames : r # R => branch'[r] = branch[r] /\ pr'[r] = pr[r]
    <3>1. Eligible(R)
        BY <1>3, <2>0 DEF Inv, Branching
    <3>2. report[R].shift \in Nat
        BY <1>4, <3>1 DEF Inv, Entries, EntryOK, Eligible
    <3>3. opt.base \in Contents
        BY DEF Inv, Programs
    <3>4. b \in Branches
        BY <3>2, <3>3 DEF Branches, Contents
    <3>5. /\ b.base = b.debug /\ b.asof = report[R].shift
        OBVIOUS
    <3> HIDE DEF b
    <3>6. branch'[R] = b
        BY <1>4, <2>2 DEF Inv, Shape
    <3>7. Changed(R)' = {}
        BY <3>5, <3>6 DEF Changed
    <3>8. Lowered(R)'
        BY <3>5, <3>6, <3>7, FS_EmptySet DEF Lowered
    <3>9. pr[R].state # "open"
      <4>1. branch[R] \notin Branches
          BY <1>4, <2>2, ExistingBranches DEF Inv
      <4> QED  BY <1>4, <4>1 DEF Inv, Covered
    <3>10. pr' = [pr EXCEPT ![R] = pr[R]]
        BY <1>4, <2>0 DEF Inv, Shape
    <3> QED
      <4> DEFINE p == pr[R]
      <4>1. p \in {NoPR} \cup PullRequests /\ p.state # "open"
            /\ pr' = [pr EXCEPT ![R] = p]
          BY <1>9, <3>9, <3>10
      <4> HIDE DEF p
      <4>2. /\ Shape' /\ Covered'
            /\ \A r \in RepoNames : branch'[r] \in Branches => Lowered(r)'
            /\ branch'[R] = b /\ pr'[R] = p
            /\ \A r \in RepoNames : r # R => branch'[r] = branch[r] /\ pr'[r] = pr[r]
          BY <1>1, <1>4, <1>6, <2>2, <3>4, <3>8, <4>1, GitHubKept
      <4> QED  BY <3>4, <3>5, <3>7, <4>1, <4>2
  <2> HIDE DEF b
  <2>3. CASE /\ ~branch[R].exists /\ branch' = [branch EXCEPT ![R] = b]
             /\ \E x : opt' = [opt EXCEPT !.phase = "files", !.base = NoBase,
                                          !.files = x]
    <3>1. /\ DOMAIN opt' = DOMAIN opt /\ opt'.phase = "files"
          /\ opt'.base = NoBase
          /\ opt'.next = opt.next /\ opt'.runs = opt.runs
          /\ opt'.total = opt.total /\ opt'.details = opt.details
          /\ opt'.results = opt.results
        BY <1>8, <2>3
    <3>2. Programs'
        BY <1>1, <3>1, NoBaseIsContents DEF Inv, Programs
    <3>3. OptRepo' = R
        BY <1>3, <3>1 DEF OptRepo
    <3>4. Branching'
      <4>1. Eligible(R)
          BY <1>3, <2>0 DEF Inv, Branching
      <4>2. opt'.total = 0 /\ opt'.details = 0
          BY <2>0, <3>1 DEF Inv, Programs
      <4>3. Cardinality(Changed(R)') = 0
          BY <2>2, <2>3, FS_EmptySet
      <4>4. opt'.details <= Cardinality(Changed(R)')
            /\ Cardinality(Changed(R)') <= opt'.total
          BY <4>2, <4>3
      <4> QED  BY <1>1, <2>2, <2>3, <3>1, <3>3, <4>1, <4>4 DEF Branching, Eligible
    <3>5. Resulting'
      <4>1. opt.results[R] = "none"
        <5>1. opt.next \in 1..Len(Repos)
            BY DEF Inv, Programs
        <5> QED  BY <1>3, <2>0, <5>1 DEF Inv, Resulting, OptRepo
      <4>2. \A r \in RepoNames : r # R => branch'[r] = branch[r] /\ pr'[r] = pr[r]
          BY <2>2, <2>3
      <4>3. \A r \in RepoNames : r # R => Changed(r)' = Changed(r)
          BY <1>1, <4>2, SameBranch
      <4> QED  BY <2>0, <3>1, <4>1, <4>2, <4>3 DEF Inv, Resulting
    <3> QED  BY <1>2, <2>2, <2>3, <3>2, <3>4, <3>5 DEF Inv
  <2>4. CASE /\ ~branch[R].exists /\ branch' = [branch EXCEPT ![R] = b]
             /\ Finish("error")
    <3>1. Programs' /\ Branching' /\ Resulting'
        BY <1>1, <1>3, <2>0, <2>2, <2>4, FinishKeeps
    <3> QED  BY <1>2, <2>2, <2>4, <3>1 DEF Inv
  <2>5. CASE UNCHANGED branch /\ Finish("error")
    <3>1. Programs' /\ Branching' /\ Resulting'
        BY <1>1, <1>3, <1>7, <2>0, <2>5, FinishKeeps
    <3> QED  BY <1>2, <1>7, <2>0, <2>5, <3>1 DEF Inv
  <2> QED  BY <2>1, <2>3, <2>4, <2>5
<1>14. ASSUME NEW file \in Files, UpdateFile(file)
       PROVE  Inv'
  <2> DEFINE A == Applied(R, file)
             n == Cardinality(A)
  <2>1. /\ opt.phase = "files"
        /\ DOMAIN opt' = DOMAIN opt /\ opt'.phase = "files"
        /\ opt'.next = opt.next /\ opt'.runs = opt.runs
        /\ opt'.results = opt.results /\ opt'.base = opt.base
        /\ n \in Nat
        /\ \/ /\ branch' = [branch EXCEPT ![R].debug = @ \cup A]
              /\ opt'.total = opt.total + n
              /\ opt'.details \in {opt.details + n, opt.details}
           \/ /\ branch' = branch
              /\ opt'.total \in {opt.total + n, opt.total}
              /\ opt'.details = opt.details
      BY <1>3, <1>14, UpdateEffects
  <2>2. /\ A \subseteq Lines /\ IsFiniteSet(A)
        /\ A \cap branch[R].debug = {}
        /\ \A q \in A : Statement(R, q).log.level = "INFO"
        /\ branch[R].shift = branch[R].asof =>
              \A q \in A : ~Has(Reported(Statement(R, q).log),
                                ErrorKeywords \cup BusinessKeywords)
      BY <1>3, <2>1, AppliedLines
  <2> HIDE DEF A, n
  <2>3. pr' = pr
      BY <1>14 DEF UpdateFile
  <2>4. /\ branch[R] \in Branches /\ branch[R].asof = report[R].shift
        /\ pr[R].state # "open" /\ Eligible(R) /\ Lowered(R)
        /\ opt.details <= Cardinality(Changed(R))
        /\ Cardinality(Changed(R)) <= opt.total
      BY <1>3, <1>4, <2>1 DEF Inv, Branching
  <2>5. Cardinality(Changed(R)) \in Nat /\ opt.total \in Nat /\ opt.details \in Nat
      BY <2>4, FS_CardinalityType DEF Inv, Programs, Lowered
  <2>6. OptRepo' = R
      BY <1>3, <2>1 DEF OptRepo
  <2>7. Programs'
      BY <1>1, <2>1, <2>5 DEF Inv, Programs
  <2>8. /\ Shape' /\ Covered'
        /\ \A r \in RepoNames : branch'[r] \in Branches => Lowered(r)'
        /\ branch'[R] \in Branches /\ branch'[R].asof = report[R].shift
        /\ pr'[R].state # "open"
        /\ opt'.details <= Cardinality(Changed(R)')
        /\ Cardinality(Changed(R)') <= opt'.total
        /\ \A r \in RepoNames : r # R => branch'[r] = branch[r] /\ pr'[r] = pr[r]
    <3>1. CASE /\ branch' = [branch EXCEPT ![R].debug = @ \cup A]
               /\ opt'.total = opt.total + n
               /\ opt'.details \in {opt.details + n, opt.details}
      <4> DEFINE b == [branch[R] EXCEPT !.debug = branch[R].debug \cup A]
                 p == pr[R]
      <4>1. /\ b \in Branches /\ b.debug = branch[R].debug \cup A
            /\ b.base = branch[R].base /\ b.shift = branch[R].shift
            /\ b.asof = branch[R].asof
          BY <2>2, <2>4 DEF Branches
      <4>2. branch' = [branch EXCEPT ![R] = b]
          BY <3>1
      <4>3. /\ p \in {NoPR} \cup PullRequests /\ p.state # "open"
            /\ pr' = [pr EXCEPT ![R] = p]
          BY <1>4, <1>9, <2>3, <2>4 DEF Inv, Shape
      <4> HIDE DEF b, p
      <4>4. branch'[R] = b
          BY <1>4, <4>2 DEF Inv, Shape
      <4>5. Changed(R)' = Changed(R) \cup A /\ Changed(R) \cap A = {}
        <5>1. branch[R].base \subseteq branch[R].debug
            BY <2>4 DEF Lowered
        <5> QED  BY <2>2, <4>1, <4>4, <5>1 DEF Changed
      <4>6. IsFiniteSet(Changed(R)) /\ IsFiniteSet(Changed(R)')
        <5>1. IsFiniteSet(Changed(R))
            BY <2>4 DEF Lowered
        <5> QED  BY <2>2, <4>5, <5>1, FS_Union
      <4>7. Cardinality(Changed(R)') = Cardinality(Changed(R)) + n
        <5>1. Cardinality(Changed(R) \cup A) =
                 Cardinality(Changed(R)) + Cardinality(A) - Cardinality(Changed(R) \cap A)
            BY <2>2, <4>6, FS_Union
        <5>2. Cardinality(Changed(R) \cap A) = 0
            BY <4>5, FS_EmptySet
        <5> QED  BY <2>1, <2>5, <4>5, <5>1, <5>2 DEF n
      <4>8. /\ opt'.details <= Cardinality(Changed(R)')
            /\ Cardinality(Changed(R)') <= opt'.total
          BY <2>1, <2>4, <2>5, <3>1, <4>7
      <4>9. Lowered(R)'
        <5>1. \A q : Statement(R, q)' = Statement(R, q)
            BY <1>1 DEF Statement
        <5>2. branch'[R].base \subseteq branch'[R].debug
            BY <2>4, <4>1, <4>4 DEF Lowered
        <5>3. \A q \in Changed(R)' : Statement(R, q)'.log.level = "INFO"
            BY <2>2, <2>4, <4>5, <5>1 DEF Lowered
        <5>4. branch'[R].shift = branch'[R].asof =>
                 \A q \in Changed(R)' : ~Has(Reported(Statement(R, q)'.log),
                                             ErrorKeywords \cup BusinessKeywords)
            BY <2>2, <2>4, <4>1, <4>4, <4>5, <5>1 DEF Lowered
        <5> QED  BY <4>6, <5>2, <5>3, <5>4 DEF Lowered
      <4>10. /\ Shape' /\ Covered'
             /\ \A r \in RepoNames : branch'[r] \in Branches => Lowered(r)'
             /\ branch'[R] = b /\ pr'[R] = p
             /\ \A r \in RepoNames : r # R => branch'[r] = branch[r] /\ pr'[r] = pr[r]
          BY <1>1, <1>4, <1>6, <4>1, <4>2, <4>3, <4>9, GitHubKept
      <4> QED  BY <2>4, <4>1, <4>3, <4>8, <4>10
    <3>2. CASE /\ branch' = branch
               /\ opt'.total \in {opt.total + n, opt.total}
               /\ opt'.details = opt.details
      <4>1. Changed(R)' = Changed(R)
          BY <1>7, <2>3, <3>2
      <4>2. /\ opt'.details <= Cardinality(Changed(R)')
            /\ Cardinality(Changed(R)') <= opt'.total
          BY <2>1, <2>4, <2>5, <3>2, <4>1
      <4> QED  BY <1>7, <2>3, <2>4, <3>2, <4>2
    <3> QED  BY <2>1, <3>1, <3>2
  <2>9. Branching'
      BY <1>1, <2>1, <2>4, <2>6, <2>8 DEF Branching, Eligible
  <2>10. Resulting'
    <3>1. opt.results[R] = "none"
      <4>1. opt.next \in 1..Len(Repos)
          BY DEF Inv, Programs
      <4> QED  BY <1>3, <2>1, <4>1 DEF Inv, Resulting, OptRepo
    <3>2. \A r \in RepoNames : r # R => Changed(r)' = Changed(r)
        BY <1>1, <2>8, SameBranch
    <3> QED  BY <2>1, <2>8, <3>1, <3>2 DEF Inv, Resulting
  <2> QED  BY <1>2, <2>7, <2>8, <2>9, <2>10 DEF Inv
<1>15. CASE CreatePR
  <2>0. opt.phase = "files" /\ branch' = branch
      BY <1>15 DEF CreatePR
  <2>1. /\ branch[R] \in Branches /\ pr[R].state # "open" /\ Lowered(R)
        /\ opt.details <= Cardinality(Changed(R))
        /\ Cardinality(Changed(R)) <= opt.total
      BY <1>3, <1>4, <2>0 DEF Inv, Branching
  <2>2. IsFiniteSet(Changed(R)) /\ Cardinality(Changed(R)) \in Nat
      BY <2>1, FS_CardinalityType DEF Lowered
  <2> DEFINE p == [state |-> "open", claimed |-> opt.total,
                   listed |-> opt.details, run |-> opt.runs]
  <2>3. CASE opt.total = 0 /\ Finish("no_changes") /\ UNCHANGED pr
    <3>1. Cardinality(Changed(R)) = 0
        BY <2>1, <2>2, <2>3
    <3>2. Changed(R) = {}
        BY <2>2, <3>1, FS_EmptySet
    <3>3. branch'[R] \in Branches /\ Changed(R)' = {}
        BY <1>7, <2>0, <2>1, <2>3, <3>2
    <3>4. Programs' /\ Branching' /\ Resulting'
        BY <1>1, <1>3, <1>7, <2>0, <2>3, <3>3, FinishKeeps
    <3> QED  BY <1>2, <1>7, <2>0, <2>3, <3>4 DEF Inv
  <2>4. ASSUME pr' = [pr EXCEPT ![R] = p],
               NEW result \in {"success", "pr_failed"}, Finish(result)
        PROVE  Inv'
    <3>1. p \in {NoPR} \cup PullRequests
        BY DEF Inv, Programs, PullRequests
    <3>2. /\ p.state = "open" /\ p.run = opt.runs
          /\ p.listed = opt.details /\ p.claimed = opt.total
        OBVIOUS
    <3> HIDE DEF p
    <3>3. branch' = [branch EXCEPT ![R] = branch[R]]
        BY <1>4, <2>0 DEF Inv, Shape
    <3>4. Changed(R)' = Changed(R) /\ Lowered(R)'
        BY <1>1, <2>0, <2>1, SameBranch
    <3>5. /\ Shape' /\ Covered'
          /\ \A r \in RepoNames : branch'[r] \in Branches => Lowered(r)'
          /\ pr'[R] = p
          /\ \A r \in RepoNames : r # R => branch'[r] = branch[r] /\ pr'[r] = pr[r]
      <4> DEFINE b == branch[R]
      <4>1. b \in Branches /\ branch' = [branch EXCEPT ![R] = b]
          BY <2>1, <3>3
      <4>2. p.listed <= Cardinality(Changed(R)') /\ Cardinality(Changed(R)') <= p.claimed
          BY <2>1, <3>2, <3>4
      <4>3. pr' = [pr EXCEPT ![R] = p] /\ source' = source /\ b \in {NoBranch} \cup Branches
          BY <1>1, <2>4, <4>1
      <4> HIDE DEF b
      <4>4. /\ Shape' /\ Covered'
            /\ \A r \in RepoNames : branch'[r] \in Branches => Lowered(r)'
            /\ branch'[R] = b /\ pr'[R] = p
            /\ \A r \in RepoNames : r # R => branch'[r] = branch[r] /\ pr'[r] = pr[r]
          BY <1>4, <1>6, <3>1, <3>4, <4>1, <4>2, <4>3, GitHubKept
      <4> QED  BY <4>4
    <3>6. Programs' /\ Branching' /\ Resulting'
        BY <1>1, <1>3, <2>0, <2>4, <3>2, <3>5, FinishKeeps
    <3> QED  BY <1>2, <3>5, <3>6 DEF Inv
  <2>5. CASE Finish("pr_failed") /\ UNCHANGED pr
    <3>1. Programs' /\ Branching' /\ Resulting'
        BY <1>1, <1>3, <1>7, <2>0, <2>5, FinishKeeps
    <3> QED  BY <1>2, <1>7, <2>0, <2>5, <3>1 DEF Inv
  <2> QED  BY <1>3, <1>15, <2>3, <2>4, <2>5 DEF CreatePR
<1>16. CASE WriteResults
  <2>1. /\ opt.phase = "results" /\ opt' = [opt EXCEPT !.phase = "idle"]
        /\ UNCHANGED <<branch, pr>>
      BY <1>16 DEF WriteResults
  <2>2. /\ DOMAIN opt' = DOMAIN opt /\ opt'.phase = "idle"
        /\ opt'.base = opt.base
        /\ opt'.next = opt.next /\ opt'.runs = opt.runs
        /\ opt'.total = opt.total /\ opt'.details = opt.details
        /\ opt'.results = opt.results
      BY <1>8, <2>1
  <2>3. Programs'
      BY <1>1, <2>1, <2>2 DEF Inv, Programs
  <2>4. Branching'
      BY <1>7, <2>1, <2>2 DEF Branching
  <2>5. Resulting'
      BY <1>7, <2>1, <2>2 DEF Inv, Resulting
  <2> QED  BY <1>2, <1>7, <2>1, <2>3, <2>4, <2>5 DEF Inv
<1> QED  BY <1>10, <1>11, <1>12, <1>13, <1>14, <1>15, <1>16 DEF OptStep

-----------------------------------------------------------------------------
(* So do the developers: they move the default branch and merge, and what  *)
(* the tool put on its branch stays.                                       *)
LEMMA DevNext ==
    ASSUME Inv, Developers
    PROVE  Inv'
<1>1. PICK r \in Moving : CommitToMain(r) \/ MergePR(r)
    BY DEF Developers
<1>2. r \in RepoNames
    BY OptimizerAssumption DEF RepoNames
<1>3. UNCHANGED <<source, measured, keep_dir, branch, clones, report, batch, opt>>
    BY <1>1 DEF CommitToMain, MergePR
<1>4. Programs' /\ Entries' /\ Cloned'
  <2>1. Programs'
      BY <1>3 DEF Inv, Programs
  <2>2. Entries'
      BY <1>3 DEF Inv, Entries, EntryOK, AboutStatement, Statement
  <2>3. Cloned'
      BY <1>3 DEF Inv, Cloned, Fresh, BatchRepo
  <2> QED  BY <2>1, <2>2, <2>3
<1>5. \A x : Changed(x)' = Changed(x) /\ (Lowered(x) => Lowered(x)')
    BY <1>3, SameBranch
<1>6. main \in [RepoNames -> Contents] /\ main[r] \in Contents
    BY <1>2 DEF Inv, Shape
<1>7. OptRepo' = OptRepo /\ OptRepo \in RepoNames
    BY <1>3, RunningRepos DEF Inv, OptRepo
<1>8. CASE CommitToMain(r)
  <2>1. pr' = pr /\ main' = [main EXCEPT ![r].shift = @ + 1]
      BY <1>8 DEF CommitToMain
  <2>2. [main[r] EXCEPT !.shift = main[r].shift + 1] \in Contents
      BY <1>6 DEF Contents
  <2>3. main' \in [RepoNames -> Contents]
      BY <1>2, <1>6, <2>1, <2>2
  <2>4. Shape'
      BY <1>3, <2>1, <2>3 DEF Inv, Shape
  <2>5. Branching' /\ Covered' /\ Resulting'
    <3>1. Branching'
        BY <1>3, <1>5, <1>7, <2>1 DEF Inv, Branching, Eligible, Changed
    <3>2. Covered'
        BY <1>3, <1>5, <2>1 DEF Inv, Covered
    <3>3. Resulting'
        BY <1>3, <1>5, <2>1 DEF Inv, Resulting
    <3> QED  BY <3>1, <3>2, <3>3
  <2> QED  BY <1>4, <2>4, <2>5 DEF Inv
<1>9. CASE MergePR(r)
  <2>1. /\ pr[r].state = "open"
        /\ main' = [main EXCEPT ![r].debug = @ \cup branch[r].debug]
        /\ pr' = [pr EXCEPT ![r].state = "merged"]
      BY <1>9 DEF MergePR
  <2>2. branch[r] \in Branches
      BY <1>2, <2>1 DEF Inv, Covered
  <2>3. [main[r] EXCEPT !.debug = main[r].debug \cup branch[r].debug] \in Contents
      BY <1>6, <2>2 DEF Contents, Branches
  <2>4. main' \in [RepoNames -> Contents]
      BY <1>2, <1>6, <2>1, <2>3
  <2>5. pr \in [RepoNames -> {NoPR} \cup PullRequests] /\ pr[r] \in PullRequests
      BY <1>2, <2>1 DEF Inv, Shape, NoPR
  <2> DEFINE p == [pr[r] EXCEPT !.state = "merged"]
  <2>6. p \in PullRequests /\ p.state = "merged" /\ p.run = pr[r].run
      BY <2>5 DEF PullRequests
  <2>7. pr' = [pr EXCEPT ![r] = p]
      BY <2>1
  <2> HIDE DEF p
  <2>8. /\ pr' \in [RepoNames -> {NoPR} \cup PullRequests]
        /\ pr'[r] = p /\ \A x \in RepoNames : x # r => pr'[x] = pr[x]
      BY <1>2, <2>5, <2>6, <2>7
  <2>9. Shape'
      BY <1>3, <2>4, <2>8 DEF Inv, Shape
  <2>10. Covered'
      BY <1>3, <1>5, <2>6, <2>8 DEF Inv, Covered
  <2>11. Branching'
    <3>1. pr[OptRepo].state # "open" => pr'[OptRepo].state # "open"
        BY <1>7, <2>6, <2>8
    <3> QED  BY <1>3, <1>5, <1>7, <3>1 DEF Inv, Branching, Eligible, Changed
  <2>12. Resulting'
      BY <1>3, <1>5, <2>6, <2>8 DEF Inv, Resulting
  <2> QED  BY <1>4, <2>9, <2>10, <2>11, <2>12 DEF Inv
<1> QED  BY <1>1, <1>8, <1>9

(* The invariant holds of every reachable state.                           *)
LEMMA InvHolds == Spec => []Inv
<1>1. Inv /\ [Next]_vars => Inv'
  <2> SUFFICES ASSUME Inv, [Next]_vars  PROVE Inv'
      OBVIOUS
  <2>1. CASE BatchStep
      BY <2>1, BatchNext
  <2>2. CASE OptStep
      BY <2>2, OptNext
  <2>3. CASE Developers
      BY <2>3, DevNext
  <2>4. CASE UNCHANGED vars
    <3>1. Shape' /\ Programs'
        BY <2>4 DEF vars, Inv, Shape, Programs
    <3>2. Entries' /\ Cloned'
        BY <2>4 DEF vars, Inv, Entries, EntryOK, AboutStatement, Statement, Cloned,
                    Fresh, BatchRepo
    <3>3. \A x : Changed(x)' = Changed(x) /\ (Lowered(x) => Lowered(x)')
        BY <2>4, SameBranch DEF vars
    <3>4. Branching'
        BY <2>4, <3>3 DEF vars, Inv, Branching, Eligible, Changed, OptRepo
    <3>5. Covered' /\ Resulting'
        BY <2>4, <3>3 DEF vars, Inv, Covered, Resulting
    <3> QED  BY <3>1, <3>2, <3>4, <3>5 DEF Inv
  <2> QED  BY <2>1, <2>2, <2>3, <2>4 DEF Next, BatchStep, OptStep
<1> QED  BY <1>1, InvInit, PTL DEF Spec

(* Whatever developers commit between analysis and commit, and whichever   *)
(* calls fail, the tool only ever turns Info calls into Debug calls, in any*)
(* repositories, files and languages (github_api_prs.py                    *)
(* apply_log_optimization).                                                *)
THEOREM OnlyInfoChangedHolds == Spec => []OnlyInfoChanged
<1>1. Inv => OnlyInfoChanged
    BY ExistingBranches DEF Inv, Branching, Lowered, OnlyInfoChanged
<1> QED  BY <1>1, InvHolds, PTL

(* In a file that is still the one analysed no statement is changed that   *)
(* tells of an error or of a business event within the hundred characters  *)
(* batch_analyze.py reports, whatever frequency production data give it    *)
(* (decision_engine.py, process_repo_via_api).                             *)
THEOREM ShieldedStatementsKeptHolds == Spec => []ShieldedStatementsKept
<1>1. Inv => ShieldedStatementsKept
    BY ExistingBranches DEF Inv, Branching, Lowered, ShieldedStatementsKept
<1> QED  BY <1>1, InvHolds, PTL

(* A pull request claims at least, and lists at most, what its branch      *)
(* holds, whichever reads and commits failed (process_repo_via_api).       *)
THEOREM ClaimsCoverCommitsHolds == Spec => []ClaimsCoverCommits
<1>1. Inv => ClaimsCoverCommits
    BY ExistingBranches DEF Inv, Covered, ClaimsCoverCommits
<1> QED  BY <1>1, InvHolds, PTL

(* "success" has an open or merged pull request of this run, and           *)
(* "no_changes" a branch without commits (process_repo_via_api).           *)
THEOREM ResultsTrueHolds == Spec => []ResultsTrue
<1>1. Inv => ResultsTrue
    BY ExistingBranches DEF Inv, Resulting, ResultsTrue
<1> QED  BY <1>1, InvHolds, PTL

(* Without --clone-dir no incomplete clone, of this run or of an earlier   *)
(* one, is reported as analysed or as without logs (batch_analyze.py       *)
(* clone_repo).                                                            *)
THEOREM ReportsWholeReposHolds == Spec => []ReportsWholeRepos
<1>1. Inv => ReportsWholeRepos
    BY DEF Inv, Entries, EntryOK, ReportsWholeRepos
<1> QED  BY <1>1, InvHolds, PTL

=============================================================================
