---------------------------- MODULE LogOptimizer ----------------------------
(***************************************************************************)
(* The two programs of the log-volume-optimizer tool over the GitHub       *)
(* repositories they work on: batch_analyze.py clones the repositories,    *)
(* analyses them and writes a report; github_api_prs.py reads the report   *)
(* and, repository by repository, makes a branch, commits the changes file *)
(* by file and opens a pull request.  Every call to git and to GitHub may  *)
(* fail, some after having taken effect; developers go on committing to    *)
(* the default branch and merge pull requests in the meantime.             *)
(*                                                                         *)
(* A source file is the sequence of its statements.  The content of a      *)
(* branch is the number of lines developers have since inserted at the     *)
(* top of the files (shift) and the places whose call has been made Debug. *)
(***************************************************************************)
EXTENDS LogDecisions, TLC

CONSTANTS
    Repos,      \* a sequence: the repositories, in the order of --repos, each
                \* once; without any the programs end at once
    Files,      \* the files of a repository
    LanguageOf, \* the language of a file, by its extension
    Sources,    \* the code a repository may hold: [Repos -> [Files -> Seq]]
    Checkouts,  \* what a killed clone may leave: sets of files
    Measured,   \* frequencies production data may hold, 0 when none matches
    MaxShift,   \* bound: commits of developers to a default branch
    Moving,     \* bound: the repositories developers work on meanwhile
    MaxRuns     \* bound: runs of the two programs, in any order

ASSUME OptimizerAssumption ==
    /\ Len(Repos) \in Nat \ {0}
    /\ \A i, j \in 1..Len(Repos) : Repos[i] = Repos[j] => i = j
    /\ Checkouts \subseteq SUBSET Files
    /\ MaxShift \in Nat /\ MaxRuns \in Nat
    /\ Measured \subseteq Nat /\ Moving \subseteq {Repos[i] : i \in 1..Len(Repos)}

RepoNames == {Repos[i] : i \in 1..Len(Repos)}

VARIABLES
    source,     \* the code, a statement being [log, call]
    measured,   \* daily frequency found for any message in production data
    keep_dir,   \* --clone-dir: clones are kept from one run to the next
    main,       \* the default branches
    branch,     \* the branches of the tool
    pr,         \* their pull requests
    clones,     \* what stands in the clone directory
    report,     \* the JSON report of the last finished analysis
    batch,      \* batch_analyze.py
    opt         \* github_api_prs.py

github == <<main, branch, pr>>
vars == <<source, measured, keep_dir, main, branch, pr, clones, report,
          batch, opt>>

NoBranch == [exists |-> FALSE]
NoPR == [state |-> "none"]
NoEntry == [status |-> "none"]
NoClone == [state |-> "none"]
NoBase == [shift |-> 0, debug |-> {}]

Init ==
    /\ source \in Sources
    /\ measured \in Measured
    /\ keep_dir \in BOOLEAN
    /\ main = [r \in RepoNames |-> [shift |-> 0, debug |-> {}]]
    /\ branch = [r \in RepoNames |-> NoBranch]
    /\ pr = [r \in RepoNames |-> NoPR]
    /\ clones = [r \in RepoNames |-> NoClone]
    /\ report = [r \in RepoNames |-> NoEntry]
    /\ batch = [phase |-> "idle", next |-> 1, runs |-> 0,
                analyses |-> [r \in RepoNames |-> NoEntry]]
    /\ opt = [phase |-> "idle", next |-> 1, runs |-> 0, base |-> NoBase,
              files |-> {}, total |-> 0, details |-> 0,
              results |-> [r \in RepoNames |-> "none"]]

-----------------------------------------------------------------------------
(* batch_analyze.py.                                                       *)

StartBatch ==
    /\ batch.phase = "idle" /\ opt.phase = "idle"
    /\ batch.runs + opt.runs < MaxRuns
    /\ \E phase \in {"clone", "idle"} :  \* idle: gh lists no repository
           batch' = [batch EXCEPT !.phase = phase, !.runs = @ + 1]
    /\ UNCHANGED <<source, measured, keep_dir, main, branch, pr, clones,
                   report, opt>>

BatchRepo == Repos[batch.next]

\* The entry of a repository, and on to the next one or to the reports.
Analysed(entry) ==
    batch' = [batch EXCEPT
        !.analyses[BatchRepo] = entry,
        !.phase = IF batch.next = Len(Repos) THEN "write" ELSE "clone",
        !.next = IF batch.next = Len(Repos) THEN 1 ELSE batch.next + 1]

\* What a clone brings: the default branch as it is, in these files.
CloneOf(state, files) ==
    [state |-> state, files |-> files, shift |-> main[BatchRepo].shift,
     debug |-> main[BatchRepo].debug]

\* A clone that fails leaves no directory, one that is killed by its timeout
\* an incomplete one, with the files checked out by then.
LeftByFailure ==
    {NoClone} \cup {CloneOf("partial", files) : files \in Checkouts}

\* A directory that is already there is taken for a clone.
CloneRepo ==
    /\ batch.phase = "clone"
    /\ \/ /\ IF clones[BatchRepo] # NoClone THEN UNCHANGED clones
             ELSE clones' = [clones EXCEPT ![BatchRepo] =
                                CloneOf("whole", Files)]
          /\ batch' = [batch EXCEPT !.phase = "analyze"]
       \/ /\ clones[BatchRepo] = NoClone
          /\ \E left \in LeftByFailure :
                 clones' = [clones EXCEPT ![BatchRepo] = left]
          /\ Analysed([status |-> "error"])
    /\ UNCHANGED <<source, measured, keep_dir, main, branch, pr, report, opt>>

\* detect_language: the one most files are of; of several, the first listed.
DetectLanguage(present) ==
    LET languages == <<"go", "php", "typescript", "python">>
        files(i) == Cardinality({f \in present : LanguageOf[f] = languages[i]})
        most == CHOOSE i \in 1..4 :
                    /\ \A j \in 1..4 : files(j) <= files(i)
                    /\ \A j \in 1..i - 1 : files(j) < files(i)
    IN  languages[most]

\* Where a repository has statements.
Places(r) == UNION {{f} \X (1..Len(source[r][f])) : f \in Files}

\* The log statements found at the lines of a clone, in the files of its
\* language.
Scanned(r, clone) ==
    {[file |-> p[1], line |-> p[2] + clone.shift,
      log |-> LET log == source[r][p[1]][p[2]].log
              IN  IF p \in clone.debug THEN [log EXCEPT !.level = "DEBUG"]
                  ELSE log] :
     p \in {q \in Places(r) :
               /\ q[1] \in clone.files
               /\ LanguageOf[q[1]] = DetectLanguage(clone.files)}}

Recommendations(found) ==
    {[file |-> s.file, line |-> s.line, rec |-> Recommendation(s.log)] :
     s \in {t \in found : AssessOptimization(t.log) \in Recommended}}

\* analyze_repo: the statements found and recommendations for those with a
\* potential worth one, or an exception.
AnalyzeRepo ==
    /\ batch.phase = "analyze"
    /\ LET clone == clones[BatchRepo]
           found == Scanned(BatchRepo, clone)
       IN  \/ Analysed([status |-> "error"])
           \/ Analysed([status |-> IF found = {} THEN "skipped"
                                   ELSE "analyzed",
                        recs |-> Recommendations(found),
                        shift |-> clone.shift,
                        whole |-> clone.state = "whole"])
    /\ UNCHANGED <<source, measured, keep_dir, main, branch, pr, clones,
                   report, opt>>

\* Mutant: the temporary directory is left, and found by the next run.
EndBatchKeepsClones ==
    /\ batch' = [batch EXCEPT !.phase = "idle", !.next = 1,
                    !.analyses = [r \in RepoNames |-> NoEntry]]
    /\ UNCHANGED clones

\* The end of a run, its finally clause: without --clone-dir the clones stood
\* in a temporary directory, which is removed.
EndBatch ==
    /\ batch' = [batch EXCEPT !.phase = "idle", !.next = 1,
                    !.analyses = [r \in RepoNames |-> NoEntry]]
    /\ clones' = IF keep_dir THEN clones
                 ELSE [r \in RepoNames |-> NoClone]

WriteReports ==
    /\ batch.phase = "write"
    /\ report' = batch.analyses
    /\ EndBatch
    /\ UNCHANGED <<source, measured, keep_dir, main, branch, pr, opt>>

\* The program is interrupted: no report is written.
InterruptBatch ==
    /\ batch.phase # "idle"
    /\ EndBatch
    /\ UNCHANGED <<source, measured, keep_dir, main, branch, pr, report, opt>>

-----------------------------------------------------------------------------
(* github_api_prs.py.                                                      *)

\* The calls that have a Debug form the tool knows, by language.
DebugCall ==
    [go |-> ("Info(" :> "Debug(") @@ ("Infow(" :> "Debugw("),
     php |-> ("Log::info(" :> "Log::debug(") @@ ("->info(" :> "->debug("),
     typescript |-> ("console.log(" :> "console.debug(")
                    @@ ("console.info(" :> "console.debug(")
                    @@ ("logger.info(" :> "logger.debug("),
     python |-> ("logging.info(" :> "logging.debug(")
                @@ ("logger.info(" :> "logger.debug(")
                @@ ("log.info(" :> "log.debug(")]

\* The scanner reads INFO off every call that has a Debug form.
ASSUME SourcesAssumption ==
    \A code \in Sources, r \in RepoNames, f \in Files :
        /\ Len(code[r][f]) \in Nat
        /\ \A i \in 1..Len(code[r][f]) :
              /\ code[r][f][i].log \in LogStatement
              /\ code[r][f][i].call \in DOMAIN DebugCall[LanguageOf[f]] =>
                     code[r][f][i].log.level = "INFO"

\* Mutant: any call that is not already Debug is lowered.
ApplyToAnyCall(call, language, action) ==
    IF action \in {"DOWNGRADE_TO_DEBUG", "SAMPLE"} THEN "Debug(" ELSE call

\* apply_log_optimization: the line's call after an action.
Apply(call, language, action) ==
    CASE action = "REMOVE" -> "// " \o call
      [] action \in {"DOWNGRADE_TO_DEBUG", "SAMPLE"}
         /\ call \in DOMAIN DebugCall[language] -> DebugCall[language][call]
      [] OTHER -> call

\* validate_change: an Info call has become a Debug call, a removed line a
\* comment (the brackets of a line balance as before either way).
Valid(call, new, language, action) ==
    /\ new # call
    /\ /\ action \in {"DOWNGRADE_TO_DEBUG", "SAMPLE"}
       /\ call \in DOMAIN DebugCall[language]
       => new = DebugCall[language][call]
    /\ action = "REMOVE" => new = "// " \o call

Statement(r, p) == source[r][p[1]][p[2]]

\* The recommendations of a repository whose decision is acted upon.
ToChange(r) ==
    {c \in report[r].recs :
        DecideActionForLog(c.rec, measured) \in Actionable}

\* The call at a place of the file is one that the tool rewrites and whose
\* rewriting it accepts.
Rewritten(r, p, action) ==
    LET call == Statement(r, p).call
        language == LanguageOf[p[1]]
    IN  Valid(call, Apply(call, language, action), language, action)

\* The places of a file that the recommended line numbers now fall on and
\* whose line is changed.
Applied(r, file) ==
    {p \in {file} \X (1..Len(source[r][file])) :
        /\ p \notin branch[r].debug
        /\ \E c \in ToChange(r) :
               /\ c.file = file /\ c.line = p[2] + branch[r].shift
               /\ Rewritten(r, p, DecideActionForLog(c.rec, measured))}

Eligible(r) == report[r].status = "analyzed" /\ report[r].recs # {}

OptRepo == Repos[opt.next]

StartPRs ==
    /\ opt.phase = "idle" /\ batch.phase = "idle"
    /\ batch.runs + opt.runs < MaxRuns
    /\ \E r \in RepoNames : report[r] # NoEntry
    /\ opt' = [phase |-> "base", next |-> 1, runs |-> opt.runs + 1,
               base |-> NoBase, files |-> {}, total |-> 0, details |-> 0,
               results |-> [r \in RepoNames |-> "none"]]
    /\ UNCHANGED <<source, measured, keep_dir, main, branch, pr, clones,
                   report, batch>>

\* The result of a repository, and on to the next one or to the results file.
Finish(result) ==
    opt' = [opt EXCEPT
        !.results[OptRepo] = result,
        !.phase = IF opt.next = Len(Repos) THEN "results" ELSE "base",
        !.next = IF opt.next = Len(Repos) THEN 1 ELSE opt.next + 1,
        !.base = NoBase, !.files = {}, !.total = 0, !.details = 0]

\* The head of the default branch is read, or this is the end of this
\* repository.
GetBase ==
    /\ opt.phase = "base"
    /\ \/ ~Eligible(OptRepo) /\ Finish("none")
       \/ /\ Eligible(OptRepo)
          /\ \/ opt' = [opt EXCEPT !.phase = "delete",
                                   !.base = main[OptRepo]]
             \/ Finish("error")
    /\ UNCHANGED <<source, measured, keep_dir, main, branch, pr, clones,
                   report, batch>>

Closed(p) == IF p.state = "open" THEN [p EXCEPT !.state = "closed"] ELSE p

\* create_branch first deletes the branch of an earlier run, whatever comes
\* of it; GitHub closes the pull request of a branch that is deleted.
DeleteOldBranch ==
    /\ opt.phase = "delete"
    /\ opt' = [opt EXCEPT !.phase = "create"]
    /\ \/ /\ branch' = [branch EXCEPT ![OptRepo] = NoBranch]
          /\ pr' = [pr EXCEPT ![OptRepo] = Closed(@)]
       \/ UNCHANGED <<branch, pr>>
    /\ UNCHANGED <<source, measured, keep_dir, main, clones, report, batch>>

\* The timeout of that deletion is not caught: it ends the program.  The
\* deletion itself may have been done.
DeleteTimesOut ==
    /\ opt.phase = "delete"
    /\ opt' = [opt EXCEPT !.phase = "idle", !.base = NoBase,
                          !.results = [r \in RepoNames |-> "none"]]
    /\ \/ /\ branch' = [branch EXCEPT ![OptRepo] = NoBranch]
          /\ pr' = [pr EXCEPT ![OptRepo] = Closed(@)]
       \/ UNCHANGED <<branch, pr>>
    /\ UNCHANGED <<source, measured, keep_dir, main, clones, report, batch>>

\* The tool's branch as it is made: at the head of the default branch that was
\* read before the old branch was deleted.
NewBranch ==
    [exists |-> TRUE, shift |-> opt.base.shift, base |-> opt.base.debug,
     debug |-> opt.base.debug, asof |-> report[OptRepo].shift]

ToFiles ==
    opt' = [opt EXCEPT !.phase = "files", !.base = NoBase,
               !.files = {c.file : c \in ToChange(OptRepo)}]

\* Mutant: a branch that is still there is used as it is.
CreateBranchOrReuse ==
    /\ opt.phase = "create"
    /\ branch' = IF branch[OptRepo].exists THEN branch
                 ELSE [branch EXCEPT ![OptRepo] = NewBranch]
    /\ ToFiles
    /\ UNCHANGED <<source, measured, keep_dir, main, pr, clones, report,
                   batch>>

\* A branch that is still there makes the call fail, and the call may fail
\* after its effect.
CreateBranch ==
    /\ opt.phase = "create"
    /\ \/ /\ ~branch[OptRepo].exists
          /\ branch' = [branch EXCEPT ![OptRepo] = NewBranch]
          /\ ToFiles \/ Finish("error")
       \/ UNCHANGED branch /\ Finish("error")
    /\ UNCHANGED <<source, measured, keep_dir, main, pr, clones, report,
                   batch>>

\* One file: read it, rewrite its lines, commit it.  The changes are counted
\* when they are made, the details only when the commit is reported done.
UpdateFile(file) ==
    LET changed == Applied(OptRepo, file)
        n == Cardinality(changed)
        committed(done, reported) ==
            /\ branch' = IF done THEN [branch EXCEPT ![OptRepo].debug =
                                                        @ \cup changed]
                         ELSE branch
            /\ opt' = [opt EXCEPT !.files = @ \ {file}, !.total = @ + n,
                           !.details = IF reported THEN @ + n ELSE @]
    IN  /\ opt.phase = "files" /\ file \in opt.files
        /\ \/ committed(TRUE, TRUE)
           \/ n > 0 /\ committed(TRUE, FALSE)
           \/ n > 0 /\ committed(FALSE, FALSE)
           \/ /\ opt' = [opt EXCEPT !.files = @ \ {file}]  \* not readable
              /\ UNCHANGED branch
        /\ UNCHANGED <<source, measured, keep_dir, main, pr, clones, report,
                       batch>>

\* Mutant: the changes listed, not those counted, tell whether there are any.
CreatePRByDetails ==
    /\ opt.phase = "files" /\ opt.files = {}
    /\ \/ opt.details = 0 /\ Finish("no_changes") /\ UNCHANGED pr
       \/ /\ opt.details > 0
          /\ pr' = [pr EXCEPT ![OptRepo] =
                [state |-> "open", claimed |-> opt.total,
                 listed |-> opt.details, run |-> opt.runs]]
          /\ Finish("success")
    /\ UNCHANGED <<source, measured, keep_dir, main, branch, clones, report,
                   batch>>

\* A pull request needs a commit and claims the changes that were counted.
CreatePR ==
    /\ opt.phase = "files" /\ opt.files = {}
    /\ \/ opt.total = 0 /\ Finish("no_changes") /\ UNCHANGED pr
       \/ /\ opt.total > 0
          /\ branch[OptRepo].debug # branch[OptRepo].base
          /\ pr' = [pr EXCEPT ![OptRepo] =
                [state |-> "open", claimed |-> opt.total,
                 listed |-> opt.details, run |-> opt.runs]]
          /\ \E result \in {"success", "pr_failed"} : Finish(result)
       \/ opt.total > 0 /\ Finish("pr_failed") /\ UNCHANGED pr
    /\ UNCHANGED <<source, measured, keep_dir, main, branch, clones, report,
                   batch>>

WriteResults ==
    /\ opt.phase = "results"
    /\ opt' = [opt EXCEPT !.phase = "idle"]
    /\ UNCHANGED <<source, measured, keep_dir, main, branch, pr, clones,
                   report, batch>>

-----------------------------------------------------------------------------
(* Developers.                                                             *)

CommitToMain(r) ==
    /\ main[r].shift < MaxShift
    /\ main' = [main EXCEPT ![r].shift = @ + 1]
    /\ UNCHANGED <<source, measured, keep_dir, branch, pr, clones, report,
                   batch, opt>>

MergePR(r) ==
    /\ pr[r].state = "open"
    /\ main' = [main EXCEPT ![r].debug = @ \cup branch[r].debug]
    /\ pr' = [pr EXCEPT ![r].state = "merged"]
    /\ UNCHANGED <<source, measured, keep_dir, branch, clones, report, batch,
                   opt>>

Developers == \E r \in Moving : CommitToMain(r) \/ MergePR(r)

Next ==
    \/ StartBatch \/ CloneRepo \/ AnalyzeRepo \/ WriteReports \/ InterruptBatch
    \/ StartPRs \/ GetBase \/ DeleteOldBranch \/ DeleteTimesOut
    \/ CreateBranch \/ (\E file \in Files : UpdateFile(file)) \/ CreatePR
    \/ WriteResults
    \/ Developers

Spec == Init /\ [][Next]_vars

-----------------------------------------------------------------------------
(* Properties.                                                             *)

\* The statements the tool's branch changes.
Changed(r) == branch[r].debug \ branch[r].base

\* Whatever developers committed since the analysis, the tool only ever turns
\* Info calls into Debug calls: a warning or an error keeps its level.
OnlyInfoChanged ==
    \A r \in RepoNames : branch[r].exists =>
        \A p \in Changed(r) : Statement(r, p).log.level = "INFO"

\* As long as the file is the one that was analysed, no statement is changed
\* whose message tells of an error or of a business event within the hundred
\* characters that are reported, whatever its frequency.
ShieldedStatementsKept ==
    \A r \in RepoNames :
        branch[r].exists /\ branch[r].shift = branch[r].asof =>
            \A p \in Changed(r) : ~Has(Reported(Statement(r, p).log),
                                      ErrorKeywords \cup BusinessKeywords)

\* A pull request never claims fewer changes than its branch holds, and never
\* lists a change it does not hold, whichever calls failed on the way.
ClaimsCoverCommits ==
    \A r \in RepoNames : pr[r].state = "open" =>
        /\ branch[r].exists
        /\ pr[r].listed <= Cardinality(Changed(r))
        /\ Cardinality(Changed(r)) <= pr[r].claimed

\* The results of the current run are true of GitHub: "success" has its pull
\* request, of this run, and "no_changes" left a branch without commits.
ResultsTrue ==
    \A r \in RepoNames :
        /\ opt.results[r] = "success" =>
               pr[r].state \in {"open", "merged"} /\ pr[r].run = opt.runs
        /\ opt.results[r] = "no_changes" =>
               branch[r].exists /\ Changed(r) = {}

\* With a temporary clone directory a repository reported as analysed or as
\* without logs was there as a whole, however earlier runs ended.
ReportsWholeRepos ==
    ~keep_dir => \A r \in RepoNames :
        report[r].status \in {"analyzed", "skipped"} => report[r].whole
=============================================================================
