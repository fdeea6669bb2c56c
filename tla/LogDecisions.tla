---------------------------- MODULE LogDecisions ----------------------------
(***************************************************************************)
(* What the log-volume-optimizer tool decides about one log statement:     *)
(* its estimated volume and optimisation potential (estimate_volume.py,    *)
(* used by batch_analyze.py), and the action of the decision engine        *)
(* (decision_engine.py, used by github_api_prs.py).  A message is the set  *)
(* of words of interest it holds, out of one vocabulary for the word lists *)
(* of the three files, which are not the same lists.                       *)
(***************************************************************************)
EXTENDS Integers, Sequences, FiniteSets

CONSTANT AvgRps  \* --avg-rps: requests per second assumed by the estimate

ASSUME AvgRpsAssumption == AvgRps \in Nat \ {0}

LogLevels == {"DEBUG", "INFO", "WARN", "WARNING", "ERROR", "FATAL", "PANIC"}

Words == {"failed", "exception", "timeout", "err !=", "payment", "starting",
          "entered", "completed", "success", "processed", "took", "password"}

\* A log statement as the scanner reports it.  Of the words of its message
\* those in late do not stand within the first hundred characters.
LogStatement ==
    {log \in [level: LogLevels, in_loop: BOOLEAN, in_error_handler: BOOLEAN,
              words: SUBSET Words, late: SUBSET Words, size: Nat \ {0}] :
        log.late \subseteq log.words}

Has(words, list) == words \cap list # {}

-----------------------------------------------------------------------------
(* estimate_volume.py.  Probabilities are in thousandths, invocations in   *)
(* hundreds a day, volumes in thousandths of a unit (a unit is a megabyte).*)

LoopMultiplier == 10
ErrorRate == 10
DefaultTriggerProb == 1000

TriggerProbability(log) ==
    CASE log.in_error_handler -> ErrorRate
      [] ~log.in_error_handler /\ log.level \in {"ERROR", "FATAL", "PANIC"}
             -> ErrorRate
      [] ~log.in_error_handler /\ log.level = "WARN" -> 100
      [] ~log.in_error_handler /\ log.level = "DEBUG" -> 0
      [] OTHER -> DefaultTriggerProb

EffectiveRps(log) == IF log.in_loop THEN AvgRps * LoopMultiplier ELSE AvgRps

DailyInvocations(log) ==
    (EffectiveRps(log) * TriggerProbability(log) * 864) \div 1000

DailyVolume(log) == (DailyInvocations(log) * log.size) \div 10

Unit == 1000

AssessOptimization(log) ==
    LET volume == DailyVolume(log)
        entry == /\ Has(log.words, {"entered", "starting"})
                 /\ log.level = "INFO"
        metric == /\ Has(log.words, {"success", "completed"})
                  /\ volume > 10 * Unit
    IN  CASE log.in_loop -> "CONSOLIDATE_LOOP"
          [] ~log.in_loop /\ entry -> "CHANGE_TO_DEBUG"
          [] ~log.in_loop /\ ~entry /\ metric -> "USE_METRICS"
          [] ~log.in_loop /\ ~entry /\ ~metric
                 /\ log.level = "INFO" /\ volume > 50 * Unit -> "ADD_SAMPLING"
          [] OTHER -> IF \/ /\ log.level \in {"ERROR", "FATAL"}
                            /\ log.in_error_handler
                         \/ volume < Unit
                      THEN "KEEP" ELSE "REVIEW"

\* The potentials that batch_analyze makes recommendations of.
Recommended == {"CONSOLIDATE_LOOP", "CHANGE_TO_DEBUG", "USE_METRICS",
                "ADD_SAMPLING"}

-----------------------------------------------------------------------------
(* decision_engine.py: fourteen rules, the first that matches wins.        *)

HighFreqThreshold == 1000000
LoopAggregateThreshold == 100000
LoopSampleThreshold == 10000

ErrorKeywords == {"failed", "exception", "timeout"}
BusinessKeywords == {"payment"}
EntryExitPatterns == {"starting", "completed"}
SuccessPatterns == {"success", "processed"}
MetricsPatterns == {"took"}
SecretsPatterns == {"password"}

\* The condition of each rule, in the order they are tried.
Matches(log, frequency) ==
    <<log.level \in {"ERROR", "FATAL"},
      log.level = "WARN",
      log.in_error_handler,
      Has(log.words, ErrorKeywords),
      Has(log.words, BusinessKeywords),
      log.in_loop /\ frequency >= LoopAggregateThreshold,
      log.in_loop /\ frequency >= LoopSampleThreshold,
      log.level = "INFO" /\ Has(log.words, EntryExitPatterns),
      /\ log.level = "INFO" /\ Has(log.words, SuccessPatterns)
      /\ ~Has(log.words, BusinessKeywords),
      log.level = "INFO" /\ frequency >= HighFreqThreshold,
      Has(log.words, MetricsPatterns),
      Has(log.words, SecretsPatterns),
      log.level = "DEBUG",
      TRUE>>

ActionOfRule ==
    <<"KEEP", "KEEP", "KEEP", "KEEP", "KEEP", "AGGREGATE", "SAMPLE",
      "DOWNGRADE_TO_DEBUG", "DOWNGRADE_TO_DEBUG", "DOWNGRADE_TO_DEBUG",
      "USE_METRIC", "FLAG_REVIEW", "KEEP", "KEEP">>

RuleOf(log, frequency) ==
    CHOOSE r \in 1..14 : /\ Matches(log, frequency)[r]
                         /\ \A q \in 1..r - 1 : ~Matches(log, frequency)[q]

\* Mutant: the frequency rules for loops are tried first.
DecideLoopsFirst(log, frequency) ==
    IF log.in_loop /\ frequency >= LoopSampleThreshold THEN "SAMPLE"
    ELSE ActionOfRule[RuleOf(log, frequency)]

Decide(log, frequency) == ActionOfRule[RuleOf(log, frequency)]

-----------------------------------------------------------------------------
(* github_api_prs.py: the decision for a recommendation.                   *)

\* The message is reported up to its hundredth character.
Reported(log) == log.words \ log.late

\* A recommendation carries the level, the potential, the volume and the
\* reported message of its statement, and neither of the scanner's two context
\* flags.
Recommendation(log) ==
    [level |-> log.level, action |-> AssessOptimization(log),
     daily_units |-> DailyVolume(log) \div Unit, words |-> Reported(log)]

\* The flags are guessed: the loop from the name of the potential, the error
\* handler from the message.
InferredLog(rec) ==
    [level |-> rec.level,
     in_loop |-> rec.action = "CONSOLIDATE_LOOP",
     in_error_handler |-> Has(rec.words, {"failed", "exception", "err !="}),
     words |-> rec.words]

\* The frequency measured in production (0: none found) goes before the
\* estimate, whose megabytes a day then stand for calls a day.
FrequencyFor(rec, measured) ==
    IF measured > 0 THEN measured ELSE rec.daily_units

DecideActionForLog(rec, measured) ==
    Decide(InferredLog(rec), FrequencyFor(rec, measured))

Actionable == {"DOWNGRADE_TO_DEBUG", "REMOVE", "SAMPLE"}
=============================================================================
