---------------------------- MODULE BackendRaces ----------------------------
(***************************************************************************)
(* Backends with a history variable: which handlers hold a copy of a row   *)
(* that somebody else has written since they read it. It says exactly when *)
(* the two-flag model of a backend (operators own is_enabled, the monitor  *)
(* owns is_healthy and the load) survives concurrent handlers.             *)
(***************************************************************************)
EXTENDS Backends

VARIABLE stale      \* the handlers whose copy of the row is out of date

race_vars == <<row, call, stale>>

(* A read-modify-write handler between its read and its write.             *)
HoldsCopy(p) ==
    call[p].phase \in {"recheck", "update"} /\ Op(p) # "CreateOrUpdate"

RaceInit == Init /\ stale = {}

RaceNext ==
    /\ Next
    /\ stale' = {p \in Procs :
                    /\ HoldsCopy(p) /\ HoldsCopy(p)'
                    /\ p \in stale \/ row'[Id(p)] # row[Id(p)]}

RaceSpec == RaceInit /\ [][RaceNext]_race_vars

-----------------------------------------------------------------------------
(* A handler whose copy is not stale will write what its operation makes   *)
(* of the row as it is now: its row is still there, and the only column it *)
(* is about to change is its own (read-modify-write in repo/backend.go     *)
(* Enable..MarkUnhealthy and server.go UpdateClusterLoadBackend).          *)
FreshCopy ==
    \A p \in Procs :
        HoldsCopy(p) /\ p \notin stale =>
            /\ row[Id(p)] # NoRow
            /\ call[p].held = Mutated(Op(p), row[Id(p)], call[p].what.load)

(* p's step is the one that answers its call.                              *)
Answers(p) == call[p].phase # "done" /\ call'[p].phase = "done"

(* Only a race moves a flag its writer does not own: a monitor's call that *)
(* overlapped with no other write of the row leaves the operator's columns *)
(* alone, and an operator's toggle leaves the monitor's alone.             *)
OwnedColumns ==
    [][\A p \in Procs \ stale :
          LET old == row[Id(p)]  new == row'[Id(p)] IN
          Answers(p) /\ old # NoRow /\ new # NoRow =>
            /\ Op(p) \in MonitorOps =>
                 /\ new.isEnabled = old.isEnabled
                 /\ new.thresholdClusterLoad = old.thresholdClusterLoad
            /\ Op(p) \in {"Enable", "Disable"} =>
                 /\ new.isHealthy = old.isHealthy
                 /\ new.clusterLoad = old.clusterLoad]_race_vars

(* A deleted backend comes back only when somebody creates it again: no    *)
(* handler that read it before the DELETE brings it back with its write.   *)
DeletedStaysDeleted ==
    [][\A b \in BackendIds :
          row[b] = NoRow /\ row'[b] # NoRow =>
            \E p \in Procs : /\ Answers(p) /\ Id(p) = b
                             /\ Op(p) = "CreateOrUpdate"
                             /\ row'[b] = call[p].what.new]_race_vars

(* The answer of a call with no failing statement is not a lie about the   *)
(* flag: when a flag operation answers "ok" its flag has the value it was  *)
(* asked for, however many handlers raced with it.                         *)
FlagAnswerTrue ==
    [][\A p \in Procs :
          LET new == row'[Id(p)] IN
          Answers(p) /\ Op(p) \in FlagOps /\ call'[p].reply = "ok" =>
            /\ new # NoRow
            /\ new = Mutated(Op(p), new, 0)]_race_vars

(* What .agents/skills/repo-skill/modules/domain/backend.md:27 says of the *)
(* two flags: "operators can disable without worrying about monitor        *)
(* re-enabling". Only an operator's call may enable a backend.             *)
MonitorNeverEnables ==
    [][\A p \in Procs :
          Answers(p) /\ Op(p) \in MonitorOps
          /\ row[Id(p)] # NoRow /\ row'[Id(p)] # NoRow =>
            (row'[Id(p)].isEnabled => row[Id(p)].isEnabled)]_race_vars
=============================================================================
