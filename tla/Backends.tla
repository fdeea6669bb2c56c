------------------------------ MODULE Backends ------------------------------
(***************************************************************************)
(* The BackendApi of the gateway server over the table `backends`.         *)
(*                                                                         *)
(* Several gateway instances share one database, no handler opens a        *)
(* transaction and gorm's default one is off, so one SQL statement is one  *)
(* step and a handler is a sequence of steps: it reads a row, changes the  *)
(* copy it holds, and writes the whole copy back (gorm's Updates writes    *)
(* every column the copy has a value for).                                 *)
(***************************************************************************)
EXTENDS BackendRows

CONSTANTS
    Procs,          \* request slots: each serves one API call at a time
    DbMayFail       \* whether a statement may fail (connection, deadlock)

ASSUME DbAssumption == DbMayFail \in BOOLEAN

VARIABLES
    row,    \* row[b]: the row of backend b, or NoRow
    call    \* call[p]: the request slot p serves, with the handler's locals

vars == <<row, call>>

Phases == {"find", "recheck", "create", "update", "delete", "done"}

(* `held` is the copy of the row the handler will write; `reply` is what   *)
(* the caller is told.                                                     *)
Call == [what : Requests, phase : Phases,
         held : Row \cup {NoRow}, reply : {"none", "ok", "error"}]

TypeOK ==
    /\ row \in [BackendIds -> Row \cup {NoRow}]
    /\ call \in [Procs -> Call]

Op(p) == call[p].what.op
Id(p) == call[p].what.id

-----------------------------------------------------------------------------
(* Mutants of AlreadyInState: Disable forgets its early return; Enable     *)
(* tests the flag the wrong way round.                                     *)
DisableNeverInState(op, r) ==
    \/ op = "Enable"        /\ r.isEnabled
    \/ op = "MarkHealthy"   /\ r.isHealthy
    \/ op = "MarkUnhealthy" /\ ~r.isHealthy

EnableTestsWrong(op, r) ==
    \/ op \in {"Enable", "Disable"} /\ ~r.isEnabled
    \/ op = "MarkHealthy"   /\ r.isHealthy
    \/ op = "MarkUnhealthy" /\ ~r.isHealthy

(* The early return of the four flag operations.                           *)
AlreadyInState(op, r) ==
    \/ op = "Enable"        /\ r.isEnabled
    \/ op = "Disable"       /\ ~r.isEnabled
    \/ op = "MarkHealthy"   /\ r.isHealthy
    \/ op = "MarkUnhealthy" /\ ~r.isHealthy

(* Mutant: every handler swallows it.                                      *)
AlwaysSwallows(op) == TRUE

(* BackendRepo.Update reports an UPDATE that touched no row as success;    *)
(* the flag operations go to the repository directly and report it.        *)
SwallowsNoRowAffected(op) == op \in {"CreateOrUpdate", "UpdateClusterLoad"}

-----------------------------------------------------------------------------
Init ==
    /\ row \in [BackendIds -> Row \cup {NoRow}]
    /\ call = [p \in Procs |-> [what |-> AnyRequest, phase |-> "done",
                                 held |-> NoRow, reply |-> "none"]]

Goto(p, phase, held) ==
    call' = [call EXCEPT ![p].phase = phase, ![p].held = held]

(* The end of a handler: the answer stays until the slot is used again.    *)
Reply(p, answer) ==
    call' = [call EXCEPT ![p].phase = "done", ![p].held = NoRow,
                         ![p].reply = answer]

(* A slot takes a request; for CreateOrUpdateBackend the row to write is   *)
(* the one the request carries.                                            *)
Receive(p, q) ==
    /\ call[p].phase = "done"
    /\ call' = [call EXCEPT ![p] = [what |-> q, phase |-> "find",
                                    held |-> q.new, reply |-> "none"]]
    /\ UNCHANGED row

(* The first statement of every handler, when it returns the row.          *)
FindHit(p) ==
    LET r == row[Id(p)]
        mutated == Mutated(Op(p), r, call[p].what.load)
    IN
    /\ call[p].phase = "find"
    /\ r # NoRow
    /\ \/ Op(p) = "CreateOrUpdate" /\ Goto(p, "update", call[p].held)
       \/ Op(p) = "Delete" /\ Goto(p, "delete", NoRow)
       \/ Op(p) = "UpdateClusterLoad" /\ Goto(p, "recheck", mutated)
       \/ /\ Op(p) \in FlagOps /\ AlreadyInState(Op(p), r)
          /\ Reply(p, "ok")
       \/ /\ Op(p) \in FlagOps /\ ~AlreadyInState(Op(p), r)
          /\ Goto(p, "update", mutated)
    /\ UNCHANGED row

(* ... and when it returns an error: no such row, or a failing statement.  *)
(* CreateOrUpdateBackend takes any error for "does not exist".             *)
FindMiss(p) ==
    /\ call[p].phase = "find"
    /\ row[Id(p)] = NoRow \/ DbMayFail
    /\ \/ Op(p) = "CreateOrUpdate" /\ Goto(p, "create", call[p].held)
       \/ Op(p) # "CreateOrUpdate" /\ Reply(p, "error")
    /\ UNCHANGED row

(* Mutant of Recheck: the request's defaults overwrite is_enabled.         *)
RecheckEnables(p) ==
    /\ call[p].phase = "recheck"
    /\ \/ /\ row[Id(p)] # NoRow
          /\ Goto(p, "update", [call[p].held EXCEPT !.isEnabled = TRUE])
       \/ (row[Id(p)] = NoRow \/ DbMayFail) /\ Reply(p, "error")
    /\ UNCHANGED row

(* core.UpdateBackend looks the row up again, for existence only.          *)
Recheck(p) ==
    /\ call[p].phase = "recheck"
    /\ \/ row[Id(p)] # NoRow /\ Goto(p, "update", call[p].held)
       \/ (row[Id(p)] = NoRow \/ DbMayFail) /\ Reply(p, "error")
    /\ UNCHANGED row

(* INSERT: a failing statement and a duplicate key are errors.             *)
Create(p) ==
    /\ call[p].phase = "create"
    /\ \/ /\ row[Id(p)] = NoRow
          /\ row' = [row EXCEPT ![Id(p)] = call[p].held]
          /\ Reply(p, "ok")
       \/ /\ row[Id(p)] # NoRow \/ DbMayFail
          /\ Reply(p, "error")
          /\ UNCHANGED row

(* Mutant of Update: it inserts the row when there is none.                *)
UpdateOrInsert(p) ==
    /\ call[p].phase = "update"
    /\ row' = [row EXCEPT ![Id(p)] = call[p].held]
    /\ Reply(p, "ok")

(* UPDATE ... WHERE id: the whole copy replaces the row, if there is one.  *)
Update(p) ==
    /\ call[p].phase = "update"
    /\ row[Id(p)] # NoRow
    /\ row' = [row EXCEPT ![Id(p)] = call[p].held]
    /\ Reply(p, "ok")

(* No row affected: the row is gone, MySQL found nothing to change, or the *)
(* statement failed (the repository looks at RowsAffected before it looks  *)
(* at the error).                                                          *)
UpdateNoRow(p) ==
    /\ call[p].phase = "update"
    /\ row[Id(p)] \in {NoRow, call[p].held} \/ DbMayFail
    /\ Reply(p, IF SwallowsNoRowAffected(Op(p)) THEN "ok" ELSE "error")
    /\ UNCHANGED row

(* DELETE: removing no row is not an error, a referenced row cannot go.    *)
Delete(p) ==
    /\ call[p].phase = "delete"
    /\ \/ /\ row[Id(p)] = NoRow \/ Id(p) \notin Referenced
          /\ row' = [row EXCEPT ![Id(p)] = NoRow]
          /\ Reply(p, "ok")
       \/ /\ (row[Id(p)] # NoRow /\ Id(p) \in Referenced) \/ DbMayFail
          /\ Reply(p, "error")
          /\ UNCHANGED row

Step(p) ==
    \/ FindHit(p) \/ FindMiss(p) \/ Recheck(p)
    \/ Create(p) \/ Update(p) \/ UpdateNoRow(p) \/ Delete(p)

(* Any caller may send any request.                                        *)
Next == \E p \in Procs : (\E q \in Requests : Receive(p, q)) \/ Step(p)

Spec == Init /\ [][Next]_vars
=============================================================================
