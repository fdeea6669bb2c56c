--------------------------- MODULE AtomicBackends ---------------------------
(***************************************************************************)
(* What the BackendApi is meant to be: every call takes effect at once, at *)
(* some moment between its request and its answer, changes only the column *)
(* it is named for, and its answer tells whether it did.                   *)
(***************************************************************************)
EXTENDS BackendRows

CONSTANT Procs      \* request slots

VARIABLES
    row,    \* the table
    req     \* req[p]: the request in slot p and its answer

vars == <<row, req>>

Init ==
    /\ row \in [BackendIds -> Row \cup {NoRow}]
    /\ req = [p \in Procs |->
                [what |-> AnyRequest, state |-> "done", reply |-> "none"]]

Receive(p) ==
    /\ req[p].state = "done"
    /\ \E q \in Requests :
         req' = [req EXCEPT ![p] =
                   [what |-> q, state |-> "pending", reply |-> "none"]]
    /\ UNCHANGED row

Answer(p, reply) ==
    req' = [req EXCEPT ![p].state = "done", ![p].reply = reply]

(* An operation on a row that exists.                                      *)
Execute(p) ==
    LET q == req[p].what IN
    /\ req[p].state = "pending"
    /\ row[q.id] # NoRow
    /\ q.op \in FlagOps \cup {"UpdateClusterLoad"}
    /\ row' = [row EXCEPT ![q.id] = Mutated(q.op, row[q.id], q.load)]
    /\ Answer(p, "ok")

Upsert(p) ==
    LET q == req[p].what IN
    /\ req[p].state = "pending"
    /\ q.op = "CreateOrUpdate"
    /\ row' = [row EXCEPT ![q.id] = q.new]
    /\ Answer(p, "ok")

Remove(p) ==
    LET q == req[p].what IN
    /\ req[p].state = "pending"
    /\ q.op = "Delete"
    /\ row[q.id] # NoRow /\ q.id \notin Referenced
    /\ row' = [row EXCEPT ![q.id] = NoRow]
    /\ Answer(p, "ok")

(* Nothing but CreateOrUpdateBackend can succeed without the row, and a    *)
(* row queries refer to stays.                                             *)
Refuse(p) ==
    LET q == req[p].what IN
    /\ req[p].state = "pending"
    /\ q.op # "CreateOrUpdate"
    /\ row[q.id] = NoRow \/ (q.op = "Delete" /\ q.id \in Referenced)
    /\ Answer(p, "error")
    /\ UNCHANGED row

Next == \E p \in Procs :
            Receive(p) \/ Execute(p) \/ Upsert(p) \/ Remove(p) \/ Refuse(p)

Spec == Init /\ [][Next]_vars
=============================================================================
