--------------------------- MODULE SerialBackends ---------------------------
(***************************************************************************)
(* Backends when no two calls about the same backend overlap (one gateway, *)
(* one operator, no monitor cycle running): then the handlers implement    *)
(* the atomic BackendApi.                                                  *)
(***************************************************************************)
EXTENDS Backends

(* Nobody else is working on backend b.                                    *)
Quiet(b) == \A p \in Procs : call[p].phase # "done" => Id(p) # b

SerialNext ==
    \E p \in Procs :
        \/ \E q \in Requests : Quiet(q.id) /\ Receive(p, q)
        \/ Step(p)

SerialSpec == Init /\ [][SerialNext]_vars

(* A call that has not answered yet is still pending, whatever its handler *)
(* has already read.                                                       *)
reqBar == [p \in Procs |->
             [what |-> call[p].what,
              state |-> IF call[p].phase = "done" THEN "done" ELSE "pending",
              reply |-> call[p].reply]]

Atomic == INSTANCE AtomicBackends WITH req <- reqBar

(* Without overlap and without failing statements, every call takes effect *)
(* at once, on its own column, and its answer is true.                     *)
CallsAreAtomic == Atomic!Spec

(* What the handlers know between their steps when they are alone with the *)
(* row: the inductive half of the refinement.                              *)
HeldIsCurrent ==
    \A p \in Procs :
        LET r == row[Id(p)]  c == call[p] IN
        /\ c.phase \in {"update", "delete", "recheck"} => r # NoRow
        /\ c.phase = "create" => r = NoRow
        /\ Op(p) = "CreateOrUpdate" /\ c.phase # "done" => c.held = c.what.new
        /\ c.phase \in {"update", "recheck"} /\ Op(p) # "CreateOrUpdate" =>
             /\ c.held = Mutated(Op(p), r, c.what.load)
             /\ Op(p) \in FlagOps => c.held # r
=============================================================================
