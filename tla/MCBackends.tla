----------------------------- MODULE MCBackends -----------------------------
(* One backend row and two request slots: while one handler holds its copy, *)
(* the other slot can serve any number of calls, a delete and a create too.*)
EXTENDS BackendRaces, TLC

Symmetry == Permutations(Procs)
=============================================================================
