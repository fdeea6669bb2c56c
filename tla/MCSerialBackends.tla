-------------------------- MODULE MCSerialBackends --------------------------
(* Two backends, one of them referenced by a stored query, and two slots   *)
(* that may work on different backends at the same time.                   *)
EXTENDS SerialBackends, TLC

Symmetry == Permutations(Procs)
=============================================================================
