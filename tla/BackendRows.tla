---------------------------- MODULE BackendRows ----------------------------
(***************************************************************************)
(* The rows of the table `backends` and what each operation of the         *)
(* BackendApi makes of one: shared by the API as it is implemented         *)
(* (Backends) and as it is meant (AtomicBackends).                         *)
(*                                                                         *)
(* A row keeps the two flags, the load the monitor reports (cluster_load   *)
(* and stats_updated_at, always written by one statement) and the          *)
(* configured threshold, which stands for every column only                *)
(* CreateOrUpdateBackend writes.                                           *)
(***************************************************************************)
EXTENDS Naturals

CONSTANTS
    BackendIds,     \* the ids requests may name
    Loads,          \* cluster loads the monitor may report
    Thresholds,     \* thresholds an operator may configure
    Referenced,     \* ids a row of `queries` references (FK, no cascade)
    NoRow           \* "no such row"

Row == [isEnabled : BOOLEAN, isHealthy : BOOLEAN,
        clusterLoad : Loads, thresholdClusterLoad : Thresholds]

ASSUME RowAssumption ==
    /\ Loads \subseteq Nat /\ 0 \in Loads
    /\ Thresholds \subseteq Nat
    /\ Referenced \subseteq BackendIds
    /\ NoRow \notin Row
    /\ BackendIds # {}

FlagOps == {"Enable", "Disable", "MarkHealthy", "MarkUnhealthy"}
MonitorOps == {"MarkHealthy", "MarkUnhealthy", "UpdateClusterLoad"}
Ops == FlagOps \cup {"UpdateClusterLoad", "CreateOrUpdate", "Delete"}

(* Mutants of Mutated: the reported load is added to the stored one; and   *)
(* enabling a backend also declares it healthy.                            *)
MutatedAddsLoad(op, r, load) ==
    CASE op = "Enable"            -> [r EXCEPT !.isEnabled = TRUE]
      [] op = "Disable"           -> [r EXCEPT !.isEnabled = FALSE]
      [] op = "MarkHealthy"       -> [r EXCEPT !.isHealthy = TRUE]
      [] op = "MarkUnhealthy"     -> [r EXCEPT !.isHealthy = FALSE]
      [] op = "UpdateClusterLoad" -> [r EXCEPT !.clusterLoad = @ + load]
      [] OTHER                    -> r

MutatedEnablesBoth(op, r, load) ==
    CASE op = "Enable"            -> [r EXCEPT !.isEnabled = TRUE, !.isHealthy = TRUE]
      [] op = "Disable"           -> [r EXCEPT !.isEnabled = FALSE]
      [] op = "MarkHealthy"       -> [r EXCEPT !.isHealthy = TRUE]
      [] op = "MarkUnhealthy"     -> [r EXCEPT !.isHealthy = FALSE]
      [] op = "UpdateClusterLoad" -> [r EXCEPT !.clusterLoad = load]
      [] OTHER                    -> r

(* What a read-modify-write operation makes of the row it has read.        *)
Mutated(op, r, load) ==
    CASE op = "Enable"            -> [r EXCEPT !.isEnabled = TRUE]
      [] op = "Disable"           -> [r EXCEPT !.isEnabled = FALSE]
      [] op = "MarkHealthy"       -> [r EXCEPT !.isHealthy = TRUE]
      [] op = "MarkUnhealthy"     -> [r EXCEPT !.isHealthy = FALSE]
      [] op = "UpdateClusterLoad" -> [r EXCEPT !.clusterLoad = load]
      [] OTHER                    -> r

(* The requests a caller may send: the row only CreateOrUpdateBackend      *)
(* carries, and the load only UpdateClusterLoadBackend does (0, the zero   *)
(* value of the message, in the others).                                   *)
Requests ==
    [op : FlagOps \cup {"Delete"}, id : BackendIds, new : {NoRow}, load : {0}]
    \cup [op : {"UpdateClusterLoad"}, id : BackendIds, new : {NoRow}, load : Loads]
    \cup [op : {"CreateOrUpdate"}, id : BackendIds, new : Row, load : {0}]

(* A slot that has served nothing yet holds some request.                  *)
AnyRequest == [op |-> "Delete", id |-> CHOOSE b \in BackendIds : TRUE,
               new |-> NoRow, load |-> 0]
=============================================================================
