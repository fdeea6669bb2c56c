--------------------------- MODULE RoutingStrategy ---------------------------
(***************************************************************************)
(* How findBackend picks one of a group's active backends. Backend ids are *)
(* strings compared bytewise; only their order matters, so they are        *)
(* naturals here and 0 is the empty string, which precedes every id.       *)
(***************************************************************************)
EXTENDS Naturals, FiniteSets, Sequences

NoBackend == 0      \* "": no backend, or a group that has routed nothing

(* The listings of a finite set: the orders in which a SELECT without      *)
(* ORDER BY may return its rows.                                           *)
Listings(S) ==
    {s \in [1..Cardinality(S) -> S] : \A x \in S : \E i \in DOMAIN s : s[i] = x}

-----------------------------------------------------------------------------
(* round_robin: the active ids with the last routed one appended, sorted.  *)
IsSorted(s) == \A i, j \in DOMAIN s : i < j => s[i] <= s[j]

Occurrences(s, x) == Cardinality({i \in DOMAIN s : s[i] = x})

SortedWithLast(active, last) ==
    {s \in [1..Cardinality(active) + 1 -> active \cup {last}] :
        /\ IsSorted(s)
        /\ \A b \in active \ {last} : Occurrences(s, b) = 1
        /\ Occurrences(s, last) = IF last \in active THEN 2 ELSE 1}

(* The loop keeps the index of the last match.                             *)
LastIndex(s, x) ==
    CHOOSE i \in DOMAIN s : s[i] = x /\ \A j \in DOMAIN s : s[j] = x => j <= i

(* Mutant: the loop stops at the first match.                              *)
FirstIndex(s, x) ==
    CHOOSE i \in DOMAIN s : s[i] = x /\ \A j \in DOMAIN s : s[j] = x => i <= j

FirstAfter(s, last) ==
    LET next == FirstIndex(s, last) + 1
    IN  s[IF next > Len(s) THEN 1 ELSE next]

(* The entry after it, the first one at the end of the list.               *)
After(s, last) ==
    LET next == LastIndex(s, last) + 1
    IN  s[IF next > Len(s) THEN 1 ELSE next]

-----------------------------------------------------------------------------
(* Mutant: a backend of equal load replaces the one found before it.       *)
LastLeast(s, load) ==
    LET best[i \in DOMAIN s] ==
            IF i = 1 THEN s[1]
            ELSE IF load[s[i]] <= load[best[i - 1]] THEN s[i] ELSE best[i - 1]
    IN  best[Len(s)]

(* least_load: the scan keeps the first backend of strictly smaller load.  *)
LeastLoaded(s, load) ==
    LET best[i \in DOMAIN s] ==
            IF i = 1 THEN s[1]
            ELSE IF load[s[i]] < load[best[i - 1]] THEN s[i] ELSE best[i - 1]
    IN  best[Len(s)]

(* Stats older than the configured validity count as no load at all.       *)
EffectiveLoad(r) == IF r.isFresh THEN r.clusterLoad ELSE 0

-----------------------------------------------------------------------------
(* What the three strategies may answer, whatever order the database lists *)
(* the rows in: the scan of least_load ends at any backend of least load   *)
(* and "random" takes the first row.                                       *)
Picks(strategy, active, last, load) ==
    CASE strategy = "round_robin" ->
            {After(s, last) : s \in SortedWithLast(active, last)}
      [] strategy = "least_load" ->
            {b \in active : \A c \in active : load[b] <= load[c]}
      [] OTHER -> active

(* The backend that follows `last` in the cyclic order of the active ones. *)
IsSuccessor(pick, active, last) ==
    /\ pick \in active
    /\ \/ pick > last /\ \A b \in active : b <= last \/ pick <= b
       \/ \A b \in active : b <= last /\ pick <= b
=============================================================================
