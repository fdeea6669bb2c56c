----------------------------- MODULE PolicySets -----------------------------
(***************************************************************************)
(* The sets of groups policy evaluation intersects. A rule type no policy  *)
(* matches yields a nil map, which is not the empty one: it is a wildcard. *)
(***************************************************************************)
EXTENDS Naturals, FiniteSets, Sequences

CONSTANTS
    Groups,     \* group ids
    Nil         \* the nil map

ASSUME SetsAssumption == IsFiniteSet(Groups) /\ \A s \in SUBSET Groups : s # Nil

GroupSet == {Nil} \cup SUBSET Groups

(* len() and lookups take a nil map for an empty one.                      *)
Elements(s) == IF s = Nil THEN {} ELSE s
Size(s) == Cardinality(Elements(s))

(* Mutant: the test on the first map is one of emptiness.                  *)
EmptyIsWildcard(s1, s2) ==
    LET short == IF Size(s1) > Size(s2) THEN s2 ELSE s1
        long  == IF Size(s1) > Size(s2) THEN s1 ELSE s2
    IN  IF Size(short) = 0 THEN long ELSE {g \in short : g \in Elements(long)}

(* Mutant: a group both maps need not have.                                *)
Unite(s1, s2) ==
    IF s1 = Nil THEN s2 ELSE s1 \cup Elements(s2)

(* Mutant: a nil map allows nothing.                                       *)
NilAllowsNothing(s1, s2) ==
    {g \in Elements(s1) : g \in Elements(s2)}

(* The shorter map is walked, and only that one is tested for nil.         *)
SetIntersection(s1, s2) ==
    LET short == IF Size(s1) > Size(s2) THEN s2 ELSE s1
        long  == IF Size(s1) > Size(s2) THEN s1 ELSE s2
    IN  IF short = Nil THEN long ELSE {g \in short : g \in Elements(long)}

(* EvaluateGroupsForClient: the maps in the order they were fetched.       *)
IntersectAll(sets) ==
    SetIntersection(SetIntersection(SetIntersection(
        sets[1], sets[2]), sets[3]), sets[4])

-----------------------------------------------------------------------------
(* What the intersection is for: the groups every map that says anything   *)
(* allows, and Nil when none does.                                         *)
Allowed(sets) ==
    IF \A i \in DOMAIN sets : sets[i] = Nil THEN Nil
    ELSE {g \in Groups : \A i \in DOMAIN sets : sets[i] # Nil => g \in sets[i]}
=============================================================================
