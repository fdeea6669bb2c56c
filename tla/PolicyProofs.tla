---------------------------- MODULE PolicyProofs ----------------------------
(***************************************************************************)
(* Proofs about policy evaluation, for any groups, policies and requests.  *)
(* setIntersection treats nil as a wildcard whichever side it is on and    *)
(* whatever the lengths are, so the nested calls answer what every rule    *)
(* type that speaks allows; and since each map read is what its rule type  *)
(* said at some moment, changes between the reads do only what they must.  *)
(***************************************************************************)
EXTENDS PolicyWindows, FiniteSetTheorems, TLAPS

(* An empty map has length 0 and no other has.                             *)
LEMMA SizeType ==
    ASSUME NEW s \in GroupSet
    PROVE  /\ Elements(s) \in SUBSET Groups
           /\ Size(s) \in Nat
           /\ Size(s) = 0 <=> Elements(s) = {}
<1>1. Elements(s) \in SUBSET Groups
    BY DEF GroupSet, Elements
<1>2. IsFiniteSet(Elements(s))
    BY <1>1, SetsAssumption, FS_Subset
<1> QED  BY <1>1, <1>2, FS_CardinalityType, FS_EmptySet DEF Size

(* setIntersection (policyApi/core.go:268-282) is the intersection, with   *)
(* nil as its neutral element on both sides.                               *)
THEOREM IntersectionIsMeet ==
    ASSUME NEW s1 \in GroupSet, NEW s2 \in GroupSet
    PROVE  SetIntersection(s1, s2) = IF s1 = Nil THEN s2
                                     ELSE IF s2 = Nil THEN s1
                                     ELSE s1 \cap s2
<1>1. /\ Size(s1) \in Nat /\ (Size(s1) = 0 <=> Elements(s1) = {})
      /\ Size(s2) \in Nat /\ (Size(s2) = 0 <=> Elements(s2) = {})
    BY SizeType
<1>2. CASE s1 = Nil
  <2>1. Size(s1) = 0
      BY <1>1, <1>2 DEF Elements
  <2> QED  BY <1>1, <1>2, <2>1 DEF SetIntersection
<1>3. CASE s1 # Nil /\ s2 = Nil
  <2>1. Size(s2) = 0 /\ Elements(s1) = s1 /\ Elements(s2) = {}
      BY <1>1, <1>3 DEF Elements
  <2>2. CASE s1 = {}
    <3>1. ~(Size(s1) > Size(s2))
        BY <1>1, <2>1, <2>2
    <3> QED  BY <1>3, <2>1, <2>2, <3>1 DEF SetIntersection
  <2>3. CASE s1 # {}
    <3>1. Size(s1) > Size(s2)
        BY <1>1, <2>1, <2>3
    <3> QED  BY <1>3, <3>1 DEF SetIntersection
  <2> QED  BY <2>2, <2>3
<1>4. CASE s1 # Nil /\ s2 # Nil
  <2>1. Elements(s1) = s1 /\ Elements(s2) = s2
      BY <1>4 DEF Elements
  <2>2. CASE Size(s1) > Size(s2)
      BY <1>4, <2>1, <2>2 DEF SetIntersection
  <2>3. CASE ~(Size(s1) > Size(s2))
      BY <1>4, <2>1, <2>3 DEF SetIntersection
  <2> QED  BY <2>2, <2>3
<1> QED  BY <1>2, <1>3, <1>4

(* Its result is again a nil map or a set of groups.                       *)
LEMMA IntersectionType ==
    ASSUME NEW s1 \in GroupSet, NEW s2 \in GroupSet
    PROVE  SetIntersection(s1, s2) \in GroupSet
BY IntersectionIsMeet DEF GroupSet

(* EvaluateGroupsForClient's nested calls (core.go:212-213) compute what   *)
(* all the rule types allow together, and nil only when none of them says  *)
(* anything.                                                               *)
THEOREM IntersectAllIsAllowed ==
    ASSUME NEW sets \in [1..4 -> GroupSet]
    PROVE  IntersectAll(sets) = Allowed(sets)
<1> DEFINE a == SetIntersection(sets[1], sets[2])
           b == SetIntersection(a, sets[3])
<1>1. /\ sets[1] \in GroupSet /\ sets[2] \in GroupSet
      /\ sets[3] \in GroupSet /\ sets[4] \in GroupSet
      /\ DOMAIN sets = 1..4
    OBVIOUS
<1>2. a = IF sets[1] = Nil THEN sets[2]
          ELSE IF sets[2] = Nil THEN sets[1] ELSE sets[1] \cap sets[2]
    BY <1>1, IntersectionIsMeet
<1>3. a \in GroupSet
    BY <1>1, IntersectionType
<1>4. b = IF a = Nil THEN sets[3]
          ELSE IF sets[3] = Nil THEN a ELSE a \cap sets[3]
    BY <1>1, <1>3, IntersectionIsMeet
<1>5. b \in GroupSet
    BY <1>1, <1>3, IntersectionType
<1>6. IntersectAll(sets) = IF b = Nil THEN sets[4]
          ELSE IF sets[4] = Nil THEN b ELSE b \cap sets[4]
    BY <1>1, <1>5, IntersectionIsMeet DEF IntersectAll
<1>7. \A x \in GroupSet : x # Nil => x \in SUBSET Groups
    BY DEF GroupSet
<1>8. \A x, y \in SUBSET Groups : x \cap y \in SUBSET Groups /\ x \cap y # Nil
    BY SetsAssumption
<1>9. \A i \in 1..4 : sets[i] = sets[1] \/ sets[i] = sets[2]
                      \/ sets[i] = sets[3] \/ sets[i] = sets[4]
    OBVIOUS
<1> HIDE DEF a, b
<1>10. CASE \A i \in 1..4 : sets[i] = Nil
  <2>1. sets[1] = Nil /\ sets[2] = Nil /\ sets[3] = Nil /\ sets[4] = Nil
      BY <1>10
  <2> QED  BY <1>1, <1>2, <1>4, <1>6, <1>10, <2>1 DEF Allowed
<1>11. CASE ~ \A i \in 1..4 : sets[i] = Nil
  <2> DEFINE Both(x, y) == IF x = Nil THEN y ELSE IF y = Nil THEN x ELSE x \cap y
             Admits(x, g) == x # Nil => g \in x
  <2>1. ASSUME NEW x \in GroupSet, NEW y \in GroupSet
        PROVE  /\ Both(x, y) = Nil <=> x = Nil /\ y = Nil
               /\ \A g \in Groups :
                    Admits(Both(x, y), g) <=> Admits(x, g) /\ Admits(y, g)
    <3>1. CASE x = Nil
        BY <3>1
    <3>2. CASE x # Nil /\ y = Nil
        BY <3>2
    <3>3. CASE x # Nil /\ y # Nil
      <4>1. x \cap y # Nil
          BY <1>7, <1>8, <3>3
      <4> QED  BY <3>3, <4>1
    <3> QED  BY <3>1, <3>2, <3>3
  <2>2. a = Both(sets[1], sets[2]) /\ b = Both(a, sets[3])
        /\ IntersectAll(sets) = Both(b, sets[4])
      BY <1>2, <1>4, <1>6
  <2>3. IntersectAll(sets) \in GroupSet
      BY <1>1, <1>5, <1>6, IntersectionType DEF IntersectAll, a, b
  <2> HIDE DEF Both
  <2>4. ASSUME NEW g \in Groups
        PROVE  Admits(IntersectAll(sets), g) <=> \A i \in 1..4 : Admits(sets[i], g)
    <3>1. Admits(a, g) <=> Admits(sets[1], g) /\ Admits(sets[2], g)
        BY <1>1, <2>1, <2>2
    <3>2. Admits(b, g) <=> Admits(a, g) /\ Admits(sets[3], g)
        BY <1>1, <1>3, <2>1, <2>2
    <3>3. Admits(IntersectAll(sets), g) <=> Admits(b, g) /\ Admits(sets[4], g)
        BY <1>1, <1>5, <2>1, <2>2
    <3> QED  BY <1>9, <3>1, <3>2, <3>3
  <2>5. IntersectAll(sets) # Nil
    <3>1. a = Nil <=> sets[1] = Nil /\ sets[2] = Nil
        BY <1>1, <2>1, <2>2
    <3>2. b = Nil <=> a = Nil /\ sets[3] = Nil
        BY <1>1, <1>3, <2>1, <2>2
    <3>3. IntersectAll(sets) = Nil <=> b = Nil /\ sets[4] = Nil
        BY <1>1, <1>5, <2>1, <2>2
    <3> QED  BY <1>9, <1>11, <3>1, <3>2, <3>3
  <2>6. IntersectAll(sets) \in SUBSET Groups
      BY <1>7, <2>3, <2>5
  <2>7. Allowed(sets) = {h \in Groups : \A i \in 1..4 : Admits(sets[i], h)}
      BY <1>1, <1>11 DEF Allowed
  <2> QED  BY <2>4, <2>5, <2>6, <2>7
<1> QED  BY <1>10, <1>11

-----------------------------------------------------------------------------
LEMMA MatchingType ==
    ASSUME TypeOK, NEW t, NEW v
    PROVE  Matching(t, v) \in GroupSet
<1> DEFINE rows == {policy[p] : p \in Policies} \ {NoPolicy}
           gids == {r.groupId : r \in {r \in rows :
                      r.isEnabled /\ r.ruleType = t /\ r.ruleValue = v}}
<1>1. rows \subseteq Row
    BY DEF TypeOK
<1>2. \A r \in rows : r.groupId \in Groups
    BY <1>1 DEF Row
<1>3. gids \in SUBSET Groups
    BY <1>2
<1> HIDE DEF gids
<1>4. gids \in GroupSet
    BY <1>3 DEF GroupSet
<1> QED  BY <1>4 DEF Matching, gids, GroupSet

LEMMA SlotType ==
    ASSUME NEW q \in Requests, NEW phase \in {"read", "done"},
           NEW sets \in Seq(GroupSet), Len(sets) < 4,
           NEW reply \in {"none", "ok", "error"}, NEW gs \in SUBSET Groups
    PROVE  /\ Slot(q, phase, sets, reply, gs) \in Eval
           /\ Len(Slot(q, phase, sets, reply, gs).sets) < Len(RuleTypes)
BY DEF Slot, Eval, RuleTypes

(* What Read makes of its slot: the next map, and after the fourth one the *)
(* answer.                                                                 *)
LEMMA ReadIs ==
    ASSUME TypeOK, NEW e \in Evals, Read(e)
    PROVE  \E sets \in Seq(GroupSet) :
             /\ Len(sets) = Len(eval[e].sets) + 1 /\ Len(sets) \in 1..4
             /\ \A i \in 1..Len(eval[e].sets) : sets[i] = eval[e].sets[i]
             /\ LET t == RuleTypes[Len(sets)]
                IN  sets[Len(sets)] = Matching(t, eval[e].request[t])
             /\ eval' = [eval EXCEPT ![e] =
                  IF Len(sets) < 4 THEN Slot(eval[e].request, "read", sets, "none", {})
                  ELSE Slot(eval[e].request, "done", <<>>, "ok",
                            Elements(IntersectAll(sets)))]
<1> DEFINE old == eval[e].sets
           t == RuleTypes[Len(old) + 1]
           m == Matching(t, eval[e].request[t])
           sets == Append(old, m)
<1>1. old \in Seq(GroupSet) /\ Len(old) < 4 /\ Len(RuleTypes) = 4
    BY DEF TypeOK, Eval, RuleTypes
<1>2. m \in GroupSet
    BY MatchingType
<1>3. eval' = [eval EXCEPT ![e] =
                  IF Len(sets) < 4 THEN Slot(eval[e].request, "read", sets, "none", {})
                  ELSE Slot(eval[e].request, "done", <<>>, "ok",
                            Elements(IntersectAll(sets)))]
    BY <1>1 DEF Read
<1> HIDE DEF m, old
<1>4. /\ sets \in Seq(GroupSet) /\ Len(sets) = Len(old) + 1 /\ Len(sets) \in 1..4
      /\ \A i \in 1..Len(old) : sets[i] = old[i]
      /\ sets[Len(sets)] = m
    BY <1>1, <1>2
<1> HIDE DEF sets
<1>5. m = Matching(RuleTypes[Len(sets)], eval[e].request[RuleTypes[Len(sets)]])
    BY <1>4 DEF m
<1> QED  BY <1>3, <1>4, <1>5 DEF old

(* The four maps of the last read, as a function of the rule type's place. *)
LEMMA FourMaps ==
    ASSUME NEW sets \in Seq(GroupSet), Len(sets) = 4
    PROVE  /\ sets \in [1..4 -> GroupSet] /\ DOMAIN sets = 1..4
           /\ Elements(IntersectAll(sets)) \in SUBSET Groups
           /\ \A g \in Groups : g \in Elements(IntersectAll(sets)) <=>
                /\ \E i \in 1..4 : sets[i] # Nil
                /\ \A i \in 1..4 : sets[i] # Nil => g \in sets[i]
<1>1. sets \in [1..4 -> GroupSet] /\ DOMAIN sets = 1..4
    OBVIOUS
<1>2. IntersectAll(sets) = Allowed(sets)
    BY <1>1, IntersectAllIsAllowed
<1>3. CASE \A i \in 1..4 : sets[i] = Nil
  <2>1. Elements(IntersectAll(sets)) = {}
      BY <1>1, <1>2, <1>3 DEF Allowed, Elements
  <2> QED  BY <1>1, <1>3, <2>1
<1>4. CASE ~ \A i \in 1..4 : sets[i] = Nil
  <2> DEFINE all == {g \in Groups : \A i \in 1..4 : sets[i] # Nil => g \in sets[i]}
  <2>1. Allowed(sets) = all
      BY <1>1, <1>4 DEF Allowed
  <2>2. all # Nil
      BY SetsAssumption
  <2>3. Elements(IntersectAll(sets)) = all
      BY <1>2, <2>1, <2>2 DEF Elements
  <2> QED  BY <1>1, <1>4, <2>3
<1> QED  BY <1>3, <1>4

LEMMA TypeInit == Init => TypeOK
<1> SUFFICES ASSUME Init PROVE TypeOK
    OBVIOUS
<1>1. PICK r \in Requests : eval = [e \in Evals |-> Slot(r, "done", <<>>, "none", {})]
    BY DEF Init
<1>2. <<>> \in Seq(GroupSet) /\ Len(<<>>) < 4 /\ {} \in SUBSET Groups
    OBVIOUS
<1>3. /\ Slot(r, "done", <<>>, "none", {}) \in Eval
      /\ Len(Slot(r, "done", <<>>, "none", {}).sets) < Len(RuleTypes)
    BY <1>2, SlotType
<1>4. 0 \in 0..MaxChanges
    BY PolicyAssumption
<1> QED  BY <1>1, <1>3, <1>4 DEF Init, TypeOK

LEMMA TypeNext == TypeOK /\ [Next]_vars => TypeOK'
<1> SUFFICES ASSUME TypeOK, [Next]_vars PROVE TypeOK'
    OBVIOUS
<1>1. \A e \in Evals : eval[e] \in Eval /\ eval[e].request \in Requests
    BY DEF TypeOK, Eval
<1>2. <<>> \in Seq(GroupSet) /\ Len(<<>>) < 4 /\ {} \in SUBSET Groups
    OBVIOUS
<1>3. ASSUME NEW e \in Evals, NEW s \in Eval, Len(s.sets) < Len(RuleTypes),
             eval' = [eval EXCEPT ![e] = s], UNCHANGED <<policy, changes>>
      PROVE  TypeOK'
    BY <1>3 DEF TypeOK
<1>4. CASE UNCHANGED vars
    BY <1>4 DEF vars, TypeOK
<1>5. ASSUME NEW e \in Evals, NEW r \in Requests, Receive(e, r)  PROVE TypeOK'
  <2>1. /\ Slot(r, "read", <<>>, "none", {}) \in Eval
        /\ Len(Slot(r, "read", <<>>, "none", {}).sets) < Len(RuleTypes)
      BY <1>2, SlotType
  <2> QED  BY <1>3, <1>5, <2>1 DEF Receive
<1>6. ASSUME NEW e \in Evals, Read(e)  PROVE TypeOK'
  <2> DEFINE q == eval[e].request
  <2>1. PICK sets \in Seq(GroupSet) :
          /\ Len(sets) \in 1..4
          /\ eval' = [eval EXCEPT ![e] =
                IF Len(sets) < 4 THEN Slot(q, "read", sets, "none", {})
                ELSE Slot(q, "done", <<>>, "ok", Elements(IntersectAll(sets)))]
      BY <1>6, ReadIs
  <2>2. UNCHANGED <<policy, changes>>
      BY <1>6 DEF Read
  <2>3. CASE Len(sets) < 4
    <3>1. /\ Slot(q, "read", sets, "none", {}) \in Eval
          /\ Len(Slot(q, "read", sets, "none", {}).sets) < Len(RuleTypes)
        BY <1>1, <1>2, <2>3, SlotType
    <3> QED  BY <1>3, <2>1, <2>2, <2>3, <3>1
  <2>4. CASE ~(Len(sets) < 4)
    <3> DEFINE gs == Elements(IntersectAll(sets))
    <3>0. Len(sets) = 4
      <4>1. Len(sets) \in 1..4
          BY <2>1
      <4> QED  BY <2>4, <4>1
    <3>1. gs \in SUBSET Groups
        BY <3>0, FourMaps
    <3>2. /\ Slot(q, "done", <<>>, "ok", gs) \in Eval
          /\ Len(Slot(q, "done", <<>>, "ok", gs).sets) < Len(RuleTypes)
        BY <1>1, <1>2, <3>1, SlotType
    <3> QED  BY <1>3, <2>1, <2>2, <2>4, <3>2
  <2> QED  BY <2>3, <2>4
<1>7. ASSUME NEW e \in Evals, ReadFails(e)  PROVE TypeOK'
  <2>1. /\ Slot(eval[e].request, "done", <<>>, "error", {}) \in Eval
        /\ Len(Slot(eval[e].request, "done", <<>>, "error", {}).sets) < Len(RuleTypes)
      BY <1>1, <1>2, SlotType
  <2> QED  BY <1>3, <1>7, <2>1 DEF ReadFails
<1>8. CASE Others
  <2>1. changes' \in 0..MaxChanges
      BY <1>8, PolicyAssumption DEF Others, TypeOK
  <2>2. PICK p \in Policies, r \in Row \cup {NoPolicy} :
           policy' = [policy EXCEPT ![p] = r]
      BY <1>8 DEF Others
  <2>3. policy' \in [Policies -> Row \cup {NoPolicy}]
      BY <2>2 DEF TypeOK
  <2>4. eval' = eval
      BY <1>8 DEF Others
  <2> QED  BY <2>1, <2>3, <2>4 DEF TypeOK
<1> QED  BY <1>4, <1>5, <1>6, <1>7, <1>8 DEF Next

(* The policies and every local of EvaluateGroupsForClient keep their      *)
(* types: no more than three maps wait, and an answer has groups only.     *)
THEOREM TypeCorrect == Spec => []TypeOK
BY TypeInit, TypeNext, PTL DEF Spec

-----------------------------------------------------------------------------
(* A map m is what its rule type said at some moment of the window w.      *)
Within(m, w) ==
    /\ Elements(m) \subseteq w.ever /\ w.always \subseteq Elements(m)
    /\ w.spoke => m # Nil
    /\ w.silent => m = Nil

(* Of a running evaluation, so are the maps it holds, and so is what would *)
(* be read now.                                                            *)
Faithful(e) ==
    /\ \A t \in Dimensions :
         /\ Within(Matching(t, eval[e].request[t]), window[e][t])
         /\ window[e][t].spoke \in BOOLEAN /\ window[e][t].silent \in BOOLEAN
    /\ \A i \in 1..Len(eval[e].sets) :
         Within(eval[e].sets[i], window[e][RuleTypes[i]])

WindowInv ==
    /\ TypeOK
    /\ \A e \in Evals : eval[e].phase = "read" => Faithful(e)

LEMMA Places ==
    /\ \A i \in 1..4 : RuleTypes[i] \in Dimensions
    /\ \A t \in Dimensions : \E i \in 1..4 : t = RuleTypes[i]
    /\ DOMAIN RuleTypes = 1..4
BY DEF RuleTypes, Dimensions

(* A longer window still has in it what the shorter one had.               *)
LEMMA AlsoWider ==
    ASSUME NEW m, NEW w, NEW now, Within(m, w)
    PROVE  Within(m, Also(w, now))
BY DEF Within, Also

LEMMA WindowGrows ==
    ASSUME TypeOK, WNext, NEW e \in Evals, eval'[e].phase = "read"
    PROVE  \A t \in Dimensions :
             LET m == Matching(t, eval[e].request[t])' IN
             /\ Within(m, window'[e][t])
             /\ eval[e].phase = "read" =>
                  \A x : Within(x, window[e][t]) => Within(x, window'[e][t])
             /\ \/ eval[e].phase = "read"
                   /\ window[e][t].spoke \in BOOLEAN /\ window[e][t].silent \in BOOLEAN
                \/ eval[e].phase # "read"
                => window'[e][t].spoke \in BOOLEAN /\ window'[e][t].silent \in BOOLEAN
<1> TAKE t \in Dimensions
<1> DEFINE m == Matching(t, eval[e].request[t])'
           now == Says(t, eval[e].request)'
<1>1. /\ now.ever = Elements(m) /\ now.always = Elements(m)
      /\ now.spoke = (m # Nil) /\ now.silent = (m = Nil)
    BY DEF Says
<1>2. window'[e][t] = IF eval[e].phase = "done" THEN now ELSE Also(window[e][t], now)
    BY DEF WNext
<1>3. eval[e].phase \in {"read", "done"}
    BY DEF TypeOK, Eval
<1> HIDE DEF m, now
<1>4. Within(m, now)
    BY <1>1 DEF Within
<1>5. Within(m, Also(window[e][t], now))
    BY <1>1 DEF Within, Also
<1>6. CASE eval[e].phase = "done"
    BY <1>1, <1>2, <1>4, <1>6 DEF m
<1>7. CASE eval[e].phase = "read"
  <2>1. window'[e][t] = Also(window[e][t], now)
      BY <1>2, <1>7
  <2>2. /\ Also(window[e][t], now).spoke = (window[e][t].spoke /\ now.spoke)
        /\ Also(window[e][t], now).silent = (window[e][t].silent /\ now.silent)
      BY DEF Also
  <2> QED  BY <1>1, <1>5, <1>7, <2>1, <2>2, AlsoWider DEF m
<1> QED  BY <1>3, <1>6, <1>7

LEMMA WindowInit == WInit => WindowInv
<1> SUFFICES ASSUME WInit PROVE WindowInv
    OBVIOUS
<1>1. TypeOK
    BY TypeInit DEF WInit
<1>2. \A e \in Evals : eval[e].phase = "done"
    BY DEF WInit, Init, Slot
<1> QED  BY <1>1, <1>2 DEF WindowInv

LEMMA WindowNext == WindowInv /\ [WNext]_wvars => WindowInv'
<1> SUFFICES ASSUME WindowInv, [WNext]_wvars PROVE WindowInv'
    OBVIOUS
<1>1. CASE UNCHANGED wvars
  <2>1. policy' = policy /\ eval' = eval /\ changes' = changes /\ window' = window
      BY <1>1 DEF wvars
  <2>2. TypeOK'
      BY <2>1 DEF WindowInv, TypeOK
  <2>3. \A t, v : Matching(t, v)' = Matching(t, v)
      BY <2>1 DEF Matching
  <2>4. ASSUME NEW e \in Evals, Faithful(e)  PROVE Faithful(e)'
      BY <2>1, <2>3, <2>4 DEF Faithful
  <2> QED  BY <2>1, <2>2, <2>4 DEF WindowInv
<1>2. CASE WNext
  <2>1. TypeOK /\ Next
      BY <1>2 DEF WindowInv, WNext
  <2>2. TypeOK'
      BY <2>1, TypeNext
  <2>3. ASSUME NEW e \in Evals, (eval[e].phase = "read")'
        PROVE  Faithful(e)'
    <3>1. \A t \in Dimensions :
             LET m == Matching(t, eval[e].request[t])' IN
             /\ Within(m, window'[e][t])
             /\ eval[e].phase = "read" =>
                  \A x : Within(x, window[e][t]) => Within(x, window'[e][t])
             /\ \/ eval[e].phase = "read"
                   /\ window[e][t].spoke \in BOOLEAN /\ window[e][t].silent \in BOOLEAN
                \/ eval[e].phase # "read"
                => window'[e][t].spoke \in BOOLEAN /\ window'[e][t].silent \in BOOLEAN
        BY <1>2, <2>1, <2>3, WindowGrows
    <3>2. eval[e].phase = "read" => Faithful(e)
        BY DEF WindowInv
    <3>3. \A t \in Dimensions :
            /\ Within(Matching(t, eval[e].request[t])', window'[e][t])
            /\ window'[e][t].spoke \in BOOLEAN /\ window'[e][t].silent \in BOOLEAN
        BY <3>1, <3>2 DEF Faithful
    <3>4. CASE eval'[e] = eval[e]
      <4>1. eval[e].phase = "read" /\ Faithful(e) /\ Len(eval[e].sets) < 4
          BY <2>1, <2>3, <3>2, <3>4 DEF TypeOK, RuleTypes
      <4>2. \A i \in 1..Len(eval[e].sets) : RuleTypes[i] \in Dimensions
          BY <4>1, <2>1, Places DEF TypeOK, Eval
      <4>3. \A i \in 1..Len(eval'[e].sets) :
               Within(eval'[e].sets[i], window'[e][RuleTypes[i]])
          BY <3>1, <3>4, <4>1, <4>2 DEF Faithful
      <4> QED  BY <3>3, <4>3 DEF Faithful
    <3>5. CASE Read(e)
      <4>1. PICK sets \in Seq(GroupSet) :
              /\ Len(sets) = Len(eval[e].sets) + 1 /\ Len(sets) \in 1..4
              /\ \A i \in 1..Len(eval[e].sets) : sets[i] = eval[e].sets[i]
              /\ LET t == RuleTypes[Len(sets)]
                 IN  sets[Len(sets)] = Matching(t, eval[e].request[t])
              /\ eval' = [eval EXCEPT ![e] =
                   IF Len(sets) < 4 THEN Slot(eval[e].request, "read", sets, "none", {})
                   ELSE Slot(eval[e].request, "done", <<>>, "ok",
                             Elements(IntersectAll(sets)))]
          BY <2>1, <3>5, ReadIs
      <4>2. eval'[e].sets = sets
        <5>1. eval'[e] = IF Len(sets) < 4
                         THEN Slot(eval[e].request, "read", sets, "none", {})
                         ELSE Slot(eval[e].request, "done", <<>>, "ok",
                                   Elements(IntersectAll(sets)))
            BY <2>1, <4>1 DEF TypeOK
        <5> QED  BY <2>3, <5>1 DEF Slot
      <4>3. eval[e].phase = "read" /\ Faithful(e)
          BY <3>2, <3>5 DEF Read
      <4>4. ASSUME NEW i \in 1..Len(sets)
            PROVE  Within(sets[i], window'[e][RuleTypes[i]])
        <5>1. RuleTypes[i] \in Dimensions /\ Len(eval[e].sets) \in Nat
            BY <4>1, <2>1, Places DEF TypeOK, Eval
        <5>2. Within(sets[i], window[e][RuleTypes[i]])
          <6>1. CASE i = Len(sets)
              BY <4>1, <4>3, <5>1, <6>1 DEF Faithful
          <6>2. CASE i # Len(sets)
            <7>1. i \in 1..Len(eval[e].sets)
                BY <4>1, <5>1, <6>2
            <7> QED  BY <4>1, <4>3, <7>1 DEF Faithful
          <6> QED  BY <6>1, <6>2
        <5> QED  BY <3>1, <4>3, <5>1, <5>2
      <4> QED  BY <3>3, <4>2, <4>4 DEF Faithful
    <3>6. CASE \E r \in Requests : Receive(e, r)
      <4>1. eval'[e].sets = <<>>
          BY <2>1, <3>6 DEF Receive, Slot, TypeOK
      <4> QED  BY <3>3, <4>1 DEF Faithful
    <3>7. CASE ReadFails(e)
      <4>1. eval'[e].phase = "done"
          BY <2>1, <3>7 DEF ReadFails, Slot, TypeOK
      <4> QED  BY <2>3, <4>1
    <3>8. CASE \E f \in Evals \ {e} :
                 Read(f) \/ ReadFails(f) \/ \E r \in Requests : Receive(f, r)
      <4>1. \A f \in Evals \ {e} : \A s : eval' = [eval EXCEPT ![f] = s] => eval'[e] = eval[e]
          BY <2>1 DEF TypeOK
      <4> QED  BY <3>4, <3>8, <4>1 DEF Read, ReadFails, Receive
    <3>9. CASE Others
        BY <3>4, <3>9 DEF Others
    <3> QED  BY <2>1, <3>5, <3>6, <3>7, <3>8, <3>9 DEF Next
  <2> QED  BY <2>2, <2>3 DEF WindowInv
<1> QED  BY <1>1, <1>2

LEMMA WindowInvHolds == WSpec => []WindowInv
BY WindowInit, WindowNext, PTL DEF WSpec

-----------------------------------------------------------------------------
(* An answer is the intersection of four maps of its window.               *)
LEMMA Answering ==
    ASSUME WindowInv, [WNext]_wvars, NEW e \in Evals, Answers(e)
    PROVE  \E sets \in [1..4 -> GroupSet] :
             /\ Faithful(e)
             /\ \A i \in 1..4 : Within(sets[i], window[e][RuleTypes[i]])
             /\ eval'[e].groups = Elements(Allowed(sets))
             /\ \A g \in Groups : g \in eval'[e].groups <=>
                  /\ \E i \in 1..4 : sets[i] # Nil
                  /\ \A i \in 1..4 : sets[i] # Nil => g \in sets[i]
             /\ eval'[e].groups \in SUBSET Groups
<1>1. TypeOK /\ Faithful(e)
    BY DEF WindowInv, Answers
<1>2. Next /\ eval'[e] # eval[e]
    BY DEF WNext, wvars, Answers
<1>3. Read(e)
  <2>1. ~ReadFails(e)
    <3>1. ReadFails(e) => eval'[e].reply = "error"
        BY <1>1 DEF ReadFails, Slot, TypeOK
    <3> QED  BY <3>1 DEF Answers
  <2>2. ~\E r \in Requests : Receive(e, r)
      BY DEF Receive, Answers
  <2>3. \A f \in Evals \ {e} : \A s : eval' # [eval EXCEPT ![f] = s]
      BY <1>1, <1>2 DEF TypeOK
  <2>4. ~Others
      BY <1>2 DEF Others
  <2>5. \A f \in Evals \ {e} :
           ~Read(f) /\ ~ReadFails(f) /\ ~\E r \in Requests : Receive(f, r)
      BY <2>3 DEF Read, ReadFails, Receive
  <2> QED  BY <1>2, <2>1, <2>2, <2>4, <2>5 DEF Next
<1>4. PICK sets \in Seq(GroupSet) :
        /\ Len(sets) = Len(eval[e].sets) + 1 /\ Len(sets) \in 1..4
        /\ \A i \in 1..Len(eval[e].sets) : sets[i] = eval[e].sets[i]
        /\ LET t == RuleTypes[Len(sets)]
           IN  sets[Len(sets)] = Matching(t, eval[e].request[t])
        /\ eval' = [eval EXCEPT ![e] =
             IF Len(sets) < 4 THEN Slot(eval[e].request, "read", sets, "none", {})
             ELSE Slot(eval[e].request, "done", <<>>, "ok",
                       Elements(IntersectAll(sets)))]
    BY <1>1, <1>3, ReadIs
<1>5. eval'[e] = IF Len(sets) < 4 THEN Slot(eval[e].request, "read", sets, "none", {})
                 ELSE Slot(eval[e].request, "done", <<>>, "ok",
                           Elements(IntersectAll(sets)))
    BY <1>1, <1>4 DEF TypeOK
<1>6. ~(Len(sets) < 4)
  <2>1. Len(sets) < 4 => eval'[e].phase = "read"
      BY <1>5 DEF Slot
  <2> QED  BY <2>1 DEF Answers
<1>7. Len(sets) = 4 /\ eval'[e].groups = Elements(IntersectAll(sets))
    BY <1>4, <1>5, <1>6 DEF Slot
<1>8. /\ sets \in [1..4 -> GroupSet] /\ IntersectAll(sets) = Allowed(sets)
      /\ Elements(IntersectAll(sets)) \in SUBSET Groups
      /\ \A g \in Groups : g \in Elements(IntersectAll(sets)) <=>
           /\ \E i \in 1..4 : sets[i] # Nil
           /\ \A i \in 1..4 : sets[i] # Nil => g \in sets[i]
    BY <1>7, FourMaps, IntersectAllIsAllowed
<1>9. \A i \in 1..4 : Within(sets[i], window[e][RuleTypes[i]])
  <2> TAKE i \in 1..4
  <2>n. Len(eval[e].sets) \in Nat
    <3>1. eval[e].sets \in Seq(GroupSet)
        BY <1>1 DEF TypeOK, Eval
    <3> QED  BY <3>1
  <2>1. Len(eval[e].sets) = 3
    <3>1. Len(sets) = Len(eval[e].sets) + 1
        BY <1>4
    <3>2. Len(sets) = 4
        BY <1>7
    <3> DEFINE n == Len(eval[e].sets)
               m == Len(sets)
    <3>3. n \in Nat /\ m = n + 1 /\ m = 4
        BY <2>n, <3>1, <3>2
    <3> HIDE DEF n, m
    <3>4. n = 3
        BY <3>3
    <3> QED  BY <3>4 DEF n
  <2>2. CASE i = 4
    <3>1. sets[4] = Matching(RuleTypes[4], eval[e].request[RuleTypes[4]])
        BY <1>4, <1>7
    <3>2. RuleTypes[4] \in Dimensions
        BY Places
    <3>3. Within(sets[4], window[e][RuleTypes[4]])
        BY <1>1, <3>1, <3>2 DEF Faithful
    <3> QED  BY <2>2, <3>3
  <2>3. CASE i # 4
    <3>1. i \in 1..Len(eval[e].sets)
        BY <2>1, <2>3
    <3> QED  BY <1>1, <1>4, <3>1 DEF Faithful
  <2> QED  BY <2>2, <2>3
<1> QED  BY <1>1, <1>7, <1>8, <1>9

(* No group is answered against a rule type that spoke all along and       *)
(* allowed it at no moment, nor when no rule type allowed it at any.       *)
THEOREM OnlyAllowedHolds == WSpec => OnlyAllowed
<1>1. WindowInv /\ [WNext]_wvars =>
        [\A e \in Evals : Answers(e) =>
          \A g \in eval'[e].groups :
            /\ \A t \in Dimensions : window[e][t].spoke => g \in window[e][t].ever
            /\ \E t \in Dimensions : g \in window[e][t].ever]_wvars
  <2> SUFFICES ASSUME WindowInv, [WNext]_wvars, NEW e \in Evals, Answers(e),
                      NEW g \in eval'[e].groups
               PROVE  /\ \A t \in Dimensions :
                            window[e][t].spoke => g \in window[e][t].ever
                      /\ \E t \in Dimensions : g \in window[e][t].ever
      OBVIOUS
  <2>1. PICK sets \in [1..4 -> GroupSet] :
             /\ \A i \in 1..4 : Within(sets[i], window[e][RuleTypes[i]])
             /\ \A h \in Groups : h \in eval'[e].groups <=>
                  /\ \E i \in 1..4 : sets[i] # Nil
                  /\ \A i \in 1..4 : sets[i] # Nil => h \in sets[i]
             /\ eval'[e].groups \in SUBSET Groups
      BY Answering
  <2>2. \A i \in 1..4 : sets[i] # Nil => g \in window[e][RuleTypes[i]].ever
      BY <2>1 DEF Within, Elements
  <2>3. \E i \in 1..4 : sets[i] # Nil
      BY <2>1
  <2>4. \A i \in 1..4 : window[e][RuleTypes[i]].spoke => sets[i] # Nil
      BY <2>1 DEF Within
  <2> QED  BY <2>2, <2>3, <2>4, Places
<1> QED  BY <1>1, WindowInvHolds, PTL DEF WSpec, OnlyAllowed

(* A group that some rule type allows all along is answered when each of   *)
(* the others allows it all along or says nothing at any moment.           *)
THEOREM AllowedAnsweredHolds == WSpec => AllowedAnswered
<1>1. WindowInv /\ [WNext]_wvars =>
        [\A e \in Evals : Answers(e) =>
          \A g \in Groups :
            /\ \E t \in Dimensions : g \in window[e][t].always
            /\ \A t \in Dimensions :
                  g \in window[e][t].always \/ window[e][t].silent
            => g \in eval'[e].groups]_wvars
  <2> SUFFICES ASSUME WindowInv, [WNext]_wvars, NEW e \in Evals, Answers(e),
                      NEW g \in Groups,
                      \E t \in Dimensions : g \in window[e][t].always,
                      \A t \in Dimensions :
                         g \in window[e][t].always \/ window[e][t].silent
               PROVE  g \in eval'[e].groups
      OBVIOUS
  <2>1. PICK sets \in [1..4 -> GroupSet] :
             /\ \A i \in 1..4 : Within(sets[i], window[e][RuleTypes[i]])
             /\ \A h \in Groups : h \in eval'[e].groups <=>
                  /\ \E i \in 1..4 : sets[i] # Nil
                  /\ \A i \in 1..4 : sets[i] # Nil => h \in sets[i]
      BY Answering
  <2>2. \A i \in 1..4 : g \in window[e][RuleTypes[i]].always
                          => sets[i] # Nil /\ g \in sets[i]
      BY <2>1 DEF Within, Elements
  <2>3. \E i \in 1..4 : sets[i] # Nil
      BY <2>2, Places
  <2>4. \A i \in 1..4 : sets[i] # Nil => g \in sets[i]
    <3> TAKE i \in 1..4
    <3>1. g \in window[e][RuleTypes[i]].always \/ window[e][RuleTypes[i]].silent
        BY Places
    <3> QED  BY <2>1, <2>2, <3>1 DEF Within
  <2> QED  BY <2>1, <2>3, <2>4
<1> QED  BY <1>1, WindowInvHolds, PTL DEF WSpec, AllowedAnswered

(* Without a change that matters to it, an evaluation answers exactly what *)
(* the rule types allow together.                                          *)
THEOREM QuietIsExactHolds == WSpec => QuietIsExact
<1>1. WindowInv /\ [WNext]_wvars =>
        [\A e \in Evals :
          /\ Answers(e)
          /\ \A t \in Dimensions : window[e][t].ever = window[e][t].always
                                   /\ window[e][t].spoke # window[e][t].silent
          => eval'[e].groups = Elements(Allowed([i \in DOMAIN RuleTypes |->
                Matching(RuleTypes[i], eval[e].request[RuleTypes[i]])]))]_wvars
  <2> SUFFICES ASSUME WindowInv, [WNext]_wvars, NEW e \in Evals, Answers(e),
                      \A t \in Dimensions :
                         window[e][t].ever = window[e][t].always
                         /\ window[e][t].spoke # window[e][t].silent
               PROVE  eval'[e].groups = Elements(Allowed([i \in DOMAIN RuleTypes |->
                         Matching(RuleTypes[i], eval[e].request[RuleTypes[i]])]))
      OBVIOUS
  <2> DEFINE maps == [i \in DOMAIN RuleTypes |->
                         Matching(RuleTypes[i], eval[e].request[RuleTypes[i]])]
  <2>1. PICK sets \in [1..4 -> GroupSet] :
             /\ Faithful(e)
             /\ \A i \in 1..4 : Within(sets[i], window[e][RuleTypes[i]])
             /\ eval'[e].groups = Elements(Allowed(sets))
      BY Answering
  <2>2. maps \in [1..4 -> GroupSet]
      BY MatchingType, Places DEF WindowInv
  <2>3. ASSUME NEW i \in 1..4  PROVE maps[i] = sets[i]
    <3> DEFINE w == window[e][RuleTypes[i]]
    <3>1. RuleTypes[i] \in Dimensions /\ maps[i] =
             Matching(RuleTypes[i], eval[e].request[RuleTypes[i]])
        BY Places
    <3> HIDE DEF maps
    <3>2. /\ Within(maps[i], w) /\ Within(sets[i], w)
          /\ w.spoke \in BOOLEAN /\ w.silent \in BOOLEAN
        BY <2>1, <3>1 DEF Faithful
    <3>3. w.ever = w.always /\ w.spoke # w.silent
        BY <3>1
    <3>4. Elements(maps[i]) = Elements(sets[i])
        BY <3>2, <3>3 DEF Within
    <3>5. maps[i] = Nil <=> sets[i] = Nil
        BY <3>2, <3>3, Zenon DEF Within
    <3> QED  BY <3>4, <3>5 DEF Elements
  <2>4. maps = sets
    <3> HIDE DEF maps
    <3> QED  BY <2>2, <2>3
  <2> QED  BY <2>1, <2>4
<1> QED  BY <1>1, WindowInvHolds, PTL DEF WSpec, QuietIsExact
=============================================================================
