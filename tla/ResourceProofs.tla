---------------------------- MODULE ResourceProofs ----------------------------
(***************************************************************************)
(* What ResourceChecks promises of the analyzer's reports, proved for all  *)
(* pods, containers, usage and requests: the pods are partitioned, the net *)
(* impact is never overstated, the parts of a report agree, and followed   *)
(* advice does not flap.  First the sums of the community modules, which a *)
(* report is full of; then the advice; then the inductive invariant HInv.  *)
(***************************************************************************)
EXTENDS ResourceChecks, FiniteSetTheorems, SequenceTheorems,
        WellFoundedInduction, TLAPS

(* A non-empty set of numbers has a least one.                             *)
LEMMA LeastExists ==
    ASSUME NEW S, S \subseteq Nat, S # {}
    PROVE  \E m \in S : \A k \in S : m <= k
<1>1. PICK m \in S : \A k \in S : ~(<<k, m>> \in OpToRel(<, Nat))
    BY WFMin, NatLessThanWellFounded
<1>2. \A k \in S : ~(k < m)
    BY <1>1 DEF OpToRel
<1> QED  BY <1>2

(* Of the finite sets in C there is one of least size.                     *)
LEMMA SmallestExists ==
    ASSUME NEW C, C # {}, \A s \in C : IsFiniteSet(s)
    PROVE  \E s \in C : \A t \in C : Cardinality(s) <= Cardinality(t)
<1> DEFINE N == {Cardinality(s) : s \in C}
<1>1. N \subseteq Nat /\ N # {}
    BY FS_CardinalityType
<1>2. PICK n \in N : \A k \in N : n <= k
  <2> HIDE DEF N
  <2> QED  BY <1>1, LeastExists
<1> QED  BY <1>2

(* A finite set of numbers has a greatest one.                             *)
LEMMA GreatestExists ==
    ASSUME NEW S, IsFiniteSet(S), S \subseteq Nat, S # {}
    PROVE  \E m \in S : \A k \in S : k <= m
<1> DEFINE Bad == {s \in SUBSET S : s # {} /\ ~ \E m \in s : \A k \in s : k <= m}
<1> SUFFICES ASSUME Bad # {}  PROVE FALSE
    OBVIOUS
<1>1. \A s \in Bad : IsFiniteSet(s)
    BY FS_Subset
<1>2. PICK s \in Bad : \A t \in Bad : Cardinality(s) <= Cardinality(t)
  <2> HIDE DEF Bad
  <2> QED  BY <1>1, SmallestExists
<1>3. PICK x \in s : TRUE
    OBVIOUS
<1>4. Cardinality(s) \in Nat /\ Cardinality(s \ {x}) = Cardinality(s) - 1
    BY <1>1, FS_CardinalityType, FS_RemoveElement
<1>5. s \ {x} \notin Bad
  <2> HIDE DEF Bad
  <2> QED  BY <1>2, <1>4
<1>6. \A k \in s : k \in Nat
    OBVIOUS
<1>7. CASE s \ {x} = {}
  <2>1. \A k \in s : k = x /\ k <= x
      BY <1>6, <1>7
  <2> QED  BY <1>3, <2>1
<1>8. CASE s \ {x} # {}
  <2>1. PICK m \in s \ {x} : \A k \in s \ {x} : k <= m
      BY <1>5, <1>8
  <2>2. CASE x <= m
    <3>1. \A k \in s : k <= m
        BY <2>1, <2>2
    <3> QED  BY <2>1, <3>1
  <2>3. CASE ~(x <= m)
    <3>1. \A k \in s : k <= x
        BY <1>6, <2>1, <2>3
    <3> QED  BY <1>3, <3>1
  <2> QED  BY <2>2, <2>3
<1> QED  BY <1>7, <1>8

-----------------------------------------------------------------------------
(* Sums. The community modules sum a set by taking one element after the   *)
(* other off it. What is summed is a function here, and iter is the table  *)
(* of the sums of all subsets.                                             *)
Pick(s) == CHOOSE x \in s : TRUE

Sums(f, S, iter) ==
    iter = [s \in SUBSET S |-> IF s = {} THEN 0
                               ELSE f[Pick(s)] + iter[s \ {Pick(s)}]]

SumTable(f, S) == CHOOSE iter : Sums(f, S, iter)

SumOf(f, S) == SumTable(f, S)[S]

(* Tables for a set's subsets of at most n elements.                       *)
SumsUpTo(f, S, n, iter) ==
    \A s \in SUBSET S :
        Cardinality(s) <= n =>
           iter[s] = IF s = {} THEN 0 ELSE f[Pick(s)] + iter[s \ {Pick(s)}]

(* A non-empty set has the element that is taken off it.                   *)
LEMMA PickIn == \A s : s # {} => Pick(s) \in s
BY DEF Pick

(* Every finite set has a table of sums: tables for subsets of n elements  *)
(* make tables for those of n + 1.                                         *)
LEMMA SumTableExists ==
    ASSUME NEW S, IsFiniteSet(S), NEW f
    PROVE  \E iter : Sums(f, S, iter)
<1> DEFINE Fails == {n \in Nat : ~ \E iter : SumsUpTo(f, S, n, iter)}
<1>1. Fails = {}
  <2> SUFFICES ASSUME Fails # {}  PROVE FALSE
      OBVIOUS
  <2>1. PICK n \in Fails : \A k \in Fails : n <= k
    <3>1. Fails \subseteq Nat
        OBVIOUS
    <3> HIDE DEF Fails
    <3> QED  BY <3>1, LeastExists
  <2>2. n # 0
    <3> SUFFICES ASSUME n = 0  PROVE FALSE
        OBVIOUS
    <3>1. \A s \in SUBSET S : Cardinality(s) \in Nat /\ (Cardinality(s) = 0 <=> s = {})
        BY FS_Subset, FS_CardinalityType, FS_EmptySet
    <3>2. \A s \in SUBSET S : Cardinality(s) <= 0 => s = {}
        BY <3>1
    <3>3. SumsUpTo(f, S, 0, [s \in SUBSET S |-> 0])
        BY <3>2 DEF SumsUpTo
    <3> QED  BY <3>3
  <2>3. n - 1 \in Nat /\ n - 1 \notin Fails
      BY <2>1, <2>2
  <2>4. PICK iter : SumsUpTo(f, S, n - 1, iter)
      BY <2>3
  <2> DEFINE next == [s \in SUBSET S |-> IF s = {} THEN 0
                                         ELSE f[Pick(s)] + iter[s \ {Pick(s)}]]
  <2>5. SumsUpTo(f, S, n, next)
    <3> SUFFICES ASSUME NEW s \in SUBSET S, Cardinality(s) <= n
                 PROVE  next[s] = IF s = {} THEN 0
                                  ELSE f[Pick(s)] + next[s \ {Pick(s)}]
        BY DEF SumsUpTo
    <3>1. CASE s = {}
        BY <3>1
    <3>2. CASE s # {}
      <4> DEFINE t == s \ {Pick(s)}
      <4>1. Pick(s) \in s /\ t \in SUBSET S
          BY <3>2, PickIn
      <4>2. Cardinality(t) <= n - 1
        <5>1. IsFiniteSet(s) /\ Cardinality(s) \in Nat
            BY FS_Subset, FS_CardinalityType
        <5>2. Cardinality(t) = Cardinality(s) - 1
            BY <4>1, <5>1, FS_RemoveElement
        <5> QED  BY <5>1, <5>2
      <4>3. iter[t] = IF t = {} THEN 0 ELSE f[Pick(t)] + iter[t \ {Pick(t)}]
          BY <2>4, <4>1, <4>2 DEF SumsUpTo
      <4>4. next[t] = iter[t]
        <5> HIDE DEF t
        <5> QED  BY <4>1, <4>3
      <4>5. next[s] = f[Pick(s)] + iter[t]
          BY <3>2
      <4> HIDE DEF next
      <4> QED  BY <3>2, <4>4, <4>5
    <3> QED  BY <3>1, <3>2
  <2> QED  BY <2>1, <2>5
<1>2. Cardinality(S) \in Nat
    BY FS_CardinalityType
<1>3. PICK iter : SumsUpTo(f, S, Cardinality(S), iter)
    BY <1>1, <1>2
<1> DEFINE table == [s \in SUBSET S |-> iter[s]]
<1>4. \A s \in SUBSET S : iter[s] = IF s = {} THEN 0
                                    ELSE f[Pick(s)] + iter[s \ {Pick(s)}]
    BY <1>3, FS_Subset DEF SumsUpTo
<1>5. table = [s \in SUBSET S |-> IF s = {} THEN 0
                                  ELSE f[Pick(s)] + table[s \ {Pick(s)}]]
  <2> SUFFICES ASSUME NEW s \in SUBSET S
               PROVE  iter[s] = IF s = {} THEN 0
                                ELSE f[Pick(s)] + table[s \ {Pick(s)}]
      OBVIOUS
  <2>1. s \ {Pick(s)} \in SUBSET S
      OBVIOUS
  <2>2. table[s \ {Pick(s)}] = iter[s \ {Pick(s)}]
      BY <2>1
  <2> HIDE DEF table
  <2> QED  BY <1>4, <2>2
<1> HIDE DEF table
<1>6. Sums(f, S, table)
    BY <1>5 DEF Sums
<1> QED  BY <1>6

(* There is one table only, so whoever satisfies its recursion is it.      *)
LEMMA SumTableIsUnique ==
    ASSUME NEW S, IsFiniteSet(S), NEW f, NEW g, NEW h, Sums(f, S, g), Sums(f, S, h)
    PROVE  g = h
<1> DEFINE Differ == {s \in SUBSET S : g[s] # h[s]}
<1>1. Differ = {}
  <2> SUFFICES ASSUME Differ # {}  PROVE FALSE
      OBVIOUS
  <2>1. PICK s \in Differ : \A t \in Differ : Cardinality(s) <= Cardinality(t)
    <3>1. \A s \in Differ : IsFiniteSet(s)
        BY FS_Subset
    <3> HIDE DEF Differ
    <3> QED  BY <3>1, SmallestExists
  <2> DEFINE t == s \ {Pick(s)}
  <2>2. /\ g[s] = IF s = {} THEN 0 ELSE f[Pick(s)] + g[t]
        /\ h[s] = IF s = {} THEN 0 ELSE f[Pick(s)] + h[t]
      BY DEF Sums
  <2>3. s # {} /\ g[t] # h[t]
      BY <2>2
  <2>4. t \in Differ /\ Pick(s) \in s
      BY <2>3, PickIn
  <2>5. Cardinality(t) = Cardinality(s) - 1 /\ Cardinality(s) \in Nat
      BY <2>4, FS_Subset, FS_RemoveElement, FS_CardinalityType
  <2>6. Cardinality(s) <= Cardinality(t)
      BY <2>1, <2>4
  <2> HIDE DEF t
  <2> QED  BY <2>5, <2>6
<1>2. g = [s \in SUBSET S |-> g[s]] /\ h = [s \in SUBSET S |-> h[s]]
    BY DEF Sums
<1> QED  BY <1>1, <1>2

(* The table a sum is defined by satisfies the recursion.                  *)
LEMMA SumTableIs ==
    ASSUME NEW S, IsFiniteSet(S), NEW f
    PROVE  /\ Sums(f, S, SumTable(f, S))
           /\ \A iter : Sums(f, S, iter) => iter[S] = SumOf(f, S)
<1>1. Sums(f, S, SumTable(f, S))
    BY SumTableExists DEF SumTable
<1> QED  BY <1>1, SumTableIsUnique DEF SumOf

(* The recursion of a sum, element for element of a subset.                *)
LEMMA SumStep ==
    ASSUME NEW S, IsFiniteSet(S), NEW f, NEW s \in SUBSET S
    PROVE  LET T == SumTable(f, S) IN
           /\ T[{}] = 0
           /\ s # {} => /\ Pick(s) \in s /\ s \ {Pick(s)} \in SUBSET S
                        /\ T[s] = f[Pick(s)] + T[s \ {Pick(s)}]
<1>1. Sums(f, S, SumTable(f, S))
    BY SumTableIs
<1>2. \A t \in SUBSET S :
         SumTable(f, S)[t] = IF t = {} THEN 0
                             ELSE f[Pick(t)] + SumTable(f, S)[t \ {Pick(t)}]
    BY <1>1 DEF Sums
<1> QED  BY <1>2, PickIn

(* Sums of integers are integers, and of natural numbers natural.          *)
LEMMA SumTyped ==
    ASSUME NEW S, IsFiniteSet(S), NEW N \in {Int, Nat}, NEW f \in [S -> N]
    PROVE  (\A s \in SUBSET S : SumTable(f, S)[s] \in N) /\ SumOf(f, S) \in N
<1> DEFINE T == SumTable(f, S)
           Bad == {s \in SUBSET S : T[s] \notin N}
<1>1. Bad = {}
  <2> SUFFICES ASSUME Bad # {}  PROVE FALSE
      OBVIOUS
  <2>1. PICK s \in Bad : \A t \in Bad : Cardinality(s) <= Cardinality(t)
    <3>1. \A s \in Bad : IsFiniteSet(s)
        BY FS_Subset
    <3> HIDE DEF Bad
    <3> QED  BY <3>1, SmallestExists
  <2> DEFINE t == s \ {Pick(s)}
  <2> HIDE DEF T
  <2>2. /\ T[{}] = 0
        /\ s # {} => Pick(s) \in s /\ t \in SUBSET S /\ T[s] = f[Pick(s)] + T[t]
      BY SumStep DEF T
  <2>3. s # {}
    <3> SUFFICES ASSUME s = {}  PROVE FALSE
        OBVIOUS
    <3>1. T[s] = 0 /\ T[s] \notin N
        BY <2>2
    <3> QED  BY <3>1
  <2>4. f[Pick(s)] \in N
      BY <2>2, <2>3
  <2>5. T[t] \notin N
      BY <2>2, <2>3, <2>4
  <2>6. t \in Bad
      BY <2>2, <2>3, <2>5
  <2>7. Cardinality(t) = Cardinality(s) - 1 /\ Cardinality(s) \in Nat
      BY <2>2, <2>3, FS_Subset, FS_RemoveElement, FS_CardinalityType
  <2>8. Cardinality(s) <= Cardinality(t)
      BY <2>1, <2>6
  <2> HIDE DEF t
  <2> QED  BY <2>7, <2>8
<1>2. \A s \in SUBSET S : T[s] \in N
    BY <1>1
<1> QED  BY <1>2 DEF SumOf

(* A sum of positive numbers is positive.                                  *)
LEMMA SumPositive ==
    ASSUME NEW S, IsFiniteSet(S), NEW f \in [S -> Nat \ {0}], S # {}
    PROVE  SumOf(f, S) \in Nat \ {0}
<1>1. /\ Pick(S) \in S /\ S \ {Pick(S)} \in SUBSET S
      /\ SumOf(f, S) = f[Pick(S)] + SumTable(f, S)[S \ {Pick(S)}]
    BY SumStep DEF SumOf
<1>2. f \in [S -> Nat]
    OBVIOUS
<1>3. SumTable(f, S)[S \ {Pick(S)}] \in Nat
    BY <1>1, <1>2, SumTyped
<1> QED  BY <1>1, <1>3

(* Nothing sums to 0.                                                      *)
LEMMA SumEmpty == \A f : SumOf(f, {}) = 0
BY SumStep, FS_EmptySet DEF SumOf

(* What is smaller for each element is smaller in sum.                     *)
LEMMA SumMonotone ==
    ASSUME NEW S, IsFiniteSet(S), NEW f \in [S -> Int], NEW g \in [S -> Int],
           \A x \in S : f[x] <= g[x]
    PROVE  SumOf(f, S) <= SumOf(g, S)
<1> DEFINE F == SumTable(f, S)
           G == SumTable(g, S)
           Bad == {s \in SUBSET S : ~(F[s] <= G[s])}
<1>1. Bad = {}
  <2> SUFFICES ASSUME Bad # {}  PROVE FALSE
      OBVIOUS
  <2>1. PICK s \in Bad : \A t \in Bad : Cardinality(s) <= Cardinality(t)
    <3>1. \A s \in Bad : IsFiniteSet(s)
        BY FS_Subset
    <3> HIDE DEF Bad
    <3> QED  BY <3>1, SmallestExists
  <2> DEFINE t == s \ {Pick(s)}
  <2>2. \A u \in SUBSET S : F[u] \in Int /\ G[u] \in Int
      BY SumTyped
  <2>3. /\ F[{}] = 0 /\ G[{}] = 0
        /\ s # {} => /\ Pick(s) \in s /\ t \in SUBSET S
                     /\ F[s] = f[Pick(s)] + F[t] /\ G[s] = g[Pick(s)] + G[t]
    <3>1. /\ F[{}] = 0
          /\ s # {} => /\ Pick(s) \in s /\ t \in SUBSET S
                       /\ F[s] = f[Pick(s)] + F[t]
        BY SumStep
    <3>2. /\ G[{}] = 0
          /\ s # {} => G[s] = g[Pick(s)] + G[t]
        BY SumStep
    <3> QED  BY <3>1, <3>2
  <2> HIDE DEF F, G
  <2>4. s # {}
    <3> SUFFICES ASSUME s = {}  PROVE FALSE
        OBVIOUS
    <3>1. F[s] = 0 /\ G[s] = 0
        BY <2>3
    <3> QED  BY <3>1
  <2>5. /\ f[Pick(s)] \in Int /\ g[Pick(s)] \in Int /\ f[Pick(s)] <= g[Pick(s)]
        /\ F[t] \in Int /\ G[t] \in Int
      BY <2>2, <2>3, <2>4
  <2>6. ~(F[t] <= G[t])
    <3> HIDE DEF t
    <3> QED  BY <2>3, <2>4, <2>5
  <2>7. t \in Bad
      BY <2>3, <2>4, <2>6
  <2>8. Cardinality(t) = Cardinality(s) - 1 /\ Cardinality(s) \in Nat
      BY <2>3, <2>4, FS_Subset, FS_RemoveElement, FS_CardinalityType
  <2>9. Cardinality(s) <= Cardinality(t)
      BY <2>1, <2>7
  <2> HIDE DEF t
  <2> QED  BY <2>8, <2>9
<1> QED  BY <1>1 DEF SumOf

(* The sizes of disjoint parts add up to the size of the whole.            *)
LEMMA SumOfParts ==
    ASSUME NEW S, IsFiniteSet(S), NEW part, \A x \in S : IsFiniteSet(part[x]),
           \A x, y \in S : x # y => part[x] \cap part[y] = {},
           NEW f, \A x \in S : f[x] = Cardinality(part[x])
    PROVE  SumOf(f, S) = Cardinality(UNION {part[x] : x \in S})
<1> DEFINE T == SumTable(f, S)
           All(s) == UNION {part[x] : x \in s}
           Bad == {s \in SUBSET S : ~(IsFiniteSet(All(s)) /\ T[s] = Cardinality(All(s)))}
<1>1. Bad = {}
  <2> SUFFICES ASSUME Bad # {}  PROVE FALSE
      OBVIOUS
  <2>1. PICK s \in Bad : \A t \in Bad : Cardinality(s) <= Cardinality(t)
    <3>1. \A s \in Bad : IsFiniteSet(s)
        BY FS_Subset
    <3> HIDE DEF Bad
    <3> QED  BY <3>1, SmallestExists
  <2> DEFINE p == Pick(s)
             t == s \ {p}
  <2> HIDE DEF T
  <2>2. /\ T[{}] = 0
        /\ s # {} => p \in s /\ t \in SUBSET S /\ T[s] = f[p] + T[t]
      BY SumStep DEF T
  <2>3. s # {}
    <3>1. All({}) = {}
        OBVIOUS
    <3> QED  BY <2>2, <3>1, FS_EmptySet
  <2>4. Cardinality(t) = Cardinality(s) - 1 /\ Cardinality(s) \in Nat
      BY <2>2, <2>3, FS_Subset, FS_RemoveElement, FS_CardinalityType
  <2>5. t \notin Bad
    <3> HIDE DEF Bad, t
    <3> QED  BY <2>1, <2>4
  <2>6. IsFiniteSet(All(t)) /\ T[t] = Cardinality(All(t))
      BY <2>2, <2>3, <2>5
  <2>7. All(s) = All(t) \cup part[p]
      BY <2>2, <2>3
  <2>8. All(t) \cap part[p] = {}
      BY <2>2, <2>3
  <2>9. IsFiniteSet(part[p]) /\ f[p] = Cardinality(part[p])
      BY <2>2, <2>3
  <2> HIDE DEF All
  <2>10. /\ IsFiniteSet(All(s))
         /\ Cardinality(All(s)) = Cardinality(All(t)) + Cardinality(part[p])
    <3>1. /\ IsFiniteSet(All(t) \cup part[p])
          /\ Cardinality(All(t) \cup part[p])
                = Cardinality(All(t)) + Cardinality(part[p]) - Cardinality(All(t) \cap part[p])
        BY <2>6, <2>9, FS_Union
    <3>2. Cardinality(All(t) \cap part[p]) = 0
        BY <2>8, FS_EmptySet
    <3>3. Cardinality(All(t)) \in Nat /\ Cardinality(part[p]) \in Nat
        BY <2>6, <2>9, FS_CardinalityType
    <3> QED  BY <2>7, <3>1, <3>2, <3>3
  <2>11. T[s] = Cardinality(All(s))
    <3>1. Cardinality(All(t)) \in Nat /\ Cardinality(part[p]) \in Nat
        BY <2>6, <2>9, FS_CardinalityType
    <3> QED  BY <2>2, <2>3, <2>6, <2>9, <2>10, <3>1
  <2> QED  BY <2>10, <2>11
<1>2. T[S] = Cardinality(All(S))
    BY <1>1
<1> QED  BY <1>2 DEF SumOf

-----------------------------------------------------------------------------
(* The number of samples is such a sum.                                    *)
LEMMA SamplesIsSum ==
    ASSUME NEW series, IsFiniteSet(series)
    PROVE  Samples(series) = SumOf([s \in series |-> s.samples], series)
<1> DEFINE f == [s \in series |-> s.samples]
           First(s) == CHOOSE x \in s : TRUE
           Rec(iter) == iter = [s \in SUBSET series |->
                                  IF s = {} THEN 0
                                  ELSE First(s).samples + iter[s \ {First(s)}]]
           table == CHOOSE iter : Rec(iter)
<1>1. Samples(series) = table[series]
    BY DEF Samples, MapThenSumSet, MapThenFoldSet
<1>2. \A s \in SUBSET series : s # {} => f[Pick(s)] = First(s).samples
    BY PickIn DEF Pick
<1>3. ASSUME NEW iter  PROVE Sums(f, series, iter) <=> Rec(iter)
    BY <1>2 DEF Sums, Pick
<1>4. Rec(table)
  <2>1. Rec(SumTable(f, series))
      BY <1>3, SumTableIs
  <2> HIDE DEF Rec
  <2> QED  BY <2>1 DEF table
<1> HIDE DEF table, f, Rec
<1>5. Sums(f, series, table)
    BY <1>3, <1>4
<1>6. table[series] = SumOf(f, series)
    BY <1>5, SumTableIs
<1> QED  BY <1>1, <1>6 DEF f

(* What Prometheus can return.                                             *)
SeriesSet(series) ==
    IsFiniteSet(series) /\ series \subseteq [value : Nat, samples : Nat \ {0}]

(* Only no series at all have no samples.                                  *)
LEMMA SamplesCount ==
    ASSUME NEW series, SeriesSet(series)
    PROVE  /\ Samples(series) \in Nat
           /\ Samples({}) = 0
           /\ series # {} => Samples(series) # 0
<1> DEFINE f == [s \in series |-> s.samples]
<1>0. IsFiniteSet(series) /\ \A s \in series : s.samples \in Nat \ {0}
    BY DEF SeriesSet
<1>1. Samples(series) = SumOf(f, series) /\ Samples({}) = 0
    BY <1>0, SamplesIsSum, SumEmpty, FS_EmptySet
<1>2. f \in [series -> Nat \ {0}] /\ f \in [series -> Nat]
    BY <1>0
<1> HIDE DEF f
<1>3. SumOf(f, series) \in Nat
    BY <1>0, <1>2, SumTyped
<1>4. series # {} => SumOf(f, series) # 0
    BY <1>0, <1>2, SumPositive
<1> QED  BY <1>1, <1>3, <1>4

(* The 95th percentile of a set of series is one of the values: the least  *)
(* below or at which enough of the samples lie.                            *)
LEMMA P95IsValue ==
    ASSUME NEW series, SeriesSet(series), series # {}
    PROVE  P95(series) \in Nat
<1> DEFINE values == {s.value : s \in series}
           AtMost(v) == {s \in series : s.value <= v}
           Below(v) == {s \in series : s.value < v}
           rank == (95 * Samples(series)) \div 100 + 1
           Enough == {v \in values : Samples(AtMost(v)) >= rank}
<1>1. /\ IsFiniteSet(series) /\ \A s \in series : s.value \in Nat
      /\ values \subseteq Nat /\ values # {}
    BY DEF SeriesSet
<1>2. \A t \in SUBSET series : SeriesSet(t) /\ Samples(t) \in Nat
    BY SamplesCount, FS_Subset DEF SeriesSet
<1>3. Samples(series) \in Nat /\ Samples(series) # 0
    BY SamplesCount
<1>4. rank \in Nat /\ rank >= 1 /\ rank <= Samples(series)
    BY <1>3
<1> HIDE DEF rank
<1>5. IsFiniteSet(values)
  <2> DEFINE f == [s \in series |-> s.value]
  <2>1. f \in Surjection(series, values)
      BY DEF Surjection
  <2> HIDE DEF f, values
  <2> QED  BY <1>1, <2>1, FS_Surjection
<1>6. PICK top \in values : \A v \in values : v <= top
  <2> HIDE DEF values
  <2> QED  BY <1>1, <1>5, GreatestExists
<1>7. top \in Enough
  <2>1. \A s \in series : s.value \in values
      OBVIOUS
  <2>2. AtMost(top) = series
      BY <1>6, <2>1
  <2> HIDE DEF values, AtMost
  <2> QED  BY <1>3, <1>4, <2>2
<1>8. PICK v \in Enough : \A w \in Enough : v <= w
  <2>1. Enough \subseteq Nat /\ Enough # {}
      BY <1>1, <1>7
  <2> HIDE DEF Enough
  <2> QED  BY <2>1, LeastExists
<1>9. v \in Nat /\ v \in values /\ Samples(AtMost(v)) >= rank
    BY <1>1, <1>8
<1>10. Samples(Below(v)) < rank
  <2>1. CASE Below(v) = {}
    <3>1. Samples(Below(v)) = 0
        BY <2>1, SamplesCount
    <3> HIDE DEF Below
    <3> QED  BY <1>4, <3>1
  <2>2. CASE Below(v) # {}
    <3> DEFINE lower == {u \in values : u < v}
    <3>1. lower # {} /\ lower \subseteq Nat /\ IsFiniteSet(lower)
      <4>1. lower \in SUBSET values
          OBVIOUS
      <4>2. IsFiniteSet(lower)
        <5> HIDE DEF lower, values
        <5> QED  BY <1>5, <4>1, FS_Subset
      <4> QED  BY <1>1, <2>2, <4>2
    <3>2. PICK m \in lower : \A u \in lower : u <= m
      <4> HIDE DEF lower
      <4> QED  BY <3>1, GreatestExists
    <3>3. m \in Nat /\ m \in values /\ m < v
        BY <3>1, <3>2
    <3>4. m \notin Enough
        BY <1>8, <1>9, <3>3
    <3>5. Below(v) = AtMost(m)
      <4>1. \A s \in series : s.value < v => s.value \in lower
          OBVIOUS
      <4>2. \A s \in series : s.value < v <=> s.value <= m
          BY <1>1, <1>9, <3>2, <3>3, <4>1
      <4> QED  BY <4>2
    <3>6. Samples(AtMost(m)) \in Nat
        BY <1>2
    <3>7. ~(Samples(AtMost(m)) >= rank)
        BY <3>3, <3>4
    <3> HIDE DEF AtMost, Below
    <3> QED  BY <1>4, <3>5, <3>6, <3>7
  <2> QED  BY <2>1, <2>2
<1>11. P95(series) = CHOOSE x \in values :
                        Samples(AtMost(x)) >= rank /\ Samples(Below(x)) < rank
    BY DEF P95, rank
<1> HIDE DEF values, AtMost, Below, Enough
<1>12. P95(series) \in values
    BY <1>9, <1>10, <1>11
<1> QED  BY <1>1, <1>12

(* What a measurement may come to.                                         *)
Metrics(m) == m.p95 \in Nat \cup {NoValue}

(* aggregate_metrics returns a measurement.                                *)
LEMMA AggregateTyped ==
    ASSUME NEW series, SeriesSet(series)
    PROVE  Metrics(Aggregate(series))
BY P95IsValue DEF Aggregate, Metrics, NoMetrics

-----------------------------------------------------------------------------
(* What a piece of advice a may be for a spec and metrics m: only its type *)
(* tells its priority, and its numbers come from the 95th percentile.      *)
Counsel(spec, m, a) ==
    /\ a.new_request \in Nat \cup {NoValue}
    /\ a.new_limit \in Nat \cup {NoValue}
    /\ a.type = "INCREASE_REQUEST" <=> a.priority \in {"CRITICAL", "HIGH"}
    /\ a.type = "INCREASE_REQUEST" =>
          /\ m.p95 \in Nat /\ spec.request # NoValue
          /\ a.new_request = Double(m.p95) /\ m.p95 > 10 * spec.request
    /\ a.type = "DECREASE_REQUEST" =>
          /\ m.p95 \in Nat /\ spec.request # NoValue
          /\ a.new_request = HalfMore(m.p95) /\ 2 * m.p95 < 10 * spec.request
    /\ a.new_request # NoValue =>
          a.type \in {"INCREASE_REQUEST", "DECREASE_REQUEST"}
    /\ m.p95 = NoValue => a = Healthy

(* recommend_cpu and recommend_memory, case by case.                       *)
LEMMA RecommendIsCounsel ==
    ASSUME NEW spec, NEW m, Metrics(m)
    PROVE  Counsel(spec, m, Recommend(spec, m))
<1> DEFINE p == m.p95
           known == p # NoValue /\ spec.request # NoValue
           limited == known /\ spec.limit # NoValue
           over == limited /\ p > 10 * spec.request
           beyond == over /\ spec.limit # 0 /\ p > 10 * spec.limit
           idle == limited /\ ~over /\ spec.request # 0 /\ 2 * p < 10 * spec.request
<1> SUFFICES ASSUME NEW a, a = Recommend(spec, m)
             PROVE  Counsel(spec, m, a)
    OBVIOUS
<1>1. p # NoValue => /\ p \in Nat /\ Double(p) \in Nat /\ HalfMore(p) \in Nat
    BY DEF Metrics, Double, HalfMore, NoValue
<1>2. NoValue = -1 /\ NoValue \notin Nat
    BY DEF NoValue
<1>3. CASE ~known
  <2>1. a = Healthy
      BY <1>3 DEF Recommend
  <2> QED  BY <2>1 DEF Counsel, Healthy, Advice
<1>4. CASE known /\ ~limited
  <2>1. a = Advice("SET_LIMIT", NoValue, HalfMore(p), "MEDIUM")
      BY <1>4 DEF Recommend
  <2>2. HalfMore(p) \in Nat /\ p # NoValue
      BY <1>1, <1>4
  <2> QED  BY <2>1, <2>2 DEF Counsel, Advice
<1>5. CASE beyond
  <2>1. a = Advice("INCREASE_REQUEST", Double(p), HalfMore(p), "CRITICAL")
      BY <1>5 DEF Recommend
  <2>2. /\ p # NoValue /\ p \in Nat /\ Double(p) \in Nat /\ HalfMore(p) \in Nat
        /\ spec.request # NoValue /\ p > 10 * spec.request
      BY <1>1, <1>5
  <2> QED  BY <2>1, <2>2 DEF Counsel, Advice
<1>6. CASE over /\ ~beyond
  <2>1. a = Advice("INCREASE_REQUEST", Double(p), NoValue, "HIGH")
      BY <1>6 DEF Recommend
  <2>2. /\ p # NoValue /\ p \in Nat /\ Double(p) \in Nat
        /\ spec.request # NoValue /\ p > 10 * spec.request
      BY <1>1, <1>6
  <2> QED  BY <2>1, <2>2 DEF Counsel, Advice
<1>7. CASE idle
  <2>1. a = Advice("DECREASE_REQUEST", HalfMore(p), NoValue, "LOW")
      BY <1>7 DEF Recommend
  <2>2. /\ p # NoValue /\ p \in Nat /\ HalfMore(p) \in Nat
        /\ spec.request # NoValue /\ 2 * p < 10 * spec.request
      BY <1>1, <1>7
  <2> QED  BY <2>1, <2>2 DEF Counsel, Advice
<1>8. CASE limited /\ ~over /\ ~idle
  <2>1. a \in {Healthy, Advice("MONITOR", NoValue, NoValue, "LOW")}
      BY <1>8 DEF Recommend
  <2>2. p # NoValue
      BY <1>8
  <2>3. CASE a = Healthy
      BY <2>2, <2>3 DEF Counsel, Healthy, Advice
  <2>4. CASE a = Advice("MONITOR", NoValue, NoValue, "LOW")
      BY <2>2, <2>4 DEF Counsel, Advice
  <2> QED  BY <2>1, <2>3, <2>4
<1> QED  BY <1>3, <1>4, <1>5, <1>6, <1>7, <1>8

(* The sums of a report, over the deployments of its results.              *)
PodCounts(results) == [g \in DOMAIN results |-> results[g].pods]

(* The pods of all deployments, as such a sum.                             *)
LEMMA PodsIsSum ==
    ASSUME NEW results, NEW D, D = DOMAIN results, IsFiniteSet(D)
    PROVE  MapThenSumSet(LAMBDA g : results[g].pods, D)
              = SumOf(PodCounts(results), D)
<1> DEFINE f == PodCounts(results)
           First(s) == CHOOSE x \in s : TRUE
           Rec(iter) == iter = [s \in SUBSET D |->
                                  IF s = {} THEN 0
                                  ELSE results[First(s)].pods + iter[s \ {First(s)}]]
           table == CHOOSE iter : Rec(iter)
<1>1. MapThenSumSet(LAMBDA g : results[g].pods, D) = table[D]
    BY DEF MapThenSumSet, MapThenFoldSet
<1>2. \A s \in SUBSET D : s # {} => f[Pick(s)] = results[First(s)].pods
    BY PickIn DEF Pick, PodCounts
<1>3. ASSUME NEW iter  PROVE Sums(f, D, iter) <=> Rec(iter)
    BY <1>2 DEF Sums, Pick
<1>4. Rec(table)
  <2>1. Rec(SumTable(f, D))
      BY <1>3, SumTableIs
  <2> HIDE DEF Rec
  <2> QED  BY <2>1 DEF table
<1> HIDE DEF table, f, Rec
<1>5. Sums(f, D, table)
    BY <1>3, <1>4
<1>6. table[D] = SumOf(f, D)
    BY <1>5, SumTableIs
<1> QED  BY <1>1, <1>6 DEF f

\* What a report counts as freed of a resource by one deployment, and what
\* following the advice frees there.
Promised(results, r) ==
    [d \in DOMAIN results |->
        Change(results[d], r, "DECREASE_REQUEST", -1)
        - Change(results[d], r, "INCREASE_REQUEST", 1)]

Kept(results, r) ==
    [g \in DOMAIN results |->
        IF results[g].advice[r].new_request = NoValue THEN 0
        ELSE results[g].pods * (results[g].spec[r].request
                                - results[g].advice[r].new_request)]

(* The net impact of a report, as such a sum.                              *)
LEMMA NetFreedIsSum ==
    ASSUME NEW results, NEW r, IsFiniteSet(DOMAIN results)
    PROVE  NetFreed(results, r) = SumOf(Promised(results, r), DOMAIN results)
<1> DEFINE D == DOMAIN results
           f == Promised(results, r)
           First(s) == CHOOSE x \in s : TRUE
           Rec(iter) ==
              iter = [s \in SUBSET D |->
                        IF s = {} THEN 0
                        ELSE (Change(results[First(s)], r, "DECREASE_REQUEST", -1)
                              - Change(results[First(s)], r, "INCREASE_REQUEST", 1))
                             + iter[s \ {First(s)}]]
           table == CHOOSE iter : Rec(iter)
<1>1. NetFreed(results, r) = table[D]
    BY DEF NetFreed, MapThenSumSet, MapThenFoldSet
<1>2. \A s \in SUBSET D : s # {} =>
         f[Pick(s)] = Change(results[First(s)], r, "DECREASE_REQUEST", -1)
                      - Change(results[First(s)], r, "INCREASE_REQUEST", 1)
    BY PickIn DEF Pick, Promised
<1>3. ASSUME NEW iter  PROVE Sums(f, D, iter) <=> Rec(iter)
    BY <1>2 DEF Sums, Pick
<1>4. Rec(table)
  <2>1. Rec(SumTable(f, D))
      BY <1>3, SumTableIs
  <2> HIDE DEF Rec
  <2> QED  BY <2>1 DEF table
<1> HIDE DEF table, f, Rec
<1>5. Sums(f, D, table)
    BY <1>3, <1>4
<1>6. table[D] = SumOf(f, D)
    BY <1>5, SumTableIs
<1> QED  BY <1>1, <1>6 DEF f

(* What following the advice frees, as such a sum.                         *)
LEMMA FreedIsSum ==
    ASSUME NEW results, NEW r, IsFiniteSet(DOMAIN results)
    PROVE  Freed(results, r) = SumOf(Kept(results, r), DOMAIN results)
<1> DEFINE D == DOMAIN results
           f == Kept(results, r)
           First(s) == CHOOSE x \in s : TRUE
           Rec(iter) ==
              iter = [s \in SUBSET D |->
                        IF s = {} THEN 0
                        ELSE (IF results[First(s)].advice[r].new_request = NoValue
                              THEN 0
                              ELSE results[First(s)].pods
                                      * (results[First(s)].spec[r].request
                                         - results[First(s)].advice[r].new_request))
                             + iter[s \ {First(s)}]]
           table == CHOOSE iter : Rec(iter)
<1>1. Freed(results, r) = table[D]
    BY DEF Freed, MapThenSumSet, MapThenFoldSet
<1>2. \A s \in SUBSET D : s # {} =>
         f[Pick(s)] = IF results[First(s)].advice[r].new_request = NoValue
                      THEN 0
                      ELSE results[First(s)].pods
                              * (results[First(s)].spec[r].request
                                 - results[First(s)].advice[r].new_request)
    BY PickIn DEF Pick, Kept
<1>3. ASSUME NEW iter  PROVE Sums(f, D, iter) <=> Rec(iter)
    BY <1>2 DEF Sums, Pick
<1>4. Rec(table)
  <2>1. Rec(SumTable(f, D))
      BY <1>3, SumTableIs
  <2> HIDE DEF Rec
  <2> QED  BY <2>1 DEF table
<1> HIDE DEF table, f, Rec
<1>5. Sums(f, D, table)
    BY <1>3, <1>4
<1>6. table[D] = SumOf(f, D)
    BY <1>5, SumTableIs
<1> QED  BY <1>1, <1>6 DEF f

-----------------------------------------------------------------------------
(* An analysis of a deployment, field by field.                            *)
Known(m) == {r \in Resources : m[r].p95 # NoValue}

StatusOf(spec, m) ==
    IF Known(m) = {} THEN "NO_METRICS"
    ELSE IF \E r \in Known(m) : Recommend(spec[r], m[r]).priority
                                     \in {"CRITICAL", "HIGH"}
         THEN "NEEDS ATTENTION" ELSE "OK"

(* Its fields are what analyze_deployment_metrics puts there.              *)
LEMMA AnalyzeFields ==
    ASSUME NEW spec, NEW m, NEW pods
    PROVE  LET x == Analyze(spec, m, pods) IN
           /\ x.spec = spec /\ x.pods = pods
           /\ \A r \in Resources : x.advice[r] = Recommend(spec[r], m[r])
           /\ x.hpa => Known(m) # {}
           /\ x.status = StatusOf(spec, m)
<1> DEFINE hpa == Known(m) # {} /\ RecommendHpa(m.cpu, m.memory).enabled
           advice == [r \in Resources |-> Recommend(spec[r], m[r])]
           status == IF Known(m) = {} THEN "NO_METRICS"
                     ELSE IF \E r \in Known(m) :
                                advice[r].priority \in {"CRITICAL", "HIGH"}
                          THEN "NEEDS ATTENTION" ELSE "OK"
           x == Analyze(spec, m, pods)
<1>1. x = [spec |-> spec, pods |-> pods, advice |-> advice, hpa |-> hpa,
           status |-> status]
    BY DEF Analyze, Known
<1>2. \A r \in Resources : advice[r] = Recommend(spec[r], m[r])
    OBVIOUS
<1>3. status = StatusOf(spec, m)
    BY <1>2 DEF StatusOf, Known
<1>4. hpa => Known(m) # {}
    OBVIOUS
<1> HIDE DEF x, hpa, advice, status
<1>5. x.spec = spec /\ x.pods = pods /\ x.advice = advice /\ x.status = status
    BY <1>1
<1>6. x.hpa = hpa
    BY <1>1
<1>7. x.hpa => Known(m) # {}
    BY <1>4, <1>6, Zenon
<1> QED  BY <1>2, <1>3, <1>5, <1>7 DEF x

(* An analysis of a deployment with typed spec and metrics.                *)
Quantified == Nat \cup {NoValue}
Specs == [Resources -> [request : Quantified, limit : Quantified]]

Analyzed(a) ==
    \E spec \in Specs, pods \in Nat : \E m :
        /\ a = Analyze(spec, m, pods)
        /\ \A r \in Resources : Metrics(m[r])

(* A product with a difference, against the product with its subtrahend.   *)
LEMMA ProductSigns ==
    \A a, b, c \in Nat : /\ a * (b - c) \in Int /\ c * a \in Nat
                         /\ a * (b - c) >= -(c * a)
                         /\ b >= c => a * (b - c) >= 0
<1> SUFFICES ASSUME NEW a \in Nat, NEW b \in Nat, NEW c \in Nat
             PROVE  /\ a * (b - c) \in Int /\ c * a \in Nat
                    /\ a * (b - c) >= -(c * a)
                    /\ b >= c => a * (b - c) >= 0
    OBVIOUS
<1>1. a * b \in Nat /\ c * a \in Nat /\ a * (b - c) = a * b - c * a
    OBVIOUS
<1>2. b >= c => a * (b - c) >= 0
    OBVIOUS
<1> QED  BY <1>1, <1>2

(* One deployment never frees less than the report counts for it.          *)
LEMMA PromiseIsKept ==
    ASSUME NEW results, \A g \in DOMAIN results : Analyzed(results[g]),
           NEW r \in Resources, NEW g \in DOMAIN results
    PROVE  /\ Promised(results, r)[g] \in Int /\ Kept(results, r)[g] \in Int
           /\ Promised(results, r)[g] <= Kept(results, r)[g]
<1>0. PICK spec \in Specs, pods \in Nat : \E m :
         results[g] = Analyze(spec, m, pods) /\ \A q \in Resources : Metrics(m[q])
    BY DEF Analyzed
<1>1. PICK m :
         results[g] = Analyze(spec, m, pods) /\ \A q \in Resources : Metrics(m[q])
    BY <1>0
<1> DEFINE x == results[g]
           a == Recommend(spec[r], m[r])
           n == a.new_request
           q == spec[r].request
<1>2. /\ x.advice[r] = a /\ x.pods = pods /\ x.spec[r] = spec[r]
    BY <1>1, AnalyzeFields
<1>3. Counsel(spec[r], m[r], a)
    BY <1>1, RecommendIsCounsel
<1>4. q \in Quantified /\ spec[r] \in [request : Quantified, limit : Quantified]
    BY DEF Specs
<1>5. /\ Promised(results, r)[g]
            = Change(x, r, "DECREASE_REQUEST", -1) - Change(x, r, "INCREASE_REQUEST", 1)
      /\ Kept(results, r)[g] = IF n = NoValue THEN 0 ELSE pods * (q - n)
    BY <1>2 DEF Promised, Kept
<1> HIDE DEF x
<1>6. \A type, sign : Change(x, r, type, sign)
         = IF a.type = type /\ sign * (n - 0) > 0 THEN (sign * (n - 0)) * pods ELSE 0
    BY <1>2 DEF Change, CurrentRequest
<1> HIDE DEF a
<1>7. n \in Nat \cup {NoValue}
    BY <1>3 DEF Counsel
<1> HIDE DEF n, q
<1>8. CASE a.type = "INCREASE_REQUEST"
  <2>1. n \in Nat /\ q \in Nat
    <3>1. m[r].p95 \in Nat /\ n = Double(m[r].p95) /\ q # NoValue
        BY <1>3, <1>8 DEF Counsel, n, q
    <3> QED  BY <1>4, <3>1 DEF Double, Quantified
  <2>2. Change(x, r, "DECREASE_REQUEST", -1) = 0
      BY <1>6, <1>8
  <2>3. Change(x, r, "INCREASE_REQUEST", 1) = IF n > 0 THEN n * pods ELSE 0
    <3>1. 1 * (n - 0) = n
        BY <2>1
    <3> QED  BY <1>6, <1>8, <3>1
  <2>4. Change(x, r, "INCREASE_REQUEST", 1) = n * pods
    <3>1. n = 0 => n * pods = 0
        OBVIOUS
    <3> QED  BY <2>1, <2>3, <3>1
  <2>5. Kept(results, r)[g] = pods * (q - n)
      BY <1>5, <2>1 DEF NoValue
  <2>6. /\ pods * (q - n) \in Int /\ n * pods \in Nat
        /\ pods * (q - n) >= -(n * pods)
      BY <2>1, ProductSigns
  <2> QED  BY <1>5, <2>2, <2>4, <2>5, <2>6
<1>9. CASE a.type = "DECREASE_REQUEST"
  <2>1. n \in Nat /\ q \in Nat /\ q >= n
    <3> DEFINE p == m[r].p95
    <3>1. p \in Nat /\ n = HalfMore(p) /\ q # NoValue /\ 2 * p < 10 * q
        BY <1>3, <1>9 DEF Counsel, n, q
    <3>2. q \in Nat
        BY <1>4, <3>1 DEF Quantified
    <3> HIDE DEF p
    <3>3. n = (3 * p) \div 20
        BY <3>1 DEF HalfMore
    <3> QED  BY <3>1, <3>2, <3>3
  <2>2. Change(x, r, "INCREASE_REQUEST", 1) = 0
      BY <1>6, <1>9
  <2>3. Change(x, r, "DECREASE_REQUEST", -1) = 0
    <3> DEFINE k == -1
    <3>2. ~(k * (n - 0) > 0)
        BY <2>1
    <3>3. Change(x, r, "DECREASE_REQUEST", k)
             = IF a.type = "DECREASE_REQUEST" /\ k * (n - 0) > 0
               THEN (k * (n - 0)) * pods ELSE 0
      <4> HIDE DEF k
      <4> QED  BY <1>6
    <3> QED  BY <3>2, <3>3
  <2>4. Kept(results, r)[g] = pods * (q - n)
      BY <1>5, <2>1 DEF NoValue
  <2>5. pods * (q - n) \in Int /\ pods * (q - n) >= 0
      BY <2>1, ProductSigns
  <2> QED  BY <1>5, <2>2, <2>3, <2>4, <2>5
<1>10. CASE a.type \notin {"INCREASE_REQUEST", "DECREASE_REQUEST"}
  <2>1. n = NoValue
      BY <1>3, <1>10 DEF Counsel, n
  <2> QED  BY <1>5, <1>6, <1>10, <2>1
<1> QED  BY <1>8, <1>9, <1>10

(* Nor do all deployments together.                                        *)
LEMMA PromisesAreKept ==
    ASSUME NEW results, IsFiniteSet(DOMAIN results),
           \A g \in DOMAIN results : Analyzed(results[g]),
           NEW r \in Resources
    PROVE  NetFreed(results, r) <= Freed(results, r)
<1> DEFINE D == DOMAIN results
           P == Promised(results, r)
           K == Kept(results, r)
<1>1. P \in [D -> Int] /\ K \in [D -> Int] /\ \A g \in D : P[g] <= K[g]
  <2>1. P = [g \in D |-> P[g]] /\ K = [g \in D |-> K[g]]
      BY DEF Promised, Kept
  <2>2. \A g \in D : P[g] \in Int /\ K[g] \in Int /\ P[g] <= K[g]
      BY PromiseIsKept
  <2> HIDE DEF P, K
  <2> QED  BY <2>1, <2>2
<1>2. NetFreed(results, r) = SumOf(P, D) /\ Freed(results, r) = SumOf(K, D)
    BY NetFreedIsSum, FreedIsSum
<1> HIDE DEF P, K, D
<1>3. SumOf(P, D) <= SumOf(K, D)
    BY <1>1, SumMonotone DEF D
<1> QED  BY <1>2, <1>3

(* The parts of a report over such analyses agree.                         *)
LEMMA ReportAgrees ==
    ASSUME NEW results, \A g \in DOMAIN results : Analyzed(results[g])
    PROVE  /\ AtRiskFindings(results) \subseteq IncreaseFindings(results)
           /\ IncreaseFindings(results)
                 = {g \in DOMAIN results : results[g].status = "NEEDS ATTENTION"}
           /\ \A g \in DOMAIN results : results[g].status = "NO_METRICS" =>
                 g \notin SetLimitFindings(results) \cup IncreaseFindings(results)
                          \cup DecreaseFindings(results) \cup HpaCandidates(results)
<1>1. ASSUME NEW g \in DOMAIN results
      PROVE  LET x == results[g] IN
             /\ \A r \in Resources : x.advice[r].priority = "CRITICAL"
                                        => x.advice[r].type = "INCREASE_REQUEST"
             /\ x.status = "NEEDS ATTENTION" <=>
                   \E r \in Resources : x.advice[r].type = "INCREASE_REQUEST"
             /\ x.status = "NO_METRICS" =>
                   ~x.hpa /\ \A r \in Resources : x.advice[r] = Healthy
  <2>0. PICK spec \in Specs, pods \in Nat : \E m :
           results[g] = Analyze(spec, m, pods) /\ \A q \in Resources : Metrics(m[q])
      BY <1>1 DEF Analyzed
  <2>1. PICK m :
           results[g] = Analyze(spec, m, pods) /\ \A q \in Resources : Metrics(m[q])
      BY <2>0
  <2> DEFINE x == results[g]
             known == Known(m)
  <2>2. \A r \in Resources : /\ x.advice[r] = Recommend(spec[r], m[r])
                             /\ Counsel(spec[r], m[r], x.advice[r])
      BY <2>1, RecommendIsCounsel, AnalyzeFields
  <2>3. /\ x.status = IF known = {} THEN "NO_METRICS"
                      ELSE IF \E r \in known : x.advice[r].priority \in {"CRITICAL", "HIGH"}
                           THEN "NEEDS ATTENTION" ELSE "OK"
    <3>1. x.status = StatusOf(spec, m)
        BY <2>1, AnalyzeFields
    <3>2. \A r \in known : x.advice[r] = Recommend(spec[r], m[r])
        BY <2>2 DEF Known
    <3> HIDE DEF x, known
    <3> QED  BY <3>1, <3>2 DEF StatusOf, known
  <2>8. x.hpa => known # {}
    <3>1. Analyze(spec, m, pods).hpa => Known(m) # {}
        BY AnalyzeFields, Zenon
    <3> QED  BY <2>1, <3>1, Zenon
  <2> HIDE DEF x
  <2>4. \A r \in Resources :
           /\ x.advice[r].type = "INCREASE_REQUEST"
                 <=> x.advice[r].priority \in {"CRITICAL", "HIGH"}
           /\ x.advice[r].type = "INCREASE_REQUEST" => r \in known
           /\ r \notin known => x.advice[r] = Healthy
      BY <2>2 DEF Counsel, NoValue, Known
  <2>5. known \subseteq Resources
      BY DEF Known
  <2> HIDE DEF known
  <2>6. x.status = "NEEDS ATTENTION" <=>
           \E r \in Resources : x.advice[r].type = "INCREASE_REQUEST"
      BY <2>3, <2>4, <2>5
  <2>7. x.status = "NO_METRICS" =>
           ~x.hpa /\ \A r \in Resources : x.advice[r] = Healthy
    <3>1. x.status = "NO_METRICS" => known = {}
        BY <2>3
    <3>2. known = {} => \A r \in Resources : x.advice[r] = Healthy
        BY <2>4
    <3> QED  BY <2>8, <3>1, <3>2, Zenon
  <2> QED  BY <2>4, <2>6, <2>7 DEF x
<1>2. AtRiskFindings(results) \subseteq IncreaseFindings(results)
    BY <1>1 DEF AtRiskFindings, IncreaseFindings, SectionOf
<1>3. IncreaseFindings(results)
         = {g \in DOMAIN results : results[g].status = "NEEDS ATTENTION"}
    BY <1>1 DEF IncreaseFindings, SectionOf
<1>4. ASSUME NEW g \in DOMAIN results, results[g].status = "NO_METRICS"
      PROVE  g \notin SetLimitFindings(results) \cup IncreaseFindings(results)
                      \cup DecreaseFindings(results) \cup HpaCandidates(results)
  <2>1. ~results[g].hpa /\ \A r \in Resources : results[g].advice[r] = Healthy
      BY <1>1, <1>4, Zenon
  <2>2. \A r \in Resources : results[g].advice[r].type = "OK"
      BY <2>1 DEF Healthy, Advice
  <2>3. g \notin HpaCandidates(results)
      BY <2>1, Zenon DEF HpaCandidates
  <2> QED  BY <2>2, <2>3 DEF SetLimitFindings, IncreaseFindings,
                             DecreaseFindings, SectionOf
<1> QED  BY <1>2, <1>3, <1>4

-----------------------------------------------------------------------------
(* The inductive invariant of the analyzer and its history.                *)
FirstContainers == [Resources -> [request : Quantities, limit : Quantities]]

Typed ==
    /\ container \in [Groups -> FirstContainers]
    /\ usage \in [Resources -> Series]
    /\ pc \in {"idle", "pods", "cpu", "memory", "analyze"}

\* The pods listed are those counted, each once, by the name of their
\* deployment.
Entries == [pod : Pods, at : Nat]

PodsOf(g) == {e \in total_pods_all : GroupOf(e) = g}

Grouping ==
    /\ total_pods_all \subseteq Entries
    /\ {e.pod : e \in total_pods_all} = counted
    /\ \A e, f \in total_pods_all : e.pod = f.pod => e = f
    /\ pc = "idle" => total_pods_all = {}
    /\ DOMAIN all_pods_by_deployment = {GroupOf(e) : e \in total_pods_all}
    /\ \A g \in DOMAIN all_pods_by_deployment :
          /\ all_pods_by_deployment[g] \in [pods : SUBSET Entries, spec : Specs]
          /\ all_pods_by_deployment[g].pods = PodsOf(g)

\* No cluster is asked twice: those still to be asked are listed once, and no
\* pod of theirs has been listed.
Asking ==
    /\ \A c \in clusters_todo : c.at \in Nat
    /\ \A c, d \in clusters_todo : c.cluster = d.cluster => c = d
    /\ \A e \in total_pods_all, c \in clusters_todo :
          e.pod.cluster # c.cluster
    /\ pc = "pods" => clusters_todo # {}

\* Every group found is measured or has still to be.
Measuring ==
    /\ pc \in {"idle", "pods"} => all_metrics = <<>>
    /\ pc \in {"cpu", "memory"} =>
          DOMAIN all_pods_by_deployment = groups_todo \cup DOMAIN all_metrics
    /\ pc = "analyze" => DOMAIN all_metrics = DOMAIN all_pods_by_deployment
    /\ \A g \in DOMAIN all_metrics :
          /\ DOMAIN all_metrics[g] = Resources
          /\ \A r \in Resources : Metrics(all_metrics[g][r])

\* A report is that of its results.
Reporting ==
    Reported =>
       LET results == report.results IN
       /\ report = Report(results, report.summary)
       /\ IsFiniteSet(DOMAIN results)
       /\ \A g \in DOMAIN results : Analyzed(results[g])
       /\ report.summary.running + report.summary.cronjobs
             = SumOf(PodCounts(results), DOMAIN results)

\* A request that the advice for the present usage asks for.
Suits(n, r) ==
    LET p == Statistics[usage[r]].p95
    IN  p \in Nat /\ n \in {Double(p), HalfMore(p)}

\* What the advice and the specs of settled resources come from: the usage
\* they have still.
Settling ==
    /\ settled \subseteq Groups \X Resources /\ judged \subseteq settled
    /\ \A g \in DOMAIN all_metrics, r \in Resources :
          r \notin stale => all_metrics[g][r] \in {Statistics[usage[r]], NoMetrics}
    /\ \A gr \in settled : /\ gr[2] \notin stale
                           /\ Suits(Parsed(container[gr[1]][gr[2]].request), gr[2])
    /\ \A gr \in judged :
          gr[1] \in DOMAIN all_pods_by_deployment =>
             Suits(all_pods_by_deployment[gr[1]].spec[gr[2]].request, gr[2])
    /\ Reported =>
          \A g \in DOMAIN report.results, r \in Resources :
             \/ pc = "idle" /\ r \notin stale
             \/ <<g, r>> \in settled
             => \/ report.results[g].advice[r].new_request = NoValue
                \/ Suits(report.results[g].advice[r].new_request, r)

HInv == Typed /\ Grouping /\ Asking /\ Measuring /\ Reporting /\ Settling

-----------------------------------------------------------------------------
(* A parsed quantity is a number or missing, if it can be read.            *)
LEMMA ParsedTyped ==
    ASSUME NEW q \in Quantities, q.n = NoValue \/ q.unit \in DOMAIN Factor \cup {"n"}
    PROVE  Parsed(q) \in Quantified
<1>1. CASE q.n = NoValue
    BY <1>1 DEF Parsed, Quantified
<1>2. CASE q.n # NoValue /\ q.unit = "n"
  <2>1. q.n \in Nat
      BY <1>2 DEF Quantities
  <2>2. q.n \div 1000000 \in Nat
      BY <2>1
  <2> QED  BY <1>2, <2>2 DEF Parsed, Quantified
<1>3. CASE q.n # NoValue /\ q.unit # "n"
  <2>1. q.n \in Nat /\ q.unit \in DOMAIN Factor
      BY <1>3 DEF Quantities
  <2>2. Factor[q.unit] \in {1, 1000, 1024, 1024 * 1024}
      BY <2>1 DEF Factor
  <2>3. \A n \in Nat, f \in {1, 1000, 1024, 1024 * 1024} : n * f \in Nat
      OBVIOUS
  <2>4. q.n * Factor[q.unit] \in Nat
      BY <2>1, <2>2, <2>3
  <2> QED  BY <1>3, <2>4 DEF Parsed, Quantified
<1> QED  BY <1>1, <1>2, <1>3

(* So the spec of a container that can be read is typed.                   *)
LEMMA ExtractTyped ==
    ASSUME NEW c \in FirstContainers, Readable(c)
    PROVE  ExtractSpec(c) \in Specs
<1>1. ASSUME NEW r \in Resources
      PROVE  /\ Parsed(c[r].request) \in Quantified
             /\ Parsed(c[r].limit) \in Quantified
             /\ DefaultRequest[r] \in Quantified
  <2>1. c[r].request \in Quantities /\ c[r].limit \in Quantities
      BY <1>1 DEF FirstContainers
  <2>2. DefaultRequest[r] \in {100, 128}
      BY <1>1 DEF DefaultRequest, Resources
  <2>3. UnitsRead[r] \subseteq DOMAIN Factor \cup {"n"}
      BY <1>1 DEF UnitsRead, Resources, Factor
  <2>4. \A q \in {c[r].request, c[r].limit} :
           q.n = NoValue \/ q.unit \in DOMAIN Factor \cup {"n"}
      BY <1>1, <2>3 DEF Readable
  <2> QED  BY <2>1, <2>2, <2>4, ParsedTyped DEF Quantified
<1> QED  BY <1>1 DEF ExtractSpec, Specs

(* And so are the statistics of the present usage.                         *)
LEMMA StatisticsTyped ==
    ASSUME Typed, NEW r \in Resources
    PROVE  Metrics(Statistics[usage[r]]) /\ Metrics(NoMetrics)
<1>1. usage[r] \in Series
    BY DEF Typed
<1>2. SeriesSet(usage[r]) /\ Statistics[usage[r]] = Aggregate(usage[r])
    BY <1>1, ResourceAssumption DEF SeriesSet, Statistics
<1>3. Metrics(NoMetrics)
    BY DEF Metrics, NoMetrics
<1> QED  BY <1>2, <1>3, AggregateTyped

(* The numbers of an analysis' advice.                                     *)
LEMMA AnalyzedAdvice ==
    ASSUME NEW a, Analyzed(a), NEW r \in Resources
    PROVE  /\ a.advice[r].new_request \in Quantified
           /\ a.advice[r].new_limit \in Quantified
<1>1. PICK spec \in Specs, pods \in Nat : \E m :
         a = Analyze(spec, m, pods) /\ \A q \in Resources : Metrics(m[q])
    BY DEF Analyzed
<1>2. PICK m : a = Analyze(spec, m, pods) /\ \A q \in Resources : Metrics(m[q])
    BY <1>1
<1>3. Counsel(spec[r], m[r], a.advice[r])
    BY <1>2, AnalyzeFields, RecommendIsCounsel
<1> QED  BY <1>3 DEF Counsel, Quantified

(* What a container is advised, is a container still.                      *)
LEMMA AdvisedTyped ==
    ASSUME NEW c \in FirstContainers, NEW r \in Resources, NEW a,
           a.new_request \in Quantified, a.new_limit \in Quantified
    PROVE  /\ Advised(c, r, a) \in FirstContainers
           /\ \A q \in Resources : q # r => Advised(c, r, a)[q] = c[q]
           /\ a.new_request # NoValue =>
                 Parsed(Advised(c, r, a)[r].request) = a.new_request
           /\ a.new_request = NoValue /\ c[r].request.n # NoValue =>
                 Advised(c, r, a)[r].request = c[r].request
<1> DEFINE unit == IF r = "cpu" THEN "m" ELSE "Mi"
           limit == IF a.new_limit = NoValue THEN c[r].limit
                    ELSE [n |-> a.new_limit, unit |-> unit]
           request == CASE a.new_request # NoValue -> [n |-> a.new_request, unit |-> unit]
                        [] a.new_request = NoValue /\ c[r].request.n = NoValue -> limit
                        [] OTHER -> c[r].request
<1>1. unit \in {"m", "Mi"}
    OBVIOUS
<1> HIDE DEF unit
<1>2. c[r].request \in Quantities /\ c[r].limit \in Quantities
    BY DEF FirstContainers
<1>3. \A n \in Quantified : [n |-> n, unit |-> unit] \in Quantities
    BY <1>1 DEF Quantities, Quantified, Units, Factor
<1>4. limit \in Quantities
    BY <1>2, <1>3
<1> HIDE DEF limit
<1>5. /\ request \in Quantities
      /\ a.new_request # NoValue => request = [n |-> a.new_request, unit |-> unit]
      /\ a.new_request = NoValue /\ c[r].request.n # NoValue => request = c[r].request
    BY <1>2, <1>3, <1>4
<1>6. Advised(c, r, a) = [c EXCEPT ![r] = [request |-> request, limit |-> limit]]
    BY DEF Advised, unit, limit
<1> HIDE DEF request
<1>7. /\ Advised(c, r, a) \in FirstContainers
      /\ Advised(c, r, a)[r].request = request
      /\ \A q \in Resources : q # r => Advised(c, r, a)[q] = c[q]
    BY <1>4, <1>5, <1>6 DEF FirstContainers
<1>8. a.new_request # NoValue => Parsed(request) = a.new_request
  <2> SUFFICES ASSUME a.new_request # NoValue  PROVE Parsed(request) = a.new_request
      OBVIOUS
  <2>1. request.n = a.new_request /\ request.unit \in {"m", "Mi"}
      BY <1>1, <1>5
  <2>2. Factor[request.unit] = 1
      BY <2>1 DEF Factor
  <2>3. a.new_request \in Nat
      BY DEF Quantified
  <2> QED  BY <2>1, <2>2, <2>3 DEF Parsed
<1> QED  BY <1>5, <1>7, <1>8

(* At first nothing is counted, measured, reported or settled.             *)
LEMMA HInvInit == HInit => HInv
<1> SUFFICES ASSUME HInit  PROVE HInv
    OBVIOUS
<1> USE DEF HInit, Init
<1>1. Typed
    BY ResourceAssumption DEF Typed, FirstContainers
<1>2. DOMAIN <<>> = {}
    OBVIOUS
<1>3. Grouping
    BY <1>2 DEF Grouping
<1>8. Asking
    BY DEF Asking
<1>4. Measuring
    BY <1>2 DEF Measuring
<1>5. ~Reported
    BY DEF Reported, NoReport
<1>6. Reporting
    BY <1>5 DEF Reporting
<1>7. Settling
    BY <1>2, <1>5 DEF Settling
<1> QED  BY <1>1, <1>3, <1>4, <1>6, <1>7, <1>8 DEF HInv

(* Where an analysis goes when a cluster has answered.                     *)
LEMMA AfterPodsEnds ==
    ASSUME NEW groups, AfterPods(groups)
    PROVE  /\ pc' \in {"pods", "idle", "cpu"}
           /\ pc' = "idle" => groups = {}
           /\ pc' = "cpu" => groups_todo' = groups
           /\ Reported' => Reported /\ report' = report
BY DEF AfterPods, Reported

(* Containers stay containers, whatever advice is followed.                *)
LEMMA TypedNext ==
    ASSUME HInv, HNext
    PROVE  Typed'
<1>0. Typed /\ Next
    BY DEF HInv, HNext
<1>1. CASE Start
    BY <1>0, <1>1 DEF Typed, Start, world
<1>2. CASE FetchPods
  <2>1. UNCHANGED world /\ (pc' = "idle" \/ \E groups : AfterPods(groups))
      BY <1>2 DEF FetchPods
  <2> QED  BY <1>0, <2>1, AfterPodsEnds DEF Typed, world
<1>3. CASE FetchPodsFails
  <2>1. UNCHANGED world /\ \E groups : AfterPods(groups)
      BY <1>3 DEF FetchPodsFails
  <2> QED  BY <1>0, <2>1, AfterPodsEnds DEF Typed, world
<1>4. CASE FetchCpuMetrics
    BY <1>0, <1>4 DEF Typed, FetchCpuMetrics, world
<1>5. CASE FetchMemoryMetrics
    BY <1>0, <1>5 DEF Typed, FetchMemoryMetrics, world
<1>6. CASE AnalyzeAndReport
    BY <1>0, <1>6 DEF Typed, AnalyzeAndReport, world
<1>7. CASE UsageChanges
    BY <1>0, <1>7 DEF Typed, UsageChanges
<1>8. CASE PodChanges
    BY <1>0, <1>8 DEF Typed, PodChanges
<1>9. CASE Apply
  <2>1. PICK g \in DOMAIN report.results, r \in Resources :
           container' = [container EXCEPT
                           ![g] = Advised(container[g], r, report.results[g].advice[r])]
      BY <1>9 DEF Apply
  <2>2. Analyzed(report.results[g])
      BY <1>9 DEF HInv, Reporting, Reported, Apply
  <2>3. g \in Groups => Advised(container[g], r, report.results[g].advice[r])
                           \in FirstContainers
    <3>1. /\ report.results[g].advice[r].new_request \in Quantified
          /\ report.results[g].advice[r].new_limit \in Quantified
        BY <2>2, AnalyzedAdvice
    <3> QED  BY <1>0, <3>1, AdvisedTyped DEF Typed
  <2>4. container' \in [Groups -> FirstContainers]
      BY <1>0, <2>1, <2>3 DEF Typed
  <2> QED  BY <1>0, <1>9, <2>4 DEF Typed, Apply
<1> QED  BY <1>0, <1>1, <1>2, <1>3, <1>4, <1>5, <1>6, <1>7, <1>8, <1>9
         DEF Next, Analysis

(* The pods found in one cluster join those found before.                  *)
LEMMA GroupedJoins ==
    ASSUME Typed, Grouping, NEW found \in SUBSET Entries, ~Unreadable(found)
    PROVE  LET G == Grouped(found)
               all == total_pods_all \cup found IN
           /\ DOMAIN G = {GroupOf(e) : e \in all}
           /\ \A g \in DOMAIN G :
                 /\ G[g] \in [pods : SUBSET Entries, spec : Specs]
                 /\ G[g].pods = {e \in all : GroupOf(e) = g}
                 /\ g \in DOMAIN all_pods_by_deployment
                       => G[g].spec = all_pods_by_deployment[g].spec
                 /\ g \notin DOMAIN all_pods_by_deployment
                       => /\ G[g].spec = ExtractSpec(container[g])
                          /\ g \in Groups
           /\ G = all_pods_by_deployment => found \subseteq total_pods_all
<1> DEFINE G == Grouped(found)
           all == total_pods_all \cup found
           known == DOMAIN all_pods_by_deployment
           group(g) == {e \in found : GroupOf(e) = g}
<1>1. G = [g \in known \cup {GroupOf(e) : e \in found} |->
              IF g \in known
              THEN [all_pods_by_deployment[g] EXCEPT !.pods = @ \cup group(g)]
              ELSE [pods |-> group(g), spec |-> ExtractSpec(container[g])]]
    BY DEF Grouped
<1>2. DOMAIN G = {GroupOf(e) : e \in all}
  <2>1. known = {GroupOf(e) : e \in total_pods_all}
      BY DEF Grouping
  <2> HIDE DEF G, known
  <2> QED  BY <1>1, <2>1
<1>3. ASSUME NEW g \in DOMAIN G
      PROVE  /\ G[g] \in [pods : SUBSET Entries, spec : Specs]
             /\ G[g].pods = {e \in all : GroupOf(e) = g}
             /\ g \in known => G[g].spec = all_pods_by_deployment[g].spec
             /\ g \notin known => G[g].spec = ExtractSpec(container[g]) /\ g \in Groups
  <2>1. CASE g \in known
    <3>1. /\ all_pods_by_deployment[g] \in [pods : SUBSET Entries, spec : Specs]
          /\ all_pods_by_deployment[g].pods = {e \in total_pods_all : GroupOf(e) = g}
        BY <2>1 DEF Grouping, PodsOf
    <3>2. G[g] = [all_pods_by_deployment[g] EXCEPT !.pods = @ \cup group(g)]
        BY <1>1, <2>1
    <3>3. group(g) \in SUBSET Entries
        OBVIOUS
    <3>4. /\ G[g].pods = all_pods_by_deployment[g].pods \cup group(g)
          /\ G[g].spec = all_pods_by_deployment[g].spec
          /\ G[g] \in [pods : SUBSET Entries, spec : Specs]
      <4> HIDE DEF G, group
      <4> QED  BY <3>1, <3>2, <3>3
    <3>5. G[g].pods = {e \in all : GroupOf(e) = g}
      <4> HIDE DEF G
      <4> QED  BY <3>1, <3>4
    <3> QED  BY <2>1, <3>4, <3>5
  <2>2. CASE g \notin known
    <3>1. \A e \in total_pods_all : GroupOf(e) # g
        BY <2>2 DEF Grouping
    <3>2. G[g] = [pods |-> group(g), spec |-> ExtractSpec(container[g])]
        BY <1>1, <2>2
    <3>3. g \in Groups
      <4>1. \E e \in found : g = GroupOf(e)
        <5> HIDE DEF G
        <5> QED  BY <1>3, <1>2, <3>1
      <4> QED  BY <4>1 DEF Groups, GroupOf, Entries
    <3>4. ExtractSpec(container[g]) \in Specs
      <4>1. PICK e \in found : GroupOf(e) = g
        <5> HIDE DEF G
        <5> QED  BY <1>3, <1>2, <3>1
      <4>2. Readable(container[g])
          BY <2>2, <4>1 DEF Unreadable
      <4> QED  BY <3>3, <4>2, ExtractTyped DEF Typed
    <3>5. /\ G[g].pods = group(g) /\ G[g].spec = ExtractSpec(container[g])
          /\ G[g] \in [pods : SUBSET Entries, spec : Specs]
      <4>1. group(g) \in SUBSET Entries
          OBVIOUS
      <4> HIDE DEF G, group
      <4> QED  BY <3>2, <3>4, <4>1
    <3>6. group(g) = {e \in all : GroupOf(e) = g}
        BY <3>1
    <3> QED  BY <2>2, <3>3, <3>5, <3>6
  <2> QED  BY <2>1, <2>2
<1>4. ASSUME G = all_pods_by_deployment, NEW e \in found
      PROVE  e \in total_pods_all
  <2> DEFINE g == GroupOf(e)
  <2>1. g \in DOMAIN G
    <3> HIDE DEF G
    <3> QED  BY <1>2
  <2>2. e \in G[g].pods
    <3>1. G[g].pods = {q \in all : GroupOf(q) = g}
      <4> HIDE DEF G, g
      <4> QED  BY <1>3, <2>1
    <3> HIDE DEF G
    <3> QED  BY <3>1
  <2>3. G[g].pods = PodsOf(g)
    <3> HIDE DEF g
    <3> QED  BY <1>4, <2>1 DEF Grouping
  <2> HIDE DEF G, g
  <2> QED  BY <2>2, <2>3 DEF PodsOf
<1> HIDE DEF G
<1> QED  BY <1>2, <1>3, <1>4 DEF G

\* What the next cluster answers: its pods, and the entries made of them.
Answered == {p \in Pods : p.cluster = NextCluster.cluster /\ Analyzable(p)}

Listed == {[pod |-> p, at |-> NextCluster.at] : p \in Answered}

(* FetchPods, by these names, with its two outcomes.                       *)
LEMMA FetchPodsIs ==
    ASSUME FetchPods
    PROVE  /\ pc = "pods" /\ UNCHANGED <<world, all_metrics, runs, events>>
           /\ \/ /\ Unreadable(Listed)
                 /\ pc' = "idle" /\ report' = [status |-> "error"]
                 /\ clusters_todo' = {} /\ total_pods_all' = {}
                 /\ all_pods_by_deployment' = <<>> /\ DOMAIN <<>> = {}
              \/ /\ ~Unreadable(Listed)
                 /\ all_pods_by_deployment' = Grouped(Listed)
                 /\ total_pods_all' = total_pods_all \cup Listed
                 /\ AfterPods(DOMAIN Grouped(Listed))
<1> DEFINE found == {[pod |-> p, at |-> NextCluster.at] :
                        p \in {q \in Pods : q.cluster = NextCluster.cluster
                                            /\ Analyzable(q)}}
<1>1. found = Listed
    BY DEF Listed, Answered
<1>2. DOMAIN <<>> = {}
    OBVIOUS
<1> HIDE DEF found
<1>3. IF Unreadable(found)
      THEN /\ pc' = "idle" /\ report' = [status |-> "error"]
           /\ clusters_todo' = {} /\ total_pods_all' = {}
           /\ all_pods_by_deployment' = <<>>
           /\ UNCHANGED groups_todo
      ELSE /\ all_pods_by_deployment' = Grouped(found)
           /\ total_pods_all' = total_pods_all \cup found
           /\ AfterPods(DOMAIN Grouped(found))
    BY DEF FetchPods, found
<1>4. pc = "pods" /\ UNCHANGED <<world, all_metrics, runs, events>>
    BY DEF FetchPods
<1> QED  BY <1>1, <1>2, <1>3, <1>4

(* A cluster that is asked is one of those still to be asked.              *)
LEMMA NextClusterIs ==
    ASSUME Asking, pc = "pods"
    PROVE  NextCluster \in clusters_todo /\ NextCluster.at \in Nat
<1> DEFINE N == {c.at : c \in clusters_todo}
<1>1. N \subseteq Nat /\ N # {}
    BY DEF Asking
<1>2. PICK n \in N : \A k \in N : n <= k
  <2> HIDE DEF N
  <2> QED  BY <1>1, LeastExists
<1>3. PICK c \in clusters_todo : \A d \in clusters_todo : c.at <= d.at
    BY <1>2
<1>4. NextCluster \in clusters_todo
    BY <1>3 DEF NextCluster
<1> QED  BY <1>4 DEF Asking

(* Its answer lists pods that were not listed, each once.                  *)
LEMMA ListedAreNew ==
    ASSUME Grouping, Asking, pc = "pods"
    PROVE  LET all == total_pods_all \cup Listed IN
           /\ Listed \subseteq Entries
           /\ {e.pod : e \in all} = counted \cup Answered
           /\ \A e, f \in all : e.pod = f.pod => e = f
<1>1. NextCluster \in clusters_todo /\ NextCluster.at \in Nat
    BY NextClusterIs
<1>2. Answered \subseteq Pods
    BY DEF Answered
<1>3. Listed \subseteq Entries
    BY <1>1, <1>2 DEF Listed, Entries
<1>4. {e.pod : e \in Listed} = Answered
  <2>1. \A e \in Listed : e.pod \in Answered
      BY DEF Listed
  <2>2. ASSUME NEW p \in Answered
        PROVE  \E e \in Listed : e.pod = p
    <3>1. [pod |-> p, at |-> NextCluster.at] \in Listed
        BY DEF Listed
    <3> QED  BY <3>1
  <2> HIDE DEF Answered
  <2> QED  BY <2>1, <2>2
<1>5. {e.pod : e \in total_pods_all} = counted
    BY DEF Grouping
<1>6. \A e, f \in Listed : e.pod = f.pod => e = f
    BY DEF Listed
<1>7. \A e \in Listed : e.pod.cluster = NextCluster.cluster
    BY DEF Listed, Answered
<1>8. \A e \in total_pods_all : e.pod.cluster # NextCluster.cluster
    BY <1>1 DEF Asking
<1>9. \A e, f \in total_pods_all : e.pod = f.pod => e = f
    BY DEF Grouping
<1>10. {e.pod : e \in total_pods_all \cup Listed} = counted \cup Answered
    BY <1>4, <1>5
<1>11. \A e, f \in total_pods_all \cup Listed : e.pod = f.pod => e = f
    BY <1>6, <1>7, <1>8, <1>9
<1> QED  BY <1>3, <1>10, <1>11

(* Pods are grouped as they are counted.                                   *)
LEMMA GroupingNext ==
    ASSUME HInv, HNext
    PROVE  Grouping'
<1>0. Typed /\ Grouping /\ Asking /\ Next
    BY DEF HInv, HNext
<1>1. counted' = IF pc = "idle" \/ pc' = "idle" THEN {}
                 ELSE IF all_pods_by_deployment' # all_pods_by_deployment
                      THEN counted \cup Answered
                      ELSE counted
    BY DEF HNext, Answered
<1>2. CASE /\ UNCHANGED <<all_pods_by_deployment, total_pods_all>>
           /\ pc # "idle" => pc' # "idle" \/ DOMAIN all_pods_by_deployment = {}
  <2>1. counted = {} <=> total_pods_all = {}
      BY <1>0 DEF Grouping
  <2>2. DOMAIN all_pods_by_deployment = {} => total_pods_all = {}
      BY <1>0 DEF Grouping
  <2>3. pc = "idle" => total_pods_all = {}
      BY <1>0 DEF Grouping
  <2>4. counted' = counted /\ (pc' = "idle" => total_pods_all' = {})
      BY <1>1, <1>2, <2>1, <2>2, <2>3
  <2> QED  BY <1>0, <1>2, <2>4 DEF Grouping, PodsOf
<1>3. CASE Start
    BY <1>2, <1>3 DEF Start
<1>4. CASE FetchPods /\ Unreadable(Listed)
  <2>1. /\ pc' = "idle" /\ total_pods_all' = {}
        /\ DOMAIN all_pods_by_deployment' = {}
      BY <1>4, FetchPodsIs
  <2>2. counted' = {}
      BY <1>1, <2>1
  <2> QED  BY <2>1, <2>2 DEF Grouping
<1>10. CASE FetchPods /\ ~Unreadable(Listed)
  <2> DEFINE G == Grouped(Listed)
             all == total_pods_all \cup Listed
  <2>1. /\ all_pods_by_deployment' = G /\ total_pods_all' = all
        /\ AfterPods(DOMAIN G) /\ pc = "pods"
      BY <1>10, FetchPodsIs
  <2>2. /\ Listed \in SUBSET Entries
        /\ {e.pod : e \in all} = counted \cup Answered
        /\ \A e, f \in all : e.pod = f.pod => e = f
      BY <1>0, <2>1, ListedAreNew
  <2>3. /\ DOMAIN G = {GroupOf(e) : e \in all}
        /\ \A g \in DOMAIN G :
              /\ G[g] \in [pods : SUBSET Entries, spec : Specs]
              /\ G[g].pods = {e \in all : GroupOf(e) = g}
        /\ G = all_pods_by_deployment => Listed \subseteq total_pods_all
      BY <1>0, <1>10, <2>2, GroupedJoins
  <2>4. {e.pod : e \in total_pods_all} = counted
      BY <1>0 DEF Grouping
  <2> HIDE DEF G
  <2>5. counted' = {e.pod : e \in all} /\ (pc' = "idle" => all = {})
    <3>1. CASE pc' = "idle"
      <4>1. DOMAIN G = {}
          BY <2>1, <3>1, AfterPodsEnds
      <4>2. all = {}
          BY <2>3, <4>1
      <4>3. {e.pod : e \in all} = {}
          BY <4>2
      <4> QED  BY <1>1, <3>1, <4>2, <4>3
    <3>2. CASE pc' # "idle" /\ G = all_pods_by_deployment
      <4>1. all = total_pods_all /\ counted' = counted
          BY <1>1, <2>1, <2>3, <3>2
      <4> QED  BY <2>4, <3>2, <4>1
    <3>3. CASE pc' # "idle" /\ G # all_pods_by_deployment
        BY <1>1, <2>1, <2>2, <3>3
    <3> QED  BY <3>1, <3>2, <3>3
  <2>6. all \subseteq Entries
      BY <1>0, <2>2 DEF Grouping
  <2> QED  BY <2>1, <2>2, <2>3, <2>5, <2>6 DEF Grouping, PodsOf
<1>5. CASE FetchPodsFails
  <2>1. AfterPods(DOMAIN all_pods_by_deployment)
      BY <1>5 DEF FetchPodsFails
  <2> QED  BY <1>2, <1>5, <2>1, AfterPodsEnds DEF FetchPodsFails
<1>6. CASE FetchCpuMetrics
    BY <1>2, <1>6 DEF FetchCpuMetrics
<1>7. CASE FetchMemoryMetrics
    BY <1>2, <1>7 DEF FetchMemoryMetrics
<1>8. CASE AnalyzeAndReport
  <2>1. counted' = {} /\ total_pods_all' = {} /\ all_pods_by_deployment' = <<>>
      BY <1>1, <1>8 DEF AnalyzeAndReport
  <2>2. DOMAIN <<>> = {}
      OBVIOUS
  <2> QED  BY <2>1, <2>2 DEF Grouping
<1>9. CASE UsageChanges \/ PodChanges \/ Apply
    BY <1>2, <1>9 DEF UsageChanges, PodChanges, Apply
<1> QED  BY <1>0, <1>3, <1>4, <1>5, <1>6, <1>7, <1>8, <1>9, <1>10
         DEF Next, Analysis

(* The clusters of a valid request are listed once, and there is one.      *)
LEMMA InputsAreDistinct ==
    ASSUME NEW request \in Requests
    PROVE  /\ ParseInputs(request) # {}
           /\ \A c \in ParseInputs(request) : c.at \in Nat
           /\ \A c, d \in ParseInputs(request) : c.cluster = d.cluster => c = d
<1> DEFINE names == Named(request)
           First == {j \in 1..Len(names) : \A k \in 1..j - 1 : names[k] # names[j]}
<1>1. Len(names) \in Nat \ {0}
  <2>1. /\ Clusters \in Seq(ToSet(Clusters)) /\ Clusters # <<>>
        /\ request.clusters \in Seq(ToSet(request.clusters))
      BY ResourceAssumption
  <2>2. Len(Clusters) \in Nat \ {0}
      BY <2>1, EmptySeq
  <2>3. request.clusters # <<>> => Len(request.clusters) \in Nat \ {0}
      BY <2>1, EmptySeq
  <2> QED  BY <2>2, <2>3 DEF Named
<1>2. ParseInputs(request) = {[at |-> i, cluster |-> names[i]] : i \in First}
    BY DEF ParseInputs
<1> HIDE DEF names
<1>3. 1 \in First
    BY <1>1
<1>4. First \subseteq Nat
    BY <1>1
<1>5. \A i, j \in First : names[i] = names[j] => i = j
  <2> SUFFICES ASSUME NEW i \in First, NEW j \in First, names[i] = names[j],
                      i # j
               PROVE  FALSE
      OBVIOUS
  <2>1. i \in 1..j - 1 \/ j \in 1..i - 1
      BY <1>1
  <2> QED  BY <2>1
<1> HIDE DEF First
<1>6. \A c \in ParseInputs(request) :
         c.at \in First /\ c = [at |-> c.at, cluster |-> names[c.at]]
    BY <1>2
<1>7. [at |-> 1, cluster |-> names[1]] \in ParseInputs(request)
    BY <1>2, <1>3
<1>8. \A c, d \in ParseInputs(request) : c.cluster = d.cluster => c = d
  <2> SUFFICES ASSUME NEW c \in ParseInputs(request),
                      NEW d \in ParseInputs(request), c.cluster = d.cluster
               PROVE  c = d
      OBVIOUS
  <2>1. c.cluster = names[c.at] /\ d.cluster = names[d.at]
      BY <1>6
  <2>2. c.at = d.at
      BY <1>5, <1>6, <2>1
  <2> QED  BY <1>6, <2>2
<1> QED  BY <1>4, <1>6, <1>7, <1>8

(* A cluster is not asked again when it has answered, or has not.          *)
LEMMA AskingNext ==
    ASSUME HInv, HNext
    PROVE  Asking'
<1>0. Grouping /\ Asking /\ Next
    BY DEF HInv, HNext
<1>1. CASE /\ UNCHANGED <<clusters_todo, total_pods_all>>
           /\ pc' = "pods" => pc = "pods"
    BY <1>0, <1>1 DEF Asking
<1>2. CASE Start
  <2>1. total_pods_all' = {}
      BY <1>0, <1>2 DEF Start, Grouping
  <2>2. CASE UNCHANGED <<pc, clusters_todo>>
      BY <1>0, <1>2, <2>2 DEF Start, Asking
  <2>3. CASE ~UNCHANGED <<pc, clusters_todo>>
    <3>1. PICK request \in Requests : clusters_todo' = ParseInputs(request)
        BY <1>2, <2>3 DEF Start
    <3> QED  BY <2>1, <3>1, InputsAreDistinct DEF Asking
  <2> QED  BY <2>2, <2>3
<1>3. CASE FetchPods /\ Unreadable(Listed)
  <2>1. clusters_todo' = {} /\ pc' = "idle"
      BY <1>3, FetchPodsIs
  <2> QED  BY <2>1 DEF Asking
<1>4. CASE \/ FetchPods /\ ~Unreadable(Listed)
           \/ FetchPodsFails
  <2> DEFINE c == NextCluster
  <2>1. /\ pc = "pods"
        /\ \E groups : AfterPods(groups)
        /\ total_pods_all' \in {total_pods_all, total_pods_all \cup Listed}
      BY <1>4, FetchPodsIs DEF FetchPodsFails
  <2>2. c \in clusters_todo
      BY <1>0, <2>1, NextClusterIs
  <2>3. /\ clusters_todo' = clusters_todo \ {c}
        /\ pc' = "pods" => clusters_todo' # {}
      BY <2>1 DEF AfterPods
  <2>4. \A e \in Listed : e.pod.cluster = c.cluster
      BY DEF Listed, Answered
  <2> HIDE DEF c
  <2>5. \A d \in clusters_todo' : d \in clusters_todo /\ d.cluster # c.cluster
      BY <1>0, <2>2, <2>3 DEF Asking
  <2>6. \A e \in total_pods_all', d \in clusters_todo' : e.pod.cluster # d.cluster
      BY <1>0, <2>1, <2>4, <2>5 DEF Asking
  <2> QED  BY <1>0, <2>3, <2>5, <2>6 DEF Asking
<1>5. CASE AnalyzeAndReport
    BY <1>0, <1>5 DEF AnalyzeAndReport, Asking
<1>6. CASE FetchCpuMetrics \/ FetchMemoryMetrics
    BY <1>1, <1>6 DEF FetchCpuMetrics, FetchMemoryMetrics
<1>7. CASE UsageChanges \/ PodChanges \/ Apply
    BY <1>1, <1>7 DEF UsageChanges, PodChanges, Apply
<1> QED  BY <1>0, <1>2, <1>3, <1>4, <1>5, <1>6, <1>7 DEF Next, Analysis

(* No group is left out, and none is measured that was not found.          *)
LEMMA MeasuringNext ==
    ASSUME HInv, HNext
    PROVE  Measuring'
<1>0. Typed /\ Grouping /\ Measuring /\ Next
    BY DEF HInv, HNext
<1>1. DOMAIN <<>> = {}
    OBVIOUS
<1>2. CASE Start
    BY <1>0, <1>1, <1>2 DEF Start, Measuring
<1>3. CASE FetchPods \/ FetchPodsFails
  <2>1. /\ pc = "pods" /\ all_metrics' = all_metrics
        /\ pc' = "idle" \/ AfterPods(DOMAIN all_pods_by_deployment')
    <3>1. CASE FetchPods
        BY <3>1, FetchPodsIs
    <3>2. CASE FetchPodsFails
        BY <3>2 DEF FetchPodsFails
    <3> QED  BY <1>3, <3>1, <3>2
  <2>2. all_metrics' = <<>>
      BY <1>0, <2>1 DEF Measuring
  <2>3. /\ pc' \in {"pods", "idle", "cpu"}
        /\ pc' = "cpu" => groups_todo' = DOMAIN all_pods_by_deployment'
      BY <2>1, AfterPodsEnds
  <2> QED  BY <1>1, <2>2, <2>3 DEF Measuring
<1>4. CASE FetchCpuMetrics
  <2>1. PICK g \in groups_todo, m \in {Statistics[usage["cpu"]], NoMetrics} :
           all_metrics' = [h \in DOMAIN all_metrics \cup {g} |->
                             IF h = g THEN [cpu |-> m, memory |-> NoMetrics]
                             ELSE all_metrics[h]]
      BY <1>4 DEF FetchCpuMetrics
  <2>2. /\ pc = "cpu" /\ pc' = "memory"
        /\ UNCHANGED <<groups_todo, all_pods_by_deployment>>
      BY <1>4 DEF FetchCpuMetrics
  <2>3. Metrics(m) /\ Metrics(NoMetrics)
      BY <1>0, StatisticsTyped DEF Resources
  <2> DEFINE both == [cpu |-> m, memory |-> NoMetrics]
  <2>4. DOMAIN both = Resources /\ \A r \in Resources : Metrics(both[r])
      BY <2>3 DEF Resources
  <2> HIDE DEF both
  <2>5. DOMAIN all_metrics' = DOMAIN all_metrics \cup {g}
      BY <2>1
  <2>6. \A h \in DOMAIN all_metrics' :
           \/ all_metrics'[h] = both
           \/ h \in DOMAIN all_metrics /\ all_metrics'[h] = all_metrics[h]
    <3>1. all_metrics' = [h \in DOMAIN all_metrics \cup {g} |->
                            IF h = g THEN both ELSE all_metrics[h]]
        BY <2>1 DEF both
    <3> QED  BY <2>5, <3>1
  <2>7. \A h \in DOMAIN all_metrics' :
           /\ DOMAIN all_metrics'[h] = Resources
           /\ \A r \in Resources : Metrics(all_metrics'[h][r])
      BY <1>0, <2>4, <2>6 DEF Measuring
  <2>8. DOMAIN all_pods_by_deployment' = groups_todo' \cup DOMAIN all_metrics'
      BY <1>0, <2>2, <2>5 DEF Measuring
  <2> QED  BY <2>2, <2>7, <2>8 DEF Measuring
<1>5. CASE FetchMemoryMetrics
  <2>1. PICK g \in groups_todo \cap DOMAIN all_metrics,
             m \in {Statistics[usage["memory"]], NoMetrics} :
           /\ all_metrics' = [all_metrics EXCEPT ![g].memory = m]
           /\ groups_todo' = groups_todo \ {g}
           /\ pc' = IF groups_todo = {g} THEN "analyze" ELSE "cpu"
      BY <1>5 DEF FetchMemoryMetrics
  <2>2. /\ pc = "memory" /\ UNCHANGED all_pods_by_deployment
      BY <1>5 DEF FetchMemoryMetrics
  <2>3. Metrics(m)
      BY <1>0, StatisticsTyped DEF Resources
  <2>4. /\ DOMAIN all_metrics' = DOMAIN all_metrics
        /\ \A h \in DOMAIN all_metrics : h # g => all_metrics'[h] = all_metrics[h]
        /\ all_metrics'[g] = [all_metrics[g] EXCEPT !["memory"] = m]
      BY <2>1
  <2>5. \A h \in DOMAIN all_metrics :
           /\ DOMAIN all_metrics[h] = Resources
           /\ \A r \in Resources : Metrics(all_metrics[h][r])
      BY <1>0 DEF Measuring
  <2>6. /\ DOMAIN all_metrics'[g] = Resources
        /\ \A r \in Resources : Metrics(all_metrics'[g][r])
    <3>1. DOMAIN all_metrics'[g] = DOMAIN all_metrics[g]
        BY <2>4
    <3>2. \A r \in DOMAIN all_metrics[g] : all_metrics'[g][r] \in {all_metrics[g][r], m}
        BY <2>4
    <3> QED  BY <2>3, <2>5, <3>1, <3>2
  <2>7. DOMAIN all_pods_by_deployment = groups_todo \cup DOMAIN all_metrics
      BY <1>0, <2>2 DEF Measuring
  <2>8. /\ pc' = "cpu" => DOMAIN all_pods_by_deployment' = groups_todo' \cup DOMAIN all_metrics'
        /\ pc' = "analyze" => DOMAIN all_metrics' = DOMAIN all_pods_by_deployment'
        /\ pc' \in {"cpu", "analyze"}
      BY <2>1, <2>2, <2>4, <2>7
  <2> QED  BY <2>4, <2>5, <2>6, <2>8 DEF Measuring
<1>6. CASE AnalyzeAndReport
    BY <1>1, <1>6 DEF AnalyzeAndReport, Measuring
<1>7. CASE UsageChanges \/ PodChanges \/ Apply
    BY <1>0, <1>7 DEF UsageChanges, PodChanges, Apply, Measuring
<1> QED  BY <1>0, <1>2, <1>3, <1>4, <1>5, <1>6, <1>7 DEF Next, Analysis

(* The pods of the summary are those counted, each in one category.        *)
LEMMA SummaryCounts ==
    ASSUME NEW pods, IsFiniteSet(pods)
    PROVE  Summary(pods).running + Summary(pods).cronjobs = Cardinality(pods)
<1> DEFINE A == {e \in pods : Category(e.pod.name) \in {"web", "worker", "other"}}
           B == {e \in pods : Category(e.pod.name) \in {"cronjob"}}
<1>1. \A e \in pods : Category(e.pod.name) \in {"web", "worker", "other", "cronjob"}
    BY DEF Category
<1>2. A \cup B = pods /\ A \cap B = {}
    BY <1>1
<1>3. IsFiniteSet(A) /\ IsFiniteSet(B)
    BY FS_Subset
<1>4. Summary(pods).running = Cardinality(A) /\ Summary(pods).cronjobs = Cardinality(B)
    BY DEF Summary
<1> HIDE DEF A, B
<1>5. /\ Cardinality(A \cup B) = Cardinality(A) + Cardinality(B) - Cardinality(A \cap B)
      /\ Cardinality(A) \in Nat /\ Cardinality(B) \in Nat /\ Cardinality({}) = 0
    BY <1>3, FS_Union, FS_CardinalityType, FS_EmptySet
<1>6. Cardinality(pods) = Cardinality(A) + Cardinality(B)
  <2>1. Cardinality(A \cap B) = 0
      BY <1>2, <1>5
  <2>2. Cardinality(pods) = Cardinality(A \cup B)
      BY <1>2
  <2> QED  BY <1>5, <2>1, <2>2
<1> QED  BY <1>4, <1>6

(* The fields of a report.                                                 *)
LEMMA ReportFields ==
    ASSUME NEW results, NEW summary
    PROVE  LET R == Report(results, summary) IN
           /\ R.status = "success" /\ R.results = results /\ R.summary = summary
           /\ R.set_limit = SetLimitFindings(results)
           /\ R.increase = IncreaseFindings(results)
           /\ R.decrease = DecreaseFindings(results)
           /\ R.hpa = HpaCandidates(results) /\ R.at_risk = AtRiskFindings(results)
           /\ \A r \in Resources : R.freed[r] = NetFreed(results, r)
BY DEF Report

(* Finitely many pods are listed, as there are finitely many.              *)
LEMMA EntriesFinite ==
    ASSUME Grouping
    PROVE  IsFiniteSet(total_pods_all)
<1> DEFINE f == [e \in total_pods_all |-> e.pod]
<1>1. \A e \in total_pods_all : e.pod \in Pods
    BY DEF Grouping, Entries
<1>2. \A e, g \in total_pods_all : e.pod = g.pod => e = g
    BY DEF Grouping
<1>3. f \in Injection(total_pods_all, Pods)
    BY <1>1, <1>2 DEF Injection, IsInjective
<1> HIDE DEF f
<1> QED  BY <1>3, ResourceAssumption, FS_Injection

(* What is reported on are the groups found, with their pods.              *)
LEMMA AnalysesTyped ==
    ASSUME Typed, Grouping, Measuring, pc = "analyze"
    PROVE  /\ DOMAIN Analyses = DOMAIN all_pods_by_deployment
           /\ IsFiniteSet(DOMAIN Analyses)
           /\ \A g \in DOMAIN Analyses :
                 /\ Analyses[g] = Analyze(all_pods_by_deployment[g].spec, all_metrics[g],
                                          Cardinality(all_pods_by_deployment[g].pods))
                 /\ Analyzed(Analyses[g])
                 /\ Analyses[g].pods = Cardinality(PodsOf(g))
<1>1. DOMAIN Analyses = DOMAIN all_pods_by_deployment
    BY DEF Analyses
<1>2. IsFiniteSet(total_pods_all)
    BY EntriesFinite
<1>3. IsFiniteSet(DOMAIN Analyses)
  <2> DEFINE f == [e \in total_pods_all |-> GroupOf(e)]
             S == {GroupOf(e) : e \in total_pods_all}
  <2>1. f \in Surjection(total_pods_all, S)
      BY DEF Surjection
  <2>2. IsFiniteSet(S)
    <3> HIDE DEF f, S
    <3> QED  BY <1>2, <2>1, FS_Surjection
  <2> QED  BY <1>1, <2>2 DEF Grouping
<1>4. ASSUME NEW g \in DOMAIN Analyses
      PROVE  /\ Analyses[g] = Analyze(all_pods_by_deployment[g].spec, all_metrics[g],
                                      Cardinality(all_pods_by_deployment[g].pods))
             /\ Analyzed(Analyses[g])
             /\ Analyses[g].pods = Cardinality(PodsOf(g))
  <2> DEFINE spec == all_pods_by_deployment[g].spec
             pods == Cardinality(all_pods_by_deployment[g].pods)
             m == all_metrics[g]
  <2>1. Analyses[g] = Analyze(spec, m, pods)
      BY <1>1, <1>4 DEF Analyses
  <2>2. /\ all_pods_by_deployment[g].pods = PodsOf(g)
        /\ all_pods_by_deployment[g] \in [pods : SUBSET Entries, spec : Specs]
      BY <1>1, <1>4 DEF Grouping
  <2>3. pods \in Nat
    <3>1. IsFiniteSet(PodsOf(g))
        BY <1>2, FS_Subset DEF PodsOf
    <3> QED  BY <2>2, <3>1, FS_CardinalityType
  <2>4. spec \in Specs
      BY <2>2
  <2>5. \A r \in Resources : Metrics(m[r])
      BY <1>1, <1>4 DEF Measuring
  <2>6. pods = Cardinality(PodsOf(g))
      BY <2>2
  <2>7. Analyses[g].pods = pods
    <3> HIDE DEF spec, pods, m
    <3> QED  BY <2>1, AnalyzeFields
  <2>8. Analyzed(Analyses[g])
    <3> HIDE DEF spec, pods, m
    <3> QED  BY <2>1, <2>3, <2>4, <2>5 DEF Analyzed
  <2> QED  BY <2>1, <2>6, <2>7, <2>8
<1> QED  BY <1>1, <1>3, <1>4

(* A report comes from analyses alone and counts all their pods.           *)
LEMMA ReportingNext ==
    ASSUME HInv, HNext
    PROVE  Reporting'
<1>0. Typed /\ Grouping /\ Measuring /\ Reporting /\ Next
    BY DEF HInv, HNext
<1>1. CASE report' = report
    BY <1>0, <1>1 DEF Reporting, Reported
<1>2. CASE ~Reported'
    BY <1>2 DEF Reporting
<1>3. CASE Start
  <2>1. report' = report \/ ~Reported'
      BY <1>3 DEF Start, Reported
  <2> QED  BY <1>1, <1>2, <2>1
<1>4. CASE FetchPods \/ FetchPodsFails
  <2>1. ~Reported' \/ \E groups : AfterPods(groups)
      BY <1>4, FetchPodsIs DEF FetchPodsFails, Reported
  <2> QED  BY <1>1, <1>2, <2>1, AfterPodsEnds
<1>5. CASE AnalyzeAndReport
  <2> DEFINE D == DOMAIN Analyses
  <2>1. pc = "analyze" /\ report' = Report(Analyses, Summary(total_pods_all))
      BY <1>5 DEF AnalyzeAndReport
  <2>2. report'.results = Analyses /\ report'.summary = Summary(total_pods_all)
      BY <2>1, ReportFields
  <2>3. /\ D = DOMAIN all_pods_by_deployment /\ IsFiniteSet(D)
        /\ \A g \in D : /\ Analyzed(Analyses[g])
                        /\ Analyses[g].pods = Cardinality(PodsOf(g))
      BY <1>0, <2>1, AnalysesTyped
  <2>4. IsFiniteSet(total_pods_all)
      BY <1>0, EntriesFinite
  <2>5. SumOf(PodCounts(Analyses), D) = Cardinality(total_pods_all)
    <3> DEFINE part == [g \in D |-> PodsOf(g)]
               f == PodCounts(Analyses)
    <3>1. \A g \in D : IsFiniteSet(part[g])
        BY <2>4, FS_Subset DEF PodsOf
    <3>2. \A g, h \in D : g # h => part[g] \cap part[h] = {}
        BY DEF PodsOf
    <3>3. \A g \in D : f[g] = Cardinality(part[g])
        BY <2>3 DEF PodCounts
    <3>4. UNION {part[g] : g \in D} = total_pods_all
      <4>1. D = {GroupOf(e) : e \in total_pods_all}
          BY <1>0, <2>3 DEF Grouping
      <4>2. \A e \in total_pods_all : GroupOf(e) \in D /\ e \in part[GroupOf(e)]
        <5> HIDE DEF D
        <5> QED  BY <4>1 DEF PodsOf
      <4>3. \A g \in D : part[g] \subseteq total_pods_all
          BY DEF PodsOf
      <4> HIDE DEF D, part
      <4> QED  BY <4>2, <4>3
    <3> HIDE DEF D, part, f
    <3>5. SumOf(f, D) = Cardinality(UNION {part[g] : g \in D})
        BY <2>3, <3>1, <3>2, <3>3, SumOfParts
    <3> QED  BY <3>4, <3>5 DEF f
  <2>6. Summary(total_pods_all).running + Summary(total_pods_all).cronjobs
           = SumOf(PodCounts(Analyses), D)
      BY <2>4, <2>5, SummaryCounts
  <2> QED  BY <2>1, <2>2, <2>3, <2>6 DEF Reporting
<1>6. CASE \/ FetchCpuMetrics \/ FetchMemoryMetrics
           \/ UsageChanges \/ PodChanges \/ Apply
    BY <1>1, <1>6 DEF FetchCpuMetrics, FetchMemoryMetrics, UsageChanges,
                      PodChanges, Apply
<1> QED  BY <1>0, <1>3, <1>4, <1>5, <1>6 DEF Next, Analysis

-----------------------------------------------------------------------------
(* What Reporting and Grouping come to.                                    *)
LEMMA PartitionedByInv == Grouping /\ Measuring /\ Reporting => PodsPartitioned
<1> SUFFICES ASSUME Grouping, Measuring, Reporting  PROVE PodsPartitioned
    OBVIOUS
<1> DEFINE found == all_pods_by_deployment
<1>1. \A g \in DOMAIN found : found[g].pods = PodsOf(g)
    BY DEF Grouping
<1>2. UNION {found[g].pods : g \in DOMAIN found} = total_pods_all
  <2>1. DOMAIN found = {GroupOf(e) : e \in total_pods_all}
      BY DEF Grouping
  <2>2. \A e \in total_pods_all : /\ GroupOf(e) \in DOMAIN found
                                  /\ e \in found[GroupOf(e)].pods
      BY <1>1, <2>1 DEF PodsOf
  <2>3. \A g \in DOMAIN found : found[g].pods \subseteq total_pods_all
      BY <1>1 DEF PodsOf
  <2> QED  BY <2>2, <2>3
<1>5. /\ {e.pod : e \in total_pods_all} = counted
      /\ \A e, f \in total_pods_all : e.pod = f.pod => e = f
    BY DEF Grouping
<1>3. \A g, h \in DOMAIN found : g # h => found[g].pods \cap found[h].pods = {}
    BY <1>1 DEF PodsOf
<1>4. Reported => report.summary.running + report.summary.cronjobs =
                     MapThenSumSet(LAMBDA g : report.results[g].pods,
                                   DOMAIN report.results)
    BY PodsIsSum DEF Reporting
<1> QED  BY <1>2, <1>3, <1>4, <1>5 DEF PodsPartitioned

(* A report's net impact is the sum that PromisesAreKept is about.         *)
LEMMA NetByInv == Reporting => NetNeverOverstated
<1> SUFFICES ASSUME Reporting, Reported, NEW r \in Resources
             PROVE  report.freed[r] <= Freed(report.results, r)
    BY DEF NetNeverOverstated
<1>1. /\ report = Report(report.results, report.summary)
      /\ IsFiniteSet(DOMAIN report.results)
      /\ \A g \in DOMAIN report.results : Analyzed(report.results[g])
    BY DEF Reporting
<1>2. report.freed[r] = NetFreed(report.results, r)
    BY <1>1, ReportFields
<1> QED  BY <1>1, <1>2, PromisesAreKept

(* A report's sections are the ones that ReportAgrees is about.            *)
LEMMA CoherentByInv == Reporting => ReportCoherent
<1> SUFFICES ASSUME Reporting, Reported  PROVE ReportCoherent
    BY DEF ReportCoherent
<1>1. /\ report = Report(report.results, report.summary)
      /\ \A g \in DOMAIN report.results : Analyzed(report.results[g])
    BY DEF Reporting
<1>2. /\ report.set_limit = SetLimitFindings(report.results)
      /\ report.increase = IncreaseFindings(report.results)
      /\ report.decrease = DecreaseFindings(report.results)
      /\ report.hpa = HpaCandidates(report.results)
      /\ report.at_risk = AtRiskFindings(report.results)
    BY <1>1, ReportFields
<1>3. /\ AtRiskFindings(report.results) \subseteq IncreaseFindings(report.results)
      /\ IncreaseFindings(report.results)
            = {g \in DOMAIN report.results :
                  report.results[g].status = "NEEDS ATTENTION"}
      /\ \A g \in DOMAIN report.results : report.results[g].status = "NO_METRICS" =>
            g \notin SetLimitFindings(report.results)
                     \cup IncreaseFindings(report.results)
                     \cup DecreaseFindings(report.results)
                     \cup HpaCandidates(report.results)
    BY <1>1, ReportAgrees
<1> QED  BY <1>2, <1>3 DEF ReportCoherent

(* Which action a step is, by what it changes.                             *)
LEMMA StepKinds ==
    ASSUME Next
    PROVE  /\ Apply \/ container' = container
           /\ UsageChanges \/ usage' = usage
           /\ Start \/ ~(pc = "idle" /\ pc' = "pods")
           /\ AnalyzeAndReport \/ report' = report \/ ~Reported'
           /\ \/ FetchPods \/ AnalyzeAndReport
              \/ all_pods_by_deployment' = all_pods_by_deployment
           /\ \/ FetchCpuMetrics \/ FetchMemoryMetrics \/ AnalyzeAndReport
              \/ all_metrics' = all_metrics
           /\ AnalyzeAndReport \/ ~Reported' \/ (pc' = "idle" => pc = "idle")
           /\ AnalyzeAndReport \/ ~(pc = "analyze" /\ pc' = "idle")
<1>1. CASE Start
  <2>1. report' = report \/ ~Reported'
      BY <1>1 DEF Start, Reported
  <2> QED  BY <1>1, <2>1 DEF Start, world
<1>2. CASE FetchPods \/ FetchPodsFails
  <2>1. ~Reported' \/ \E groups : AfterPods(groups)
      BY <1>2, FetchPodsIs DEF FetchPodsFails, Reported
  <2>2. report' = report \/ ~Reported'
      BY <2>1, AfterPodsEnds
  <2>3. pc' = "idle" => ~Reported'
      BY <2>1 DEF AfterPods, Reported
  <2>4. pc = "pods" /\ UNCHANGED <<container, usage, all_metrics>>
      BY <1>2, FetchPodsIs DEF FetchPodsFails, world
  <2>5. FetchPods \/ all_pods_by_deployment' = all_pods_by_deployment
      BY <1>2 DEF FetchPodsFails
  <2> QED  BY <2>2, <2>3, <2>4, <2>5
<1>3. CASE FetchCpuMetrics
    BY <1>3 DEF FetchCpuMetrics, world
<1>4. CASE FetchMemoryMetrics
    BY <1>4 DEF FetchMemoryMetrics, world
<1>5. CASE AnalyzeAndReport
    BY <1>5 DEF AnalyzeAndReport, world
<1>6. CASE UsageChanges
    BY <1>6 DEF UsageChanges
<1>7. CASE PodChanges
    BY <1>7 DEF PodChanges
<1>8. CASE Apply
    BY <1>8 DEF Apply
<1> QED  BY <1>1, <1>2, <1>3, <1>4, <1>5, <1>6, <1>7, <1>8 DEF Next, Analysis

(* A request that suits is a number.                                       *)
LEMMA SuitsTyped ==
    ASSUME NEW n, NEW r, Suits(n, r)
    PROVE  n \in Nat /\ n # NoValue
BY DEF Suits, Double, HalfMore, NoValue

(* Following advice for the present usage, or advice that leaves the       *)
(* request alone, settles a resource.                                      *)
LEMMA ApplySettles ==
    ASSUME HInv, Apply, NEW gr \in Groups \X Resources,
           gr \in settled \/ gr \in Followed
    PROVE  Suits(Parsed(container'[gr[1]][gr[2]].request), gr[2])
<1> DEFINE g == gr[1]
           r == gr[2]
<1>0. g \in Groups /\ r \in Resources /\ gr = <<g, r>>
    OBVIOUS
<1>1. Typed /\ Reporting /\ Settling
    BY DEF HInv
<1>2. Reported
    BY DEF Apply, Reported
<1> HIDE DEF g, r
<1>3. PICK h \in DOMAIN report.results, q \in Resources :
         container' = [container EXCEPT
                         ![h] = Advised(container[h], q, report.results[h].advice[q])]
    BY DEF Apply
<1> DEFINE a == report.results[h].advice[q]
           new == Advised(container[h], q, a)
<1>4. a.new_request \in Quantified /\ a.new_limit \in Quantified
    BY <1>1, <1>2, AnalyzedAdvice DEF Reporting
<1>5. gr \in settled => /\ Suits(Parsed(container[g][r].request), r)
                        /\ container[g][r].request.n # NoValue
  <2> SUFFICES ASSUME gr \in settled
               PROVE  /\ Suits(Parsed(container[g][r].request), r)
                      /\ container[g][r].request.n # NoValue
      OBVIOUS
  <2>1. Suits(Parsed(container[g][r].request), r)
      BY <1>1 DEF Settling, g, r
  <2>2. Parsed(container[g][r].request) # NoValue
      BY <2>1, SuitsTyped
  <2> QED  BY <2>1, <2>2 DEF Parsed
<1>6. CASE h = g /\ q = r
  <2>1. container[g] \in FirstContainers
      BY <1>0, <1>1 DEF Typed
  <2>2. container'[g] = new
    <3>1. g \in DOMAIN container
        BY <1>0, <1>1 DEF Typed
    <3> HIDE DEF new
    <3> QED  BY <1>3, <1>6, <3>1 DEF new, a
  <2> HIDE DEF a
  <2>3. /\ a.new_request # NoValue => Parsed(new[r].request) = a.new_request
        /\ a.new_request = NoValue /\ container[g][r].request.n # NoValue =>
              new[r].request = container[g][r].request
      BY <1>0, <1>4, <1>6, <2>1, AdvisedTyped
  <2> HIDE DEF new
  <2>4. CASE a.new_request # NoValue
    <3>1. Suits(a.new_request, r)
      <4>1. \/ pc = "idle" /\ r \notin stale
            \/ <<g, r>> \in settled
          BY <1>0 DEF Followed, r
      <4>2. /\ h \in DOMAIN report.results /\ q \in Resources
            /\ \/ pc = "idle" /\ q \notin stale
               \/ <<h, q>> \in settled
          BY <1>6, <4>1
      <4> QED  BY <1>1, <1>2, <1>6, <2>4, <4>2 DEF Settling, a
    <3> QED  BY <2>2, <2>3, <2>4, <3>1 DEF g, r
  <2>5. CASE a.new_request = NoValue
    <3>1. gr \in settled
      <4>1. gr \in Followed => a.new_request # NoValue
          BY <1>6 DEF Followed, a, g, r
      <4> QED  BY <2>5, <4>1
    <3> QED  BY <1>5, <2>2, <2>3, <2>5, <3>1 DEF g, r
  <2> QED  BY <2>4, <2>5
<1>7. CASE ~(h = g /\ q = r)
  <2>1. container'[g][r] = container[g][r]
    <3>1. CASE h # g
        BY <1>0, <1>1, <1>3, <3>1 DEF Typed
    <3>2. CASE h = g /\ q # r
      <4>1. container[g] \in FirstContainers /\ g \in DOMAIN container
          BY <1>0, <1>1 DEF Typed
      <4>2. container'[g] = new
        <5> HIDE DEF new
        <5> QED  BY <1>3, <3>2, <4>1 DEF new, a
      <4> HIDE DEF a
      <4>3. new[r] = container[g][r]
          BY <1>0, <1>4, <3>2, <4>1, AdvisedTyped
      <4> QED  BY <4>2, <4>3
    <3> QED  BY <1>7, <3>1, <3>2
  <2>2. gr \in settled
      BY <2>1 DEF Followed, g, r
  <2> QED  BY <1>5, <2>1, <2>2 DEF g, r
<1> QED  BY <1>6, <1>7

(* What is advised after a measurement comes from the measurement.         *)
LEMMA AnalysesSuit ==
    ASSUME HInv, pc = "analyze", NEW g \in DOMAIN Analyses, NEW r \in Resources,
           r \notin stale
    PROVE  /\ all_metrics[g][r] \in {Statistics[usage[r]], NoMetrics}
           /\ Counsel(all_pods_by_deployment[g].spec[r], all_metrics[g][r],
                      Analyses[g].advice[r])
           /\ \/ Analyses[g].advice[r].new_request = NoValue
              \/ Suits(Analyses[g].advice[r].new_request, r)
<1>1. Typed /\ Grouping /\ Measuring /\ Settling
    BY DEF HInv
<1> DEFINE m == all_metrics[g][r]
           a == Analyses[g].advice[r]
<1>2. /\ g \in DOMAIN all_pods_by_deployment /\ g \in DOMAIN all_metrics
      /\ Analyses[g] = Analyze(all_pods_by_deployment[g].spec, all_metrics[g],
                               Cardinality(all_pods_by_deployment[g].pods))
    BY <1>1, AnalysesTyped DEF Measuring
<1>3. m \in {Statistics[usage[r]], NoMetrics}
    BY <1>1, <1>2 DEF Settling
<1>4. Metrics(m)
    BY <1>1, <1>2 DEF Measuring
<1>5. Counsel(all_pods_by_deployment[g].spec[r], m, a)
    BY <1>2, <1>4, AnalyzeFields, RecommendIsCounsel
<1> HIDE DEF m, a
<1>6. a.new_request = NoValue \/ Suits(a.new_request, r)
  <2>1. CASE m.p95 = NoValue
      BY <1>5, <2>1 DEF Counsel, Healthy, Advice
  <2>2. CASE m.p95 # NoValue
    <3>1. m = Statistics[usage[r]] /\ m.p95 \in Nat
        BY <1>3, <1>4, <2>2 DEF NoMetrics, Metrics
    <3>2. a.new_request = NoValue \/ a.new_request \in {Double(m.p95), HalfMore(m.p95)}
        BY <1>5 DEF Counsel
    <3> QED  BY <3>1, <3>2 DEF Suits
  <2> QED  BY <2>1, <2>2
<1> QED  BY <1>3, <1>5, <1>6 DEF m, a

(* Settled resources keep requests that suit their usage, from the moment  *)
(* advice is followed through the next report.                             *)
LEMMA SettlingNext ==
    ASSUME HInv, HNext
    PROVE  Settling'
<1>0. Typed /\ Grouping /\ Asking /\ Measuring /\ Settling /\ Next
    BY DEF HInv, HNext
<1>1. /\ stale' = IF pc = "idle" /\ pc' = "pods" THEN {} ELSE stale \cup Changed
      /\ settled' = {gr \in settled \cup Followed : gr[2] \notin Changed}
      /\ judged' = IF pc = "idle" /\ pc' = "pods" THEN settled
                   ELSE {gr \in judged : gr[2] \notin Changed}
    BY DEF HNext
<1>2. \A r \in Resources : r \notin Changed => usage'[r] = usage[r]
    BY DEF Changed
<1>3. Start => /\ Changed = {} /\ Followed = {} /\ pc = "idle"
               /\ UNCHANGED <<container, usage, all_metrics, all_pods_by_deployment>>
    BY DEF Start, world, Changed, Followed
<1>4. ~Start => stale' = stale \cup Changed /\ judged' \subseteq judged
    BY <1>0, <1>1, StepKinds
<1>5. settled \subseteq Groups \X Resources /\ Followed \subseteq Groups \X Resources
    BY <1>0 DEF Settling, Followed
<1>6. \A gr \in settled' : /\ gr \in Groups \X Resources /\ gr \in settled \cup Followed
                           /\ gr[2] \in Resources /\ usage'[gr[2]] = usage[gr[2]]
    BY <1>1, <1>2, <1>5
<1>7. \A gr \in judged' : gr \in settled' /\ (~Start => gr \in judged)
  <2>1. CASE pc = "idle" /\ pc' = "pods"
      BY <1>0, <1>1, <1>3, <2>1, StepKinds
  <2>2. CASE ~(pc = "idle" /\ pc' = "pods")
    <3>1. judged \subseteq settled
        BY <1>0 DEF Settling
    <3>2. judged' = {gr \in judged : gr[2] \notin Changed}
        BY <1>1, <2>2
    <3> QED  BY <1>1, <3>1, <3>2
  <2> QED  BY <2>1, <2>2
<1>8. \A r \in Resources : r \notin stale' /\ ~Start =>
         r \notin stale /\ usage'[r] = usage[r]
    BY <1>2, <1>4
<1>9. settled' \subseteq Groups \X Resources /\ judged' \subseteq settled'
    BY <1>6, <1>7
<1>10. ASSUME NEW g \in DOMAIN all_metrics', NEW r \in Resources, r \notin stale'
       PROVE  all_metrics'[g][r] \in {Statistics[usage'[r]], NoMetrics}
  <2>0. DOMAIN <<>> = {}
      OBVIOUS
  <2>1. CASE Start
    <3>1. all_metrics' = <<>>
        BY <1>0, <1>3, <2>1 DEF Measuring
    <3> QED  BY <1>10, <2>0, <3>1
  <2>2. CASE all_metrics' = all_metrics /\ ~Start
      BY <1>0, <1>8, <1>10, <2>2 DEF Settling
  <2>3. CASE AnalyzeAndReport
    <3>1. all_metrics' = <<>>
        BY <2>3 DEF AnalyzeAndReport
    <3> QED  BY <1>10, <2>0, <3>1
  <2>4. CASE FetchCpuMetrics
    <3>1. PICK h \in groups_todo, m \in {Statistics[usage["cpu"]], NoMetrics} :
             all_metrics' = [x \in DOMAIN all_metrics \cup {h} |->
                               IF x = h THEN [cpu |-> m, memory |-> NoMetrics]
                               ELSE all_metrics[x]]
        BY <2>4 DEF FetchCpuMetrics
    <3>2. usage' = usage /\ ~Start
        BY <2>4 DEF FetchCpuMetrics, world, Start
    <3>3. CASE g = h
      <4>1. all_metrics'[g] = [cpu |-> m, memory |-> NoMetrics]
          BY <3>1, <3>3
      <4> QED  BY <3>2, <4>1 DEF Resources
    <3>4. CASE g # h
      <4>1. g \in DOMAIN all_metrics /\ all_metrics'[g] = all_metrics[g]
          BY <1>10, <3>1, <3>4
      <4> QED  BY <1>0, <1>8, <1>10, <3>2, <4>1 DEF Settling
    <3> QED  BY <3>3, <3>4
  <2>5. CASE FetchMemoryMetrics
    <3>1. PICK h \in DOMAIN all_metrics, m \in {Statistics[usage["memory"]], NoMetrics} :
             all_metrics' = [all_metrics EXCEPT ![h].memory = m]
        BY <2>5 DEF FetchMemoryMetrics
    <3>2. usage' = usage /\ ~Start
        BY <2>5 DEF FetchMemoryMetrics, world, Start
    <3>3. g \in DOMAIN all_metrics /\ DOMAIN all_metrics[g] = Resources
        BY <1>0, <1>10, <3>1 DEF Measuring
    <3>4. all_metrics[g][r] \in {Statistics[usage[r]], NoMetrics}
        BY <1>0, <1>8, <1>10, <3>2, <3>3 DEF Settling
    <3>5. \/ all_metrics'[g][r] = all_metrics[g][r]
          \/ r = "memory" /\ all_metrics'[g][r] = m
        BY <3>1, <3>3
    <3> QED  BY <3>1, <3>2, <3>4, <3>5
  <2> QED  BY <1>0, <2>1, <2>2, <2>3, <2>4, <2>5, StepKinds
<1>11. ASSUME NEW gr \in settled'
       PROVE  /\ gr[2] \notin stale'
              /\ Suits(Parsed(container[gr[1]][gr[2]].request), gr[2])'
  <2>1. gr[2] \notin stale /\ gr[2] \notin Changed
      BY <1>0, <1>1, <1>11 DEF Settling, Followed
  <2>2. gr[2] \notin stale'
      BY <1>1, <2>1
  <2>3. Suits(Parsed(container'[gr[1]][gr[2]].request), gr[2])
    <3>1. CASE Apply
        BY <1>6, <1>11, <3>1, ApplySettles
    <3>2. CASE container' = container
      <4>1. gr \in settled
          BY <1>6, <1>11, <3>2 DEF Followed
      <4> QED  BY <1>0, <3>2, <4>1 DEF Settling
    <3> QED  BY <1>0, <3>1, <3>2, StepKinds
  <2> QED  BY <1>6, <1>11, <2>2, <2>3 DEF Suits
<1>12. ASSUME NEW gr \in judged', gr[1] \in DOMAIN all_pods_by_deployment'
       PROVE  Suits(all_pods_by_deployment[gr[1]].spec[gr[2]].request, gr[2])'
  <2> DEFINE g == gr[1]
             r == gr[2]
  <2>0. gr \in settled' /\ r \in Resources /\ usage'[r] = usage[r] /\ g \in Groups
      BY <1>6, <1>7, <1>12
  <2> HIDE DEF g, r
  <2>1. Suits(all_pods_by_deployment'[g].spec[r].request, r)
    <3>1. CASE Start
      <4>1. DOMAIN all_pods_by_deployment' = {}
          BY <1>0, <1>3, <3>1 DEF Grouping
      <4> QED  BY <1>12, <4>1
    <3>2. CASE AnalyzeAndReport
      <4>1. all_pods_by_deployment' = <<>> /\ DOMAIN <<>> = {}
          BY <3>2 DEF AnalyzeAndReport
      <4> QED  BY <1>12, <4>1
    <3>3. CASE all_pods_by_deployment' = all_pods_by_deployment /\ ~Start
      <4>1. gr \in judged /\ gr[1] \in DOMAIN all_pods_by_deployment
          BY <1>7, <1>12, <3>3
      <4> QED  BY <1>0, <3>3, <4>1 DEF Settling, g, r
    <3>5. CASE FetchPods /\ Unreadable(Listed)
      <4>1. DOMAIN all_pods_by_deployment' = {}
          BY <3>5, FetchPodsIs
      <4> QED  BY <1>12, <4>1
    <3>4. CASE FetchPods /\ ~Unreadable(Listed)
      <4>1. all_pods_by_deployment' = Grouped(Listed) /\ ~Start /\ pc = "pods"
          BY <3>4, FetchPodsIs DEF Start
      <4>2. Listed \in SUBSET Entries /\ ~Unreadable(Listed)
          BY <1>0, <3>4, <4>1, ListedAreNew
      <4>3. g \in DOMAIN Grouped(Listed)
          BY <1>12, <4>1 DEF g
      <4>4. CASE g \in DOMAIN all_pods_by_deployment
        <5>1. Grouped(Listed)[g].spec = all_pods_by_deployment[g].spec
            BY <1>0, <4>2, <4>3, <4>4, GroupedJoins
        <5>2. gr \in judged
            BY <1>7, <1>12, <4>1
        <5>3. Suits(all_pods_by_deployment[g].spec[r].request, r)
            BY <1>0, <4>4, <5>2 DEF Settling, g, r
        <5> QED  BY <4>1, <5>1, <5>3
      <4>5. CASE g \notin DOMAIN all_pods_by_deployment
        <5>1. Grouped(Listed)[g].spec = ExtractSpec(container[g])
            BY <1>0, <4>2, <4>3, <4>5, GroupedJoins
        <5>2. gr \in settled
          <6>1. gr \in judged /\ judged \subseteq settled
              BY <1>0, <1>7, <1>12, <4>1 DEF Settling
          <6> QED  BY <6>1
        <5>3. Suits(Parsed(container[g][r].request), r)
            BY <1>0, <5>2 DEF Settling, g, r
        <5>4. container[g][r].request.n # NoValue
            BY <5>3, SuitsTyped DEF Parsed
        <5>5. ExtractSpec(container[g])[r].request = Parsed(container[g][r].request)
            BY <2>0, <5>4 DEF ExtractSpec
        <5> QED  BY <4>1, <5>1, <5>3, <5>5
      <4> QED  BY <4>4, <4>5
    <3> QED  BY <1>0, <3>1, <3>2, <3>3, <3>4, <3>5, StepKinds
  <2> QED  BY <2>0, <2>1 DEF Suits, g, r
<1>13. ASSUME Reported', NEW g \in DOMAIN report'.results, NEW r \in Resources,
              \/ pc' = "idle" /\ r \notin stale'
              \/ <<g, r>> \in settled'
       PROVE  (\/ report.results[g].advice[r].new_request = NoValue
               \/ Suits(report.results[g].advice[r].new_request, r))'
  <2>1. usage'[r] = usage[r]
    <3>1. CASE <<g, r>> \in settled'
        BY <1>6, <3>1
    <3>2. CASE <<g, r>> \notin settled'
      <4>1. Start \/ usage'[r] = usage[r]
          BY <1>8, <1>13, <3>2
      <4> QED  BY <1>3, <4>1
    <3> QED  BY <3>1, <3>2
  <2>2. \/ report'.results[g].advice[r].new_request = NoValue
        \/ Suits(report'.results[g].advice[r].new_request, r)
    <3>1. CASE AnalyzeAndReport
      <4>1. pc = "analyze" /\ report'.results = Analyses /\ ~Start
          BY <3>1, ReportFields DEF AnalyzeAndReport, Start
      <4>2. r \notin stale
        <5>1. CASE <<g, r>> \in settled'
          <6>1. <<g, r>> \in settled
              BY <1>6, <4>1, <5>1 DEF Followed
          <6> QED  BY <1>0, <6>1 DEF Settling
        <5>2. CASE r \notin stale'
            BY <1>4, <4>1, <5>2
        <5> QED  BY <1>13, <5>1, <5>2
      <4> QED  BY <1>13, <4>1, <4>2, AnalysesSuit
    <3>2. CASE report' = report /\ ~AnalyzeAndReport
      <4>1. Reported /\ g \in DOMAIN report.results
          BY <1>13, <3>2 DEF Reported
      <4>2. \/ pc = "idle" /\ r \notin stale
            \/ <<g, r>> \in settled
        <5>1. CASE <<g, r>> \in settled'
            BY <1>6, <5>1 DEF Followed
        <5>2. CASE pc' = "idle" /\ r \notin stale'
          <6>1. pc = "idle"
              BY <1>0, <1>13, <3>2, <5>2, StepKinds
          <6>2. r \notin stale
            <7>1. pc' # "pods"
                BY <5>2
            <7> QED  BY <1>1, <5>2, <7>1
          <6> QED  BY <6>1, <6>2
        <5> QED  BY <1>13, <5>1, <5>2
      <4> QED  BY <1>0, <3>2, <4>1, <4>2 DEF Settling
    <3> QED  BY <1>0, <1>13, <3>1, <3>2, StepKinds
  <2> QED  BY <2>1, <2>2 DEF Suits
<1> QED  BY <1>9, <1>10, <1>11, <1>12, <1>13 DEF Settling

-----------------------------------------------------------------------------
(* HInv holds of every reachable state.                                   *)
LEMMA HInvHolds == HSpec => []HInv
<1>1. HInv /\ [HNext]_hvars => HInv'
  <2>1. ASSUME HInv, HNext  PROVE HInv'
      BY <2>1, TypedNext, GroupingNext, AskingNext, MeasuringNext, ReportingNext, SettlingNext
      DEF HInv
  <2>2. ASSUME HInv, UNCHANGED hvars  PROVE HInv'
    <3>1. UNCHANGED <<pod_state, container, usage, pc, clusters_todo, groups_todo,
                      all_pods_by_deployment, total_pods_all, all_metrics, report,
                      runs, events, counted, stale, settled, judged>>
        BY <2>2 DEF hvars, vars
    <3>2. Typed'
        BY <2>2, <3>1 DEF HInv, Typed
    <3>3. Grouping'
        BY <2>2, <3>1 DEF HInv, Grouping, PodsOf
    <3>7. Asking'
        BY <2>2, <3>1 DEF HInv, Asking
    <3>4. Measuring'
        BY <2>2, <3>1 DEF HInv, Measuring
    <3>5. Reporting'
        BY <2>2, <3>1 DEF HInv, Reporting, Reported
    <3>6. Settling'
        BY <2>2, <3>1 DEF HInv, Settling, Suits, Reported
    <3> QED  BY <3>2, <3>3, <3>4, <3>5, <3>6, <3>7 DEF HInv
  <2> QED  BY <2>1, <2>2
<1> QED  BY <1>1, HInvInit, PTL DEF HSpec

(* An analysis counts every analyzable pod once, under one deployment, and *)
(* its summary adds up to them (main.py analyze_namespace).                *)
THEOREM PodsPartitionedHolds == HSpec => []PodsPartitioned
<1>1. HInv => PodsPartitioned
    BY PartitionedByInv DEF HInv
<1> QED  BY <1>1, HInvHolds, PTL

(* The net impact promised is at most what following all advice frees      *)
(* (report_generator.py generate_memory_optimization_summary).             *)
THEOREM NetNeverOverstatedHolds == HSpec => []NetNeverOverstated
<1>1. HInv => NetNeverOverstated
    BY NetByInv DEF HInv
<1> QED  BY <1>1, HInvHolds, PTL

(* The sections, priorities and statuses of a report agree.                *)
THEOREM ReportCoherentHolds == HSpec => []ReportCoherent
<1>1. HInv => ReportCoherent
    BY CoherentByInv DEF HInv
<1> QED  BY <1>1, HInvHolds, PTL

(* Twice or one and a half times a usage of 20 tenths or more, rounded     *)
(* down, is neither below it nor more than twice as much.                  *)
LEMMA NeitherOverNorIdle ==
    ASSUME NEW p \in Nat, p >= 20, NEW n \in {Double(p), HalfMore(p)}
    PROVE  ~(p > 10 * n) /\ ~(2 * p < 10 * n)
<1>1. CASE n = (2 * p) \div 10
    BY <1>1
<1>2. CASE n = (3 * p) \div 20
    BY <1>2
<1> QED  BY <1>1, <1>2 DEF Double, HalfMore

(* So an analysis finds a judged resource neither over its request nor     *)
(* idle.                                                                   *)
LEMMA NoFlappingStep ==
    ASSUME HInv, HNext, pc = "analyze", pc' = "idle", NEW gr \in judged,
           gr[1] \in DOMAIN report'.results
    PROVE  \/ all_metrics[gr[1]][gr[2]].p95 < 20
           \/ report'.results[gr[1]].advice[gr[2]].type
                 \notin {"INCREASE_REQUEST", "DECREASE_REQUEST"}
<1> DEFINE g == gr[1]
           r == gr[2]
           m == all_metrics[g][r]
           n == all_pods_by_deployment[g].spec[r].request
           a == Analyses[g].advice[r]
<1>1. report'.results = Analyses
  <2>1. AnalyzeAndReport
      BY StepKinds DEF HNext
  <2> QED  BY <2>1, ReportFields DEF AnalyzeAndReport
<1>2. g \in DOMAIN Analyses
    BY <1>1
<1>3. gr \in settled /\ r \in Resources /\ r \notin stale
    BY DEF HInv, Settling
<1>4. Suits(n, r)
  <2>1. g \in DOMAIN all_pods_by_deployment
      BY <1>2, AnalysesTyped DEF HInv
  <2> QED  BY <2>1 DEF HInv, Settling
<1>5. /\ m \in {Statistics[usage[r]], NoMetrics}
      /\ Counsel(all_pods_by_deployment[g].spec[r], m, a)
  <2> HIDE DEF g, r
  <2> QED  BY <1>2, <1>3, AnalysesSuit
<1> HIDE DEF a, m, n
<1>6. CASE m = NoMetrics
  <2>1. m.p95 < 20
      BY <1>6 DEF NoMetrics, NoValue
  <2> QED  BY <2>1 DEF m
<1>7. CASE m # NoMetrics
  <2> DEFINE p == m.p95
  <2>1. p \in Nat /\ n \in {Double(p), HalfMore(p)}
      BY <1>4, <1>5, <1>7 DEF Suits
  <2>2. /\ a.type = "INCREASE_REQUEST" => p > 10 * n
        /\ a.type = "DECREASE_REQUEST" => 2 * p < 10 * n
      BY <1>5 DEF Counsel, n
  <2> HIDE DEF p
  <2>3. p < 20 \/ a.type \notin {"INCREASE_REQUEST", "DECREASE_REQUEST"}
      BY <2>1, <2>2, NeitherOverNorIdle
  <2> QED  BY <1>1, <2>3 DEF p, m, a
<1> QED  BY <1>6, <1>7

(* The analysis after one whose advice was followed asks for no further    *)
(* change of the request while usage stays, from 2m or 2Mi on (analyze.py  *)
(* recommend_cpu, recommend_memory).                                       *)
THEOREM NoFlappingHolds == HSpec => NoFlapping
<1>1. ASSUME HInv, [HNext]_hvars, pc = "analyze", pc' = "idle", NEW gr \in judged,
             gr[1] \in DOMAIN report'.results
      PROVE  \/ all_metrics[gr[1]][gr[2]].p95 < 20
             \/ report'.results[gr[1]].advice[gr[2]].type
                   \notin {"INCREASE_REQUEST", "DECREASE_REQUEST"}
  <2>1. HNext
      BY <1>1 DEF hvars, vars
  <2> QED  BY <1>1, <2>1, NoFlappingStep
<1>2. HInv /\ [HNext]_hvars =>
         [pc = "analyze" /\ pc' = "idle" =>
            \A gr \in judged :
               gr[1] \in DOMAIN report'.results =>
                  \/ all_metrics[gr[1]][gr[2]].p95 < 20
                  \/ report'.results[gr[1]].advice[gr[2]].type
                        \notin {"INCREASE_REQUEST", "DECREASE_REQUEST"}]_hvars
    BY <1>1
<1> QED  BY <1>2, HInvHolds, PTL DEF HSpec, NoFlapping
===============================================================================
