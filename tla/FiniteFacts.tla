---------------------------- MODULE FiniteFacts ----------------------------
(***************************************************************************)
(* Facts about natural numbers and finite sets that the proofs about the   *)
(* scoring queries need: induction, least and greatest elements, and the   *)
(* rank of an element in a finite set that is totally ordered.             *)
(***************************************************************************)
EXTENDS Integers, Sequences, FiniteSets, FiniteSetsExt, FiniteSetTheorems,
        WellFoundedInduction, TLAPS

\* A set of natural numbers has a least element.
LEMMA Least ==
    ASSUME NEW T, T \subseteq Nat, T # {}
    PROVE  \E x \in T : \A y \in T : x <= y
  <1>1. PICK R : R = {ss \in Nat \X Nat : ss[1] < ss[2]}
    BY Zenon
  <1>2. R = OpToRel(<, Nat)
    BY <1>1 DEF OpToRel
  <1>3. IsWellFoundedOn(R, Nat)
    BY <1>2, NatLessThanWellFounded, Zenon
  <1>4. PICK x \in T : \A y \in T : ~(<<y, x>> \in R)
    BY <1>3, WFMin, Zenon
  <1>5. ASSUME NEW y \in T
        PROVE  x <= y
    <2>1. ~(<<y, x>> \in R) /\ x \in Nat /\ y \in Nat
      BY <1>4
    <2>2. y < x => <<y, x>> \in R
      BY <1>1, <2>1
    <2> QED
      BY <2>1, <2>2
  <1> QED
    BY <1>5

\* Induction: a set with 0 and with the successor of each of its numbers.
LEMMA Induct ==
    ASSUME NEW P, 0 \in P, \A n \in Nat : n \in P => n + 1 \in P
    PROVE  Nat \subseteq P
  <1> DEFINE T == {n \in Nat : n \notin P}
  <1>1. SUFFICES ASSUME T # {}
                 PROVE  FALSE
    OBVIOUS
  <1>2. PICK x \in T : \A y \in T : x <= y
    BY <1>1, Least, Zenon
  <1>3. x # 0 /\ x - 1 \in Nat /\ x - 1 \notin T
    BY <1>2
  <1> QED
    BY <1>3

\* Min of a nonempty set of natural numbers is its least element.
LEMMA MinFacts ==
    ASSUME NEW S, S \subseteq Nat, S # {}
    PROVE  Min(S) \in S /\ \A y \in S : Min(S) <= y
  BY Least, Zenon DEF Min

\* Max of a nonempty bounded set of natural numbers is its greatest element.
LEMMA MaxFacts ==
    ASSUME NEW S, S \subseteq Nat, S # {}, NEW n \in Nat, \A y \in S : y <= n
    PROVE  Max(S) \in S /\ \A y \in S : Max(S) >= y
  <1> DEFINE T == {n - y : y \in S}
  <1>1. T \subseteq Nat /\ T # {}
    <2>1. \A y \in S : n - y \in Nat
      OBVIOUS
    <2> QED
      BY <2>1, Zenon
  <1>2. PICK x \in T : \A y \in T : x <= y
    BY <1>1, Least, Zenon
  <1>3. PICK m \in S : x = n - m
    OBVIOUS
  <1>4. ASSUME NEW y \in S
        PROVE  m >= y
    <2>1. n - m <= n - y
      BY <1>2, <1>3
    <2> QED
      BY <2>1
  <1> QED
    BY <1>4, Zenon DEF Max

\* The smaller of two numbers.
LEMMA MinOfTwo ==
    ASSUME NEW a \in Nat, NEW b \in Nat
    PROVE  Min({a, b}) = IF a <= b THEN a ELSE b
  <1>1. Min({a, b}) \in {a, b} /\ Min({a, b}) <= a /\ Min({a, b}) <= b
    BY MinFacts, Zenon
  <1> QED
    BY <1>1

\* The greater of two numbers.
LEMMA MaxOfTwo ==
    ASSUME NEW a \in Nat, NEW b \in Nat
    PROVE  Max({a, b}) = IF a >= b THEN a ELSE b
  <1>1. a + b \in Nat /\ \A y \in {a, b} : y <= a + b
    OBVIOUS
  <1>2. Max({a, b}) \in {a, b} /\ Max({a, b}) >= a /\ Max({a, b}) >= b
    BY <1>1, MaxFacts, Zenon
  <1> QED
    BY <1>2

\* In a finite totally ordered set, B giving the elements before each element, the
\* number of elements before it is an element's place: every place is taken once.
LEMMA Ranks ==
    ASSUME NEW S, IsFiniteSet(S), NEW B \in [S -> SUBSET S],
           \A e \in S : e \notin B[e],
           \A e, f \in S : e # f => e \in B[f] \/ f \in B[e],
           \A e, f \in S : f \in B[e] => B[f] \subseteq B[e]
    PROVE  /\ \A e \in S : Cardinality(B[e]) \in 0..(Cardinality(S) - 1)
           /\ \A e, f \in S : f \in B[e] <=> Cardinality(B[f]) < Cardinality(B[e])
           /\ \A i \in 1..Cardinality(S) : \E e \in S : Cardinality(B[e]) = i - 1
  <1>1. PICK n \in Nat : n = Cardinality(S)
    BY FS_CardinalityType
  <1>2. ASSUME NEW e \in S
        PROVE  IsFiniteSet(B[e]) /\ Cardinality(B[e]) \in Nat /\ Cardinality(B[e]) < n
    <2>1. B[e] \in SUBSET S /\ B[e] # S
      OBVIOUS
    <2>2. IsFiniteSet(B[e]) /\ Cardinality(B[e]) <= n /\ n # Cardinality(B[e])
      BY <1>1, <2>1, FS_Subset, Zenon
    <2>3. Cardinality(B[e]) \in Nat
      BY <2>2, FS_CardinalityType, Zenon
    <2> QED
      BY <2>2, <2>3
  <1>3. ASSUME NEW e \in S, NEW f \in S, f \in B[e]
        PROVE  Cardinality(B[f]) < Cardinality(B[e])
    <2>1. B[f] \in SUBSET B[e] /\ B[f] # B[e]
      BY <1>3
    <2>2. Cardinality(B[f]) <= Cardinality(B[e]) /\ Cardinality(B[e]) # Cardinality(B[f])
      BY <1>2, <2>1, FS_Subset, Zenon
    <2> QED
      BY <1>2, <2>2
  <1>4. ASSUME NEW e \in S, NEW f \in S, Cardinality(B[f]) < Cardinality(B[e])
        PROVE  f \in B[e]
    <2>1. e # f
      BY <1>2, <1>4
    <2>2. ~(e \in B[f])
      BY <1>2, <1>3, <1>4
    <2> QED
      BY <2>1, <2>2
  <1> DEFINE g == [e \in S |-> Cardinality(B[e]) + 1]
  <1>5. g \in [S -> 1..n]
    BY <1>2
  <1>6. \A e, f \in S : g[e] = g[f] => e = f
    <2> SUFFICES ASSUME NEW e \in S, NEW f \in S, e # f
                 PROVE  g[e] # g[f]
      OBVIOUS
    <2>1. Cardinality(B[f]) < Cardinality(B[e]) \/ Cardinality(B[e]) < Cardinality(B[f])
      BY <1>3
    <2> QED
      BY <1>2, <2>1
  <1>7. g \in Injection(S, 1..n)
    BY <1>5, <1>6, Zenon DEF Injection, IsInjective
  <1>8. IsFiniteSet(1..n) /\ Cardinality(1..n) = n
    BY FS_Interval
  <1>9. g \in Surjection(S, 1..n)
    BY <1>1, <1>7, <1>8, FS_Injection, Zenon
  <1>10. \A i \in 1..n : \E e \in S : g[e] = i
    BY <1>9, Zenon DEF Surjection
  <1>11. ASSUME NEW i \in 1..n
         PROVE  \E e \in S : Cardinality(B[e]) = i - 1
    <2>1. PICK e \in S : Cardinality(B[e]) + 1 = i
      BY <1>10
    <2> QED
      BY <1>2, <2>1
  <1> QED
    BY <1>1, <1>2, <1>3, <1>4, <1>11

\* B gives the elements before each element of a totally ordered set.
Before(S, B) ==
    /\ B \in [S -> SUBSET S]
    /\ \A e \in S : e \notin B[e]
    /\ \A e, f \in S : e # f => e \in B[f] \/ f \in B[e]
    /\ \A e, f \in S : f \in B[e] => B[f] \subseteq B[e]

\* s lists the elements of S by the number of elements before them.
Ranked(S, B, s) ==
    s = [i \in 1..Cardinality(S) |-> CHOOSE e \in S : Cardinality(B[e]) = i - 1]

\* The list of a finite totally ordered set by rank is ascending and complete.
LEMMA RankList ==
    ASSUME NEW S, IsFiniteSet(S), NEW B, Before(S, B), NEW s, Ranked(S, B, s)
    PROVE  /\ s \in [1..Cardinality(S) -> S]
           /\ \A i \in 1..Cardinality(S) : Cardinality(B[s[i]]) = i - 1
           /\ \A i, j \in 1..Cardinality(S) : i < j => s[i] \in B[s[j]]
           /\ \A e \in S : \E i \in 1..Cardinality(S) : s[i] = e /\ Cardinality(B[e]) = i - 1
  <1>1. PICK n \in Nat : n = Cardinality(S)
    BY FS_CardinalityType
  <1>2. B \in [S -> SUBSET S]
    BY Zenon DEF Before
  <1>3. /\ \A e \in S : Cardinality(B[e]) \in 0..(n - 1)
        /\ \A e, f \in S : f \in B[e] <=> Cardinality(B[f]) < Cardinality(B[e])
        /\ \A i \in 1..n : \E e \in S : Cardinality(B[e]) = i - 1
    BY <1>1, <1>2, Ranks, Zenon DEF Before
  <1>4. ASSUME NEW i \in 1..n
        PROVE  s[i] \in S /\ Cardinality(B[s[i]]) = i - 1
    BY <1>1, <1>3, Zenon DEF Ranked
  <1>5. ASSUME NEW i \in 1..n, NEW j \in 1..n, i < j
        PROVE  s[i] \in B[s[j]]
    <2>1. i - 1 < j - 1
      BY <1>5
    <2> QED
      BY <1>3, <1>4, <2>1, Zenon
  <1>6. ASSUME NEW e \in S
        PROVE  \E i \in 1..n : s[i] = e /\ Cardinality(B[e]) = i - 1
    <2>1. PICK i \in 1..n : Cardinality(B[e]) = i - 1
      <3>1. Cardinality(B[e]) \in 0..(n - 1)
        BY <1>3, Zenon
      <3>2. Cardinality(B[e]) + 1 \in 1..n /\ Cardinality(B[e]) = (Cardinality(B[e]) + 1) - 1
        BY <3>1
      <3> QED
        BY <3>2, Zenon
    <2>2. s[i] \in S /\ Cardinality(B[s[i]]) = i - 1
      BY <1>4, Zenon
    <2>3. ~(i - 1 < i - 1)
      OBVIOUS
    <2>4. s[i] \notin B[e] /\ e \notin B[s[i]]
      BY <1>3, <2>1, <2>2, <2>3, Zenon
    <2>5. s[i] = e
      BY <2>2, <2>4, Zenon DEF Before
    <2> QED
      BY <2>1, <2>5, Zenon
  <1>7. s \in [1..n -> S]
    BY <1>1, <1>4, Zenon DEF Ranked
  <1> QED
    BY <1>1, <1>4, <1>5, <1>6, <1>7, Zenon

\* s lists the numbers of S by the number of smaller ones.
Listed(S, s) ==
    s = [i \in 1..Cardinality(S) |-> CHOOSE d \in S : Cardinality({e \in S : e < d}) = i - 1]

\* Such a list is ascending and complete.
LEMMA ListFacts ==
    ASSUME NEW S, S \subseteq Nat, IsFiniteSet(S), NEW s, Listed(S, s)
    PROVE  /\ s \in [1..Cardinality(S) -> S]
           /\ \A i, j \in 1..Cardinality(S) : i < j => s[i] < s[j]
           /\ \A d \in S : \E i \in 1..Cardinality(S) : s[i] = d
  <1>1. PICK B : B = [d \in S |-> {e \in S : e < d}]
    BY Zenon
  <1>2. \A e, f \in S : f \in B[e] <=> f < e
    BY <1>1, Zenon
  <1>3. Before(S, B)
    <2>1. B \in [S -> SUBSET S]
      BY <1>1, Zenon
    <2>2. \A e, f \in S : ~(f < f) /\ (e # f => e < f \/ f < e)
      OBVIOUS
    <2>3. ASSUME NEW e \in S, NEW f \in S, f \in B[e], NEW g \in B[f]
          PROVE  g \in B[e]
      <3>1. g \in S /\ g < f /\ f < e
        BY <1>2, <2>1, <2>3
      <3>2. g \in Nat /\ f \in Nat /\ e \in Nat
        BY <3>1, Zenon
      <3>3. g < e
        BY <3>1, <3>2
      <3> QED
        BY <1>2, <3>1, <3>3, Zenon
    <2> QED
      BY <1>2, <2>1, <2>2, <2>3, Zenon DEF Before
  <1>4. Ranked(S, B, s)
    <2> DEFINE X(i) == CHOOSE d \in S : Cardinality({e \in S : e < d}) = i - 1
               Y(i) == CHOOSE d \in S : Cardinality(B[d]) = i - 1
    <2>1. \A i : X(i) = Y(i)
      BY <1>1, Zenon
    <2>2. s = [i \in 1..Cardinality(S) |-> X(i)]
      BY Zenon DEF Listed
    <2>3. Ranked(S, B, s) <=> s = [i \in 1..Cardinality(S) |-> Y(i)]
      BY Zenon DEF Ranked
    <2> HIDE DEF X, Y
    <2> QED
      BY <2>1, <2>2, <2>3, Zenon
  <1>5. /\ s \in [1..Cardinality(S) -> S]
        /\ \A i, j \in 1..Cardinality(S) : i < j => s[i] \in B[s[j]]
        /\ \A e \in S : \E i \in 1..Cardinality(S) : s[i] = e
    BY <1>3, <1>4, RankList
  <1> QED
    BY <1>2, <1>5, Zenon

\* Induction over the subsets of a finite set.
LEMMA SubsetInduct ==
    ASSUME NEW T, IsFiniteSet(T), NEW P,
           \A s \in SUBSET T : (\A x \in s : s \ {x} \in P) => s \in P
    PROVE  \A s \in SUBSET T : s \in P
  <1> DEFINE Q == {n \in Nat : \A s \in SUBSET T : Cardinality(s) = n => s \in P}
  <1>1. \A s \in SUBSET T : IsFiniteSet(s) /\ Cardinality(s) \in Nat
    BY FS_Subset, FS_CardinalityType, Zenon
  <1>2. 0 \in Q
    <2> SUFFICES ASSUME NEW s \in SUBSET T, Cardinality(s) = 0
                 PROVE  s \in P
      OBVIOUS
    <2>1. s = {}
      BY <1>1, FS_EmptySet, Zenon
    <2>2. \A x \in s : s \ {x} \in P
      BY <2>1, Zenon
    <2> QED
      BY <2>2, Zenon
  <1>3. ASSUME NEW n \in Nat, n \in Q
        PROVE  n + 1 \in Q
    <2> SUFFICES ASSUME NEW s \in SUBSET T, Cardinality(s) = n + 1
                 PROVE  s \in P
      OBVIOUS
    <2>1. ASSUME NEW x \in s
          PROVE  s \ {x} \in P
      <3>1. Cardinality(s \ {x}) = Cardinality(s) - 1
        BY <1>1, FS_RemoveElement, Zenon
      <3>2. Cardinality(s \ {x}) = n /\ s \ {x} \in SUBSET T
        BY <3>1
      <3> QED
        BY <1>3, <3>2, Zenon
    <2> QED
      BY <2>1, Zenon
  <1> HIDE DEF Q
  <1>4. Nat \subseteq Q
    BY <1>2, <1>3, Induct, Zenon
  <1>5. ASSUME NEW s \in SUBSET T
        PROVE  s \in P
    <2>1. Cardinality(s) \in Q
      BY <1>1, <1>4, Zenon
    <2> QED
      BY <2>1, Zenon DEF Q
  <1> QED
    BY <1>5, Zenon

\* A finite set of natural numbers has a bound.
LEMMA FiniteBound ==
    ASSUME NEW S, S \subseteq Nat, IsFiniteSet(S)
    PROVE  \E b \in Nat : \A y \in S : y <= b
  <1> DEFINE P == {s \in SUBSET S : \E b \in Nat : \A y \in s : y <= b}
  <1>1. ASSUME NEW s \in SUBSET S, \A x \in s : s \ {x} \in P
        PROVE  s \in P
    <2>1. CASE s = {}
      <3>1. 0 \in Nat /\ \A y \in s : y <= 0
        BY <2>1
      <3> QED
        BY <3>1, Zenon
    <2>2. CASE s # {}
      <3>1. PICK x \in s : TRUE
        BY <2>2, Zenon
      <3>2. PICK b \in Nat : \A y \in s \ {x} : y <= b
        BY <1>1, <3>1, Zenon
      <3>3. x \in Nat
        OBVIOUS
      <3>4. b + x \in Nat /\ \A y \in s : y <= b + x
        BY <3>2, <3>3
      <3> QED
        BY <3>4, Zenon
    <2> QED
      BY <2>1, <2>2, Zenon
  <1>2. \A s \in SUBSET S : s \in P
    <2> HIDE DEF P
    <2> QED
      BY <1>1, SubsetInduct, Zenon
  <1>3. S \in SUBSET S
    OBVIOUS
  <1> QED
    BY <1>2, <1>3, Zenon

\* Multiples keep their order, with the factor between them.
LEMMA Multiples ==
    ASSUME NEW a \in Nat, NEW b \in Nat, NEW c \in Nat, a < b
    PROVE  a * c \in Nat /\ b * c \in Nat /\ a * c + c <= b * c
  <1>1. a * c \in Nat /\ b * c \in Nat
    BY SMT
  <1>2. a * c + c = (a + 1) * c /\ (a + 1) * c <= b * c
    BY SMT
  <1> QED
    BY <1>1, <1>2

\* Rounding up: the number of runs of c that cover a.
LEMMA Ceiling ==
    ASSUME NEW a \in Nat \ {0}, NEW c \in Nat \ {0}
    PROVE  LET n == (a + c - 1) \div c
           IN  n \in Nat \ {0} /\ (n - 1) * c < a /\ a <= n * c
  <1>1. PICK x \in Nat : x = a + c - 1 /\ x >= c /\ a = x + 1 - c
    OBVIOUS
  <1>2. PICK n \in Nat : n = x \div c /\ n * c <= x /\ x < n * c + c /\ n * c \in Nat
    BY SMT
  <1>3. n # 0
    <2>1. 0 * c = 0
      BY SMT
    <2> QED
      BY <1>1, <1>2, <2>1
  <1>4. (n - 1) * c = n * c - c
    BY SMT
  <1>5. (n - 1) * c < a /\ a <= n * c
    BY <1>1, <1>2, <1>4
  <1> QED
    BY <1>1, <1>2, <1>3, <1>5

\* Cutting total into n runs of c, the last one shorter: w whole runs end at m[w], and
\* run w starts at st[w].
Runs(total, c, n, m, st) ==
    /\ m \in [Nat -> Nat] /\ m[0] = 0 /\ m[n - 1] < total /\ total <= m[n]
    /\ \A a, b \in Nat : a < b => m[a] + c <= m[b]
    /\ st = [w \in 1..(n + 1) |-> Min({m[w - 1], total})]

\* The runs are consecutive and not empty.
RunsCut(total, n, m, st) ==
    /\ st \in [1..(n + 1) -> 0..total]
    /\ st[1] = 0 /\ st[n + 1] = total
    /\ \A v, w \in 1..(n + 1) : v < w => st[v] < st[w]
    /\ \A w \in 1..n : st[w] = m[w - 1] /\ st[w + 1] = Min({m[w], total})

\* The starts of the runs cut total.
LEMMA RunStarts ==
    ASSUME NEW total \in Nat \ {0}, NEW c \in Nat \ {0}, NEW n \in Nat \ {0}, NEW m, NEW st,
           Runs(total, c, n, m, st)
    PROVE  RunsCut(total, n, m, st)
  <1>1. ASSUME NEW w \in 1..(n + 1)
        PROVE  /\ m[w - 1] \in Nat /\ st[w] = Min({m[w - 1], total})
               /\ st[w] = IF m[w - 1] <= total THEN m[w - 1] ELSE total
    <2>1. w - 1 \in Nat
      OBVIOUS
    <2>2. m[w - 1] \in Nat /\ st[w] = Min({m[w - 1], total})
      BY <2>1, Zenon DEF Runs
    <2>3. total \in Nat
      OBVIOUS
    <2> QED
      BY <2>2, <2>3, MinOfTwo, Zenon
  <1>2. ASSUME NEW a \in Nat, NEW b \in Nat, a < b
        PROVE  \E x, y \in Nat : x = m[a] /\ y = m[b] /\ x + c <= y
    <2>1. m[a] \in Nat /\ m[b] \in Nat /\ m[a] + c <= m[b]
      BY <1>2, Zenon DEF Runs
    <2> QED
      BY <2>1, Zenon
  <1>3. ASSUME NEW w \in 1..n
        PROVE  m[w - 1] \in Nat /\ m[w - 1] < total
    <2>1. w - 1 \in Nat /\ n - 1 \in Nat /\ (w - 1 = n - 1 \/ w - 1 < n - 1)
      OBVIOUS
    <2>2. m[n - 1] < total /\ m[n - 1] \in Nat /\ m[w - 1] \in Nat
      BY <2>1, Zenon DEF Runs
    <2>3. CASE w - 1 = n - 1
      BY <2>2, <2>3, Zenon
    <2>4. CASE w - 1 < n - 1
      <3>1. PICK x, y \in Nat : x = m[w - 1] /\ y = m[n - 1] /\ x + c <= y
        BY <1>2, <2>1, <2>4, Zenon
      <3>2. y < total
        BY <2>2, <3>1, Zenon
      <3>3. x < total
        BY <3>1, <3>2
      <3> QED
        BY <3>1, <3>3, Zenon
    <2> QED
      BY <2>1, <2>3, <2>4, Zenon
  <1>4. ASSUME NEW w \in 1..n
        PROVE  st[w] = m[w - 1] /\ st[w + 1] = Min({m[w], total})
    <2>1. w \in 1..(n + 1) /\ w + 1 \in 1..(n + 1) /\ (w + 1) - 1 = w
      OBVIOUS
    <2>2. st[w] = IF m[w - 1] <= total THEN m[w - 1] ELSE total
      BY <1>1, <2>1, Zenon
    <2>3. m[w - 1] <= total
      BY <1>3
    <2>4. st[w + 1] = Min({m[w], total})
      BY <1>1, <2>1, Zenon
    <2> QED
      BY <2>2, <2>3, <2>4, Zenon
  <1>5. st[1] = 0 /\ st[n + 1] = total
    <2>1. 1 \in 1..n /\ 1 - 1 = 0 /\ n + 1 \in 1..(n + 1) /\ (n + 1) - 1 = n /\ n \in Nat
      OBVIOUS
    <2>2. st[1] = m[0] /\ st[n + 1] = IF m[n] <= total THEN m[n] ELSE total
      BY <1>1, <1>4, <2>1, Zenon
    <2>3. PICK y \in Nat : y = m[n] /\ total <= y /\ m[0] = 0
      BY <2>1, Zenon DEF Runs
    <2>4. st[n + 1] = IF y <= total THEN y ELSE total
      BY <2>2, <2>3, Zenon
    <2>5. st[n + 1] = total
      BY <2>3, <2>4
    <2> QED
      BY <2>2, <2>3, <2>5, Zenon
  <1>6. ASSUME NEW v \in 1..(n + 1), NEW w \in 1..(n + 1), v < w
        PROVE  st[v] < st[w]
    <2>1. v \in 1..n /\ v - 1 \in Nat /\ w - 1 \in Nat /\ v - 1 < w - 1
      BY <1>6
    <2>2. PICK x, y \in Nat : x = m[v - 1] /\ y = m[w - 1] /\ x + c <= y
      <3>1. PICK a, b \in Nat : a = v - 1 /\ b = w - 1 /\ a < b
        BY <2>1
      <3>2. \E x, y \in Nat : x = m[a] /\ y = m[b] /\ x + c <= y
        BY <1>2, <3>1
      <3> QED
        BY <3>1, <3>2, Zenon
    <2>3. st[v] = x /\ x < total
      BY <1>3, <1>4, <2>1, <2>2, Zenon
    <2>4. st[w] = IF y <= total THEN y ELSE total
      BY <1>1, <2>2, Zenon
    <2>5. st[w] = y \/ st[w] = total
      BY <2>4, Zenon
    <2>6. x < y
      BY <2>2
    <2> QED
      BY <2>3, <2>5, <2>6, Zenon
  <1>7. ASSUME NEW w \in 1..(n + 1)
        PROVE  st[w] \in 0..total
    <2>1. PICK x \in Nat : st[w] = IF x <= total THEN x ELSE total
      BY <1>1, Zenon
    <2> QED
      BY <2>1
  <1>8. st \in [1..(n + 1) -> 0..total]
    BY <1>7, Zenon DEF Runs
  <1> QED
    BY <1>4, <1>5, <1>6, <1>8, Zenon DEF RunsCut

\* A sequence of numbers that never falls begins with its least.
LEMMA Chain ==
    ASSUME NEW l \in Nat, NEW g \in [1..l -> Nat], \A j \in 1..(l - 1) : g[j] <= g[j + 1]
    PROVE  \A j \in 1..l : g[1] <= g[j]
  <1> DEFINE P == {n \in Nat : n + 1 \in 1..l => g[1] <= g[n + 1]}
  <1>1. 0 \in P
    OBVIOUS
  <1>2. ASSUME NEW n \in Nat, n \in P
        PROVE  n + 1 \in P
    <2> SUFFICES ASSUME (n + 1) + 1 \in 1..l
                 PROVE  g[1] <= g[(n + 1) + 1]
      OBVIOUS
    <2>1. n + 1 \in 1..l /\ n + 1 \in 1..(l - 1) /\ 1 \in 1..l
      OBVIOUS
    <2>2. g[1] <= g[n + 1] /\ g[n + 1] <= g[(n + 1) + 1]
      BY <1>2, <2>1, Zenon
    <2>3. g[1] \in Nat /\ g[n + 1] \in Nat /\ g[(n + 1) + 1] \in Nat
      BY <2>1, Zenon
    <2> QED
      BY <2>2, <2>3
  <1> HIDE DEF P
  <1>3. Nat \subseteq P
    BY <1>1, <1>2, Induct, Zenon
  <1>4. ASSUME NEW j \in 1..l
        PROVE  g[1] <= g[j]
    <2>1. PICK n \in Nat : j = n + 1
      BY j - 1 \in Nat
    <2>2. n \in P
      BY <1>3, Zenon
    <2> QED
      BY <2>1, <2>2, Zenon DEF P
  <1> QED
    BY <1>4, Zenon

----------------------------------------------------------------------------
(* Sums over finite sets: SumFunctionOnSet and SumFunction of the library. *)

\* The element that the fold takes next.
Pick(s) == CHOOSE x \in s : TRUE

\* g gives the fold of every subset of T.
Iter(g, f, T) ==
    g = [s \in SUBSET T |-> IF s = {} THEN 0 ELSE f[Pick(s)] + g[s \ {Pick(s)}]]

\* Such a function exists.
LEMMA IterExists ==
    ASSUME NEW T, IsFiniteSet(T), NEW f, \A x \in T : f[x] \in Nat
    PROVE  \E g \in [SUBSET T -> Nat] : Iter(g, f, T)
  <1> DEFINE L(n) == {s \in SUBSET T : Cardinality(s) <= n}
             Body(g, s) == IF s = {} THEN 0 ELSE f[Pick(s)] + g[s \ {Pick(s)}]
             Q == {n \in Nat : \E g \in [L(n) -> Nat] : \A s \in L(n) : g[s] = Body(g, s)}
  <1>1. \A s \in SUBSET T : IsFiniteSet(s) /\ Cardinality(s) \in Nat
    BY FS_Subset, FS_CardinalityType, Zenon
  <1>2. 0 \in Q
    <2>1. PICK g : g = [s \in L(0) |-> 0]
      BY Zenon
    <2>2. \A s \in L(0) : s = {}
      <3> SUFFICES ASSUME NEW s \in L(0)
                   PROVE  s = {}
        BY Zenon
      <3>1. Cardinality(s) = 0
        BY <1>1
      <3> QED
        BY <1>1, <3>1, FS_EmptySet, Zenon
    <2>3. g \in [L(0) -> Nat] /\ \A s \in L(0) : g[s] = Body(g, s)
      BY <2>1, <2>2
    <2> QED
      BY <2>3, Zenon
  <1>3. ASSUME NEW n \in Nat, n \in Q
        PROVE  n + 1 \in Q
    <2>1. PICK g \in [L(n) -> Nat] : \A s \in L(n) : g[s] = Body(g, s)
      BY <1>3, Zenon
    <2>2. PICK h : h = [s \in L(n + 1) |-> Body(g, s)]
      BY Zenon
    <2>3. ASSUME NEW s \in L(n + 1), s # {}
          PROVE  s \ {Pick(s)} \in L(n) /\ Pick(s) \in s
      <3>1. Pick(s) \in s
        BY <2>3, Zenon DEF Pick
      <3>2. Cardinality(s \ {Pick(s)}) = Cardinality(s) - 1
        BY <1>1, <3>1, FS_RemoveElement, Zenon
      <3>3. Cardinality(s \ {Pick(s)}) <= n /\ s \ {Pick(s)} \in SUBSET T
        BY <1>1, <3>2
      <3> QED
        BY <3>1, <3>3
    <2>4. \A s \in L(n + 1) : Body(g, s) \in Nat
      BY <2>3
    <2>5. h \in [L(n + 1) -> Nat]
      BY <2>2, <2>4
    <2>6. \A s \in L(n) : s \in L(n + 1)
      BY <1>1
    <2>7. \A s \in L(n) : h[s] = g[s]
      BY <2>1, <2>2, <2>6, Zenon
    <2>8. \A s \in L(n + 1) : h[s] = Body(h, s)
      <3> SUFFICES ASSUME NEW s \in L(n + 1)
                   PROVE  h[s] = Body(h, s)
        BY Zenon
      <3>1. h[s] = Body(g, s)
        BY <2>2, Zenon
      <3>2. s # {} => g[s \ {Pick(s)}] = h[s \ {Pick(s)}]
        BY <2>3, <2>7, Zenon
      <3> QED
        BY <3>1, <3>2, Zenon
    <2>9. n + 1 \in Nat
      OBVIOUS
    <2> QED
      BY <2>5, <2>8, <2>9, Zenon
  <1>4. Nat \subseteq Q
    <2> HIDE DEF Q
    <2> QED
      BY <1>2, <1>3, Induct, Zenon
  <1>5. PICK n \in Nat : n = Cardinality(T)
    BY FS_CardinalityType, Zenon
  <1>6. L(n) = SUBSET T
    BY <1>5, FS_Subset, Zenon
  <1>7. PICK g \in [L(n) -> Nat] : \A s \in L(n) : g[s] = Body(g, s)
    BY <1>4, Zenon
  <1>8. g \in [SUBSET T -> Nat] /\ \A s \in SUBSET T : g[s] = Body(g, s)
    BY <1>6, <1>7, Zenon
  <1>9. Iter(g, f, T)
    BY <1>8, Zenon DEF Iter
  <1> QED
    BY <1>8, <1>9, Zenon

\* Two folds agree on the subsets they share.
LEMMA IterSame ==
    ASSUME NEW T, IsFiniteSet(T), NEW f, NEW g, Iter(g, f, T), NEW U \in SUBSET T,
           NEW h, Iter(h, f, U)
    PROVE  \A s \in SUBSET U : g[s] = h[s]
  <1> DEFINE P == {s \in SUBSET U : g[s] = h[s]}
  <1>1. ASSUME NEW s \in SUBSET U, \A x \in s : s \ {x} \in P
        PROVE  s \in P
    <2>1. s \in SUBSET T
      OBVIOUS
    <2>2. /\ g[s] = IF s = {} THEN 0 ELSE f[Pick(s)] + g[s \ {Pick(s)}]
          /\ h[s] = IF s = {} THEN 0 ELSE f[Pick(s)] + h[s \ {Pick(s)}]
      BY <2>1, Zenon DEF Iter
    <2>3. s # {} => g[s \ {Pick(s)}] = h[s \ {Pick(s)}]
      BY <1>1, Zenon DEF Pick
    <2> QED
      BY <2>2, <2>3, Zenon
  <1>2. IsFiniteSet(U)
    BY FS_Subset, Zenon
  <1> HIDE DEF P
  <1>3. \A s \in SUBSET U : s \in P
    BY <1>1, <1>2, SubsetInduct, Zenon
  <1> QED
    BY <1>3, Zenon DEF P

\* SumFunctionOnSet is that fold.
LEMMA SumIsIter ==
    ASSUME NEW f, NEW T
    PROVE  SumFunctionOnSet(f, T) = (CHOOSE g : Iter(g, f, T))[T]
  BY Zenon DEF SumFunctionOnSet, FoldFunctionOnSet, MapThenFoldSet, Iter, Pick

\* A sum over a set is one of its values plus the sum over the rest, whichever is taken.
Sums(f, T) ==
    \A s \in SUBSET T :
        /\ SumFunctionOnSet(f, s) \in Nat
        /\ s = {} => SumFunctionOnSet(f, s) = 0
        /\ \A x \in s : SumFunctionOnSet(f, s) = f[x] + SumFunctionOnSet(f, s \ {x})

\* That is so for the sums of natural numbers.
LEMMA SumFacts ==
    ASSUME NEW T, IsFiniteSet(T), NEW f, \A x \in T : f[x] \in Nat
    PROVE  Sums(f, T)
  <1>1. PICK g \in [SUBSET T -> Nat] : Iter(g, f, T)
    BY IterExists, Zenon
  <1>2. ASSUME NEW s \in SUBSET T
        PROVE  SumFunctionOnSet(f, s) = g[s]
    <2>1. IsFiniteSet(s) /\ \A x \in s : f[x] \in Nat
      BY FS_Subset, Zenon
    <2>2. PICK h : h = CHOOSE j : Iter(j, f, s)
      BY Zenon
    <2>3. \E j : Iter(j, f, s)
      BY <2>1, IterExists, Zenon
    <2>4. Iter(h, f, s)
      BY <2>2, <2>3, Zenon
    <2>5. \A u \in SUBSET s : g[u] = h[u]
      BY <1>1, <2>4, IterSame
    <2>6. s \in SUBSET s
      OBVIOUS
    <2> QED
      BY <2>2, <2>5, <2>6, SumIsIter, Zenon
  <1>3. ASSUME NEW s \in SUBSET T
        PROVE  g[s] = IF s = {} THEN 0 ELSE f[Pick(s)] + g[s \ {Pick(s)}]
    BY <1>1, Zenon DEF Iter
  <1> DEFINE P == {s \in SUBSET T : \A x \in s : g[s] = f[x] + g[s \ {x}]}
  <1>4. ASSUME NEW s \in SUBSET T, \A x \in s : s \ {x} \in P
        PROVE  s \in P
    <2> SUFFICES ASSUME NEW x \in s
                 PROVE  g[s] = f[x] + g[s \ {x}]
      BY Zenon
    <2>1. PICK y \in s : y = Pick(s)
      BY Zenon DEF Pick
    <2>2. g[s] = f[y] + g[s \ {y}]
      BY <1>3, <2>1, Zenon
    <2>3. CASE x = y
      BY <2>2, <2>3, Zenon
    <2>4. CASE x # y
      <3>1. x \in s \ {y} /\ y \in s \ {x} /\ (s \ {x}) \ {y} = (s \ {y}) \ {x}
        BY <2>4
      <3>2. g[s \ {y}] = f[x] + g[(s \ {y}) \ {x}] /\ g[s \ {x}] = f[y] + g[(s \ {x}) \ {y}]
        BY <1>4, <2>1, <3>1, Zenon
      <3>3. PICK r \in Nat : r = g[(s \ {y}) \ {x}]
        BY (s \ {y}) \ {x} \in SUBSET T
      <3>4. f[x] \in Nat /\ f[y] \in Nat
        BY <2>1
      <3>5. g[s] = f[y] + (f[x] + r) /\ g[s \ {x}] = f[y] + r
        BY <2>2, <3>1, <3>2, <3>3, Zenon
      <3> QED
        BY <3>3, <3>4, <3>5
    <2> QED
      BY <2>3, <2>4, Zenon
  <1> HIDE DEF P
  <1>5. \A s \in SUBSET T : s \in P
    BY <1>4, SubsetInduct, Zenon
  <1>6. ASSUME NEW s \in SUBSET T
        PROVE  /\ SumFunctionOnSet(f, s) \in Nat
               /\ s = {} => SumFunctionOnSet(f, s) = 0
               /\ \A x \in s : SumFunctionOnSet(f, s) = f[x] + SumFunctionOnSet(f, s \ {x})
    <2>1. SumFunctionOnSet(f, s) \in Nat
      BY <1>2, Zenon
    <2>2. s = {} => SumFunctionOnSet(f, s) = 0
      BY <1>2, <1>3, Zenon
    <2>3. ASSUME NEW x \in s
          PROVE  SumFunctionOnSet(f, s) = f[x] + SumFunctionOnSet(f, s \ {x})
      <3>1. s \ {x} \in SUBSET T
        OBVIOUS
      <3>2. g[s] = f[x] + g[s \ {x}]
        BY <1>5, Zenon DEF P
      <3> QED
        BY <1>2, <3>1, <3>2, Zenon
    <2> QED
      BY <2>1, <2>2, <2>3, Zenon
  <1> QED
    BY <1>6, Zenon DEF Sums

\* Smaller values have a smaller sum.
LEMMA SumMono ==
    ASSUME NEW T, IsFiniteSet(T), NEW f, NEW h,
           \A x \in T : f[x] \in Nat /\ h[x] \in Nat /\ f[x] <= h[x]
    PROVE  SumFunctionOnSet(f, T) <= SumFunctionOnSet(h, T)
  <1> DEFINE P == {s \in SUBSET T : SumFunctionOnSet(f, s) <= SumFunctionOnSet(h, s)}
  <1>1. Sums(f, T)
    BY SumFacts, Zenon
  <1>2. Sums(h, T)
    BY SumFacts, Zenon
  <1>3. ASSUME NEW s \in SUBSET T, \A x \in s : s \ {x} \in P
        PROVE  s \in P
    <2>1. CASE s = {}
      <3>1. SumFunctionOnSet(f, s) = 0 /\ SumFunctionOnSet(h, s) = 0
        BY <1>1, <1>2, <2>1, Zenon DEF Sums
      <3> QED
        BY <3>1
    <2>2. CASE s # {}
      <3>1. PICK x \in s : TRUE
        BY <2>2, Zenon
      <3>2. s \ {x} \in SUBSET T
        OBVIOUS
      <3>3. PICK a, b, u, v \in Nat : /\ a = f[x] /\ b = h[x] /\ a <= b
                                      /\ u = SumFunctionOnSet(f, s \ {x})
                                      /\ v = SumFunctionOnSet(h, s \ {x}) /\ u <= v
        BY <1>1, <1>2, <1>3, <3>2, Zenon DEF Sums
      <3>4. SumFunctionOnSet(f, s) = a + u /\ SumFunctionOnSet(h, s) = b + v
        BY <1>1, <1>2, <3>3, Zenon DEF Sums
      <3> QED
        BY <3>3, <3>4
    <2> QED
      BY <2>1, <2>2, Zenon
  <1> HIDE DEF P
  <1>4. \A s \in SUBSET T : s \in P
    BY <1>3, SubsetInduct, Zenon
  <1> QED
    BY <1>4, Zenon DEF P

\* Equal values have the same sum.
LEMMA SumSame ==
    ASSUME NEW T, IsFiniteSet(T), NEW f, NEW h, \A x \in T : f[x] \in Nat /\ f[x] = h[x]
    PROVE  SumFunctionOnSet(f, T) = SumFunctionOnSet(h, T)
  <1>1. \A x \in T : f[x] \in Nat /\ h[x] \in Nat /\ f[x] <= h[x] /\ h[x] <= f[x]
    OBVIOUS
  <1>2. SumFunctionOnSet(f, T) <= SumFunctionOnSet(h, T) /\ SumFunctionOnSet(h, T) <= SumFunctionOnSet(f, T)
    BY <1>1, SumMono, Zenon
  <1>3. T \in SUBSET T
    OBVIOUS
  <1>4. SumFunctionOnSet(f, T) \in Nat /\ SumFunctionOnSet(h, T) \in Nat
    <2>1. Sums(f, T) /\ Sums(h, T)
      BY <1>1, SumFacts, Zenon
    <2> QED
      BY <1>3, <2>1, Zenon DEF Sums
  <1> QED
    BY <1>2, <1>4

\* One smaller value among values that are no greater makes the sum smaller.
LEMMA SumLess ==
    ASSUME NEW T, IsFiniteSet(T), NEW f, NEW h,
           \A x \in T : f[x] \in Nat /\ h[x] \in Nat /\ f[x] <= h[x],
           NEW y \in T, f[y] < h[y]
    PROVE  SumFunctionOnSet(f, T) < SumFunctionOnSet(h, T)
  <1>1. IsFiniteSet(T \ {y}) /\ T \in SUBSET T /\ T \ {y} \in SUBSET T
    BY FS_RemoveElement, Zenon
  <1>2. SumFunctionOnSet(f, T \ {y}) <= SumFunctionOnSet(h, T \ {y})
    BY <1>1, SumMono, Zenon
  <1>3. /\ SumFunctionOnSet(f, T \ {y}) \in Nat /\ SumFunctionOnSet(h, T \ {y}) \in Nat
        /\ SumFunctionOnSet(f, T) = f[y] + SumFunctionOnSet(f, T \ {y})
        /\ SumFunctionOnSet(h, T) = h[y] + SumFunctionOnSet(h, T \ {y})
    <2>1. Sums(f, T) /\ Sums(h, T)
      BY SumFacts, Zenon
    <2> QED
      BY <1>1, <2>1, Zenon DEF Sums
  <1> QED
    BY <1>2, <1>3

\* A sum over fewer elements is no greater, and the same if the others count nothing.
LEMMA SumSubset ==
    ASSUME NEW T, IsFiniteSet(T), NEW f, \A x \in T : f[x] \in Nat, NEW U \in SUBSET T
    PROVE  /\ SumFunctionOnSet(f, U) <= SumFunctionOnSet(f, T)
           /\ (\A x \in T \ U : f[x] = 0) => SumFunctionOnSet(f, U) = SumFunctionOnSet(f, T)
  <1> DEFINE Zero == \A x \in T \ U : f[x] = 0
             P == {s \in SUBSET T : /\ SumFunctionOnSet(f, s \cap U) <= SumFunctionOnSet(f, s)
                                    /\ Zero => SumFunctionOnSet(f, s \cap U) = SumFunctionOnSet(f, s)}
  <1>1. Sums(f, T)
    BY SumFacts, Zenon
  <1>2. ASSUME NEW s \in SUBSET T, \A x \in s : s \ {x} \in P
        PROVE  s \in P
    <2>1. CASE s = {}
      <3>1. s \cap U = s
        BY <2>1
      <3>2. SumFunctionOnSet(f, s) <= SumFunctionOnSet(f, s)
        BY <1>1 DEF Sums
      <3> QED
        BY <3>1, <3>2, Zenon
    <2>2. CASE s # {}
      <3>1. PICK x \in s : TRUE
        BY <2>2, Zenon
      <3>2. /\ s \ {x} \in SUBSET T /\ s \cap U \in SUBSET T /\ (s \ {x}) \cap U \in SUBSET T
            /\ x \notin U => (s \ {x}) \cap U = s \cap U
            /\ x \in U => (s \ {x}) \cap U = (s \cap U) \ {x} /\ x \in s \cap U
        OBVIOUS
      <3>3. PICK a, u, v \in Nat : /\ a = f[x] /\ u = SumFunctionOnSet(f, s \ {x})
                                   /\ v = SumFunctionOnSet(f, (s \ {x}) \cap U)
        BY <1>1, <3>2, Zenon DEF Sums
      <3>4. v <= u /\ (Zero => v = u)
        BY <1>2, <3>3, Zenon
      <3>5. SumFunctionOnSet(f, s) = a + u
        BY <1>1, <3>3, Zenon DEF Sums
      <3>6. CASE x \in U
        <4>1. SumFunctionOnSet(f, s \cap U) = a + v
          BY <1>1, <3>2, <3>3, <3>6, Zenon DEF Sums
        <4> QED
          BY <3>3, <3>4, <3>5, <4>1
      <3>7. CASE x \notin U
        <4>1. SumFunctionOnSet(f, s \cap U) = v /\ (Zero => a = 0)
          BY <3>1, <3>2, <3>3, <3>7, Zenon
        <4> QED
          BY <3>3, <3>4, <3>5, <4>1
      <3> QED
        BY <3>6, <3>7, Zenon
    <2> QED
      BY <2>1, <2>2, Zenon
  <1>3. \A s \in SUBSET T : s \in P
    <2> HIDE DEF P
    <2> QED
      BY <1>2, SubsetInduct, Zenon
  <1>4. T \in SUBSET T /\ T \cap U = U
    OBVIOUS
  <1> QED
    BY <1>3, <1>4, Zenon

\* A sum does not depend on how its elements are named.
LEMMA SumRenamed ==
    ASSUME NEW J, IsFiniteSet(J), NEW o, NEW f, \A j \in J : f[o[j]] \in Nat,
           \A i, j \in J : o[i] = o[j] => i = j
    PROVE  SumFunctionOnSet([j \in J |-> f[o[j]]], J) = SumFunctionOnSet(f, {o[j] : j \in J})
  <1> DEFINE Im(s) == {o[j] : j \in s}
  <1>1. PICK T, h : T = Im(J) /\ h = [j \in J |-> f[o[j]]]
    BY Zenon
  <1> DEFINE P == {s \in SUBSET J : SumFunctionOnSet(h, s) = SumFunctionOnSet(f, Im(s))}
  <1>2. IsFiniteSet(T)
    <2>1. [j \in J |-> o[j]] \in Surjection(J, T)
      BY <1>1, Zenon DEF Surjection
    <2> QED
      BY <2>1, FS_Surjection, Zenon
  <1>3. /\ \A x \in T : f[x] \in Nat
        /\ \A j \in J : h[j] \in Nat /\ h[j] = f[o[j]]
    BY <1>1, Zenon
  <1>4. Sums(f, T)
    BY <1>2, <1>3, SumFacts, Zenon
  <1>5. Sums(h, J)
    BY <1>3, SumFacts, Zenon
  <1>6. ASSUME NEW s \in SUBSET J, \A x \in s : s \ {x} \in P
        PROVE  s \in P
    <2>1. CASE s = {}
      <3>1. Im(s) = {} /\ Im(s) \in SUBSET T
        BY <2>1, Zenon
      <3> QED
        BY <1>4, <1>5, <2>1, <3>1, Zenon DEF Sums
    <2>2. CASE s # {}
      <3>1. PICK x \in s : TRUE
        BY <2>2, Zenon
      <3>2. Im(s) \in SUBSET T /\ o[x] \in Im(s)
        BY <1>1, Zenon
      <3>3. Im(s \ {x}) = Im(s) \ {o[x]}
        BY Zenon
      <3>4. SumFunctionOnSet(h, s \ {x}) = SumFunctionOnSet(f, Im(s) \ {o[x]})
        BY <1>6, <3>1, <3>3, Zenon
      <3>5. SumFunctionOnSet(f, Im(s)) = f[o[x]] + SumFunctionOnSet(f, Im(s) \ {o[x]})
        BY <1>4, <3>2, Zenon DEF Sums
      <3>6. SumFunctionOnSet(h, s) = f[o[x]] + SumFunctionOnSet(h, s \ {x})
        BY <1>3, <1>5, <3>1, Zenon DEF Sums
      <3> QED
        BY <3>4, <3>5, <3>6, Zenon
    <2> QED
      BY <2>1, <2>2, Zenon
  <1>7. \A s \in SUBSET J : s \in P
    <2> HIDE DEF P
    <2> QED
      BY <1>6, SubsetInduct, Zenon
  <1>8. J \in SUBSET J
    OBVIOUS
  <1> QED
    BY <1>1, <1>7, <1>8, Zenon

\* A sum of a function is the sum over its domain.
LEMMA SumDomain ==
    ASSUME NEW f
    PROVE  SumFunction(f) = SumFunctionOnSet(f, DOMAIN f)
  BY Zenon DEF SumFunction
============================================================================
