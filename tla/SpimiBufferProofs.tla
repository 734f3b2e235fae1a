------------------------- MODULE SpimiBufferProofs -------------------------
(***************************************************************************)
(* What holds of the term buffer for every vocabulary, cap and fault: the  *)
(* slot pool, the reporter's books, the spill triggers, the run files and  *)
(* the errors that end a drain.                                            *)
(***************************************************************************)
EXTENDS SpimiBuffer, FiniteFacts

----------------------------------------------------------------------------
(* The parts of the invariant, each a predicate of a buffer. *)

Fields == {"vocab", "rank", "slot_of", "slots", "free", "touched", "arena", "reported",
           "current", "cap", "runs", "files", "status", "drained"}

\* b is a record with the members of the buffer.
IsBuf(b) == b = [f \in Fields |-> b[f]]

Entry == [pos : Nat, new : BOOLEAN, delta : Int]
CompactTerm == [chain : Seq(Entry), cur_docid : Nat, started : BOOLEAN, sorted : BOOLEAN]

Token == [term : Terms, doc : Docs, pos : Nat]

\* The ids that hold a slot.
LiveIds(slot_of) == {id \in DOMAIN slot_of : slot_of[id] # 0}

\* Of n slots, the live ids and the free list share none and repeat none.
Exclusive(n, slot_of, free) ==
    /\ slot_of \in Seq(Nat) /\ free \in Seq(Nat)
    /\ \A id \in DOMAIN slot_of : slot_of[id] <= n
    /\ \A i \in DOMAIN free : free[i] \in 1..n
    /\ \A x, y \in LiveIds(slot_of) : slot_of[x] = slot_of[y] => x = y
    /\ \A i, j \in DOMAIN free : free[i] = free[j] => i = j
    /\ \A x \in LiveIds(slot_of), i \in DOMAIN free : slot_of[x] # free[i]

\* The slot pool.
PoolOK(b) == b.slots \in Seq(CompactTerm) /\ Exclusive(Len(b.slots), b.slot_of, b.free)

\* The ranks of the first n strings of a vocabulary.
RankOf(vocab, n) ==
    [id \in 1..n |-> Cardinality({o \in 1..n : vocab[o] < vocab[id]})]

\* No string is there twice.
Distinct(vocab) ==
    vocab \in Seq(Terms) /\ \A i, j \in DOMAIN vocab : vocab[i] = vocab[j] => i = j

\* The cached ranks are those of the vocabulary as it was when they were computed.
Ranking(vocab, rank) == \E n \in 0..Len(vocab) : rank = RankOf(vocab, n)

\* The reporter has been told of everything that is held.
BooksOK(b) == b.arena \in Nat /\ b.current = Resident(b) /\ b.reported = Resident(b)

\* While tokens come in, every id has its entry in slot_of, the touched ids are
\* the live ones, and an arena without a touched id is empty.
FillOK(b) ==
    /\ Len(b.slot_of) = Len(b.vocab)
    /\ b.touched = LiveIds(b.slot_of)
    /\ b.touched = {} => b.arena = 0

\* The run files and the remaining members.
RestOK(b) ==
    /\ \E S : b.runs \in Seq(S)
    /\ b.files = Len(b.runs)
    /\ b.cap \in Caps /\ b.status \in Statuses /\ b.drained \in BOOLEAN

\* All of it.
FillInv(b) ==
    /\ IsBuf(b) /\ PoolOK(b) /\ BooksOK(b) /\ FillOK(b) /\ RestOK(b)
    /\ Distinct(b.vocab) /\ Ranking(b.vocab, b.rank)

\* The members that the slot pool and the books do not touch.
Kept(c, b) ==
    /\ c.vocab = b.vocab /\ c.cap = b.cap /\ c.runs = b.runs /\ c.files = b.files
    /\ c.status = b.status /\ c.drained = b.drained

----------------------------------------------------------------------------
(* Sequences. *)

\* A nonempty sequence without its last element.
LEMMA FrontFacts ==
    ASSUME NEW S, NEW s \in Seq(S), s # <<>>
    PROVE  /\ Len(s) \in Nat \ {0} /\ Last(s) = s[Len(s)] /\ Last(s) \in S
           /\ Front(s) \in Seq(S) /\ Len(Front(s)) = Len(s) - 1
           /\ DOMAIN Front(s) = 1..(Len(s) - 1)
           /\ \A i \in 1..(Len(s) - 1) : Front(s)[i] = s[i]
  <1>1. PICK n \in Nat : n = Len(s) /\ n # 0
    BY SMT
  <1>2. Last(s) = s[n] /\ s[n] \in S
    BY <1>1 DEF Last
  <1>3. Front(s) = SubSeq(s, 1, n - 1)
    BY <1>1, Zenon DEF Front
  <1>4. SubSeq(s, 1, n - 1) \in Seq(S) /\ Len(SubSeq(s, 1, n - 1)) = n - 1
    BY <1>1, SMT
  <1>5. \A i \in 1..(n - 1) : SubSeq(s, 1, n - 1)[i] = s[i]
    BY <1>1, SMT
  <1>6. DOMAIN SubSeq(s, 1, n - 1) = 1..(n - 1)
    BY <1>4, SMT
  <1> QED
    BY <1>1, <1>2, <1>3, <1>4, <1>5, <1>6

----------------------------------------------------------------------------
(* The slot pool. *)

\* The id has got a slot of its own.
Taken(so, id, n, so2, fr2) ==
    Exclusive(n, so2, fr2) /\ Len(so2) = Len(so) /\ LiveIds(so2) = LiveIds(so) \cup {id}

\* A recycled slot goes to an id that has none.
LEMMA TakeRecycled ==
    ASSUME NEW n \in Nat, NEW so, NEW fr, Exclusive(n, so, fr),
           NEW id \in DOMAIN so, so[id] = 0, fr # <<>>,
           NEW so2, so2 = [so EXCEPT ![id] = Last(fr)], NEW fr2, fr2 = Front(fr)
    PROVE  Taken(so, id, n, so2, fr2)
  <1>1. so \in Seq(Nat) /\ fr \in Seq(Nat)
    BY Zenon DEF Exclusive
  <1>2. PICK m \in Nat : m = Len(fr) /\ m # 0
    <2>1. Len(fr) \in Nat \ {0}
      BY <1>1, FrontFacts, Zenon
    <2> QED
      BY <2>1, Zenon
  <1>3. /\ Last(fr) = fr[m]
        /\ fr2 \in Seq(Nat) /\ DOMAIN fr2 = 1..(m - 1)
        /\ \A i \in 1..(m - 1) : fr2[i] = fr[i]
    <2>1. /\ Last(fr) = fr[Len(fr)] /\ Front(fr) \in Seq(Nat)
          /\ DOMAIN Front(fr) = 1..(Len(fr) - 1)
          /\ \A i \in 1..(Len(fr) - 1) : Front(fr)[i] = fr[i]
      BY <1>1, FrontFacts, Zenon
    <2> QED
      BY <1>2, <2>1, Zenon
  <1>4. /\ m \in DOMAIN fr
        /\ \A i \in 1..(m - 1) : i \in DOMAIN fr /\ i # m
    BY <1>1, <1>2
  <1>5. fr[m] \in 1..n
    BY <1>4, Zenon DEF Exclusive
  <1>6. /\ so2 \in Seq(Nat) /\ DOMAIN so2 = DOMAIN so /\ Len(so2) = Len(so)
        /\ so2[id] = fr[m]
        /\ \A x \in DOMAIN so : x # id => so2[x] = so[x]
    BY <1>1, <1>3, <1>5, SMTT(60)
  <1>7. /\ LiveIds(so2) = LiveIds(so) \cup {id} /\ id \notin LiveIds(so)
        /\ \A z \in LiveIds(so) : z \in DOMAIN so /\ so2[z] = so[z]
    BY <1>5, <1>6 DEF LiveIds
  <1>8. \A x \in DOMAIN so2 : so2[x] <= n
    <2>1. \A x \in DOMAIN so : so[x] <= n
      BY Zenon DEF Exclusive
    <2>2. fr[m] <= n
      BY <1>5
    <2> QED
      BY <1>6, <2>1, <2>2, Zenon
  <1>9. \A i \in DOMAIN fr2 : i \in DOMAIN fr /\ fr2[i] = fr[i] /\ i # m
    BY <1>3, <1>4, Zenon
  <1>10. \A i \in DOMAIN fr2 : fr2[i] \in 1..n
    BY <1>9, Zenon DEF Exclusive
  <1>11. /\ \A x, y \in LiveIds(so) : so[x] = so[y] => x = y
         /\ \A i, j \in DOMAIN fr : fr[i] = fr[j] => i = j
         /\ \A x \in LiveIds(so), i \in DOMAIN fr : so[x] # fr[i]
    BY Zenon DEF Exclusive
  <1>12. ASSUME NEW x \in LiveIds(so2), NEW y \in LiveIds(so2), so2[x] = so2[y]
         PROVE  x = y
    <2>1. \A z \in LiveIds(so) : so2[z] # so2[id]
      BY <1>4, <1>6, <1>7, <1>11
    <2>2. CASE x = id \/ y = id
      BY <1>7, <1>12, <2>1, <2>2, Zenon
    <2>3. CASE x \in LiveIds(so) /\ y \in LiveIds(so)
      BY <1>7, <1>11, <1>12, <2>3, Zenon
    <2> QED
      BY <1>7, <2>2, <2>3, Zenon
  <1>13. ASSUME NEW i \in DOMAIN fr2, NEW j \in DOMAIN fr2, fr2[i] = fr2[j]
         PROVE  i = j
    <2>1. i \in DOMAIN fr /\ j \in DOMAIN fr /\ fr[i] = fr[j]
      BY <1>9, <1>13, Zenon
    <2> QED
      BY <1>11, <2>1, Zenon
  <1>14. ASSUME NEW x \in LiveIds(so2), NEW i \in DOMAIN fr2
         PROVE  so2[x] # fr2[i]
    <2>1. CASE x = id
      <3>1. i \in DOMAIN fr /\ fr2[i] = fr[i] /\ i # m
        BY <1>9, Zenon
      <3>2. fr[i] # fr[m]
        BY <1>4, <1>11, <3>1, Zenon
      <3> QED
        BY <1>6, <2>1, <3>1, <3>2, Zenon
    <2>2. CASE x \in LiveIds(so)
      BY <1>7, <1>9, <1>11, <2>2
    <2> QED
      BY <1>7, <2>1, <2>2, Zenon
  <1> QED
    BY <1>3, <1>6, <1>7, <1>8, <1>10, <1>12, <1>13, <1>14, Zenon DEF Exclusive, Taken

\* So does a slot added to the pool.
LEMMA TakeFresh ==
    ASSUME NEW n \in Nat, NEW so, NEW fr, Exclusive(n, so, fr),
           NEW id \in DOMAIN so, so[id] = 0, fr = <<>>,
           NEW so2, so2 = [so EXCEPT ![id] = n + 1]
    PROVE  Taken(so, id, n + 1, so2, fr)
  <1>1. so \in Seq(Nat) /\ fr \in Seq(Nat)
    BY Zenon DEF Exclusive
  <1>2. /\ so2 \in Seq(Nat) /\ DOMAIN so2 = DOMAIN so /\ Len(so2) = Len(so)
        /\ so2[id] = n + 1
        /\ \A x \in DOMAIN so : x # id => so2[x] = so[x]
    BY <1>1
  <1>3. /\ LiveIds(so2) = LiveIds(so) \cup {id} /\ id \notin LiveIds(so)
        /\ \A z \in LiveIds(so) : z \in DOMAIN so /\ so2[z] = so[z]
    BY <1>2 DEF LiveIds
  <1>4. \A x \in DOMAIN so : so[x] <= n /\ so[x] \in Nat
    <2>1. \A x \in DOMAIN so : so[x] <= n
      BY Zenon DEF Exclusive
    <2> QED
      BY <1>1, <2>1
  <1>5. \A x \in DOMAIN so : so[x] <= n + 1 /\ so[x] # n + 1
    BY <1>4
  <1>6. n + 1 <= n + 1
    OBVIOUS
  <1>7. \A x \in DOMAIN so2 : so2[x] <= n + 1
    BY <1>2, <1>5, <1>6, Zenon
  <1>8. DOMAIN fr = {}
    OBVIOUS
  <1>9. \A x, y \in LiveIds(so) : so[x] = so[y] => x = y
    BY Zenon DEF Exclusive
  <1>10. ASSUME NEW x \in LiveIds(so2), NEW y \in LiveIds(so2), so2[x] = so2[y]
         PROVE  x = y
    BY <1>2, <1>3, <1>5, <1>9, <1>10, Zenon
  <1> QED
    BY <1>1, <1>2, <1>3, <1>7, <1>8, <1>10, Zenon DEF Exclusive, Taken

\* ids lists the k members of T.
Lists(ids, k, T) ==
    /\ ids \in [1..k -> T]
    /\ \A i, j \in 1..k : ids[i] = ids[j] => i = j
    /\ \A x \in T : \E i \in 1..k : ids[i] = x

\* No id has a slot any more.
Freed(so, n, so2, fr2) == Exclusive(n, so2, fr2) /\ Len(so2) = Len(so) /\ LiveIds(so2) = {}

\* All live ids give up their slots: the free list gets each of them once.
LEMMA ReleaseLive ==
    ASSUME NEW n \in Nat, NEW so, NEW fr, Exclusive(n, so, fr),
           NEW k \in Nat, NEW ids, Lists(ids, k, LiveIds(so)),
           NEW fd, fd = [i \in 1..k |-> so[ids[i]]],
           NEW so2, so2 = [id \in 1..Len(so) |-> IF id \in LiveIds(so) THEN 0 ELSE so[id]]
    PROVE  Freed(so, n, so2, fr \o fd)
  <1>0. ids \in [1..k -> LiveIds(so)] /\ \A i, j \in 1..k : ids[i] = ids[j] => i = j
    BY Zenon DEF Lists
  <1>1. so \in Seq(Nat) /\ fr \in Seq(Nat)
    BY Zenon DEF Exclusive
  <1>2. PICK l \in Nat : l = Len(so) /\ DOMAIN so = 1..l
    BY <1>1
  <1>3. \A id \in 1..l : so2[id] = 0
    BY <1>2 DEF LiveIds
  <1>4. so2 \in [1..l -> Nat]
    BY <1>1, <1>2
  <1>5. so2 \in Seq(Nat) /\ DOMAIN so2 = 1..l /\ Len(so2) = l
    BY <1>4
  <1>6. LiveIds(so2) = {}
    BY <1>3, <1>5 DEF LiveIds
  <1>7. ASSUME NEW i \in 1..k
        PROVE  fd[i] = so[ids[i]] /\ ids[i] \in LiveIds(so) /\ fd[i] \in 1..n /\ fd[i] \in Nat
    <2>1. fd[i] = so[ids[i]] /\ ids[i] \in LiveIds(so)
      BY <1>0
    <2>2. ids[i] \in DOMAIN so /\ so[ids[i]] # 0
      BY <2>1, Zenon DEF LiveIds
    <2>3. so[ids[i]] <= n
      BY <2>2, Zenon DEF Exclusive
    <2>4. so[ids[i]] \in Nat
      BY <1>1, <2>2
    <2> QED
      BY <2>1, <2>2, <2>3, <2>4
  <1>8. fd \in Seq(Nat) /\ DOMAIN fd = 1..k /\ Len(fd) = k
    <2>1. fd \in [1..k -> Nat]
      BY <1>7, Zenon
    <2> QED
      BY <2>1
  <1>9. PICK m \in Nat : m = Len(fr) /\ DOMAIN fr = 1..m
    BY <1>1
  <1>10. PICK f2 : f2 = fr \o fd
    BY Zenon
  <1>11. /\ f2 \in Seq(Nat) /\ DOMAIN f2 = 1..(m + k)
         /\ \A i \in 1..(m + k) : f2[i] = IF i <= m THEN fr[i] ELSE fd[i - m]
    BY <1>1, <1>8, <1>9, <1>10
  <1>12. \A i \in 1..(m + k) : (i <= m => i \in 1..m) /\ (~(i <= m) => i - m \in 1..k)
    OBVIOUS
  <1>13. /\ \A i \in DOMAIN fr : fr[i] \in 1..n
         /\ \A x, y \in LiveIds(so) : so[x] = so[y] => x = y
         /\ \A i, j \in DOMAIN fr : fr[i] = fr[j] => i = j
         /\ \A x \in LiveIds(so), i \in DOMAIN fr : so[x] # fr[i]
    BY Zenon DEF Exclusive
  <1>14. \A i \in DOMAIN f2 : f2[i] \in 1..n
    <2>1. ASSUME NEW i \in 1..(m + k)
          PROVE  f2[i] \in 1..n
      <3>1. CASE i <= m
        BY <1>9, <1>11, <1>12, <1>13, <3>1, Zenon
      <3>2. CASE ~(i <= m)
        BY <1>7, <1>11, <1>12, <3>2, Zenon
      <3> QED
        BY <3>1, <3>2, Zenon
    <2> QED
      BY <1>11, <2>1, Zenon
  <1>15. ASSUME NEW i \in DOMAIN f2, NEW j \in DOMAIN f2, f2[i] = f2[j]
         PROVE  i = j
    <2>9. \A p \in 1..k, q \in DOMAIN fr : fd[p] # fr[q]
      BY <1>7, <1>13, Zenon
    <2>1. CASE i <= m /\ j <= m
      <3>1. i \in DOMAIN fr /\ j \in DOMAIN fr /\ fr[i] = fr[j]
        BY <1>9, <1>11, <1>12, <1>15, <2>1, Zenon
      <3> QED
        BY <1>13, <3>1, Zenon
    <2>2. CASE i <= m /\ ~(j <= m)
      <3>1. i \in DOMAIN fr /\ j - m \in 1..k /\ f2[i] = fr[i] /\ f2[j] = fd[j - m]
        BY <1>9, <1>11, <1>12, <2>2, Zenon
      <3>2. fd[j - m] # fr[i]
        BY <2>9, <3>1, Zenon
      <3> QED
        BY <1>15, <3>1, <3>2, Zenon
    <2>3. CASE ~(i <= m) /\ j <= m
      <3>1. j \in DOMAIN fr /\ i - m \in 1..k /\ f2[j] = fr[j] /\ f2[i] = fd[i - m]
        BY <1>9, <1>11, <1>12, <2>3, Zenon
      <3>2. fd[i - m] # fr[j]
        BY <2>9, <3>1, Zenon
      <3> QED
        BY <1>15, <3>1, <3>2, Zenon
    <2>4. CASE ~(i <= m) /\ ~(j <= m)
      <3>1. i - m \in 1..k /\ j - m \in 1..k /\ fd[i - m] = fd[j - m]
        BY <1>11, <1>12, <1>15, <2>4, Zenon
      <3>2. i - m = j - m
        BY <1>0, <1>7, <1>13, <3>1, Zenon
      <3> QED
        BY <1>11, <3>2
    <2> QED
      BY <2>1, <2>2, <2>3, <2>4, Zenon
  <1>16. \A id \in DOMAIN so2 : so2[id] <= n
    <2>1. 0 <= n
      OBVIOUS
    <2> QED
      BY <1>3, <1>5, <2>1, Zenon
  <1>17. Exclusive(n, so2, f2)
    BY <1>5, <1>6, <1>11, <1>14, <1>15, <1>16, Zenon DEF Exclusive
  <1> QED
    BY <1>2, <1>5, <1>6, <1>10, <1>17, Zenon DEF Freed

----------------------------------------------------------------------------
(* The order of the drain. *)

\* The cached ranks order the ids as their strings are ordered.
LEMMA RankOrder ==
    ASSUME NEW vocab, Distinct(vocab), NEW n \in 0..Len(vocab), NEW r, r = RankOf(vocab, n)
    PROVE  /\ r \in [1..n -> Nat]
           /\ \A x, y \in 1..n : r[x] < r[y] <=> vocab[x] < vocab[y]
  <1>1. vocab \in Seq(Terms) /\ Terms \subseteq Nat
    BY SpimiAssumption, Zenon DEF Distinct
  <1>2. n \in Nat /\ \A x \in 1..n : vocab[x] \in Nat /\ x \in DOMAIN vocab
    <2>1. PICK l \in Nat : l = Len(vocab) /\ DOMAIN vocab = 1..l
      BY <1>1
    <2>2. \A x \in 1..l : vocab[x] \in Terms
      BY <1>1, <2>1
    <2>3. n \in Nat /\ \A x \in 1..n : x \in 1..l
      BY <2>1
    <2> QED
      BY <1>1, <2>1, <2>2, <2>3, Zenon
  <1>3. \A x, y \in 1..n : x # y => vocab[x] # vocab[y]
    BY <1>2, Zenon DEF Distinct
  <1>4. PICK S : S = 1..n
    BY Zenon
  <1>5. IsFiniteSet(S)
    BY <1>2, <1>4, FS_Interval
  <1>6. PICK B : B = [e \in S |-> {o \in S : vocab[o] < vocab[e]}]
    BY Zenon
  <1>7. B \in [S -> SUBSET S] /\ \A e, f \in S : f \in B[e] <=> vocab[f] < vocab[e]
    BY <1>6, Zenon
  <1>8. /\ \A e \in S : ~(vocab[e] < vocab[e])
        /\ \A e, f \in S : e # f => vocab[e] < vocab[f] \/ vocab[f] < vocab[e]
        /\ \A e, f, g \in S : vocab[g] < vocab[f] /\ vocab[f] < vocab[e] => vocab[g] < vocab[e]
    BY <1>2, <1>3, <1>4
  <1>9. /\ \A e \in S : e \notin B[e]
        /\ \A e, f \in S : e # f => e \in B[f] \/ f \in B[e]
    BY <1>7, <1>8, Zenon
  <1>10. ASSUME NEW e \in S, NEW f \in S, f \in B[e], NEW g \in B[f]
         PROVE  g \in B[e]
    BY <1>7, <1>8, <1>10, Zenon
  <1>11. /\ \A e \in S : Cardinality(B[e]) \in 0..(Cardinality(S) - 1)
         /\ \A e, f \in S : f \in B[e] <=> Cardinality(B[f]) < Cardinality(B[e])
    <2>1. \A e, f \in S : f \in B[e] => B[f] \subseteq B[e]
      BY <1>10, Zenon
    <2> QED
      BY <1>5, <1>7, <1>9, <2>1, Ranks, Zenon
  <1>12. Cardinality(S) \in Nat
    BY <1>5, FS_CardinalityType, Zenon
  <1>13. \A x \in S : r[x] = Cardinality(B[x])
    BY <1>4, <1>6, Zenon DEF RankOf
  <1>14. \A x \in S : r[x] \in Nat
    BY <1>11, <1>12, <1>13
  <1>15. r \in [1..n -> Nat]
    BY <1>4, <1>14, Zenon DEF RankOf
  <1> QED
    BY <1>4, <1>7, <1>11, <1>13, <1>15, Zenon

\* The list of ids is the touched ids in string order.
Ordered(b, ids) ==
    \E k \in Nat :
        /\ k = Cardinality(b.touched)
        /\ ids \in [1..k -> b.touched]
        /\ \A i, j \in 1..k : i < j => b.vocab[ids[i]] < b.vocab[ids[j]]
        /\ \A i, j \in 1..k : ids[i] = ids[j] => i = j
        /\ \A x \in b.touched : \E i \in 1..k : ids[i] = x

\* The ids of T by rank.
ByRank(T, r) ==
    [i \in 1..Cardinality(T) |-> CHOOSE id \in T : Cardinality({o \in T : r[o] < r[id]}) = i - 1]

\* sorted_ids, with the cache up to date.
LEMMA SortedIdsFacts ==
    ASSUME NEW b, Distinct(b.vocab), b.rank = RankOf(b.vocab, Len(b.vocab)),
           b.touched \subseteq 1..Len(b.vocab), NEW ids, ids = SortedIds(b)
    PROVE  Ordered(b, ids)
  <1>1. PICK n \in Nat : n = Len(b.vocab)
    <2>1. b.vocab \in Seq(Terms)
      BY Zenon DEF Distinct
    <2> QED
      BY <2>1
  <1>2. PICK v : v = b.vocab
    BY Zenon
  <1>3. PICK r : r = b.rank
    BY Zenon
  <1>4. PICK T : T = b.touched
    BY Zenon
  <1>5. r \in [1..n -> Nat] /\ \A x, y \in 1..n : r[x] < r[y] <=> v[x] < v[y]
    <2>1. n \in 0..Len(v) /\ Distinct(v) /\ r = RankOf(v, n)
      BY <1>1, <1>2, <1>3
    <2> QED
      BY <2>1, RankOrder, Zenon
  <1>6. T \subseteq 1..n /\ IsFiniteSet(T)
    <2>1. IsFiniteSet(1..n)
      BY <1>1, FS_Interval
    <2> QED
      BY <1>1, <1>4, <2>1, FS_Subset
  <1>7. PICK B : B = [e \in T |-> {o \in T : r[o] < r[e]}]
    BY Zenon
  <1>8. \A e, f \in T : f \in B[e] <=> r[f] < r[e]
    BY <1>7, Zenon
  <1>9. \A e, f \in T : e # f => v[e] # v[f]
    <2>1. v \in Seq(Terms) /\ \A i, j \in DOMAIN v : v[i] = v[j] => i = j
      BY <1>2, Zenon DEF Distinct
    <2>2. \A e \in T : e \in DOMAIN v
      BY <1>1, <1>2, <1>6, <2>1
    <2> QED
      BY <2>1, <2>2, Zenon
  <1>10. \A e \in T : v[e] \in Nat /\ r[e] \in Nat
    <2>1. v \in Seq(Terms) /\ Terms \subseteq Nat
      BY <1>2, SpimiAssumption, Zenon DEF Distinct
    <2>2. \A e \in 1..n : v[e] \in Terms
      BY <1>1, <1>2, <2>1
    <2>3. \A e \in 1..n : r[e] \in Nat
      BY <1>5, Zenon
    <2> QED
      BY <1>6, <2>1, <2>2, <2>3, Zenon
  <1>11. Before(T, B)
    <2>1. B \in [T -> SUBSET T]
      BY <1>7, Zenon
    <2>2. \A e, f \in T : ~(r[e] < r[e]) /\ (v[e] < v[f] \/ v[f] < v[e] \/ v[e] = v[f])
      BY <1>10
    <2>3. \A e \in T : e \in 1..n
      BY <1>6, Zenon
    <2>4. \A e, f \in T : e # f => r[e] < r[f] \/ r[f] < r[e]
      BY <1>5, <1>9, <2>2, <2>3, Zenon
    <2>5. \A e, f, g \in T : r[g] < r[f] /\ r[f] < r[e] => r[g] < r[e]
      BY <1>10
    <2>6. \A e \in T : e \notin B[e]
      BY <1>8, <2>2, Zenon
    <2>7. \A e, f \in T : e # f => e \in B[f] \/ f \in B[e]
      BY <1>8, <2>4, Zenon
    <2>8. ASSUME NEW e \in T, NEW f \in T, f \in B[e], NEW g \in B[f]
          PROVE  g \in B[e]
      BY <1>8, <2>1, <2>5, <2>8, Zenon
    <2> QED
      BY <2>1, <2>6, <2>7, <2>8, Zenon DEF Before
  <1>12. Ranked(T, B, ids)
    <2> DEFINE X(i) == CHOOSE id \in T : Cardinality({o \in T : r[o] < r[id]}) = i - 1
               Y(i) == CHOOSE id \in T : Cardinality(B[id]) = i - 1
    <2>1. \A i : X(i) = Y(i)
      BY <1>7, Zenon
    <2>2. ids = [i \in 1..Cardinality(T) |-> X(i)]
      <3>1. SortedIds(b) = ByRank(b.touched, b.rank)
        BY Zenon DEF SortedIds, ByRank
      <3>2. ids = ByRank(T, r)
        BY <1>3, <1>4, <3>1, Zenon
      <3> QED
        BY <3>2, Zenon DEF ByRank
    <2>3. Ranked(T, B, ids) <=> ids = [i \in 1..Cardinality(T) |-> Y(i)]
      BY Zenon DEF Ranked
    <2> HIDE DEF X, Y
    <2> QED
      BY <2>1, <2>2, <2>3, Zenon
  <1>13. PICK k \in Nat : k = Cardinality(T)
    BY <1>6, FS_CardinalityType, Zenon
  <1>14. /\ ids \in [1..k -> T]
         /\ \A i, j \in 1..k : i < j => ids[i] \in B[ids[j]]
         /\ \A e \in T : \E i \in 1..k : ids[i] = e
    <2>0. IsFiniteSet(T)
      BY <1>6, Zenon
    <2>1. ids \in [1..Cardinality(T) -> T]
      BY <2>0, <1>11, <1>12, RankList, Zenon
    <2>2. \A i, j \in 1..Cardinality(T) : i < j => ids[i] \in B[ids[j]]
      BY <2>0, <1>11, <1>12, RankList, Zenon
    <2>3. \A e \in T : \E i \in 1..Cardinality(T) : ids[i] = e
      BY <2>0, <1>11, <1>12, RankList
    <2> QED
      BY <1>13, <2>1, <2>2, <2>3, Zenon
  <1>15. \A i \in 1..k : ids[i] \in T /\ ids[i] \in 1..n
    BY <1>6, <1>14, Zenon
  <1>16. \A i, j \in 1..k : i < j => v[ids[i]] < v[ids[j]]
    BY <1>5, <1>8, <1>14, <1>15, Zenon
  <1>17. \A i, j \in 1..k : ids[i] = ids[j] => i = j
    <2>1. ASSUME NEW i \in 1..k, NEW j \in 1..k, i < j
          PROVE  ids[i] # ids[j]
      <3>1. v[ids[i]] < v[ids[j]] /\ v[ids[i]] \in Nat
        BY <1>10, <1>15, <1>16, <2>1, Zenon
      <3>2. v[ids[i]] # v[ids[j]]
        BY <3>1
      <3> QED
        BY <3>2, Zenon
    <2>2. \A i, j \in 1..k : i = j \/ i < j \/ j < i
      OBVIOUS
    <2> QED
      BY <2>1, <2>2, Zenon
  <1> QED
    BY <1>2, <1>4, <1>13, <1>14, <1>16, <1>17, ZenonT(60) DEF Ordered

----------------------------------------------------------------------------
(* The operations on a buffer, member by member. *)

\* Nothing has been added to or released from the arena, and nothing reported.
SameBooks(c, b) == c.arena = b.arena /\ c.current = b.current /\ c.reported = b.reported

\* The pool is the same.
SamePool(c, b) ==
    /\ c.slot_of = b.slot_of /\ c.slots = b.slots /\ c.free = b.free /\ c.touched = b.touched

\* report_arena_delta touches only the two totals.
LEMMA ReportFields ==
    ASSUME NEW b, IsBuf(b), NEW c, c = Report(b)
    PROVE  /\ IsBuf(c) /\ Kept(c, b) /\ SamePool(c, b)
           /\ c.rank = b.rank /\ c.arena = b.arena
           /\ c.current = b.current + Resident(b) - b.reported /\ c.reported = Resident(b)
  BY Zenon DEF Report, IsBuf, Fields, Kept, SamePool

\* After a report the books are balanced, if they were before the change.
LEMMA ReportBooks ==
    ASSUME NEW b, IsBuf(b), b.arena \in Nat, b.slot_of \in Seq(Nat), b.current = b.reported,
           b.reported \in Nat, NEW c, c = Report(b)
    PROVE  BooksOK(c)
  <1>1. /\ c.arena = b.arena /\ c.current = b.current + Resident(b) - b.reported
        /\ c.reported = Resident(b) /\ SamePool(c, b)
    BY ReportFields, Zenon
  <1>2. Resident(b) \in Nat
    BY DEF Resident
  <1>3. Resident(c) = Resident(b)
    BY <1>1, Zenon DEF Resident, SamePool
  <1> QED
    BY <1>1, <1>2, <1>3 DEF BooksOK

\* term_slot gives the id a slot that nobody else has.
LEMMA TermSlotFields ==
    ASSUME NEW b, IsBuf(b), PoolOK(b), NEW id \in DOMAIN b.slot_of, b.touched = LiveIds(b.slot_of),
           NEW c, c = TermSlot(b, id)
    PROVE  /\ IsBuf(c) /\ Kept(c, b) /\ SameBooks(c, b) /\ PoolOK(c)
           /\ c.rank = b.rank /\ Len(c.slot_of) = Len(b.slot_of)
           /\ c.touched = LiveIds(c.slot_of) /\ id \in LiveIds(c.slot_of)
  <1>1. CASE b.slot_of[id] # 0
    <2>1. c = b
      BY <1>1, Zenon DEF TermSlot
    <2> QED
      BY <1>1, <2>1, Zenon DEF LiveIds, Kept, SameBooks
  <1>2. PICK n \in Nat : n = Len(b.slots)
    <2>1. b.slots \in Seq(CompactTerm)
      BY Zenon DEF PoolOK
    <2> QED
      BY <2>1
  <1>3. Exclusive(n, b.slot_of, b.free) /\ b.slots \in Seq(CompactTerm)
    BY <1>2, Zenon DEF PoolOK
  <1>4. CASE b.slot_of[id] = 0 /\ b.free # <<>>
    <2>1. /\ IsBuf(c) /\ Kept(c, b) /\ SameBooks(c, b) /\ c.rank = b.rank
          /\ c.slot_of = [b.slot_of EXCEPT ![id] = Last(b.free)]
          /\ c.free = Front(b.free) /\ c.slots = b.slots /\ c.touched = b.touched \cup {id}
      BY <1>4, Zenon DEF TermSlot, IsBuf, Fields, Kept, SameBooks
    <2>2. PICK so : so = c.slot_of
      BY Zenon
    <2>3. /\ Exclusive(n, so, c.free) /\ Len(so) = Len(b.slot_of)
          /\ LiveIds(so) = LiveIds(b.slot_of) \cup {id}
      <3>1. PICK so0 : so0 = b.slot_of
        BY Zenon
      <3>2. PICK fr : fr = b.free
        BY Zenon
      <3>3. PICK fr2 : fr2 = c.free
        BY Zenon
      <3>4. /\ Exclusive(n, so0, fr) /\ id \in DOMAIN so0 /\ so0[id] = 0 /\ fr # <<>>
            /\ so = [so0 EXCEPT ![id] = Last(fr)] /\ fr2 = Front(fr)
        BY <1>3, <1>4, <2>1, <2>2, <3>1, <3>2, <3>3, Zenon
      <3>5. Taken(so0, id, n, so, fr2)
        BY <3>4, TakeRecycled, Zenon
      <3> QED
        BY <3>1, <3>3, <3>5, Zenon DEF Taken
    <2>4. PoolOK(c)
      BY <1>2, <1>3, <2>1, <2>2, <2>3, Zenon DEF PoolOK
    <2> QED
      BY <2>1, <2>2, <2>3, <2>4, Zenon
  <1>5. CASE b.slot_of[id] = 0 /\ b.free = <<>>
    <2>1. /\ IsBuf(c) /\ Kept(c, b) /\ SameBooks(c, b) /\ c.rank = b.rank
          /\ c.slot_of = [b.slot_of EXCEPT ![id] = Len(b.slots) + 1]
          /\ c.free = b.free /\ c.slots = Append(b.slots, EmptyTerm)
          /\ c.touched = b.touched \cup {id}
      BY <1>5, Zenon DEF TermSlot, IsBuf, Fields, Kept, SameBooks
    <2>2. PICK so : so = c.slot_of
      BY Zenon
    <2>3. /\ Exclusive(n + 1, so, c.free) /\ Len(so) = Len(b.slot_of)
          /\ LiveIds(so) = LiveIds(b.slot_of) \cup {id}
      <3>1. PICK so0 : so0 = b.slot_of
        BY Zenon
      <3>2. PICK fr : fr = b.free
        BY Zenon
      <3>3. /\ Exclusive(n, so0, fr) /\ id \in DOMAIN so0 /\ so0[id] = 0 /\ fr = <<>>
            /\ so = [so0 EXCEPT ![id] = n + 1]
        BY <1>2, <1>3, <1>5, <2>1, <2>2, <3>1, <3>2, Zenon
      <3>4. Taken(so0, id, n + 1, so, fr)
        BY <3>3, TakeFresh, Zenon
      <3> QED
        BY <2>1, <3>1, <3>2, <3>4, Zenon DEF Taken
    <2>4. EmptyTerm \in CompactTerm
      BY DEF EmptyTerm, CompactTerm
    <2>5. c.slots \in Seq(CompactTerm) /\ Len(c.slots) = n + 1
      BY <1>2, <1>3, <2>1, <2>4
    <2>6. PoolOK(c)
      BY <2>2, <2>3, <2>5, Zenon DEF PoolOK
    <2> QED
      BY <2>1, <2>2, <2>3, <2>6, Zenon
  <1> QED
    BY <1>1, <1>4, <1>5, Zenon

\* What accumulate leaves behind.
Accumulated(c, b, id) ==
    /\ IsBuf(c) /\ PoolOK(c) /\ BooksOK(c) /\ Kept(c, b)
    /\ c.rank = b.rank /\ Len(c.slot_of) = Len(b.slot_of)
    /\ c.touched = LiveIds(c.slot_of) /\ id \in c.touched

\* accumulate appends one entry to the chain of the id and reports the growth.
LEMMA AccumulateFields ==
    ASSUME NEW b, IsBuf(b), PoolOK(b), NEW id \in DOMAIN b.slot_of, b.touched = LiveIds(b.slot_of),
           b.arena \in Nat, b.reported \in Nat, b.current = b.reported,
           NEW d \in Nat, NEW p \in Nat, NEW grow \in Nat,
           NEW c, c = Accumulate(b, id, d, p, grow)
    PROVE  Accumulated(c, b, id)
  <1>1. PICK s : s = TermSlot(b, id)
    BY Zenon
  <1>2. /\ IsBuf(s) /\ Kept(s, b) /\ SameBooks(s, b) /\ PoolOK(s)
        /\ s.rank = b.rank /\ Len(s.slot_of) = Len(b.slot_of)
        /\ s.touched = LiveIds(s.slot_of) /\ id \in LiveIds(s.slot_of)
    BY <1>1, TermSlotFields, Zenon
  <1>3. PICK k : k = s.slot_of[id]
    BY Zenon
  <1>4. k \in 1..Len(s.slots) /\ s.slots \in Seq(CompactTerm)
    <2>1. id \in DOMAIN s.slot_of /\ s.slot_of[id] # 0
      BY <1>2, Zenon DEF LiveIds
    <2>2. s.slot_of \in Seq(Nat) /\ s.slot_of[id] <= Len(s.slots) /\ s.slots \in Seq(CompactTerm)
      BY <1>2, <2>1, Zenon DEF PoolOK, Exclusive
    <2>3. s.slot_of[id] \in Nat
      BY <2>1, <2>2
    <2>4. Len(s.slots) \in Nat
      BY <2>2
    <2> QED
      BY <1>3, <2>1, <2>2, <2>3, <2>4
  <1>5. PICK t \in CompactTerm : t = s.slots[k]
    BY <1>4
  <1>6. PICK e : e = [pos   |-> IF HasPositions THEN p ELSE 0,
                      new   |-> ~t.started \/ t.cur_docid # d,
                      delta |-> IF ~t.started \/ t.cur_docid # d THEN d - t.cur_docid ELSE 0]
    BY Zenon
  <1>7. PICK n : n = [chain |-> Append(t.chain, e), cur_docid |-> d, started |-> TRUE,
                      sorted |-> t.sorted /\ ~(t.started /\ d < t.cur_docid)]
    BY Zenon
  <1>8. n \in CompactTerm
    <2>1. t.cur_docid \in Nat /\ t.started \in BOOLEAN /\ t.sorted \in BOOLEAN /\ t.chain \in Seq(Entry)
      BY <1>5 DEF CompactTerm
    <2>2. d - t.cur_docid \in Int /\ 0 \in Int /\ 0 \in Nat
      BY <2>1
    <2>3. e \in Entry
      BY <1>6, <2>1, <2>2 DEF Entry
    <2>4. Append(t.chain, e) \in Seq(Entry)
      BY <2>1, <2>3
    <2> QED
      BY <1>7, <2>1, <2>4 DEF CompactTerm
  <1>9. PICK m : m = [s EXCEPT !.slots[k] = n, !.arena = @ + grow]
    BY Zenon
  <1>10. c = Report(m)
    BY <1>1, <1>3, <1>5, <1>6, <1>7, <1>9, Zenon DEF Accumulate
  <1>11. /\ IsBuf(m) /\ Kept(m, s) /\ m.rank = s.rank /\ m.slot_of = s.slot_of
         /\ m.free = s.free /\ m.touched = s.touched
         /\ m.current = s.current /\ m.reported = s.reported
         /\ m.slots = [s.slots EXCEPT ![k] = n] /\ m.arena = s.arena + grow
    BY <1>2, <1>9, Zenon DEF IsBuf, Fields, Kept
  <1>12. m.slots \in Seq(CompactTerm) /\ Len(m.slots) = Len(s.slots)
    BY <1>4, <1>8, <1>11
  <1>13. PoolOK(m)
    BY <1>2, <1>11, <1>12, Zenon DEF PoolOK
  <1>14. m.arena \in Nat /\ m.current = m.reported /\ m.reported \in Nat /\ m.slot_of \in Seq(Nat)
    <2>1. b.arena + grow \in Nat
      OBVIOUS
    <2>2. m.slot_of \in Seq(Nat)
      BY <1>13, Zenon DEF PoolOK, Exclusive
    <2>3. s.arena = b.arena /\ s.current = b.current /\ s.reported = b.reported
      BY <1>2, Zenon DEF SameBooks
    <2> QED
      BY <1>11, <2>1, <2>2, <2>3, Zenon
  <1>15. BooksOK(c)
    BY <1>10, <1>11, <1>14, ReportBooks, Zenon
  <1>16. IsBuf(c) /\ Kept(c, m) /\ SamePool(c, m) /\ c.rank = m.rank
    BY <1>10, <1>11, ReportFields, Zenon
  <1>17. Kept(c, b)
    BY <1>2, <1>11, <1>16, Zenon DEF Kept
  <1>18. PoolOK(c)
    BY <1>13, <1>16, Zenon DEF PoolOK, SamePool
  <1>19. c.slot_of = s.slot_of /\ c.touched = s.touched
    BY <1>11, <1>16, Zenon DEF SamePool
  <1> QED
    BY <1>2, <1>11, <1>15, <1>16, <1>17, <1>18, <1>19, Zenon DEF Accumulated

\* ensure_string_rank: afterwards the cache has the ranks of the whole vocabulary,
\* also when it was computed for a shorter one.
LEMMA EnsureFields ==
    ASSUME NEW b, IsBuf(b), Distinct(b.vocab), Ranking(b.vocab, b.rank),
           NEW c, c = EnsureStringRank(b)
    PROVE  /\ IsBuf(c) /\ Kept(c, b) /\ SamePool(c, b) /\ SameBooks(c, b)
           /\ c.rank = RankOf(c.vocab, Len(c.vocab))
  <1>1. CASE Len(b.rank) = Len(b.vocab)
    <2>1. c = b
      BY <1>1, Zenon DEF EnsureStringRank
    <2>2. PICK n \in 0..Len(b.vocab) : b.rank = RankOf(b.vocab, n)
      BY Zenon DEF Ranking
    <2>3. n \in Nat
      <3>1. b.vocab \in Seq(Terms)
        BY Zenon DEF Distinct
      <3>2. Len(b.vocab) \in Nat
        BY <3>1
      <3> QED
        BY <2>2, <3>2
    <2>4. Len(b.rank) = n
      BY <2>2, <2>3 DEF RankOf
    <2> QED
      BY <1>1, <2>1, <2>2, <2>4, Zenon DEF Kept, SamePool, SameBooks
  <1>2. CASE Len(b.rank) # Len(b.vocab)
    <2>1. PICK r : r = RankOf(b.vocab, Len(b.vocab))
      BY Zenon
    <2>2. c = [b EXCEPT !.rank = r]
      BY <1>2, <2>1, Zenon DEF EnsureStringRank, RankOf
    <2>3. /\ IsBuf(c) /\ Kept(c, b) /\ SamePool(c, b) /\ SameBooks(c, b) /\ c.rank = r
      BY <2>2, Zenon DEF IsBuf, Fields, Kept, SamePool, SameBooks
    <2>4. c.vocab = b.vocab
      BY <2>3, Zenon DEF Kept
    <2> QED
      BY <2>1, <2>3, <2>4, Zenon
  <1> QED
    BY <1>1, <1>2, Zenon

\* The ids of an id list, as its set.
LEMMA OrderedSet ==
    ASSUME NEW b, NEW ids, Ordered(b, ids)
    PROVE  \E k \in Nat : Lists(ids, k, b.touched) /\ Len(ids) = k /\ Range(ids) = b.touched
  <1>1. PICK k \in Nat : /\ ids \in [1..k -> b.touched]
                         /\ \A i, j \in 1..k : ids[i] = ids[j] => i = j
                         /\ \A x \in b.touched : \E i \in 1..k : ids[i] = x
    BY Zenon DEF Ordered
  <1>2. Len(ids) = k /\ DOMAIN ids = 1..k
    BY <1>1
  <1>3. Range(ids) = b.touched
    <2>1. \A x \in b.touched : x \in {ids[i] : i \in 1..k}
      BY <1>1, Zenon
    <2>2. \A i \in 1..k : ids[i] \in b.touched
      BY <1>1, Zenon
    <2>3. {ids[i] : i \in 1..k} = b.touched
      BY <2>1, <2>2, Zenon
    <2> QED
      BY <1>2, <2>3, Zenon DEF Range
  <1> QED
    BY <1>1, <1>2, <1>3, Zenon DEF Lists

\* The pool is empty: every slot is on the free list.
Emptied(c, b) ==
    /\ PoolOK(c) /\ c.touched = {} /\ LiveIds(c.slot_of) = {} /\ Len(c.slot_of) = Len(b.slot_of)

\* release_term of every touched id recycles every live slot.
LEMMA ReleaseFields ==
    ASSUME NEW b, IsBuf(b), PoolOK(b), b.touched = LiveIds(b.slot_of),
           Ordered(b, SortedIds(b)), NEW c, c = ReleaseAll(b)
    PROVE  IsBuf(c) /\ Kept(c, b) /\ SameBooks(c, b) /\ c.rank = b.rank /\ Emptied(c, b)
  <1>1. PICK ids : ids = SortedIds(b)
    BY Zenon
  <1>2. PICK k \in Nat : Lists(ids, k, b.touched) /\ Len(ids) = k /\ Range(ids) = b.touched
    BY <1>1, OrderedSet, Zenon
  <1>3. PICK so : so = b.slot_of
    BY Zenon
  <1>4. PICK fr : fr = b.free
    BY Zenon
  <1>5. PICK n \in Nat : n = Len(b.slots)
    <2>1. b.slots \in Seq(CompactTerm)
      BY Zenon DEF PoolOK
    <2> QED
      BY <2>1
  <1>6. PICK fd : fd = [i \in 1..k |-> so[ids[i]]]
    BY Zenon
  <1>7. PICK so2 : so2 = [id \in 1..Len(so) |-> IF id \in LiveIds(so) THEN 0 ELSE so[id]]
    BY Zenon
  <1>8. PICK sl : sl = [s \in 1..n |-> IF s \in Range(fd) THEN EmptyTerm ELSE b.slots[s]]
    BY Zenon
  <1>9. c = [b EXCEPT !.slots = sl, !.free = fr \o fd, !.slot_of = so2, !.touched = {}]
    <2>1. Range(ids) = LiveIds(so)
      BY <1>2, <1>3, Zenon
    <2>2. fd = [i \in 1..Len(ids) |-> b.slot_of[ids[i]]]
      BY <1>2, <1>3, <1>6, Zenon
    <2>3. so2 = [id \in 1..Len(b.slot_of) |-> IF id \in Range(ids) THEN 0 ELSE b.slot_of[id]]
      BY <1>3, <1>7, <2>1, Zenon
    <2>4. sl = [s \in 1..Len(b.slots) |-> IF s \in Range(fd) THEN EmptyTerm ELSE b.slots[s]]
      BY <1>5, <1>8, Zenon
    <2>5. PICK m : m = ReleaseTerms(b, ids)
      BY Zenon
    <2>6. m = [b EXCEPT !.slots = sl, !.free = fr \o fd, !.slot_of = so2]
      BY <1>4, <2>2, <2>3, <2>4, <2>5, Zenon DEF ReleaseTerms, IsBuf, Fields
    <2>7. c = [m EXCEPT !.touched = {}]
      BY <1>1, <2>5, Zenon DEF ReleaseAll
    <2> QED
      BY <2>6, <2>7, Zenon DEF IsBuf, Fields
  <1>10. /\ IsBuf(c) /\ Kept(c, b) /\ SameBooks(c, b) /\ c.rank = b.rank
         /\ c.slots = sl /\ c.free = fr \o fd /\ c.slot_of = so2 /\ c.touched = {}
    BY <1>9, Zenon DEF IsBuf, Fields, Kept, SameBooks
  <1>11. Exclusive(n, so, fr) /\ b.slots \in Seq(CompactTerm)
    BY <1>3, <1>4, <1>5, Zenon DEF PoolOK
  <1>12. Exclusive(n, so2, fr \o fd) /\ Len(so2) = Len(so) /\ LiveIds(so2) = {}
    <2>1. Lists(ids, k, LiveIds(so))
      BY <1>2, <1>3, Zenon
    <2>2. Freed(so, n, so2, fr \o fd)
      BY <1>2, <1>6, <1>7, <1>11, <2>1, ReleaseLive, Zenon
    <2> QED
      BY <2>2, Zenon DEF Freed
  <1>13. sl \in Seq(CompactTerm) /\ Len(sl) = n
    <2>1. EmptyTerm \in CompactTerm
      BY DEF EmptyTerm, CompactTerm
    <2>2. \A s \in 1..n : b.slots[s] \in CompactTerm
      BY <1>5, <1>11
    <2>3. sl \in [1..n -> CompactTerm]
      BY <1>8, <2>1, <2>2, Zenon
    <2> QED
      BY <2>3
  <1>14. PoolOK(c)
    BY <1>10, <1>12, <1>13, Zenon DEF PoolOK
  <1> QED
    BY <1>3, <1>10, <1>12, <1>14, Zenon DEF Emptied

----------------------------------------------------------------------------
(* The operations and the invariant of a buffer that is being filled. *)

\* A live id is an index of the vocabulary.
LEMMA TouchedIds ==
    ASSUME NEW b, PoolOK(b), FillOK(b)
    PROVE  b.touched \subseteq 1..Len(b.vocab)
  <1>1. b.slot_of \in Seq(Nat)
    BY Zenon DEF PoolOK, Exclusive
  <1>2. DOMAIN b.slot_of = 1..Len(b.vocab)
    BY <1>1 DEF FillOK
  <1> QED
    BY <1>2, Zenon DEF FillOK, LiveIds

\* Balanced books are natural numbers.
LEMMA BooksNat ==
    ASSUME NEW b, PoolOK(b), BooksOK(b)
    PROVE  b.arena \in Nat /\ b.reported \in Nat /\ b.current \in Nat /\ b.current = b.reported
  <1>1. b.slot_of \in Seq(Nat)
    BY Zenon DEF PoolOK, Exclusive
  <1>2. b.arena \in Nat /\ b.current = Resident(b) /\ b.reported = Resident(b)
    BY Zenon DEF BooksOK
  <1>3. Resident(b) \in Nat
    BY <1>1, <1>2 DEF Resident
  <1> QED
    BY <1>2, <1>3, Zenon

\* The records of a drain that walks ids, and the run it writes.
RecordsOf(b, ids, allow) ==
    [i \in 1..Len(ids) |-> WithId(ids[i], ToPostings(b.slots[b.slot_of[ids[i]]], allow))]

RunOf(b, x) == \E ids : Ordered(b, ids) /\ x = RecordsOf(b, ids, FALSE)

\* What was resident in b is now the last run.
MovedToRun(c, b) == c.touched = {} /\ \E x : RunOf(b, x) /\ c.runs = Append(b.runs, x)

\* What a drain to a run leaves behind.
Spilled(c, b, f) ==
    /\ FillInv(c) /\ c.arena = 0 /\ c.touched = {} /\ c.vocab = b.vocab
    /\ c.status = b.status /\ c.cap = b.cap /\ c.drained = b.drained
    /\ f # "write" => MovedToRun(c, b)

\* drain_to_writer, called with the file of the new run created.
LEMMA DrainToWriterFill ==
    ASSUME NEW b, FillInv(b), NEW f, NEW c, c = DrainToWriter([b EXCEPT !.files = @ + 1], f)
    PROVE  Spilled(c, b, f)
  <1>1. PICK a : a = [b EXCEPT !.files = @ + 1]
    BY Zenon
  <1>2. /\ IsBuf(a) /\ SamePool(a, b) /\ SameBooks(a, b) /\ a.vocab = b.vocab /\ a.rank = b.rank
        /\ a.cap = b.cap /\ a.runs = b.runs /\ a.status = b.status /\ a.drained = b.drained
        /\ a.files = b.files + 1
    BY <1>1, Zenon DEF FillInv, IsBuf, Fields, SamePool, SameBooks
  <1>3. PICK r : r = EnsureStringRank(a)
    BY Zenon
  <1>4. /\ IsBuf(r) /\ Kept(r, a) /\ SamePool(r, a) /\ SameBooks(r, a)
        /\ r.rank = RankOf(r.vocab, Len(r.vocab))
    <2>1. Distinct(a.vocab) /\ Ranking(a.vocab, a.rank)
      BY <1>2, Zenon DEF FillInv
    <2> QED
      BY <1>2, <1>3, <2>1, EnsureFields, Zenon
  <1>5. Distinct(r.vocab) /\ r.vocab = b.vocab
    BY <1>2, <1>4, Zenon DEF FillInv, Kept
  <1>6. PoolOK(r) /\ FillOK(r)
    BY <1>2, <1>4, <1>5, Zenon DEF FillInv, PoolOK, FillOK, SamePool, SameBooks
  <1>7. Ordered(r, SortedIds(r))
    BY <1>4, <1>5, <1>6, TouchedIds, SortedIdsFacts, Zenon
  <1>8. PICK m : m = ReleaseAll(r)
    BY Zenon
  <1>9. IsBuf(m) /\ Kept(m, r) /\ SameBooks(m, r) /\ m.rank = r.rank /\ Emptied(m, r)
    <2>1. r.touched = LiveIds(r.slot_of)
      BY <1>6, Zenon DEF FillOK
    <2> QED
      BY <1>4, <1>6, <1>7, <1>8, <2>1, ReleaseFields, Zenon
  <1>10. PICK x : x = IF f = "write" THEN Front(DrainedRecords(r, FALSE)) ELSE DrainedRecords(r, FALSE)
    BY Zenon
  <1>11. PICK w : w = [m EXCEPT !.arena = 0, !.runs = Append(@, x)]
    BY Zenon
  <1>12. c = Report(w)
    BY <1>1, <1>3, <1>8, <1>10, <1>11, Zenon DEF DrainToWriter
  <1>13. /\ IsBuf(w) /\ SamePool(w, m) /\ w.vocab = m.vocab /\ w.rank = m.rank /\ w.arena = 0
         /\ w.cap = m.cap /\ w.status = m.status /\ w.drained = m.drained /\ w.files = m.files
         /\ w.runs = Append(m.runs, x) /\ w.current = m.current /\ w.reported = m.reported
    BY <1>9, <1>11, Zenon DEF IsBuf, Fields, SamePool
  <1>14. IsBuf(c) /\ Kept(c, w) /\ SamePool(c, w) /\ c.rank = w.rank /\ c.arena = w.arena
    BY <1>12, <1>13, ReportFields, Zenon
  <1>15. PoolOK(c) /\ c.touched = {} /\ LiveIds(c.slot_of) = {} /\ Len(c.slot_of) = Len(r.slot_of)
    BY <1>9, <1>13, <1>14, Zenon DEF Emptied, PoolOK, SamePool
  <1>16. c.vocab = b.vocab /\ c.rank = RankOf(b.vocab, Len(b.vocab))
    BY <1>4, <1>5, <1>9, <1>13, <1>14, Zenon DEF Kept
  <1>17. FillOK(c) /\ c.arena = 0
    BY <1>5, <1>6, <1>13, <1>14, <1>15, <1>16, Zenon DEF FillOK
  <1>18. Distinct(c.vocab) /\ Ranking(c.vocab, c.rank)
    <2>1. b.vocab \in Seq(Terms) /\ Distinct(b.vocab)
      BY Zenon DEF FillInv, Distinct
    <2>2. Len(b.vocab) \in 0..Len(b.vocab)
      BY <2>1
    <2> QED
      BY <1>16, <2>1, <2>2, Zenon DEF Ranking
  <1>19. BooksOK(c)
    <2>1. b.arena \in Nat /\ b.reported \in Nat /\ b.current = b.reported
      BY BooksNat, Zenon DEF FillInv
    <2>2. w.current = b.current /\ w.reported = b.reported
      BY <1>2, <1>4, <1>9, <1>13, Zenon DEF SameBooks
    <2>3. w.slot_of \in Seq(Nat)
      BY <1>9, <1>13, Zenon DEF Emptied, PoolOK, Exclusive, SamePool
    <2>4. 0 \in Nat
      OBVIOUS
    <2> QED
      BY <1>12, <1>13, <2>1, <2>2, <2>3, <2>4, ReportBooks, Zenon
  <1>20. c.runs = Append(b.runs, x) /\ c.files = b.files + 1
    BY <1>2, <1>4, <1>9, <1>13, <1>14, Zenon DEF Kept
  <1>21. c.cap = b.cap /\ c.status = b.status /\ c.drained = b.drained
    BY <1>2, <1>4, <1>9, <1>13, <1>14, Zenon DEF Kept
  <1>22. RestOK(c)
    <2>1. PICK S : b.runs \in Seq(S)
      BY Zenon DEF FillInv, RestOK
    <2>2. b.files = Len(b.runs)
      BY Zenon DEF FillInv, RestOK
    <2>3. Append(b.runs, x) \in Seq(S \cup {x}) /\ Len(Append(b.runs, x)) = Len(b.runs) + 1
      BY <2>1
    <2>4. b.cap \in Caps /\ b.status \in Statuses /\ b.drained \in BOOLEAN
      BY Zenon DEF FillInv, RestOK
    <2> QED
      BY <1>20, <1>21, <2>2, <2>3, <2>4, Zenon DEF RestOK
  <1>23. f # "write" => MovedToRun(c, b)
    <2>1. PICK ids : ids = SortedIds(r)
      BY Zenon
    <2>2. /\ r.touched = b.touched /\ r.vocab = b.vocab /\ r.slots = b.slots
          /\ r.slot_of = b.slot_of
      BY <1>2, <1>4, <1>5, Zenon DEF SamePool
    <2>3. Ordered(b, ids)
      <3>1. PICK v : v = b.vocab /\ r.vocab = v
        BY <2>2, Zenon
      <3>2. PICK T : T = b.touched /\ r.touched = T
        BY <2>2, Zenon
      <3> QED
        BY <1>7, <2>1, <3>1, <3>2, Zenon DEF Ordered
    <2>4. DrainedRecords(r, FALSE) = RecordsOf(b, ids, FALSE)
      BY <2>1, <2>2, Zenon DEF DrainedRecords, RecordsOf
    <2>5. f # "write" => x = RecordsOf(b, ids, FALSE)
      BY <1>10, <2>4, Zenon
    <2> QED
      BY <1>15, <1>20, <2>3, <2>5, Zenon DEF RunOf, MovedToRun
  <1> QED
    BY <1>14, <1>15, <1>16, <1>17, <1>18, <1>19, <1>21, <1>22, <1>23, Zenon DEF Spilled, FillInv

\* What spill_to_run leaves behind and returns.
SpillResult(s, b) ==
    /\ FillInv(s.b) /\ s.b.status = b.status /\ s.b.cap = b.cap /\ s.b.drained = b.drained
    /\ s.st \in {"ok", "io"}
    /\ s.st = "ok" => s.b.arena = 0 /\ s.b.touched = {} /\ MovedToRun(s.b, b)
    /\ s.b.vocab = b.vocab

\* spill_to_run.
LEMMA SpillToRunFill ==
    ASSUME NEW b, FillInv(b), NEW f \in SpillFaults, NEW s, s = SpillToRun(b, f)
    PROVE  SpillResult(s, b)
  <1>1. CASE f \in {"space", "open"}
    <2>1. s = [b |-> b, st |-> "io"]
      BY <1>1, Zenon DEF SpillToRun
    <2> QED
      BY <2>1 DEF SpillResult
  <1>2. CASE f \notin {"space", "open"}
    <2>1. PICK c : c = DrainToWriter([b EXCEPT !.files = @ + 1], f)
      BY Zenon
    <2>2. s = [b |-> c, st |-> IF f = "write" THEN "io" ELSE "ok"]
      BY <1>2, <2>1, Zenon DEF SpillToRun
    <2>3. Spilled(c, b, f)
      BY <2>1, DrainToWriterFill, Zenon
    <2>4. s.b = c /\ s.st \in {"ok", "io"} /\ (s.st = "ok" => f # "write")
      BY <2>2
    <2> QED
      BY <2>3, <2>4, Zenon DEF SpillResult, Spilled
  <1> QED
    BY <1>1, <1>2, Zenon

\* Only the status differs.
StatusSet(c, b, st) ==
    /\ FillInv(c) /\ SamePool(c, b) /\ SameBooks(c, b)
    /\ c.cap = b.cap /\ c.status = st /\ c.runs = b.runs /\ c.drained = b.drained
    /\ c.vocab = b.vocab

\* A status may be set without touching anything else.
LEMMA StatusFill ==
    ASSUME NEW b, FillInv(b), NEW st \in Statuses, NEW c, c = [b EXCEPT !.status = st]
    PROVE  StatusSet(c, b, st)
  <1>1. /\ IsBuf(c) /\ SamePool(c, b) /\ SameBooks(c, b) /\ c.vocab = b.vocab /\ c.rank = b.rank
        /\ c.cap = b.cap /\ c.runs = b.runs /\ c.files = b.files /\ c.drained = b.drained
        /\ c.status = st
    BY Zenon DEF FillInv, IsBuf, Fields, SamePool, SameBooks
  <1>2. PoolOK(c) /\ BooksOK(c) /\ FillOK(c)
    BY <1>1, Zenon DEF FillInv, PoolOK, BooksOK, FillOK, SamePool, SameBooks, Resident
  <1>3. RestOK(c)
    BY <1>1, Zenon DEF FillInv, RestOK
  <1> QED
    BY <1>1, <1>2, <1>3, Zenon DEF FillInv, StatusSet

----------------------------------------------------------------------------
(* The invariant. *)

\* What holds of the buffer in every phase.
BaseInv(b) == IsBuf(b) /\ PoolOK(b) /\ RestOK(b) /\ b.touched \subseteq 1..Len(b.vocab)

\* A spill is due as soon as one would help.
Armed(b) == (OverCap(b) => b.arena = 0) /\ b.arena < ArenaSpillCap

\* What was handed to the caller is a sequence of postings, pumped only when windowed.
OutOK(o) ==
    /\ \E S : o \in Seq(S)
    /\ \A i \in DOMAIN o : o[i].pump => Len(o[i].docids) >= SlimDf

\* The inductive invariant: in addition, filling keeps the slot pool, the ranks and
\* the spill triggers; a merge starts with nothing held and no error latched; and
\* nothing is held after a drain that returned OK.
SpimiInv ==
    /\ BaseInv(buf) /\ OutOK(out) /\ fed \in Seq(Token)
    /\ phase \in {"fill", "merge", "done", "gone"} /\ kind \in {"each", "final"}
    /\ ret \in Statuses \cup {"none"}
    /\ phase = "fill" => FillInv(buf) /\ (buf.status = "ok" => Armed(buf)) /\ ret = "none"
    /\ phase = "merge" => buf.status = "ok" /\ Resident(buf) = 0 /\ ret = "none"
    /\ phase # "gone" => BooksOK(buf) /\ (ret = "ok" => Resident(buf) = 0)
    /\ phase = "gone" => buf.arena \in Nat /\ buf.current = 0 /\ buf.reported = 0

\* A buffer being filled meets what holds in every phase.
LEMMA FillBase ==
    ASSUME NEW b, FillInv(b)
    PROVE  BaseInv(b) /\ BooksOK(b)
  BY TouchedIds, Zenon DEF BaseInv, FillInv

\* A spill moved what was resident to a run, or left an error.
Moved(c, b) == c.vocab = b.vocab /\ (c.status = "ok" => b.status = "ok" /\ MovedToRun(c, b))

\* The end of accumulate: after it a spill is due no more, or an error is latched.
LEMMA MaybeSpillFill ==
    ASSUME NEW b, FillInv(b), NEW f \in SpillFaults, NEW c, c = MaybeSpill(b, f)
    PROVE  FillInv(c) /\ (c.status = "ok" => Armed(c)) /\ (c = b \/ Moved(c, b))
  <1>1. CASE ~((OverCap(b) \/ ArenaNearLimit(b)) /\ b.status = "ok")
    <2>1. c = b
      BY <1>1, Zenon DEF MaybeSpill
    <2>2. b.arena \in Nat /\ ArenaSpillCap \in Nat
      BY SpimiAssumption, Zenon DEF FillInv, BooksOK
    <2>3. ~ArenaNearLimit(b) => b.arena < ArenaSpillCap
      BY <2>2 DEF ArenaNearLimit
    <2> QED
      BY <1>1, <2>1, <2>3, Zenon DEF Armed
  <1>2. CASE (OverCap(b) \/ ArenaNearLimit(b)) /\ b.status = "ok"
    <2>1. PICK s : s = SpillToRun(b, f)
      BY Zenon
    <2>2. SpillResult(s, b)
      BY <2>1, SpillToRunFill, Zenon
    <2>3. PICK sb : sb = s.b
      BY Zenon
    <2>4. PICK st : st = s.st
      BY Zenon
    <2>13. sb.status = "ok"
      BY <1>2, <2>2, <2>3, Zenon DEF SpillResult
    <2>5. c = [sb EXCEPT !.status = st]
      BY <1>2, <2>1, <2>3, <2>4, <2>13, Zenon DEF MaybeSpill, Latch
    <2>6. FillInv(sb) /\ st \in {"ok", "io"} /\ (st = "ok" => sb.arena = 0)
      BY <2>2, <2>3, <2>4, Zenon DEF SpillResult
    <2>7. st \in Statuses
      BY <2>6, Zenon DEF Statuses
    <2>11. StatusSet(c, sb, st)
      BY <2>5, <2>6, <2>7, StatusFill, Zenon
    <2>8. FillInv(c) /\ SameBooks(c, sb) /\ c.status = st
      BY <2>11, Zenon DEF StatusSet
    <2>9. c.status = "ok" => c.arena = 0
      BY <2>6, <2>8, Zenon DEF SameBooks
    <2>10. 0 < ArenaSpillCap
      BY SpimiAssumption
    <2>12. Moved(c, b)
      <3>1. sb.vocab = b.vocab /\ (st = "ok" => MovedToRun(sb, b))
        BY <2>2, <2>3, <2>4, Zenon DEF SpillResult
      <3> QED
        BY <1>2, <2>8, <2>11, <3>1, Zenon DEF Moved, MovedToRun, StatusSet, SamePool
    <2> QED
      BY <2>8, <2>9, <2>10, <2>12, Zenon DEF Armed
  <1> QED
    BY <1>1, <1>2, Zenon

\* What interning leaves for accumulate: only the books lag behind.
Interned(c, b) ==
    /\ IsBuf(c) /\ PoolOK(c) /\ FillOK(c) /\ RestOK(c) /\ SameBooks(c, b)
    /\ Distinct(c.vocab) /\ Ranking(c.vocab, c.rank)

\* Interning a new string keeps the strings distinct and the old ranks.
LEMMA InternFill ==
    ASSUME NEW b, FillInv(b), NEW t \in Terms, NEW c, c = Intern(b, t)
    PROVE  Interned(c, b) /\ IdOf(c, t) \in DOMAIN c.slot_of
  <1>1. PICK n \in Nat : n = Len(b.vocab) /\ DOMAIN b.vocab = 1..n
    <2>1. b.vocab \in Seq(Terms)
      BY Zenon DEF FillInv, Distinct
    <2> QED
      BY <2>1
  <1>2. b.vocab \in Seq(Terms) /\ \A i, j \in DOMAIN b.vocab : b.vocab[i] = b.vocab[j] => i = j
    BY Zenon DEF FillInv, Distinct
  <1>3. b.slot_of \in Seq(Nat) /\ Len(b.slot_of) = n /\ b.slots \in Seq(CompactTerm)
    BY <1>1, Zenon DEF FillInv, PoolOK, Exclusive, FillOK
  <1>4. DOMAIN b.slot_of = 1..n
    BY <1>3
  <1>5. CASE t \in Range(b.vocab)
    <2>1. c = b
      BY <1>5, Zenon DEF Intern
    <2>2. Interned(c, b)
      BY <2>1, Zenon DEF FillInv, Interned, SameBooks
    <2>3. \E id \in 1..Len(b.vocab) : b.vocab[id] = t
      BY <1>1, <1>5, Zenon DEF Range
    <2>4. IdOf(b, t) \in 1..n
      BY <1>1, <2>3, Zenon DEF IdOf
    <2> QED
      BY <1>4, <2>1, <2>2, <2>4, Zenon
  <1>6. CASE t \notin Range(b.vocab)
    <2>1. c = [b EXCEPT !.vocab = Append(@, t), !.slot_of = Append(@, 0)]
      BY <1>6, Zenon DEF Intern
    <2>2. /\ IsBuf(c) /\ SameBooks(c, b) /\ c.vocab = Append(b.vocab, t) /\ c.rank = b.rank
          /\ c.slot_of = Append(b.slot_of, 0) /\ c.slots = b.slots /\ c.free = b.free
          /\ c.touched = b.touched /\ c.cap = b.cap /\ c.runs = b.runs /\ c.files = b.files
          /\ c.status = b.status /\ c.drained = b.drained
      BY <2>1, Zenon DEF FillInv, IsBuf, Fields, SameBooks
    <2>3. /\ c.vocab \in Seq(Terms) /\ Len(c.vocab) = n + 1 /\ DOMAIN c.vocab = 1..(n + 1)
          /\ c.vocab[n + 1] = t
          /\ \A i \in 1..n : c.vocab[i] = b.vocab[i]
      BY <1>1, <1>2, <2>2
    <2>4. /\ c.slot_of \in Seq(Nat) /\ Len(c.slot_of) = n + 1 /\ DOMAIN c.slot_of = 1..(n + 1)
          /\ c.slot_of[n + 1] = 0
          /\ \A i \in 1..n : c.slot_of[i] = b.slot_of[i]
      BY <1>1, <1>3, <2>2
    <2>5. \A i \in 1..(n + 1) : i = n + 1 \/ i \in 1..n
      BY <1>1
    <2>6. \A i \in 1..n : i \in 1..(n + 1)
      BY <1>1
    <2>7. \A i \in 1..n : b.vocab[i] # t
      BY <1>1, <1>6, Zenon DEF Range
    <2>8. Distinct(c.vocab)
      <3>1. ASSUME NEW i \in 1..(n + 1), NEW j \in 1..(n + 1), c.vocab[i] = c.vocab[j]
            PROVE  i = j
        BY <1>1, <1>2, <2>3, <2>5, <2>7, <3>1, Zenon
      <3> QED
        BY <2>3, <3>1, Zenon DEF Distinct
    <2>9. LiveIds(c.slot_of) = LiveIds(b.slot_of)
      <3>1. \A i : i \in LiveIds(c.slot_of) <=> i \in LiveIds(b.slot_of)
        BY <1>4, <2>4, <2>5, <2>6, Zenon DEF LiveIds
      <3> QED
        BY <3>1, Zenon
    <2>10. PICK m : m = Len(b.slots)
      BY Zenon
    <2>18. PICK fr : fr = b.free
      BY Zenon
    <2>11. Exclusive(m, b.slot_of, fr) /\ c.free = fr
      BY <2>2, <2>10, <2>18, Zenon DEF FillInv, PoolOK
    <2>12. Exclusive(m, c.slot_of, fr)
      <3>1. m \in Nat
        BY <1>3, <2>10
      <3>2. 0 <= m
        BY <3>1
      <3>3. \A id \in DOMAIN c.slot_of : c.slot_of[id] <= m
        <4>1. \A id \in 1..n : b.slot_of[id] <= m
          BY <1>4, <2>11, Zenon DEF Exclusive
        <4> QED
          BY <2>4, <2>5, <3>2, <4>1, Zenon
      <3>4. \A x \in LiveIds(b.slot_of) : c.slot_of[x] = b.slot_of[x]
        BY <1>4, <2>4, Zenon DEF LiveIds
      <3>5. \A x, y \in LiveIds(c.slot_of) : c.slot_of[x] = c.slot_of[y] => x = y
        <4>1. \A x, y \in LiveIds(b.slot_of) : b.slot_of[x] = b.slot_of[y] => x = y
          BY <2>11, Zenon DEF Exclusive
        <4> QED
          BY <2>9, <3>4, <4>1, Zenon
      <3>6. \A x \in LiveIds(c.slot_of), i \in DOMAIN fr : c.slot_of[x] # fr[i]
        <4>1. \A x \in LiveIds(b.slot_of), i \in DOMAIN fr : b.slot_of[x] # fr[i]
          BY <2>11, Zenon DEF Exclusive
        <4> QED
          BY <2>2, <2>9, <3>4, <4>1, ZenonT(60)
      <3>7. /\ fr \in Seq(Nat)
            /\ \A i \in DOMAIN fr : fr[i] \in 1..m
            /\ \A i, j \in DOMAIN fr : fr[i] = fr[j] => i = j
        BY <2>2, <2>11, Zenon DEF Exclusive
      <3> QED
        BY <2>4, <3>3, <3>5, <3>6, <3>7, Zenon DEF Exclusive
    <2>13. PoolOK(c)
      BY <1>3, <2>2, <2>10, <2>11, <2>12, Zenon DEF PoolOK
    <2>14. FillOK(c)
      BY <2>2, <2>3, <2>4, <2>9, Zenon DEF FillInv, FillOK, SameBooks
    <2>15. RestOK(c)
      BY <2>2, Zenon DEF FillInv, RestOK
    <2>16. Ranking(c.vocab, c.rank)
      <3>1. PICK k \in 0..Len(b.vocab) : b.rank = RankOf(b.vocab, k)
        BY Zenon DEF FillInv, Ranking
      <3>2. k \in 0..Len(c.vocab) /\ \A i \in 1..k : i \in 1..n
        BY <1>1, <2>3, <3>1
      <3>3. \A i \in 1..k : c.vocab[i] = b.vocab[i]
        BY <2>3, <3>2, Zenon
      <3>4. \A id \in 1..k : {o \in 1..k : c.vocab[o] < c.vocab[id]}
                              = {o \in 1..k : b.vocab[o] < b.vocab[id]}
        BY <3>3, Zenon
      <3>5. RankOf(c.vocab, k) = RankOf(b.vocab, k)
        BY <3>4, Zenon DEF RankOf
      <3> QED
        BY <2>2, <3>1, <3>2, <3>5, Zenon DEF Ranking
    <2>17. IdOf(c, t) \in DOMAIN c.slot_of
      <3>1. n + 1 \in 1..Len(c.vocab)
        BY <1>1, <2>3
      <3>2. IdOf(c, t) \in 1..Len(c.vocab)
        BY <2>3, <3>1, Zenon DEF IdOf
      <3> QED
        BY <2>3, <2>4, <3>2, Zenon
    <2> QED
      BY <2>2, <2>8, <2>13, <2>14, <2>15, <2>16, <2>17, Zenon DEF Interned
  <1> QED
    BY <1>5, <1>6, Zenon

\* add_token up to the spill.
LEMMA AccumulateFill ==
    ASSUME NEW b, FillInv(b), NEW t \in Terms, NEW d \in Nat, NEW p \in Nat, NEW grow \in Nat,
           NEW a, a = Intern(b, t), NEW c, c = Accumulate(a, IdOf(a, t), d, p, grow)
    PROVE  FillInv(c)
  <1>1. PICK id : id = IdOf(a, t)
    BY Zenon
  <1>2. Interned(a, b) /\ id \in DOMAIN a.slot_of
    BY <1>1, InternFill, Zenon
  <1>3. b.arena \in Nat /\ b.reported \in Nat /\ b.current = b.reported
    BY BooksNat, Zenon DEF FillInv
  <1>4. /\ IsBuf(a) /\ PoolOK(a) /\ a.touched = LiveIds(a.slot_of)
        /\ a.arena \in Nat /\ a.reported \in Nat /\ a.current = a.reported
    BY <1>2, <1>3, Zenon DEF Interned, SameBooks, FillOK
  <1>5. /\ IsBuf(c) /\ PoolOK(c) /\ BooksOK(c) /\ Kept(c, a)
        /\ c.rank = a.rank /\ Len(c.slot_of) = Len(a.slot_of)
        /\ c.touched = LiveIds(c.slot_of) /\ id \in c.touched
    <2>1. Accumulated(c, a, id)
      BY <1>1, <1>2, <1>4, AccumulateFields, Zenon
    <2> QED
      BY <2>1, Zenon DEF Accumulated
  <1>6. FillOK(c)
    BY <1>2, <1>5, Zenon DEF Interned, FillOK, Kept
  <1>7. RestOK(c)
    BY <1>2, <1>5, Zenon DEF Interned, RestOK, Kept
  <1>8. Distinct(c.vocab) /\ Ranking(c.vocab, c.rank)
    BY <1>2, <1>5, Zenon DEF Interned, Kept
  <1> QED
    BY <1>5, <1>6, <1>7, <1>8, Zenon DEF FillInv

\* The flush before the merge: an error stays latched, and without one nothing is
\* left in the arena.
LEMMA FlushFill ==
    ASSUME NEW b, FillInv(b), NEW f \in SpillFaults, NEW c, c = FlushResidual(b, f)
    PROVE  /\ FillInv(c) /\ (b.status # "ok" => c.status = b.status)
           /\ (c.status = "ok" => c.arena = 0 /\ c.touched = {})
           /\ (c = b \/ Moved(c, b))
  <1>1. CASE b.touched = {}
    <2>1. c = b
      BY <1>1, Zenon DEF FlushResidual
    <2> QED
      BY <1>1, <2>1, Zenon DEF FillInv, FillOK
  <1>2. CASE b.touched # {}
    <2>1. PICK s : s = SpillToRun(b, f)
      BY Zenon
    <2>2. SpillResult(s, b)
      BY <2>1, SpillToRunFill, Zenon
    <2>3. PICK sb : sb = s.b
      BY Zenon
    <2>4. PICK st : st = IF sb.status = "ok" THEN s.st ELSE sb.status
      BY Zenon
    <2>5. c = [sb EXCEPT !.status = st]
      BY <1>2, <2>1, <2>3, <2>4, Zenon DEF FlushResidual, Latch
    <2>6. /\ FillInv(sb) /\ s.st \in {"ok", "io"} /\ (s.st = "ok" => sb.arena = 0)
          /\ sb.status = b.status /\ (s.st = "ok" => MovedToRun(sb, b)) /\ sb.vocab = b.vocab
      BY <2>2, <2>3, Zenon DEF SpillResult
    <2>7. sb.status \in Statuses
      BY <2>6, Zenon DEF FillInv, RestOK
    <2>8. st \in Statuses
      BY <2>4, <2>6, <2>7, Zenon DEF Statuses
    <2>9. StatusSet(c, sb, st)
      BY <2>5, <2>6, <2>8, StatusFill, Zenon
    <2>10. FillInv(c) /\ c.status = st /\ c.arena = sb.arena
      BY <2>9, Zenon DEF StatusSet, SameBooks
    <2>11. Moved(c, b) /\ (c.status = "ok" => c.touched = {})
      BY <2>4, <2>6, <2>9, <2>10, Zenon DEF Moved, MovedToRun, StatusSet, SamePool
    <2> QED
      BY <2>4, <2>6, <2>10, <2>11, Zenon
  <1> QED
    BY <1>1, <1>2, Zenon

\* Nothing is held any more.
DroppedOK(c, b) ==
    /\ BaseInv(c) /\ BooksOK(c) /\ Resident(c) = 0
    /\ c.status = b.status /\ c.cap = b.cap /\ c.drained = b.drained
    /\ c.vocab = b.vocab /\ c.runs = b.runs

\* The slot pool is dropped and the release reported.
LEMMA DropFill ==
    ASSUME NEW b, IsBuf(b), RestOK(b), b.touched \subseteq 1..Len(b.vocab), b.arena = 0,
           b.reported \in Nat, b.current = b.reported, NEW c, c = Report(FreeSlots(b))
    PROVE  DroppedOK(c, b)
  <1>1. PICK a : a = FreeSlots(b)
    BY Zenon
  <1>2. /\ IsBuf(a) /\ Kept(a, b) /\ SameBooks(a, b) /\ a.slots = <<>> /\ a.free = <<>>
        /\ a.slot_of = <<>> /\ a.touched = b.touched
    BY <1>1, Zenon DEF FreeSlots, IsBuf, Fields, Kept, SameBooks
  <1>3. IsBuf(c) /\ Kept(c, a) /\ SamePool(c, a) /\ c.arena = a.arena
    BY <1>1, <1>2, ReportFields, Zenon
  <1>4. <<>> \in Seq(Nat) /\ <<>> \in Seq(CompactTerm) /\ DOMAIN <<>> = {} /\ Len(<<>>) = 0
    OBVIOUS
  <1>5. a.arena \in Nat /\ a.current = a.reported /\ a.reported \in Nat /\ a.slot_of \in Seq(Nat)
    <2>1. 0 \in Nat
      OBVIOUS
    <2> QED
      BY <1>2, <1>4, <2>1, Zenon DEF SameBooks
  <1>6. BooksOK(c)
    BY <1>1, <1>2, <1>5, ReportBooks, Zenon
  <1>7. c.slots = <<>> /\ c.free = <<>> /\ c.slot_of = <<>> /\ c.arena = 0
    BY <1>2, <1>3, Zenon DEF SamePool, SameBooks
  <1>8. Resident(c) = 0
    BY <1>4, <1>7 DEF Resident
  <1>9. Exclusive(0, <<>>, <<>>)
    BY <1>4, Zenon DEF Exclusive, LiveIds
  <1>10. PoolOK(c)
    BY <1>4, <1>7, <1>9, Zenon DEF PoolOK
  <1>11. RestOK(c) /\ c.touched \subseteq 1..Len(c.vocab)
    BY <1>2, <1>3, Zenon DEF RestOK, Kept, SamePool
  <1>12. /\ c.status = b.status /\ c.cap = b.cap /\ c.drained = b.drained
         /\ c.vocab = b.vocab /\ c.runs = b.runs
    BY <1>2, <1>3, Zenon DEF Kept
  <1> QED
    BY <1>3, <1>6, <1>8, <1>10, <1>11, <1>12, Zenon DEF DroppedOK, BaseInv

\* drain_sorted, the path without runs.
LEMMA DrainSortedFill ==
    ASSUME NEW b, FillInv(b), NEW c, c = DrainSorted(b)
    PROVE  DroppedOK(c, b)
  <1>1. PICK r : r = EnsureStringRank(b)
    BY Zenon
  <1>2. /\ IsBuf(r) /\ Kept(r, b) /\ SamePool(r, b) /\ SameBooks(r, b)
        /\ r.rank = RankOf(r.vocab, Len(r.vocab))
    BY <1>1, EnsureFields, Zenon DEF FillInv
  <1>3. PoolOK(r) /\ FillOK(r) /\ Distinct(r.vocab)
    BY <1>2, Zenon DEF FillInv, PoolOK, FillOK, SamePool, SameBooks, Kept
  <1>4. Ordered(r, SortedIds(r))
    BY <1>2, <1>3, TouchedIds, SortedIdsFacts, Zenon
  <1>5. PICK m : m = ReleaseAll(r)
    BY Zenon
  <1>6. IsBuf(m) /\ Kept(m, r) /\ SameBooks(m, r) /\ Emptied(m, r)
    <2>1. r.touched = LiveIds(r.slot_of)
      BY <1>3, Zenon DEF FillOK
    <2> QED
      BY <1>2, <1>3, <1>4, <1>5, <2>1, ReleaseFields, Zenon
  <1>7. PICK w : w = [m EXCEPT !.arena = 0]
    BY Zenon
  <1>8. /\ IsBuf(w) /\ Kept(w, m) /\ SamePool(w, m) /\ w.arena = 0
        /\ w.current = m.current /\ w.reported = m.reported
    BY <1>6, <1>7, Zenon DEF IsBuf, Fields, Kept, SamePool
  <1>9. c = Report(FreeSlots(w))
    BY <1>1, <1>5, <1>7, Zenon DEF DrainSorted
  <1>10. b.reported \in Nat /\ b.current = b.reported
    BY BooksNat, Zenon DEF FillInv
  <1>11. w.reported \in Nat /\ w.current = w.reported
    BY <1>2, <1>6, <1>8, <1>10, Zenon DEF SameBooks
  <1>12. Kept(w, b) /\ w.touched = {}
    BY <1>2, <1>6, <1>8, Zenon DEF Kept, Emptied, SamePool
  <1>13. RestOK(w) /\ w.touched \subseteq 1..Len(w.vocab)
    BY <1>12, Zenon DEF FillInv, RestOK, Kept
  <1>14. DroppedOK(c, w)
    BY <1>8, <1>9, <1>11, <1>13, DropFill, Zenon
  <1> QED
    BY <1>12, <1>14, Zenon DEF DroppedOK, Kept

----------------------------------------------------------------------------
(* What is handed to the caller. *)

\* to_postings pumps only a chain in docid order that has enough documents.
LEMMA PumpedPostings ==
    ASSUME NEW t, NEW allow, NEW p, p = ToPostings(t, allow), p.pump
    PROVE  Len(p.docids) >= SlimDf
  <1>1. PICK d : d = DecodeChain(t.chain)
    BY Zenon
  <1>2. PICK r : r = IF t.sorted THEN d ELSE SortByDocid(d)
    BY Zenon
  <1>3. p = [docids |-> r.docids, freqs |-> r.freqs, flat |-> r.flat,
             pump |-> /\ (allow /\ HasPositions /\ t.sorted /\ Len(t.chain) >= StreamTokens)
                      /\ Len(d.docids) >= SlimDf]
    BY <1>1, <1>2, Zenon DEF ToPostings, WithPump
  <1>4. t.sorted /\ Len(d.docids) >= SlimDf /\ p.docids = r.docids
    BY <1>3
  <1>5. r.docids = d.docids
    BY <1>2, <1>4
  <1> QED
    BY <1>4, <1>5, Zenon

\* The drain from memory.
LEMMA HandedOut ==
    ASSUME NEW b, Ordered(b, SortedIds(b)), NEW allow, NEW vocab,
           NEW o, o = Handed(vocab, DrainedRecords(b, allow))
    PROVE  OutOK(o)
  <1>1. PICK ids : ids = SortedIds(b)
    BY Zenon
  <1>2. PICK k \in Nat : Len(ids) = k
    BY <1>1, OrderedSet, Zenon
  <1> DEFINE P(i) == ToPostings(b.slots[b.slot_of[ids[i]]], allow)
             R(i) == WithId(ids[i], P(i))
  <1>3. PICK recs : recs = DrainedRecords(b, allow)
    BY Zenon
  <1>4. recs = [i \in 1..k |-> R(i)]
    BY <1>1, <1>2, <1>3, Zenon DEF DrainedRecords
  <1>5. Len(recs) = k
    BY <1>2, <1>4
  <1> DEFINE O(i) == [term |-> vocab[recs[i].id], docids |-> recs[i].docids,
                      freqs |-> recs[i].freqs, flat |-> recs[i].flat, pump |-> recs[i].pump]
  <1>6. o = [i \in 1..k |-> O(i)]
    BY <1>3, <1>5, Zenon DEF Handed
  <1>7. DOMAIN o = 1..k
    BY <1>6, Zenon
  <1>8. ASSUME NEW i \in 1..k, o[i].pump
        PROVE  Len(o[i].docids) >= SlimDf
    <2>1. o[i] = O(i)
      BY <1>6, Zenon
    <2>2. O(i).pump = P(i).pump /\ O(i).docids = P(i).docids
      <3>1. recs[i] = R(i)
        BY <1>4, Zenon
      <3>2. R(i).pump = P(i).pump /\ R(i).docids = P(i).docids
        BY DEF WithId
      <3>3. O(i).pump = recs[i].pump /\ O(i).docids = recs[i].docids
        OBVIOUS
      <3> QED
        BY <3>1, <3>2, <3>3, Zenon
    <2> HIDE DEF O
    <2>3. P(i).pump
      BY <1>8, <2>1, <2>2, Zenon
    <2>4. Len(P(i).docids) >= SlimDf
      BY <2>3, PumpedPostings, Zenon
    <2> QED
      BY <2>1, <2>2, <2>4, Zenon
  <1>9. \E S : o \in Seq(S)
    <2>1. PICK S : S = {o[i] : i \in 1..k}
      BY Zenon
    <2> HIDE DEF O
    <2>2. o \in [1..k -> S]
      BY <1>6, <2>1, Zenon
    <2>3. o \in Seq(S)
      BY <2>2, SMT
    <2> QED
      BY <2>3, Zenon
  <1> QED
    BY <1>7, <1>8, <1>9, Zenon DEF OutOK

\* One more term.
LEMMA HandOne ==
    ASSUME NEW o, OutOK(o), NEW x, x.pump => Len(x.docids) >= SlimDf, NEW o2, o2 = Append(o, x)
    PROVE  OutOK(o2)
  <1>1. PICK S : o \in Seq(S)
    BY Zenon DEF OutOK
  <1>2. PICK n \in Nat : n = Len(o) /\ DOMAIN o = 1..n
    BY <1>1
  <1>3. /\ o2 \in Seq(S \cup {x}) /\ DOMAIN o2 = 1..(n + 1) /\ o2[n + 1] = x
        /\ \A i \in 1..n : o2[i] = o[i]
    BY <1>1, <1>2
  <1>4. \A i \in 1..(n + 1) : i \in 1..n \/ i = n + 1
    BY <1>2
  <1>5. \A i \in 1..n : o[i].pump => Len(o[i].docids) >= SlimDf
    BY <1>2, Zenon DEF OutOK
  <1>6. ASSUME NEW i \in 1..(n + 1), o2[i].pump
        PROVE  Len(o2[i].docids) >= SlimDf
    BY <1>3, <1>4, <1>5, <1>6, Zenon
  <1> QED
    BY <1>3, <1>6, Zenon DEF OutOK

----------------------------------------------------------------------------
(* Every step keeps the invariant. *)

\* Only the status and the drained flag of a buffer may change outside the drains.
Marked(c, b) == c = b \/ \E st \in Statuses : c = [b EXCEPT !.status = st]

\* They are not part of what is held.
LEMMA MarkedOK ==
    ASSUME NEW b, BaseInv(b), NEW c, Marked(c, b)
    PROVE  /\ BaseInv(c) /\ (BooksOK(b) => BooksOK(c)) /\ Resident(c) = Resident(b)
  <1>1. CASE c = b
    BY <1>1, Zenon
  <1>2. ASSUME NEW st \in Statuses, c = [b EXCEPT !.status = st]
        PROVE  /\ BaseInv(c) /\ (BooksOK(b) => BooksOK(c)) /\ Resident(c) = Resident(b)
    <2>1. /\ IsBuf(c) /\ SamePool(c, b) /\ SameBooks(c, b) /\ c.vocab = b.vocab
          /\ c.cap = b.cap /\ c.runs = b.runs /\ c.files = b.files /\ c.drained = b.drained
          /\ c.status = st
      BY <1>2, Zenon DEF BaseInv, IsBuf, Fields, SamePool, SameBooks
    <2>2. PoolOK(c)
      BY <2>1, Zenon DEF BaseInv, PoolOK, SamePool
    <2>3. RestOK(c) /\ c.touched \subseteq 1..Len(c.vocab)
      BY <2>1, Zenon DEF BaseInv, RestOK, SamePool
    <2>4. Resident(c) = Resident(b)
      BY <2>1, Zenon DEF Resident, SamePool, SameBooks
    <2>5. BooksOK(b) => BooksOK(c)
      BY <2>1, <2>4, Zenon DEF BooksOK, SameBooks
    <2> QED
      BY <2>1, <2>2, <2>3, <2>4, <2>5, Zenon DEF BaseInv
  <1> QED
    BY <1>1, <1>2, Zenon DEF Marked

\* Nor is the drained flag.
LEMMA DrainedFlag ==
    ASSUME NEW b, NEW c, NEW d \in BOOLEAN, IsBuf(b), c = [b EXCEPT !.drained = d]
    PROVE  /\ IsBuf(c) /\ SamePool(c, b) /\ SameBooks(c, b)
           /\ c.vocab = b.vocab /\ c.rank = b.rank /\ c.cap = b.cap /\ c.runs = b.runs
           /\ c.files = b.files /\ c.status = b.status /\ c.drained = d
  BY Zenon DEF IsBuf, Fields, SamePool, SameBooks

\* The invariant holds initially.
LEMMA SpimiInitInv == Init => SpimiInv
  <1> SUFFICES ASSUME Init PROVE SpimiInv
    OBVIOUS
  <1>1. PICK cap \in Caps :
          buf = [vocab |-> InitVocab, rank |-> <<>>,
                 slot_of |-> [id \in 1..Len(InitVocab) |-> 0],
                 slots |-> <<>>, free |-> <<>>, touched |-> {},
                 arena |-> 0, reported |-> Len(InitVocab), current |-> Len(InitVocab),
                 cap |-> cap, runs |-> <<>>, files |-> 0,
                 status |-> "ok", drained |-> FALSE]
    BY Zenon DEF Init
  <1>2. /\ IsBuf(buf) /\ buf.vocab = InitVocab /\ buf.rank = <<>>
        /\ buf.slot_of = [id \in 1..Len(InitVocab) |-> 0]
        /\ buf.slots = <<>> /\ buf.free = <<>> /\ buf.touched = {}
        /\ buf.arena = 0 /\ buf.reported = Len(InitVocab) /\ buf.current = Len(InitVocab)
        /\ buf.cap = cap /\ buf.runs = <<>> /\ buf.files = 0
        /\ buf.status = "ok" /\ buf.drained = FALSE
    BY <1>1, Zenon DEF IsBuf, Fields
  <1>3. PICK n \in Nat : n = Len(InitVocab)
    BY SpimiAssumption
  <1>4. <<>> \in Seq(Nat) /\ <<>> \in Seq(CompactTerm) /\ DOMAIN <<>> = {} /\ Len(<<>>) = 0
    OBVIOUS
  <1>5. PICK so : so = [id \in 1..n |-> 0]
    BY Zenon
  <1>6. so \in Seq(Nat) /\ Len(so) = n /\ \A id \in DOMAIN so : so[id] = 0
    BY <1>5
  <1>7. LiveIds(so) = {}
    BY <1>6, Zenon DEF LiveIds
  <1>8. Exclusive(0, so, <<>>)
    <2>1. \A id \in DOMAIN so : so[id] <= 0
      BY <1>6
    <2> QED
      BY <1>4, <1>6, <1>7, <2>1, Zenon DEF Exclusive
  <1>9. buf.slot_of = so
    BY <1>2, <1>3, <1>5, Zenon
  <1>10. PoolOK(buf)
    BY <1>2, <1>4, <1>8, <1>9, Zenon DEF PoolOK
  <1>11. BooksOK(buf)
    BY <1>2, <1>3, <1>6, <1>9 DEF BooksOK, Resident
  <1>12. FillOK(buf)
    BY <1>2, <1>3, <1>6, <1>7, <1>9, Zenon DEF FillOK
  <1>13. RestOK(buf)
    BY <1>2, <1>4, Zenon DEF RestOK, Statuses
  <1>14. Distinct(buf.vocab)
    BY <1>2, SpimiAssumption, Zenon DEF Distinct
  <1>15. Ranking(buf.vocab, buf.rank)
    <2>1. RankOf(InitVocab, 0) = <<>>
      BY DEF RankOf
    <2>2. 0 \in 0..Len(InitVocab)
      BY <1>3
    <2> QED
      BY <1>2, <2>1, <2>2, Zenon DEF Ranking
  <1>16. FillInv(buf)
    BY <1>2, <1>10, <1>11, <1>12, <1>13, <1>14, <1>15, Zenon DEF FillInv
  <1>17. Armed(buf)
    <2>1. 0 < ArenaSpillCap
      BY SpimiAssumption
    <2> QED
      BY <1>2, <2>1, Zenon DEF Armed
  <1>18. OutOK(out)
    BY <1>4, Zenon DEF OutOK, Init
  <1>19. fed \in Seq(Token)
    BY DEF Init
  <1>20. phase = "fill" /\ kind = "each" /\ ret = "none"
    BY Zenon DEF Init
  <1>21. BaseInv(buf)
    BY <1>16, FillBase, Zenon
  <1> QED
    BY <1>11, <1>16, <1>17, <1>18, <1>19, <1>20, <1>21 DEF SpimiInv

\* add_token with a valid term.
LEMMA AddTokenInv ==
    ASSUME SpimiInv, NEW t \in Terms, NEW d \in Docs, NEW grow \in {0, 1}, NEW f \in SpillFaults,
           AddToken(t, d, grow, f)
    PROVE  SpimiInv'
  <1>1. phase = "fill" /\ phase' = phase /\ kind' = kind /\ out' = out /\ ret' = ret
    BY Zenon DEF AddToken
  <1>2. /\ FillInv(buf) /\ ret = "none" /\ OutOK(out) /\ kind \in {"each", "final"}
        /\ fed \in Seq(Token)
    BY <1>1, Zenon DEF SpimiInv
  <1>3. PICK a : a = Intern(buf, t)
    BY Zenon
  <1>4. PICK p \in Nat : p = Len(fed) + 1
    <2>1. Len(fed) \in Nat
      BY <1>2
    <2> QED
      BY <2>1
  <1>5. PICK c : c = Accumulate(a, IdOf(a, t), d, p, grow)
    BY Zenon
  <1>6. d \in Nat /\ grow \in Nat
    BY SpimiAssumption
  <1>7. FillInv(c)
    BY <1>2, <1>3, <1>4, <1>5, <1>6, AccumulateFill, Zenon
  <1>8. buf' = MaybeSpill(c, f)
    BY <1>3, <1>4, <1>5, Zenon DEF AddToken
  <1>9. FillInv(buf') /\ (buf'.status = "ok" => Armed(buf'))
    BY <1>7, <1>8, MaybeSpillFill, Zenon
  <1>10. BaseInv(buf') /\ BooksOK(buf')
    BY <1>9, FillBase, Zenon
  <1>11. fed' \in Seq(Token)
    <2>1. PICK x : x = [term |-> t, doc |-> d, pos |-> IF HasPositions THEN p ELSE 0]
      BY Zenon
    <2>2. x \in Token
      BY <1>4, <2>1 DEF Token
    <2>3. fed' = Append(fed, x)
      BY <1>4, <2>1, Zenon DEF AddToken
    <2> QED
      BY <1>2, <2>2, <2>3
  <1> QED
    BY <1>1, <1>2, <1>9, <1>10, <1>11 DEF SpimiInv

\* add_token with an invalid one.
LEMMA RejectTokenInv ==
    ASSUME SpimiInv, RejectToken
    PROVE  SpimiInv'
  <1>1. /\ phase = "fill" /\ phase' = phase /\ kind' = kind /\ out' = out /\ ret' = ret
        /\ fed' = fed
        /\ buf' = IF buf.status = "ok" THEN [buf EXCEPT !.status = "invalid"] ELSE buf
    BY Zenon DEF RejectToken
  <1>2. CASE buf.status # "ok"
    <2>1. buf' = buf
      BY <1>1, <1>2, Zenon
    <2> QED
      BY <1>1, <2>1, Zenon DEF SpimiInv
  <1>3. CASE buf.status = "ok"
    <2>1. FillInv(buf)
      BY <1>1, Zenon DEF SpimiInv
    <2>2. "invalid" \in Statuses
      BY DEF Statuses
    <2>3. buf' = [buf EXCEPT !.status = "invalid"]
      BY <1>1, <1>3, Zenon
    <2>4. StatusSet(buf', buf, "invalid")
      BY <2>1, <2>2, <2>3, StatusFill, Zenon
    <2>5. FillInv(buf') /\ buf'.status # "ok"
      BY <2>4 DEF StatusSet
    <2>6. BaseInv(buf') /\ BooksOK(buf')
      BY <2>5, FillBase, Zenon
    <2> QED
      BY <1>1, <2>5, <2>6, Zenon DEF SpimiInv
  <1> QED
    BY <1>2, <1>3, Zenon

\* The drain from memory.
LEMMA DrainInMemoryInv ==
    ASSUME SpimiInv, NEW k \in {"each", "final"}, DrainInMemory(k)
    PROVE  SpimiInv'
  <1>1. /\ phase = "fill" /\ phase' = "done" /\ kind' = k /\ ret' = "ok" /\ fed' = fed
        /\ buf' = [DrainSorted(buf) EXCEPT !.drained = TRUE]
    BY Zenon DEF DrainInMemory
  <1>2. FillInv(buf) /\ fed \in Seq(Token)
    BY <1>1, Zenon DEF SpimiInv
  <1>3. PICK r : r = EnsureStringRank(buf)
    BY Zenon
  <1>4. /\ IsBuf(r) /\ Kept(r, buf) /\ SamePool(r, buf) /\ SameBooks(r, buf)
        /\ r.rank = RankOf(r.vocab, Len(r.vocab))
    BY <1>2, <1>3, EnsureFields, Zenon DEF FillInv
  <1>5. PoolOK(r) /\ FillOK(r) /\ Distinct(r.vocab)
    BY <1>2, <1>4, Zenon DEF FillInv, PoolOK, FillOK, SamePool, SameBooks, Kept
  <1>6. Ordered(r, SortedIds(r))
    BY <1>4, <1>5, TouchedIds, SortedIdsFacts, Zenon
  <1>7. out' = Handed(buf.vocab, DrainedRecords(r, k = "each"))
    BY <1>3, Zenon DEF DrainInMemory
  <1>8. OutOK(out')
    BY <1>6, <1>7, HandedOut, Zenon
  <1>9. PICK c : c = DrainSorted(buf)
    BY Zenon
  <1>10. DroppedOK(c, buf)
    BY <1>2, <1>9, DrainSortedFill, Zenon
  <1>11. /\ IsBuf(buf') /\ SamePool(buf', c) /\ SameBooks(buf', c)
         /\ buf'.vocab = c.vocab /\ buf'.cap = c.cap /\ buf'.runs = c.runs
         /\ buf'.files = c.files /\ buf'.status = c.status /\ buf'.drained = TRUE
    BY <1>1, <1>9, <1>10, DrainedFlag, ZenonT(60) DEF DroppedOK, BaseInv
  <1>12. PoolOK(buf') /\ Resident(buf') = Resident(c)
    BY <1>10, <1>11, Zenon DEF DroppedOK, BaseInv, PoolOK, SamePool, SameBooks, Resident
  <1>13. BooksOK(buf') /\ Resident(buf') = 0
    BY <1>10, <1>11, <1>12, Zenon DEF DroppedOK, BooksOK, SameBooks
  <1>14. RestOK(buf') /\ buf'.touched \subseteq 1..Len(buf'.vocab)
    BY <1>10, <1>11, Zenon DEF DroppedOK, BaseInv, RestOK, SamePool
  <1>15. BaseInv(buf')
    BY <1>11, <1>12, <1>14, Zenon DEF BaseInv
  <1> QED
    BY <1>1, <1>2, <1>8, <1>13, <1>15 DEF SpimiInv, Statuses

\* The flush and the start of the merge.
LEMMA StartMergeInv ==
    ASSUME SpimiInv, NEW k \in {"each", "final"}, NEW f \in SpillFaults, StartMerge(k, f)
    PROVE  SpimiInv'
  <1>1. phase = "fill" /\ kind' = k /\ out' = out /\ fed' = fed
    BY Zenon DEF StartMerge
  <1>2. FillInv(buf) /\ fed \in Seq(Token) /\ OutOK(out) /\ ret = "none"
    BY <1>1, Zenon DEF SpimiInv
  <1>3. PICK a : a = FlushResidual(buf, f)
    BY Zenon
  <1>4. FillInv(a) /\ (a.status = "ok" => a.arena = 0)
    BY <1>2, <1>3, FlushFill, Zenon
  <1>5. PICK b : b = [a EXCEPT !.drained = TRUE]
    BY Zenon
  <1>6. /\ IsBuf(b) /\ SamePool(b, a) /\ SameBooks(b, a)
        /\ b.vocab = a.vocab /\ b.cap = a.cap /\ b.runs = a.runs
        /\ b.files = a.files /\ b.status = a.status /\ b.drained = TRUE
    BY <1>4, <1>5, DrainedFlag, Zenon DEF FillInv
  <1>7. PoolOK(b) /\ BooksOK(b)
    BY <1>4, <1>6, Zenon DEF FillInv, PoolOK, BooksOK, SamePool, SameBooks, Resident
  <1>8. a.touched \subseteq 1..Len(a.vocab)
    BY <1>4, FillBase, Zenon DEF BaseInv
  <1>9. RestOK(b) /\ b.touched \subseteq 1..Len(b.vocab)
    BY <1>4, <1>6, <1>8, Zenon DEF FillInv, RestOK, SamePool
  <1>10. BaseInv(b)
    BY <1>6, <1>7, <1>9, Zenon DEF BaseInv
  <1>11. CASE b.status # "ok"
    <2>1. buf' = b /\ phase' = "done" /\ ret' = b.status
      BY <1>3, <1>5, <1>11, Zenon DEF StartMerge, OpenRuns
    <2>2. b.status \in Statuses
      BY <1>9, Zenon DEF RestOK
    <2> QED
      BY <1>1, <1>2, <1>7, <1>10, <1>11, <2>1, <2>2 DEF SpimiInv
  <1>12. CASE b.status = "ok"
    <2>1. buf' = Report(FreeSlots(b)) /\ phase' = "merge" /\ ret' = ret
      BY <1>3, <1>5, <1>12, Zenon DEF StartMerge, OpenRuns
    <2>2. b.arena = 0 /\ b.reported \in Nat /\ b.current = b.reported
      BY <1>4, <1>6, <1>7, <1>12, BooksNat, Zenon DEF SameBooks
    <2>3. DroppedOK(buf', b)
      BY <1>6, <1>9, <2>1, <2>2, DropFill, Zenon
    <2>4. BaseInv(buf') /\ BooksOK(buf') /\ Resident(buf') = 0 /\ buf'.status = "ok"
      BY <1>12, <2>3, Zenon DEF DroppedOK
    <2> QED
      BY <1>1, <1>2, <2>1, <2>4 DEF SpimiInv
  <1> QED
    BY <1>11, <1>12, Zenon

\* A term that the merge emits is pumped only when the coalesced df is windowed.
LEMMA EmitOut ==
    ASSUME OutOK(out), NEW flat, NEW pump, pump => StreamMerged, Emit(flat, pump)
    PROVE  OutOK(out')
  <1>1. PICK x : x = [term |-> HeadTerm(CHOOSE i \in Matching : TRUE),
                      docids |-> Merged.docids, freqs |-> Merged.freqs,
                      flat |-> flat, pump |-> pump]
    BY Zenon
  <1>2. x.pump = pump /\ x.docids = Merged.docids
    BY <1>1
  <1>3. StreamMerged => Len(Merged.docids) >= SlimDf
    BY Zenon DEF StreamMerged
  <1>4. x.pump => Len(x.docids) >= SlimDf
    BY <1>2, <1>3, Zenon
  <1>5. out' = Append(out, x)
    BY <1>1, Zenon DEF Emit
  <1> QED
    BY <1>4, <1>5, HandOne, Zenon

\* The same for a term whose positions were all there.
LEMMA EmitWhole ==
    ASSUME OutOK(out), Emit(Merged.flat, StreamMerged)
    PROVE  OutOK(out')
  <1>1. PICK flat : flat = Merged.flat
    BY Zenon
  <1>2. PICK pump : pump = StreamMerged
    BY Zenon
  <1>3. Emit(flat, pump)
    BY <1>1, <1>2, Zenon
  <1>4. pump => StreamMerged
    BY <1>2, Zenon
  <1> QED
    BY <1>3, <1>4, EmitOut, Zenon

\* A step of the merge that fails: nothing is held, and an error is returned.
LEMMA FailMergeInv ==
    ASSUME SpimiInv, phase = "merge", FailMerge, OutOK(out'), kind' = kind, fed' = fed
    PROVE  SpimiInv'
  <1>1. BaseInv(buf) /\ BooksOK(buf) /\ kind \in {"each", "final"} /\ fed \in Seq(Token)
    BY Zenon DEF SpimiInv
  <1>2. Marked(buf', buf)
    <2>1. "io" \in Statuses
      BY DEF Statuses
    <2> QED
      BY <2>1, Zenon DEF FailMerge, Marked
  <1>3. BaseInv(buf') /\ BooksOK(buf')
    BY <1>1, <1>2, MarkedOK, Zenon
  <1>4. phase' = "done" /\ ret' = "io"
    BY Zenon DEF FailMerge
  <1> QED
    BY <1>1, <1>3, <1>4 DEF SpimiInv, Statuses

\* The merge loop and the ways it ends.
LEMMA MergeInv ==
    ASSUME SpimiInv,
           \/ MergeOpenFails \/ MergeStep \/ MergePositionsFail \/ MergePumpFails
           \/ MergeAdvanceFails \/ MergeEnds
    PROVE  SpimiInv'
  <1>1. /\ phase = "merge" /\ kind' = kind /\ fed' = fed
    BY Zenon DEF MergeOpenFails, MergeStep, MergePositionsFail, MergePumpFails,
                 MergeAdvanceFails, MergeEnds
  <1>2. OutOK(out) /\ BaseInv(buf) /\ BooksOK(buf) /\ Resident(buf) = 0 /\ fed \in Seq(Token)
    BY <1>1, Zenon DEF SpimiInv
  <1>3. CASE MergeOpenFails \/ MergePositionsFail
    <2>1. FailMerge /\ out' = out
      BY <1>3, Zenon DEF MergeOpenFails, MergePositionsFail
    <2> QED
      BY <1>1, <1>2, <2>1, FailMergeInv, Zenon
  <1>4. CASE MergeAdvanceFails
    <2>1. FailMerge /\ Emit(Merged.flat, StreamMerged)
      BY <1>4, Zenon DEF MergeAdvanceFails
    <2>2. OutOK(out')
      BY <1>2, <2>1, EmitWhole, Zenon
    <2> QED
      BY <1>1, <2>1, <2>2, FailMergeInv, Zenon
  <1>5. CASE MergePumpFails
    <2>1. FailMerge /\ StreamMerged
      BY <1>5, Zenon DEF MergePumpFails
    <2>2. PICK n \in 0..(Len(Merged.flat) - 1) :
            Emit([i \in DOMAIN Merged.flat |-> IF i <= n THEN Merged.flat[i] ELSE 0], TRUE)
      BY <1>5, Zenon DEF MergePumpFails
    <2>3. PICK flat : flat = [i \in DOMAIN Merged.flat |-> IF i <= n THEN Merged.flat[i] ELSE 0]
      BY Zenon
    <2>4. Emit(flat, TRUE)
      BY <2>2, <2>3, Zenon
    <2>5. OutOK(out')
      BY <1>2, <2>1, <2>4, EmitOut, Zenon
    <2> QED
      BY <1>1, <2>1, <2>5, FailMergeInv, Zenon
  <1>6. CASE MergeStep
    <2>1. buf' = buf /\ phase' = phase /\ ret' = ret
      BY <1>6, Zenon DEF MergeStep
    <2>2. Emit(Merged.flat, StreamMerged)
      BY <1>6, Zenon DEF MergeStep
    <2>3. OutOK(out')
      BY <1>2, <2>2, EmitWhole, Zenon
    <2> QED
      BY <1>1, <2>1, <2>3, Zenon DEF SpimiInv
  <1>7. CASE MergeEnds
    <2>1. buf' = buf /\ phase' = "done" /\ ret' = "ok" /\ out' = out
      BY <1>7, Zenon DEF MergeEnds
    <2>2. kind \in {"each", "final"}
      BY Zenon DEF SpimiInv
    <2> QED
      BY <1>1, <1>2, <2>1, <2>2 DEF SpimiInv, Statuses
  <1> QED
    BY <1>3, <1>4, <1>5, <1>6, <1>7, Zenon

\* A drain after the first.
LEMMA DrainAgainInv ==
    ASSUME SpimiInv, NEW k, DrainAgain(k)
    PROVE  SpimiInv'
  <1>1. /\ phase = "done" /\ phase' = phase /\ kind' = kind /\ out' = out /\ ret' = ret
        /\ fed' = fed
    BY Zenon DEF DrainAgain
  <1>2. BaseInv(buf) /\ BooksOK(buf) /\ (ret = "ok" => Resident(buf) = 0)
    BY <1>1, Zenon DEF SpimiInv
  <1>3. Marked(buf', buf)
    <2>1. "internal" \in Statuses
      BY DEF Statuses
    <2> QED
      BY <2>1, Zenon DEF DrainAgain, Marked
  <1>4. BaseInv(buf') /\ BooksOK(buf') /\ Resident(buf') = Resident(buf)
    BY <1>2, <1>3, MarkedOK, Zenon
  <1>5. /\ OutOK(out') /\ fed' \in Seq(Token) /\ kind' \in {"each", "final"}
        /\ ret' \in Statuses \cup {"none"} /\ phase' \in {"fill", "merge", "done", "gone"}
    BY <1>1, Zenon DEF SpimiInv
  <1> QED
    BY <1>1, <1>2, <1>4, <1>5 DEF SpimiInv

\* The destructor returns exactly what is reported and removes exactly the files that
\* are there.
LEMMA DestroyInv ==
    ASSUME SpimiInv, Destroy
    PROVE  SpimiInv'
  <1>1. /\ phase' = "gone" /\ kind' = kind /\ out' = out /\ ret' = ret /\ fed' = fed
        /\ phase # "gone"
        /\ buf' = [buf EXCEPT !.current = @ - buf.reported, !.reported = 0,
                              !.files = @ - Len(buf.runs), !.runs = <<>>]
    BY Zenon DEF Destroy
  <1>2. BaseInv(buf) /\ BooksOK(buf)
    BY <1>1, Zenon DEF SpimiInv
  <1>3. buf.reported \in Nat /\ buf.current = buf.reported
    BY <1>2, BooksNat, Zenon DEF BaseInv
  <1>4. PICK n \in Nat : Len(buf.runs) = n /\ buf.files = n
    <2>1. PICK S : buf.runs \in Seq(S)
      BY <1>2, Zenon DEF BaseInv, RestOK
    <2>2. Len(buf.runs) \in Nat
      BY <2>1
    <2> QED
      BY <1>2, <2>2, Zenon DEF BaseInv, RestOK
  <1>5. /\ IsBuf(buf') /\ SamePool(buf', buf) /\ buf'.vocab = buf.vocab /\ buf'.cap = buf.cap
        /\ buf'.status = buf.status /\ buf'.drained = buf.drained /\ buf'.arena = buf.arena
        /\ buf'.current = buf.current - buf.reported /\ buf'.reported = 0
        /\ buf'.files = buf.files - Len(buf.runs) /\ buf'.runs = <<>>
    BY <1>1, <1>2, Zenon DEF BaseInv, IsBuf, Fields, SamePool
  <1>6. buf'.current = 0 /\ buf'.files = 0
    BY <1>3, <1>4, <1>5
  <1>7. Len(<<>>) = 0 /\ <<>> \in Seq(Nat)
    OBVIOUS
  <1>8. RestOK(buf') /\ PoolOK(buf') /\ buf'.touched \subseteq 1..Len(buf'.vocab)
    BY <1>2, <1>5, <1>6, <1>7, Zenon DEF BaseInv, RestOK, PoolOK, SamePool
  <1>9. BaseInv(buf') /\ buf'.arena \in Nat
    BY <1>2, <1>5, <1>8, Zenon DEF BaseInv, BooksOK
  <1>10. /\ OutOK(out') /\ fed' \in Seq(Token) /\ kind' \in {"each", "final"}
         /\ ret' \in Statuses \cup {"none"}
    BY <1>1, Zenon DEF SpimiInv
  <1> QED
    BY <1>1, <1>5, <1>6, <1>9, <1>10 DEF SpimiInv

\* Every step.
LEMMA SpimiNextInv == SpimiInv /\ [Next]_vars => SpimiInv'
  <1> SUFFICES ASSUME SpimiInv, [Next]_vars PROVE SpimiInv'
    OBVIOUS
  <1>1. CASE \E t \in Terms, d \in Docs, grow \in {0, 1}, f \in SpillFaults :
                AddToken(t, d, grow, f)
    BY <1>1, AddTokenInv, Zenon
  <1>2. CASE RejectToken
    BY <1>2, RejectTokenInv, Zenon
  <1>3. CASE \E k \in {"each", "final"} : DrainInMemory(k)
    BY <1>3, DrainInMemoryInv, Zenon
  <1>4. CASE \E k \in {"each", "final"} : DrainAgain(k)
    BY <1>4, DrainAgainInv, Zenon
  <1>5. CASE \E k \in {"each", "final"} : \E f \in SpillFaults : StartMerge(k, f)
    BY <1>5, StartMergeInv, Zenon
  <1>6. CASE \/ MergeOpenFails \/ MergeStep \/ MergePositionsFail \/ MergePumpFails
             \/ MergeAdvanceFails \/ MergeEnds
    BY <1>6, MergeInv, Zenon
  <1>7. CASE Destroy
    BY <1>7, DestroyInv, Zenon
  <1>8. CASE UNCHANGED vars
    <2>1. /\ buf' = buf /\ phase' = phase /\ kind' = kind /\ out' = out /\ ret' = ret
          /\ fed' = fed
      BY <1>8, Zenon DEF vars
    <2> QED
      BY <2>1, Zenon DEF SpimiInv
  <1> QED
    BY <1>1, <1>2, <1>3, <1>4, <1>5, <1>6, <1>7, <1>8, Zenon DEF Next

----------------------------------------------------------------------------
(* The theorems. *)

\* The inductive invariant holds in every reachable state of the term buffer, whatever
\* the feed, the caps, the spill faults and the order of the drains and the destructor.
THEOREM SpimiInvariant == Spec => []SpimiInv
  BY SpimiInitInv, SpimiNextInv, PTL DEF Spec

\* Members keep their types; in particular the reporter's total and the file count are
\* never negative, and slot_of never points past the slot pool.
THEOREM SpimiTypes == Spec => []TypeOK
  <1>1. SpimiInv => TypeOK
    <2> SUFFICES ASSUME SpimiInv PROVE TypeOK
      OBVIOUS
    <2>1. BaseInv(buf)
      BY Zenon DEF SpimiInv
    <2>2. /\ buf.status \in Statuses /\ buf.drained \in BOOLEAN /\ buf.cap \in Caps
          /\ buf.touched \subseteq 1..Len(buf.vocab)
      BY <2>1, Zenon DEF BaseInv, RestOK
    <2>3. buf.files \in Nat
      <3>1. PICK S : buf.runs \in Seq(S)
        BY <2>1, Zenon DEF BaseInv, RestOK
      <3>2. Len(buf.runs) \in Nat
        BY <3>1
      <3> QED
        BY <2>1, <3>2, Zenon DEF BaseInv, RestOK
    <2>4. \A id \in DOMAIN buf.slot_of : buf.slot_of[id] \in 0..Len(buf.slots)
      <3>1. PICK n \in Nat : n = Len(buf.slots)
        BY <2>1 DEF BaseInv, PoolOK
      <3>2. Exclusive(n, buf.slot_of, buf.free)
        BY <2>1, <3>1, Zenon DEF BaseInv, PoolOK
      <3>3. \A id \in DOMAIN buf.slot_of : buf.slot_of[id] \in 0..n
        BY <3>2 DEF Exclusive
      <3> QED
        BY <3>1, <3>3, Zenon
    <2>5. buf.current \in Nat /\ buf.reported \in Nat /\ buf.arena \in Nat
      <3>1. CASE phase = "gone"
        BY <3>1 DEF SpimiInv
      <3>2. CASE phase # "gone"
        <4>1. BooksOK(buf)
          BY <3>2, Zenon DEF SpimiInv
        <4> QED
          BY <2>1, <4>1, BooksNat, Zenon DEF BaseInv, BooksOK
      <3> QED
        BY <3>1, <3>2, Zenon
    <2>6. /\ phase \in {"fill", "merge", "done", "gone"} /\ kind \in {"each", "final"}
          /\ ret \in Statuses \cup {"none"}
      BY Zenon DEF SpimiInv
    <2> QED
      BY <2>2, <2>3, <2>4, <2>5, <2>6, Zenon DEF TypeOK
  <1> QED
    BY <1>1, SpimiInvariant, PTL

\* The slot pool, for any vocabulary and any history of spills: two live term ids never
\* share a slot, a slot on the free list is nobody's, and while tokens come in the live
\* ids are exactly the touched ones.
THEOREM SlotsNeverShared == Spec => []SlotsExclusive
  <1>1. SpimiInv => SlotsExclusive
    <2> SUFFICES ASSUME SpimiInv PROVE SlotsExclusive
      OBVIOUS
    <2>1. Exclusive(Len(buf.slots), buf.slot_of, buf.free)
      BY Zenon DEF SpimiInv, BaseInv, PoolOK
    <2>2. phase = "fill" => LiveIds(buf.slot_of) = buf.touched
      BY Zenon DEF SpimiInv, FillInv, FillOK
    <2>3. LiveIds(buf.slot_of) = {id \in DOMAIN buf.slot_of : buf.slot_of[id] # 0}
      BY Zenon DEF LiveIds
    <2>4. PICK live : live = LiveIds(buf.slot_of)
      BY Zenon
    <2>5. \A x, y \in live : buf.slot_of[x] = buf.slot_of[y] => x = y
      BY <2>1, <2>4, Zenon DEF Exclusive
    <2>6. \A x \in live : buf.slot_of[x] \notin Range(buf.free)
      BY <2>1, <2>4 DEF Exclusive, Range
    <2> QED
      BY <2>2, <2>3, <2>4, <2>5, <2>6, Zenon DEF SlotsExclusive
  <1> QED
    BY <1>1, SpimiInvariant, PTL

\* The memory reporter's total is what is really held after every call, zero after a
\* drain that returned OK, and zero after the destructor on every path.
THEOREM ReporterNeverDrifts == Spec => []ReporterBalanced
  <1>1. SpimiInv => ReporterBalanced
    BY Zenon DEF SpimiInv, BooksOK, ReporterBalanced
  <1> QED
    BY <1>1, SpimiInvariant, PTL

\* While no error is latched, add_token never returns with a spill due that would help.
THEOREM CapRespected == Spec => []SpillKeepsCap
  <1>1. SpimiInv => SpillKeepsCap
    BY Zenon DEF SpimiInv, Armed, SpillKeepsCap
  <1> QED
    BY <1>1, SpimiInvariant, PTL

\* No run file exists that the buffer does not track, also after a failed spill, and
\* the destructor leaves none.
THEOREM RunFilesNeverLeak == Spec => []RunFilesTracked
  <1>1. SpimiInv => RunFilesTracked
    BY Zenon DEF SpimiInv, BaseInv, RestOK, RunFilesTracked
  <1> QED
    BY <1>1, SpimiInvariant, PTL

\* No drain, from memory or from a merge, hands over a position pump for a term that
\* the writer would send down its slim path.
THEOREM PumpsAreWindowed == Spec => []PumpOnlyWindowed
  <1>1. SpimiInv => PumpOnlyWindowed
    BY Zenon DEF SpimiInv, OutOK, PumpOnlyWindowed
  <1> QED
    BY <1>1, SpimiInvariant, PTL

\* An error latched while filling is what the drain returns, after emitting nothing: no
\* step of any path appends to the output or ends a drain with another status.
THEOREM ErrorsEndEmpty == Spec => ErrorEmitsNothing
  <1> DEFINE Step == /\ out' = out
                     /\ phase' \in {phase, "gone"} \/ (phase' = "done" /\ ret' = buf.status)
  <1>1. ASSUME SpimiInv, Next, buf.status # "ok" PROVE Step
    <2>1. phase # "merge" /\ (phase = "fill" => FillInv(buf))
      BY <1>1, Zenon DEF SpimiInv
    <2>2. CASE \E t \in Terms, d \in Docs, grow \in {0, 1}, f \in SpillFaults :
                  AddToken(t, d, grow, f)
      BY <2>2, Zenon DEF AddToken
    <2>3. CASE RejectToken
      BY <2>3, Zenon DEF RejectToken
    <2>4. CASE \E k \in {"each", "final"} : DrainInMemory(k)
      BY <1>1, <2>4, Zenon DEF DrainInMemory, InMemory
    <2>5. CASE \E k \in {"each", "final"} : DrainAgain(k)
      BY <2>5, Zenon DEF DrainAgain
    <2>6. ASSUME NEW k \in {"each", "final"}, NEW f \in SpillFaults, StartMerge(k, f)
          PROVE  Step
      <3>1. PICK a : a = FlushResidual(buf, f)
        BY Zenon
      <3>2. FillInv(a) /\ a.status = buf.status
        BY <1>1, <2>1, <2>6, <3>1, FlushFill, Zenon DEF StartMerge
      <3>3. PICK b : b = [a EXCEPT !.drained = TRUE]
        BY Zenon
      <3>4. b.status = a.status
        BY <3>2, <3>3, DrainedFlag, Zenon DEF FillInv
      <3>5. out' = out /\ phase' = "done" /\ ret' = b.status
        BY <1>1, <2>6, <3>1, <3>2, <3>3, <3>4, Zenon DEF StartMerge, OpenRuns
      <3> QED
        BY <3>2, <3>4, <3>5, Zenon
    <2>7. CASE \/ MergeOpenFails \/ MergeStep \/ MergePositionsFail \/ MergePumpFails
               \/ MergeAdvanceFails \/ MergeEnds
      BY <2>1, <2>7, Zenon DEF MergeOpenFails, MergeStep, MergePositionsFail,
                               MergePumpFails, MergeAdvanceFails, MergeEnds
    <2>8. CASE Destroy
      BY <2>8, Zenon DEF Destroy
    <2> QED
      BY <1>1, <2>2, <2>3, <2>4, <2>5, <2>6, <2>7, <2>8, Zenon DEF Next
  <1>2. SpimiInv /\ [Next]_vars => [buf.status # "ok" => Step]_vars
    BY <1>1, Zenon
  <1> QED
    BY <1>2, SpimiInvariant, PTL DEF Spec, ErrorEmitsNothing

============================================================================
