-------------------------- MODULE WandQueryProofs --------------------------
(***************************************************************************)
(* Proofs about WandQuery: the heap holds the best of the documents        *)
(* offered, each with its full score; the loop makes progress; and the     *)
(* result is the exhaustive one when no term's bounds rise.                *)
(***************************************************************************)
EXTENDS WandQuery, FiniteFacts

----------------------------------------------------------------------------
(* Scores. *)

\* The index has a frequency for every term and document, and a norm.
CorpusOk == corpus \in [tf : [Terms -> [Docs -> 0..MaxTf]], norm : [Docs -> Norms]]

\* Docids are natural numbers below NoDoc.
LEMMA DocsAre ==
    /\ Docs = 0..(NumDocs - 1) /\ Docs \subseteq Nat /\ IsFiniteSet(Docs) /\ Cardinality(Docs) = NumDocs
    /\ NoDoc \in Nat /\ NumDocs \in Nat /\ NoDoc = NumDocs /\ \A d \in Docs : d < NoDoc
  <1>1. NumDocs \in Nat \ {0} /\ 0 \in Int /\ NumDocs - 1 \in Int
    BY WandAssumption
  <1>2. IsFiniteSet(0..(NumDocs - 1)) /\
        Cardinality(0..(NumDocs - 1)) = IF 0 > NumDocs - 1 THEN 0 ELSE (NumDocs - 1) - 0 + 1
    BY <1>1, FS_Interval, Zenon
  <1>3. Cardinality(0..(NumDocs - 1)) = NumDocs
    BY <1>1, <1>2
  <1> QED
    BY <1>1, <1>2, <1>3 DEF Docs, NoDoc

\* The documents of a term are finitely many docids.
LEMMA DocsFacts ==
    ASSUME NEW t
    PROVE  /\ DocsOf(t) \in SUBSET Docs /\ DocsOf(t) \subseteq Nat /\ IsFiniteSet(DocsOf(t))
           /\ Df(t) \in Nat /\ Df(t) <= NumDocs
           /\ DocsOf(t) # {} => Df(t) \in 1..NumDocs
  <1>1. DocsOf(t) \in SUBSET Docs
    BY Zenon DEF DocsOf
  <1>2. IsFiniteSet(DocsOf(t)) /\ Df(t) <= NumDocs
    BY <1>1, DocsAre, FS_Subset, Zenon DEF Df
  <1>3. Df(t) \in Nat /\ (DocsOf(t) # {} => Df(t) # 0)
    BY <1>2, FS_CardinalityType, FS_EmptySet, Zenon DEF Df
  <1>4. Df(t) # 0 => Df(t) \in 1..NumDocs
    BY <1>2, <1>3, DocsAre
  <1> QED
    BY <1>1, <1>2, <1>3, <1>4, DocsAre, Zenon

\* BM25's quotient grows with the frequency and falls with the norm.
LEMMA ScoreArithmetic ==
    ASSUME NEW c \in Nat, NEW f \in Nat, NEW g \in Nat, NEW m \in Nat \ {0}, NEW n \in Nat \ {0},
           f <= g, m <= n
    PROVE  /\ (c * f) \div (f + n) \in Nat /\ (c * g) \div (g + m) \in Nat
           /\ (c * f) \div (f + n) <= (c * g) \div (g + m)
  <1>1. PICK x, y \in Nat : x = c * f /\ y = c * g
    BY SMT
  <1>2. PICK a, b \in Nat \ {0} : a = f + n /\ b = g + m
    OBVIOUS
  <1>3. PICK q \in Nat : q = x \div a /\ q * a <= x
    BY SMT
  <1>4. PICK r \in Nat : r = y \div b /\ y < (r + 1) * b
    BY SMT
  <1>5. q * b <= y
    <2>1. CASE f = 0
      <3>1. x = 0
        BY <1>1, <2>1, SMT
      <3>2. q = 0
        <4>1. q # 0 => q * a >= a
          BY SMT
        <4> QED
          BY <1>2, <1>3, <3>1, <4>1
      <3>3. q * b = 0
        BY <3>2, SMT
      <3> QED
        BY <3>3
    <2>2. CASE f # 0
      <3>1. f * b <= g * a
        <4>1. f * b = f * g + f * m /\ g * a = f * g + g * n
          BY <1>2, SMT
        <4>2. f * m <= g * m /\ g * m <= g * n
          BY SMT
        <4>3. f * m \in Nat /\ g * m \in Nat /\ g * n \in Nat /\ f * g \in Nat
          BY SMT
        <4> QED
          BY <4>1, <4>2, <4>3
      <3>2. f * (q * b) <= g * (q * a)
        <4>1. PICK u, v \in Nat : u = f * b /\ v = g * a /\ u <= v
          BY <3>1, SMT
        <4>2. q * u <= q * v
          BY <4>1, SMT
        <4>3. q * u = f * (q * b) /\ q * v = g * (q * a)
          BY <4>1, SMT
        <4> QED
          BY <4>2, <4>3
      <3>3. g * (q * a) <= g * x
        <4>1. PICK u \in Nat : u = q * a /\ u <= x
          BY <1>3, SMT
        <4>2. g * u <= g * x
          BY <4>1, SMT
        <4> QED
          BY <4>1, <4>2
      <3>4. g * x = f * y
        BY <1>1, SMT
      <3>5. f * (q * b) <= f * y
        <4>1. PICK u, v, w \in Nat : u = f * (q * b) /\ v = g * (q * a) /\ w = f * y
          BY SMT
        <4> QED
          BY <3>2, <3>3, <3>4, <4>1
      <3>6. PICK z \in Nat : z = q * b
        BY SMT
      <3>7. f * z <= f * y => z <= y
        BY <2>2, SMT
      <3> QED
        BY <3>5, <3>6, <3>7
    <2> QED
      BY <2>1, <2>2
  <1>6. q <= r
    <2>1. q > r => q * b >= (r + 1) * b
      BY SMT
    <2>2. q * b \in Nat /\ (r + 1) * b \in Nat
      BY SMT
    <2> QED
      BY <1>4, <1>5, <2>1, <2>2
  <1> QED
    BY <1>1, <1>2, <1>3, <1>4, <1>6

\* A term of the index has an idf.
LEMMA IdfIs ==
    ASSUME NEW t, DocsOf(t) # {}
    PROVE  Idf[Df(t)] \in Nat
  BY DocsFacts, WandAssumption, Zenon

\* ScorerContext::score is monotone: more occurrences in a shorter document score higher.
LEMMA ScoreMono ==
    ASSUME NEW t, DocsOf(t) # {}, NEW f \in Nat, NEW g \in Nat,
           NEW m \in Nat \ {0}, NEW n \in Nat \ {0}, f <= g, m <= n
    PROVE  Score(t, f, n) \in Nat /\ Score(t, g, m) \in Nat /\ Score(t, f, n) <= Score(t, g, m)
  <1>1. PICK c \in Nat : c = Idf[Df(t)]
    BY IdfIs, Zenon
  <1>2. Score(t, f, n) = (c * f) \div (f + n) /\ Score(t, g, m) = (c * g) \div (g + m)
    BY <1>1, Zenon DEF Score
  <1> QED
    BY <1>2, ScoreArithmetic

\* Frequencies and norms.
LEMMA CorpusFacts ==
    ASSUME CorpusOk, NEW t \in Terms, NEW d \in Docs
    PROVE  /\ corpus.tf[t][d] \in Nat /\ corpus.tf[t][d] <= MaxTf
           /\ corpus.norm[d] \in Nat \ {0}
  <1>1. corpus.tf \in [Terms -> [Docs -> 0..MaxTf]] /\ corpus.norm \in [Docs -> Norms]
    BY DEF CorpusOk
  <1>2. corpus.tf[t][d] \in 0..MaxTf /\ corpus.norm[d] \in Norms
    BY <1>1, Zenon
  <1>3. MaxTf \in Nat /\ Norms \subseteq Nat \ {0}
    BY WandAssumption, Zenon
  <1>4. corpus.norm[d] \in Nat \ {0}
    BY <1>2, <1>3, Zenon
  <1> QED
    BY <1>2, <1>3, <1>4

\* The score of a document for a term it contains.
LEMMA DocScoreIs ==
    ASSUME CorpusOk, NEW t \in Terms, NEW d \in DocsOf(t)
    PROVE  DocScore(t, d) \in Nat
  <1>1. d \in Docs /\ DocsOf(t) # {}
    BY DocsFacts, Zenon
  <1>2. PICK f \in Nat, n \in Nat \ {0} : f = corpus.tf[t][d] /\ n = corpus.norm[d]
    BY <1>1, CorpusFacts, Zenon
  <1>3. f <= f /\ n <= n
    BY <1>2
  <1>4. Score(t, f, n) \in Nat
    BY <1>1, <1>3, ScoreMono, Zenon
  <1> QED
    BY <1>2, <1>4, Zenon DEF DocScore

\* The block-max score bounds the score of every document of the window, although its
\* frequency and its norm may come from different documents.
LEMMA BlockMaxFacts ==
    ASSUME CorpusOk, NEW t \in Terms, NEW docs, Range(docs) \subseteq DocsOf(t), Range(docs) # {}
    PROVE  BlockMax(t, docs) \in Nat /\ \A d \in Range(docs) : DocScore(t, d) <= BlockMax(t, docs)
  <1>1. Range(docs) \subseteq Docs /\ DocsOf(t) # {}
    BY DocsFacts, Zenon
  <1> DEFINE F == {corpus.tf[t][d] : d \in Range(docs)}
             N == {corpus.norm[d] : d \in Range(docs)}
  <1>2. F \subseteq Nat /\ F # {} /\ N \subseteq Nat \ {0} /\ N # {} /\ N \subseteq Nat /\ MaxTf \in Nat
        /\ \A y \in F : y <= MaxTf
    BY <1>1, CorpusFacts, WandAssumption, Zenon
  <1>3. PICK g, m : g = Max(F) /\ m = Min(N)
    BY Zenon
  <1>4. g \in F /\ \A y \in F : g >= y
    <2> HIDE DEF F
    <2> QED
      BY <1>2, <1>3, MaxFacts, Zenon
  <1>5. m \in N /\ \A y \in N : m <= y
    <2> HIDE DEF N
    <2> QED
      BY <1>2, <1>3, MinFacts, Zenon
  <1>6. g \in Nat /\ m \in Nat \ {0}
    BY <1>2, <1>4, <1>5, Zenon
  <1>7. BlockMax(t, docs) = Score(t, g, m)
    BY <1>3, Zenon DEF BlockMax
  <1>8. ASSUME NEW d \in Range(docs)
        PROVE  BlockMax(t, docs) \in Nat /\ DocScore(t, d) <= BlockMax(t, docs)
    <2>1. PICK f \in Nat, n \in Nat \ {0} : f = corpus.tf[t][d] /\ n = corpus.norm[d]
      BY <1>1, CorpusFacts, Zenon
    <2>2. g >= f /\ m <= n
      BY <1>4, <1>5, <2>1, Zenon
    <2>3. f <= g
      BY <1>6, <2>1, <2>2
    <2>4. Score(t, g, m) \in Nat /\ Score(t, f, n) <= Score(t, g, m)
      BY <1>1, <1>6, <2>1, <2>2, <2>3, ScoreMono, Zenon
    <2> QED
      BY <1>7, <2>1, <2>4, Zenon DEF DocScore
  <1> QED
    BY <1>8, Zenon

----------------------------------------------------------------------------
(* Postings and windows of a term. *)

\* DocSeq lists the documents of a term, ascending.
LEMMA DocSeqFacts ==
    ASSUME NEW t, NEW n, n = Df(t), NEW ds, ds = DocSeq(t)
    PROVE  /\ n \in Nat /\ ds \in [1..n -> DocsOf(t)] /\ Len(ds) = n
           /\ \A i, j \in 1..n : i < j => ds[i] < ds[j]
           /\ \A i, j \in 1..n : i <= j => ds[i] <= ds[j]
           /\ \A d \in DocsOf(t) : \E i \in 1..n : ds[i] = d
  <1>1. DocsOf(t) \subseteq Nat /\ IsFiniteSet(DocsOf(t)) /\ n \in Nat /\ n = Cardinality(DocsOf(t))
    BY DocsFacts, Zenon DEF Df
  <1>2. Listed(DocsOf(t), ds)
    BY Zenon DEF DocSeq, Ascending, Listed
  <1>3. /\ ds \in [1..n -> DocsOf(t)]
        /\ \A i, j \in 1..n : i < j => ds[i] < ds[j]
        /\ \A d \in DocsOf(t) : \E i \in 1..n : ds[i] = d
    BY <1>1, <1>2, ListFacts
  <1>4. Len(ds) = n
    BY <1>1, <1>3
  <1>5. ASSUME NEW i \in 1..n, NEW j \in 1..n, i <= j
        PROVE  ds[i] <= ds[j]
    <2>1. i = j \/ i < j
      BY <1>1, <1>5
    <2>2. ds[i] \in Nat /\ ds[j] \in Nat
      BY <1>1, <1>3
    <2> QED
      BY <1>3, <2>1, <2>2
  <1> QED
    BY <1>1, <1>3, <1>4, <1>5, Zenon

\* Postings lists them with their scores.
LEMMA PostingsFacts ==
    ASSUME NEW t, NEW n, n = Df(t), NEW fl, fl = Postings(t)
    PROVE  /\ DOMAIN fl = 1..n /\ Len(fl) = n
           /\ \A p \in 1..n : fl[p].docid = DocSeq(t)[p] /\ fl[p].score = DocScore(t, DocSeq(t)[p])
  <1>1. n \in Nat
    BY DocsFacts, Zenon
  <1>2. DOMAIN fl = 1..n /\ \A p \in 1..n : fl[p] = [docid |-> DocSeq(t)[p], score |-> DocScore(t, DocSeq(t)[p])]
    BY Zenon DEF Postings
  <1>3. Len(fl) = n
    BY <1>1, <1>2
  <1>4. \A p \in 1..n : fl[p].docid = DocSeq(t)[p] /\ fl[p].score = DocScore(t, DocSeq(t)[p])
    BY <1>2
  <1> QED
    BY <1>2, <1>3, <1>4, Zenon

\* Windows w give every document of t a bound at or after it.
WindowsOk(w, t) ==
    /\ \E n \in Nat : DOMAIN w = 1..n
    /\ \A j \in DOMAIN w : w[j].max \in Nat /\ w[j].last \in Nat
    /\ \A d \in DocsOf(t) : \E j \in DOMAIN w : d <= w[j].last /\ DocScore(t, d) <= w[j].max

\* One window over all postings does.
LEMMA SingleOk ==
    ASSUME CorpusOk, NEW t \in Terms, DocsOf(t) # {}
    PROVE  WindowsOk(SingleWindowFallback(t), t)
  <1>1. PICK n, ds, w : n = Df(t) /\ ds = DocSeq(t) /\ w = SingleWindowFallback(t)
    BY Zenon
  <1>2. /\ n \in Nat /\ ds \in [1..n -> DocsOf(t)]
        /\ \A i, j \in 1..n : i <= j => ds[i] <= ds[j]
        /\ \A d \in DocsOf(t) : \E i \in 1..n : ds[i] = d
    BY <1>1, DocSeqFacts
  <1> DEFINE S == {DocScore(t, d) : d \in DocsOf(t)}
  <1>3. S \subseteq Nat /\ S # {}
    BY DocScoreIs, Zenon
  <1>4. IsFiniteSet(S)
    <2>1. [d \in DocsOf(t) |-> DocScore(t, d)] \in Surjection(DocsOf(t), S)
      BY Zenon DEF Surjection
    <2> QED
      BY <2>1, DocsFacts, FS_Surjection, Zenon
  <1>5. PICK m : m = Max(S)
    BY Zenon
  <1>6. m \in Nat /\ \A y \in S : y <= m
    <2> HIDE DEF S
    <2>1. PICK b \in Nat : \A y \in S : y <= b
      BY <1>3, <1>4, FiniteBound, Zenon
    <2>2. m \in S /\ \A y \in S : m >= y
      BY <1>3, <1>5, <2>1, MaxFacts, Zenon
    <2> QED
      BY <1>3, <2>2
  <1>7. w = <<[last |-> ds[n], max |-> m]>>
    BY <1>1, <1>5, Zenon DEF SingleWindowFallback
  <1>8. DOMAIN w = 1..1 /\ w[1].last = ds[n] /\ w[1].max = m /\ 1 \in Nat
    BY <1>7
  <1>9. n \in 1..n /\ \A i \in 1..n : i <= n
    <2>1. n # 0
      BY <1>1, DocsFacts
    <2> QED
      BY <1>2, <2>1
  <1>10. ds[n] \in Nat /\ \A j \in 1..1 : j = 1
    BY <1>2, <1>9, DocsFacts
  <1>11. ASSUME NEW d \in DocsOf(t)
         PROVE  d <= ds[n] /\ DocScore(t, d) <= m
    <2>1. PICK i \in 1..n : ds[i] = d
      BY <1>2, Zenon
    <2> QED
      BY <1>2, <1>6, <1>9, <2>1, Zenon
  <1>12. 1 \in 1..1
    OBVIOUS
  <1>13. \A j \in DOMAIN w : w[j].max \in Nat /\ w[j].last \in Nat
    BY <1>6, <1>8, <1>10, Zenon
  <1>14. \A d \in DocsOf(t) : \E j \in DOMAIN w : d <= w[j].last /\ DocScore(t, d) <= w[j].max
    BY <1>8, <1>11, <1>12, Zenon
  <1> QED
    BY <1>1, <1>8, <1>13, <1>14, Zenon DEF WindowsOk

\* Windows of c postings cut the places 1..a: window w is f..e.
Cut(a, c, w, f, e) == f = (w - 1) * c + 1 /\ e = Min({f + c - 1, a})

\* A window is not empty and lies within the postings.
LEMMA CutInside ==
    ASSUME NEW a \in Nat \ {0}, NEW c \in Nat \ {0}, NEW w \in 1..((a + c - 1) \div c),
           NEW f, NEW e, Cut(a, c, w, f, e)
    PROVE  f \in 1..a /\ e \in f..a
  <1>1. PICK n \in Nat \ {0} : n = (a + c - 1) \div c /\ (n - 1) * c < a
    BY Ceiling, Zenon
  <1>2. w \in Nat /\ 1 <= w /\ w <= n /\ w - 1 \in Nat /\ n - 1 \in Nat
    BY <1>1
  <1>3. PICK v \in Nat, m \in Nat : v = w - 1 /\ m = n - 1 /\ v <= m
    BY <1>2
  <1>4. v * c \in Nat /\ v * c < a
    <2>1. CASE v = m
      BY <1>1, <1>3, <2>1
    <2>2. CASE v < m
      <3>1. v * c \in Nat /\ m * c \in Nat /\ v * c + c <= m * c
        BY <2>2, Multiples
      <3>2. m * c < a
        BY <1>1, <1>3
      <3> QED
        BY <3>1, <3>2
    <2> QED
      BY <1>3, <2>1, <2>2
  <1>5. PICK x \in Nat : x = v * c
    BY <1>4
  <1>6. f = x + 1
    BY <1>3, <1>5 DEF Cut
  <1>7. f \in Nat /\ f + c - 1 \in Nat /\ f <= f + c - 1 /\ f <= a /\ 1 <= f
    BY <1>4, <1>5, <1>6
  <1>8. e = IF f + c - 1 <= a THEN f + c - 1 ELSE a
    <2>1. e = Min({f + c - 1, a})
      BY DEF Cut
    <2> QED
      BY <1>7, <2>1, MinOfTwo
  <1> QED
    BY <1>7, <1>8

\* Every place is in a window.
LEMMA CutCovers ==
    ASSUME NEW a \in Nat \ {0}, NEW c \in Nat \ {0}, NEW p \in 1..a
    PROVE  \E w \in 1..((a + c - 1) \div c) : \A f, e : Cut(a, c, w, f, e) => p \in f..e
  <1>1. PICK n \in Nat \ {0} : n = (a + c - 1) \div c /\ a <= n * c
    BY Ceiling
  <1>2. PICK q \in Nat : q = p - 1
    OBVIOUS
  <1>3. PICK v \in Nat : v = q \div c /\ v * c <= q /\ q < v * c + c /\ v * c \in Nat
    <2>1. q \div c \in Nat
      BY <1>2, SMT
    <2>2. PICK v \in Nat : v = q \div c
      BY <2>1
    <2>3. v * c <= q /\ q < v * c + c /\ v * c \in Nat
      BY <2>2, SMT
    <2> QED
      BY <2>2, <2>3
  <1>4. v < n
    <2>1. SUFFICES ASSUME v >= n PROVE FALSE
      BY <1>1
    <2>2. n = v \/ n < v
      BY <2>1
    <2>3. n * c <= v * c /\ n * c \in Nat
      <3>1. CASE n = v
        BY <1>3, <3>1
      <3>2. CASE n < v
        <4>1. n * c \in Nat /\ v * c \in Nat /\ n * c + c <= v * c
          BY <3>2, Multiples
        <4> QED
          BY <4>1
      <3> QED
        BY <2>2, <3>1, <3>2
    <2> QED
      BY <1>1, <1>2, <1>3, <2>3
  <1>5. PICK w \in Nat : w = v + 1
    OBVIOUS
  <1>6. w \in 1..n /\ w - 1 = v
    BY <1>4, <1>5
  <1>7. PICK x \in Nat : x = v * c /\ x <= q /\ q < x + c
    BY <1>3
  <1>8. ASSUME NEW f, NEW e, Cut(a, c, w, f, e)
        PROVE  p \in f..e
    <2>1. f = x + 1
      BY <1>6, <1>7, <1>8 DEF Cut
    <2>2. f \in Nat /\ f <= p /\ p <= f + c - 1 /\ f + c - 1 \in Nat /\ p <= a /\ p \in Nat
      BY <1>2, <1>7, <2>1
    <2>3. e = Min({f + c - 1, a})
      BY <1>8 DEF Cut
    <2>4. e = IF f + c - 1 <= a THEN f + c - 1 ELSE a
      BY <2>2, <2>3, MinOfTwo
    <2> QED
      BY <2>2, <2>4
  <1> QED
    BY <1>1, <1>6, <1>8, Zenon

\* s holds the places f to e of ds.
Piece(ds, f, e, s) == Range(s) = {ds[p] : p \in f..e} /\ s[Len(s)] = ds[e]

\* What a sub-sequence holds.
LEMMA SubSeqFacts ==
    ASSUME NEW S, NEW n \in Nat, NEW ds \in [1..n -> S], NEW f \in 1..n, NEW e \in f..n,
           NEW s, s = SubSeq(ds, f, e)
    PROVE  Piece(ds, f, e, s)
  <1>2. ds \in Seq(S)
    BY SMT
  <1>3. s = [i \in 1..(e - f + 1) |-> ds[i + f - 1]]
    BY SMT
  <1>4. PICK m \in Nat : m = e - f + 1 /\ m # 0
    OBVIOUS
  <1>5. DOMAIN s = 1..m /\ Len(s) = m /\ \A i \in 1..m : s[i] = ds[i + f - 1]
    BY <1>3, <1>4
  <1>6. s[Len(s)] = ds[e]
    BY <1>4, <1>5
  <1>7. \A i \in 1..m : i + f - 1 \in f..e
    BY <1>4
  <1>8. \A p \in f..e : p - f + 1 \in 1..m /\ (p - f + 1) + f - 1 = p
    BY <1>4
  <1>9. Range(s) = {s[i] : i \in 1..m}
    BY <1>5, Zenon DEF Range
  <1>10. Range(s) \subseteq {ds[p] : p \in f..e}
    <2>1. SUFFICES ASSUME NEW i \in 1..m PROVE s[i] \in {ds[p] : p \in f..e}
      BY <1>9, Zenon
    <2> QED
      BY <1>5, <1>7, Zenon
  <1>11. {ds[p] : p \in f..e} \subseteq Range(s)
    <2>1. SUFFICES ASSUME NEW p \in f..e PROVE ds[p] \in Range(s)
      BY Zenon
    <2>2. PICK i : i = p - f + 1
      BY Zenon
    <2>3. i \in 1..m /\ i + f - 1 = p
      BY <1>8, <2>2
    <2> QED
      BY <1>5, <1>9, <2>3, Zenon
  <1> QED
    BY <1>6, <1>10, <1>11, Zenon DEF Piece

\* The windows of the prelude do: each document lies in one, whose bound covers it.
LEMMA BuildOk ==
    ASSUME CorpusOk, NEW t \in Terms, DocsOf(t) # {}
    PROVE  WindowsOk(BuildWindowBounds(t), t)
  <1>1. PICK a, ds, c, ww, b :
          a = Df(t) /\ ds = DocSeq(t) /\ c = WindowDocs /\ ww = WindowsOf(t) /\ b = BuildWindowBounds(t)
    BY Zenon
  <1>2. a \in Nat \ {0} /\ c \in Nat \ {0} /\ (a + c - 1) \div c \in Nat
    <2>1. a \in Nat \ {0} /\ c \in Nat \ {0}
      BY <1>1, DocsFacts, WandAssumption
    <2> QED
      BY <2>1, Ceiling
  <1>3. PICK n \in Nat : n = (a + c - 1) \div c
    BY <1>2
  <1>4. /\ ds \in [1..a -> DocsOf(t)]
        /\ \A i, j \in 1..a : i <= j => ds[i] <= ds[j]
        /\ \A d \in DocsOf(t) : \E i \in 1..a : ds[i] = d
    BY <1>1, DocSeqFacts
  <1>5. DOMAIN ww = 1..n /\ \A w \in 1..n : \E f, e : Cut(a, c, w, f, e) /\ ww[w] = SubSeq(ds, f, e)
    BY <1>1, <1>3, Zenon DEF WindowsOf, Cut
  <1>6. /\ DOMAIN b = 1..n
        /\ \A w \in 1..n : b[w] = [last |-> ww[w][Len(ww[w])], max |-> BlockMax(t, ww[w])]
    BY <1>1, <1>5, Zenon DEF BuildWindowBounds
  <1>7. \A w \in 1..n : b[w].last = ww[w][Len(ww[w])] /\ b[w].max = BlockMax(t, ww[w])
    BY <1>6
  <1>8. ASSUME NEW w \in 1..n, NEW f, NEW e, Cut(a, c, w, f, e), ww[w] = SubSeq(ds, f, e)
        PROVE  /\ f \in 1..a /\ e \in f..a
               /\ b[w].max \in Nat /\ b[w].last \in Nat /\ b[w].last = ds[e]
               /\ \A p \in f..e : DocScore(t, ds[p]) <= b[w].max
    <2>1. f \in 1..a /\ e \in f..a
      BY <1>2, <1>3, <1>8, CutInside
    <2>2. Range(ww[w]) = {ds[p] : p \in f..e} /\ ww[w][Len(ww[w])] = ds[e] /\ e \in f..e /\ e \in 1..a
      <3>1. a \in Nat /\ ds \in [1..a -> DocsOf(t)]
        BY <1>2, <1>4, Zenon
      <3>2. PICK s : s = SubSeq(ds, f, e) /\ s = ww[w]
        BY <1>8, Zenon
      <3>3. Piece(ds, f, e, s)
        BY <2>1, <3>1, <3>2, SubSeqFacts, Zenon
      <3>4. e \in f..e /\ e \in 1..a
        BY <1>2, <2>1
      <3> QED
        BY <3>2, <3>3, <3>4, Zenon DEF Piece
    <2>3. f..e \subseteq 1..a
      BY <1>2, <2>1
    <2>4. Range(ww[w]) \subseteq DocsOf(t) /\ Range(ww[w]) # {} /\ ds[e] \in Nat
      <3>1. \A p \in f..e : ds[p] \in DocsOf(t)
        BY <1>4, <2>3, Zenon
      <3> QED
        BY <2>2, <3>1, DocsFacts, Zenon
    <2>5. BlockMax(t, ww[w]) \in Nat /\ \A d \in Range(ww[w]) : DocScore(t, d) <= BlockMax(t, ww[w])
      BY <2>4, BlockMaxFacts, Zenon
    <2> QED
      BY <1>7, <2>1, <2>2, <2>4, <2>5, Zenon
  <1>9. \A j \in DOMAIN b : b[j].max \in Nat /\ b[j].last \in Nat
    BY <1>5, <1>6, <1>8, Zenon
  <1>10. ASSUME NEW d \in DocsOf(t)
         PROVE  \E j \in DOMAIN b : d <= b[j].last /\ DocScore(t, d) <= b[j].max
    <2>1. PICK p \in 1..a : ds[p] = d
      BY <1>4, Zenon
    <2>2. PICK w \in 1..n : \A f, e : Cut(a, c, w, f, e) => p \in f..e
      BY <1>2, <1>3, CutCovers, Zenon
    <2>3. PICK f, e : Cut(a, c, w, f, e) /\ ww[w] = SubSeq(ds, f, e)
      BY <1>5, Zenon
    <2>4. /\ p \in f..e /\ e \in f..a /\ f \in 1..a /\ b[w].last = ds[e]
          /\ DocScore(t, ds[p]) <= b[w].max
      BY <1>8, <2>2, <2>3
    <2>5. p <= e /\ e \in 1..a
      BY <2>4
    <2> QED
      BY <1>4, <1>6, <2>1, <2>4, <2>5, Zenon
  <1>11. \E m \in Nat : DOMAIN b = 1..m
    BY <1>6, Zenon
  <1> QED
    BY <1>1, <1>9, <1>10, <1>11, Zenon DEF WindowsOk

----------------------------------------------------------------------------
(* Cursors. *)

\* c is a cursor over the postings of t.
CursorOk(c, t) ==
    c \in [postings : {Postings(t)}, windows : CursorWindows(t), pos : 1..(Df(t) + 1)]

\* t is a term of the index, with postings.
TermOk(t) == CorpusOk /\ t \in Terms /\ DocsOf(t) # {}

\* What a cursor's fields hold.
LEMMA CursorFields ==
    ASSUME NEW t, NEW c, CursorOk(c, t), NEW n, n = Df(t)
    PROVE  /\ n \in Nat /\ Len(c.postings) = n /\ c.postings = Postings(t) /\ c.pos \in 1..(n + 1)
           /\ c.windows \in CursorWindows(t)
           /\ CurrentDoc(c) = IF c.pos <= n THEN DocSeq(t)[c.pos] ELSE NoDoc
           /\ c.pos <= n => c.postings[c.pos].score = DocScore(t, DocSeq(t)[c.pos])
  <1>1. c.postings = Postings(t) /\ c.windows \in CursorWindows(t) /\ c.pos \in 1..(n + 1)
    BY DEF CursorOk
  <1>2. PICK fl : fl = Postings(t)
    BY Zenon
  <1>3. /\ Len(fl) = n
        /\ \A p \in 1..n : fl[p].docid = DocSeq(t)[p] /\ fl[p].score = DocScore(t, DocSeq(t)[p])
    BY <1>2, PostingsFacts
  <1>4. n \in Nat
    BY DocsFacts, Zenon
  <1>5. c.pos <= n => c.pos \in 1..n
    BY <1>1, <1>4
  <1> QED
    BY <1>1, <1>2, <1>3, <1>4, <1>5, Zenon DEF CurrentDoc

\* Whichever windows BuildCursor gave the cursor, they bound its documents.
LEMMA CursorWindowsOk ==
    ASSUME NEW t, TermOk(t), NEW c, CursorOk(c, t)
    PROVE  WindowsOk(c.windows, t)
  <1>1. CorpusOk /\ t \in Terms /\ DocsOf(t) # {}
    BY DEF TermOk
  <1>2. c.windows \in CursorWindows(t)
    BY CursorFields, Zenon
  <1>3. c.windows = BuildWindowBounds(t) \/ c.windows = SingleWindowFallback(t)
    BY <1>2, Zenon DEF CursorWindows
  <1> QED
    BY <1>1, <1>3, BuildOk, SingleOk, Zenon

\* Where a cursor stands.
Stands(c, t, d) ==
    /\ d \in Nat /\ d <= NoDoc /\ (d = NoDoc \/ d \in DocsOf(t)) /\ TermBoundAt(c, d) \in Nat
    /\ d # NoDoc => c.pos <= Df(t) /\ c.postings[c.pos].score = DocScore(t, d)
    /\ d = NoDoc => c.pos = Df(t) + 1

\* A cursor stands on a document of its term, with that document's score, or behind
\* the last posting.
LEMMA CursorStands ==
    ASSUME NEW t, TermOk(t), NEW c, CursorOk(c, t), NEW d, d = CurrentDoc(c)
    PROVE  Stands(c, t, d)
  <1>1. PICK n, ds : n = Df(t) /\ ds = DocSeq(t)
    BY Zenon
  <1>2. /\ n \in Nat /\ c.pos \in 1..(n + 1)
        /\ d = IF c.pos <= n THEN ds[c.pos] ELSE NoDoc
        /\ c.pos <= n => c.postings[c.pos].score = DocScore(t, ds[c.pos])
    BY <1>1, CursorFields
  <1>3. ds \in [1..n -> DocsOf(t)]
    BY <1>1, DocSeqFacts
  <1>4. c.pos <= n => c.pos \in 1..n
    BY <1>2
  <1>5. c.pos <= n => d \in DocsOf(t)
    BY <1>2, <1>3, <1>4, Zenon
  <1>6. /\ \A e \in DocsOf(t) : e \in Nat /\ e < NoDoc /\ e <= NoDoc /\ e # NoDoc
        /\ NoDoc \in Nat /\ NoDoc <= NoDoc
    <2>1. \A e \in DocsOf(t) : e \in Docs /\ e \in Nat
      BY DocsFacts, Zenon
    <2>2. NoDoc \in Nat /\ \A e \in Docs : e < NoDoc
      BY DocsAre, Zenon
    <2> QED
      BY <2>1, <2>2
  <1>7. d \in Nat /\ d <= NoDoc /\ (d = NoDoc \/ d \in DocsOf(t))
    BY <1>2, <1>5, <1>6, Zenon
  <1>8. d # NoDoc => c.pos <= n /\ c.postings[c.pos].score = DocScore(t, d)
    BY <1>2, Zenon
  <1>9. d = NoDoc => c.pos = n + 1
    <2>1. d = NoDoc => ~(c.pos <= n)
      BY <1>5, <1>6, Zenon
    <2> QED
      BY <1>2, <2>1
  <1>10. TermBoundAt(c, d) \in Nat
    <2>1. PICK w : w = c.windows
      BY Zenon
    <2>2. PICK m \in Nat : DOMAIN w = 1..m
      BY <2>1, CursorWindowsOk, Zenon DEF WindowsOk
    <2>3. \A j \in DOMAIN w : w[j].max \in Nat
      BY <2>1, CursorWindowsOk, Zenon DEF WindowsOk
    <2>4. PICK R : R = {j \in DOMAIN w : d <= w[j].last}
      BY Zenon
    <2>5. R \subseteq Nat /\ R \subseteq DOMAIN w
      BY <2>2, <2>4
    <2>6. R # {} => w[Min(R)].max \in Nat
      BY <2>3, <2>5, MinFacts, Zenon
    <2>7. TermBoundAt(c, d) = IF R = {} THEN 0 ELSE w[Min(R)].max
      BY <2>1, <2>4, Zenon DEF TermBoundAt
    <2> QED
      BY <2>6, <2>7
  <1> QED
    BY <1>1, <1>7, <1>8, <1>9, <1>10, Zenon DEF Stands

\* No window bounds higher than an earlier one.
Falls(c) == \A v, w \in DOMAIN c.windows : v < w => c.windows[v].max >= c.windows[w].max

\* Then the bound at the current document covers every later one.
LEMMA FallingBound ==
    ASSUME NEW t, TermOk(t), NEW c, CursorOk(c, t), Falls(c), NEW d \in Nat,
           NEW e \in DocsOf(t), d <= e
    PROVE  DocScore(t, e) <= TermBoundAt(c, d)
  <1>1. PICK w : w = c.windows
    BY Zenon
  <1>2. PICK m \in Nat : DOMAIN w = 1..m
    BY <1>1, CursorWindowsOk, Zenon DEF WindowsOk
  <1>3. \A j \in DOMAIN w : w[j].max \in Nat /\ w[j].last \in Nat
    BY <1>1, CursorWindowsOk, Zenon DEF WindowsOk
  <1>4. PICK j \in DOMAIN w : e <= w[j].last /\ DocScore(t, e) <= w[j].max
    BY <1>1, CursorWindowsOk, Zenon DEF WindowsOk
  <1>5. PICK R : R = {i \in DOMAIN w : d <= w[i].last}
    BY Zenon
  <1>6. j \in R
    <2>1. e \in Nat /\ w[j].last \in Nat
      BY <1>3, DocsFacts, Zenon
    <2>2. d <= w[j].last
      BY <1>4, <2>1
    <2> QED
      BY <1>5, <2>2, Zenon
  <1>7. R \subseteq Nat /\ R \subseteq DOMAIN w
    BY <1>2, <1>5
  <1>8. PICK i \in R : i = Min(R) /\ i <= j
    BY <1>6, <1>7, MinFacts, Zenon
  <1>9. TermBoundAt(c, d) = w[i].max
    BY <1>1, <1>5, <1>8, Zenon DEF TermBoundAt
  <1>10. w[i].max \in Nat /\ w[j].max \in Nat /\ DocScore(t, e) \in Nat /\ i \in DOMAIN w
    <2>1. CorpusOk /\ t \in Terms
      BY DEF TermOk
    <2> QED
      BY <1>3, <1>7, <2>1, DocScoreIs, Zenon
  <1>11. i = j \/ i < j
    BY <1>6, <1>7, <1>8
  <1>12. i < j => w[i].max >= w[j].max
    BY <1>1, <1>10, Zenon DEF Falls
  <1> QED
    BY <1>4, <1>9, <1>10, <1>11, <1>12

\* c went on to c2, the first posting at or after x.
Moved(c, c2, t, x) ==
    /\ CursorOk(c2, t) /\ c2.windows = c.windows /\ c2.postings = c.postings /\ c2.pos > c.pos
    /\ CurrentDoc(c2) >= x /\ \A e \in DocsOf(t) : e < CurrentDoc(c2) => e < x

\* A cursor lands at x when the posting before is below x and the one it is on is not.
LEMMA Landed ==
    ASSUME NEW t, NEW c, CursorOk(c, t), NEW c2, NEW n, n = Df(t), NEW ds, ds = DocSeq(t),
           NEW p \in 1..n, c.pos <= p, c2 = [c EXCEPT !.pos = p + 1],
           NEW x \in Nat, x <= NoDoc, ds[p] < x, p + 1 <= n => ds[p + 1] >= x
    PROVE  Moved(c, c2, t, x)
  <1>1. n \in Nat /\ c.pos \in 1..(n + 1)
    BY CursorFields, Zenon
  <1>2. p + 1 \in 1..(n + 1) /\ p + 1 > c.pos
    BY <1>1
  <1>3. /\ c \in [postings : {Postings(t)}, windows : CursorWindows(t), pos : 1..(n + 1)]
        /\ c2 \in [postings : {Postings(t)}, windows : CursorWindows(t), pos : 1..(n + 1)]
        /\ c2.pos = p + 1 /\ c2.windows = c.windows /\ c2.postings = c.postings
    BY <1>2 DEF CursorOk
  <1>4. CursorOk(c2, t)
    BY <1>3, Zenon DEF CursorOk
  <1>5. CurrentDoc(c2) = IF p + 1 <= n THEN ds[p + 1] ELSE NoDoc
    BY <1>3, <1>4, CursorFields
  <1>6. /\ ds \in [1..n -> DocsOf(t)]
        /\ \A i, j \in 1..n : i <= j => ds[i] <= ds[j]
        /\ \A d \in DocsOf(t) : \E i \in 1..n : ds[i] = d
    BY DocSeqFacts
  <1>7. DocsOf(t) \subseteq Nat /\ NoDoc \in Nat
    BY DocsFacts, DocsAre, Zenon
  <1>8. CurrentDoc(c2) >= x
    BY <1>5, <1>7
  <1>9. ASSUME NEW e \in DocsOf(t), e < CurrentDoc(c2)
        PROVE  e < x
    <2>1. PICK i \in 1..n : ds[i] = e
      BY <1>6, Zenon
    <2>2. i <= p
      <3>1. SUFFICES ASSUME ~(i <= p) PROVE FALSE
        OBVIOUS
      <3>2. p + 1 <= i /\ p + 1 \in 1..n /\ p + 1 <= n
        BY <1>1, <3>1
      <3>3. ds[p + 1] <= ds[i] /\ ds[p + 1] \in Nat /\ ds[i] \in Nat
        BY <1>6, <1>7, <3>2, Zenon
      <3> QED
        BY <1>5, <1>9, <2>1, <3>2, <3>3
    <2>3. ds[i] <= ds[p] /\ ds[i] \in Nat /\ ds[p] \in Nat
      BY <1>6, <1>7, <2>2, Zenon
    <2> QED
      BY <2>1, <2>3
  <1>10. c2.pos > c.pos
    BY <1>2, <1>3
  <1> QED
    BY <1>3, <1>4, <1>8, <1>9, <1>10, Zenon DEF Moved

\* A scored cursor moves to its next posting.
LEMMA NextMoves ==
    ASSUME NEW t, TermOk(t), NEW c, CursorOk(c, t), NEW d, d = CurrentDoc(c), d # NoDoc
    PROVE  Moved(c, [c EXCEPT !.pos = @ + 1], t, d + 1)
  <1>1. PICK n, ds, p, c2 :
          n = Df(t) /\ ds = DocSeq(t) /\ p = c.pos /\ c2 = [c EXCEPT !.pos = @ + 1]
    BY Zenon
  <1>2. Stands(c, t, d)
    BY CursorStands, Zenon
  <1>3. d \in Nat /\ d <= NoDoc /\ p <= n
    BY <1>1, <1>2, Zenon DEF Stands
  <1>4. n \in Nat /\ p \in 1..(n + 1) /\ d = IF p <= n THEN ds[p] ELSE NoDoc
    BY <1>1, CursorFields
  <1>5. p \in 1..n /\ d = ds[p]
    BY <1>3, <1>4
  <1>6. c2 = [c EXCEPT !.pos = p + 1]
    BY <1>1
  <1>7. d + 1 \in Nat /\ d + 1 <= NoDoc /\ ds[p] < d + 1 /\ c.pos <= p
    <2>1. NoDoc \in Nat
      BY DocsAre
    <2> QED
      BY <1>1, <1>3, <1>5, <2>1
  <1>8. p + 1 <= n => ds[p + 1] >= d + 1
    <2>1. SUFFICES ASSUME p + 1 <= n PROVE ds[p + 1] >= d + 1
      OBVIOUS
    <2>2. p + 1 \in 1..n /\ p < p + 1
      BY <1>4, <1>5, <2>1
    <2>3. ds \in [1..n -> DocsOf(t)] /\ \A i, j \in 1..n : i < j => ds[i] < ds[j]
      BY <1>1, DocSeqFacts
    <2>4. ds[p] < ds[p + 1] /\ ds[p + 1] \in Nat
      BY <1>5, <2>2, <2>3, DocsFacts, Zenon
    <2> QED
      BY <1>3, <1>5, <2>4
  <1>9. Moved(c, c2, t, d + 1)
    BY <1>1, <1>5, <1>6, <1>7, <1>8, Landed
  <1> QED
    BY <1>1, <1>9, Zenon

\* A lagging cursor moves to the first posting at or after x.
LEMMA SkipMoves ==
    ASSUME NEW t, TermOk(t), NEW c, CursorOk(c, t), NEW x \in Nat, x <= NoDoc, CurrentDoc(c) < x
    PROVE  Moved(c, SkipTo(c, x), t, x)
  <1>1. PICK n, ds, q, c2, fl :
          n = Df(t) /\ ds = DocSeq(t) /\ q = c.pos /\ c2 = SkipTo(c, x) /\ fl = Postings(t)
    BY Zenon
  <1>2. /\ n \in Nat /\ q \in 1..(n + 1) /\ CurrentDoc(c) = IF q <= n THEN ds[q] ELSE NoDoc
        /\ Len(c.postings) = n /\ c.postings = fl
    BY <1>1, CursorFields
  <1>3. NoDoc \in Nat
    BY DocsAre
  <1>4. q \in 1..n /\ ds[q] < x
    <2>1. q <= n
      BY <1>2, <1>3
    <2> QED
      BY <1>2, <2>1
  <1>5. ds \in [1..n -> DocsOf(t)]
    BY <1>1, DocSeqFacts
  <1>6. \A p \in 1..n : fl[p].docid = ds[p]
    BY <1>1, PostingsFacts
  <1>7. \A p \in 1..n : ds[p] \in Nat
    BY <1>5, DocsFacts, Zenon
  <1>8. PICK A : A = {p \in q..n : fl[p].docid >= x}
    BY Zenon
  <1>9. \A p \in q..n : p \in 1..n
    BY <1>4
  <1>10. \A p \in q..n : p \in A <=> ds[p] >= x
    BY <1>6, <1>8, <1>9, Zenon
  <1>11. PICK z : z = IF A = {} THEN n + 1 ELSE Min(A)
    BY Zenon
  <1>12. c2 = [c EXCEPT !.pos = z]
    <2>1. SkipTo(c, x) = LET ahead == {p \in c.pos..Len(c.postings) : c.postings[p].docid >= x}
                         IN  [c EXCEPT !.pos = IF ahead = {} THEN Len(c.postings) + 1 ELSE Min(ahead)]
      BY DEF SkipTo
    <2>2. A = {p \in c.pos..Len(c.postings) : c.postings[p].docid >= x}
      BY <1>1, <1>2, <1>8, Zenon
    <2>3. z = IF {p \in c.pos..Len(c.postings) : c.postings[p].docid >= x} = {}
              THEN Len(c.postings) + 1 ELSE Min({p \in c.pos..Len(c.postings) : c.postings[p].docid >= x})
      BY <1>2, <1>11, <2>2, Zenon
    <2> QED
      BY <1>1, <2>1, <2>3, Zenon
  <1>13. /\ z \in q..(n + 1) /\ (z <= n => ds[z] >= x)
         /\ \A p \in q..n : p < z => ~(p \in A)
    <2>1. CASE A = {}
      BY <1>2, <1>4, <1>11, <2>1
    <2>2. CASE A # {}
      <3>1. A \subseteq Nat /\ A \subseteq q..n
        BY <1>4, <1>8
      <3>2. z \in A /\ \A p \in A : z <= p
        BY <1>11, <2>2, <3>1, MinFacts, Zenon
      <3>3. z \in q..n /\ ds[z] >= x
        BY <1>10, <3>1, <3>2, Zenon
      <3>4. z \in q..(n + 1)
        BY <1>2, <1>4, <3>3
      <3>5. \A p \in q..n : p < z => ~(z <= p)
        BY <1>2, <1>4, <3>3
      <3> QED
        BY <3>2, <3>3, <3>4, <3>5, Zenon
    <2> QED
      BY <2>1, <2>2, Zenon
  <1>14. z # q
    BY <1>2, <1>4, <1>7, <1>13
  <1>15. PICK p \in 1..n : z = p + 1 /\ q <= p
    <2>1. z - 1 \in 1..n /\ z = (z - 1) + 1 /\ q <= z - 1
      BY <1>2, <1>4, <1>13, <1>14
    <2> QED
      BY <2>1, Zenon
  <1>16. p \in q..n /\ p < z
    BY <1>2, <1>4, <1>15
  <1>17. ds[p] < x
    <2>1. ~(ds[p] >= x)
      BY <1>10, <1>13, <1>16, Zenon
    <2> QED
      BY <1>7, <2>1
  <1>18. c2 = [c EXCEPT !.pos = p + 1] /\ c.pos <= p /\ (p + 1 <= n => ds[p + 1] >= x)
    BY <1>1, <1>12, <1>13, <1>15, Zenon
  <1>19. Moved(c, c2, t, x)
    BY <1>1, <1>17, <1>18, Landed
  <1> QED
    BY <1>1, <1>19, Zenon

----------------------------------------------------------------------------
(* TopK. *)

\* S is a finite set of hits, one for each of its documents.
HitsOk(S) ==
    /\ IsFiniteSet(S)
    /\ \A e \in S : e.score \in Nat /\ e.docid \in Nat
    /\ \A e, f \in S : e.docid = f.docid => e = f

\* The comparison of hits is a strict total order.
LEMMA BetterOrder ==
    ASSUME NEW S, HitsOk(S)
    PROVE  /\ \A e \in S : ~Better(e, e)
           /\ \A e, f \in S : e # f => Better(e, f) \/ Better(f, e)
           /\ \A e, f \in S : Better(e, f) => ~Better(f, e) /\ e.score >= f.score /\ e # f
           /\ \A e, f, g \in S : Better(e, f) /\ Better(f, g) => Better(e, g)
  <1>1. \A e \in S : e.score \in Nat /\ e.docid \in Nat
    BY DEF HitsOk
  <1>2. ASSUME NEW e \in S, NEW f \in S
        PROVE  /\ ~Better(e, e)
               /\ e # f => Better(e, f) \/ Better(f, e)
               /\ Better(e, f) => ~Better(f, e) /\ e.score >= f.score
               /\ Better(e, f) => e # f
    <2>1. e # f => e.docid # f.docid
      BY DEF HitsOk
    <2>2. ~Better(e, e)
      BY <1>1 DEF Better
    <2>3. e # f => Better(e, f) \/ Better(f, e)
      BY <1>1, <2>1 DEF Better
    <2>4. Better(e, f) => ~Better(f, e) /\ e.score >= f.score
      BY <1>1 DEF Better
    <2> QED
      BY <2>2, <2>3, <2>4, Zenon
  <1>3. ASSUME NEW e \in S, NEW f \in S, NEW g \in S, Better(e, f), Better(f, g)
        PROVE  Better(e, g)
    BY <1>1, <1>3 DEF Better
  <1> QED
    BY <1>2, <1>3, Zenon

\* A subset of hits is one.
LEMMA SubHits ==
    ASSUME NEW S, HitsOk(S), NEW T \in SUBSET S
    PROVE  HitsOk(T)
  <1>1. IsFiniteSet(T)
    BY FS_Subset, Zenon DEF HitsOk
  <1> QED
    BY <1>1, Zenon DEF HitsOk

\* The hits of S better than e.
Above(S, e) == {f \in S : Better(f, e)}

\* s lists the n hits of S, best first.
Drained(S, n, s) ==
    /\ n \in Nat /\ s \in [1..n -> S]
    /\ \A i, j \in 1..n : i < j => Better(s[i], s[j])
    /\ \A e \in S : \E i \in 1..n : s[i] = e /\ Cardinality(Above(S, e)) = i - 1
    /\ \A i \in 1..n : Cardinality(Above(S, s[i])) = i - 1

\* What drain_sorted lists, best first.
LEMMA DrainFacts ==
    ASSUME NEW S, HitsOk(S), NEW n, n = Cardinality(S), NEW s, s = DrainSorted(S)
    PROVE  Drained(S, n, s)
  <1>1. PICK B : B = [e \in S |-> {f \in S : Better(f, e)}]
    BY Zenon
  <1>2. \A e \in S : B[e] = Above(S, e) /\ Above(S, e) = {f \in S : Better(f, e)}
    BY <1>1, Zenon DEF Above
  <1>3. Before(S, B)
    <2>0. \A e, f \in S : f \in B[e] <=> Better(f, e)
      BY <1>2, Zenon
    <2>1. B \in [S -> SUBSET S]
      BY <1>1, Zenon
    <2>2. \A e \in S : e \notin B[e]
      BY <2>0, BetterOrder, Zenon
    <2>3. \A e, f \in S : e # f => e \in B[f] \/ f \in B[e]
      BY <2>0, BetterOrder, Zenon
    <2>4. ASSUME NEW e \in S, NEW f \in S, f \in B[e], NEW g \in B[f]
          PROVE  g \in B[e]
      <3>1. Better(f, e) /\ Better(g, f) /\ g \in S
        BY <1>2, <2>4, Zenon
      <3>2. Better(g, e)
        BY <3>1, BetterOrder, Zenon
      <3> QED
        BY <1>2, <3>1, <3>2, Zenon
    <2> QED
      BY <2>1, <2>2, <2>3, <2>4, Zenon DEF Before
  <1>4. IsFiniteSet(S) /\ n \in Nat
    <2>1. IsFiniteSet(S)
      BY DEF HitsOk
    <2> QED
      BY <2>1, FS_CardinalityType, Zenon
  <1>5. Ranked(S, B, s)
    <2> DEFINE X(i) == CHOOSE e \in S : Cardinality({f \in S : Better(f, e)}) = i - 1
               Y(i) == CHOOSE e \in S : Cardinality(B[e]) = i - 1
    <2>1. ASSUME NEW i \in 1..n PROVE X(i) = Y(i)
      <3>1. \A e \in S : Cardinality({f \in S : Better(f, e)}) = i - 1 <=> Cardinality(B[e]) = i - 1
        BY <1>2, Zenon
      <3> QED
        BY <3>1
    <2>2. s = [i \in 1..n |-> X(i)]
      BY Zenon DEF DrainSorted
    <2>3. Ranked(S, B, s) <=> s = [i \in 1..n |-> Y(i)]
      BY Zenon DEF Ranked
    <2> HIDE DEF X, Y
    <2>4. [i \in 1..n |-> X(i)] = [i \in 1..n |-> Y(i)]
      BY <2>1, Zenon
    <2> QED
      BY <2>2, <2>3, <2>4, Zenon
  <1>6. /\ s \in [1..n -> S]
        /\ \A i \in 1..n : Cardinality(B[s[i]]) = i - 1
        /\ \A i, j \in 1..n : i < j => s[i] \in B[s[j]]
        /\ \A e \in S : \E i \in 1..n : s[i] = e /\ Cardinality(B[e]) = i - 1
    BY <1>3, <1>4, <1>5, RankList
  <1>7. \A i \in 1..n : Cardinality(Above(S, s[i])) = i - 1
    BY <1>2, <1>6, Zenon
  <1>8. \A i, j \in 1..n : i < j => Better(s[i], s[j])
    <2>1. ASSUME NEW i \in 1..n, NEW j \in 1..n, i < j
          PROVE  Better(s[i], s[j])
      <3>1. s[i] \in B[s[j]] /\ s[j] \in S
        BY <1>6, <2>1, Zenon
      <3>2. B[s[j]] = {f \in S : Better(f, s[j])}
        BY <1>2, <3>1, Zenon
      <3> QED
        BY <3>1, <3>2, Zenon
    <2> QED
      BY <2>1, Zenon
  <1>9. \A e \in S : \E i \in 1..n : s[i] = e /\ Cardinality(Above(S, e)) = i - 1
    <2>1. \A e \in S : B[e] = Above(S, e)
      BY <1>2, Zenon
    <2> QED
      BY <1>6, <2>1, ZenonT(60)
  <1> QED
    BY <1>4, <1>6, <1>7, <1>8, <1>9, Zenon DEF Drained

\* A heap that is not empty has a worst entry.
LEMMA WorstFacts ==
    ASSUME NEW h, HitsOk(h), h # {}, NEW w, w = Worst(h)
    PROVE  /\ w \in h /\ \A f \in h \ {w} : Better(f, w)
           /\ \A f \in h : f.score >= w.score
  <1>1. PICK n, s : n = Cardinality(h) /\ s = DrainSorted(h)
    BY Zenon
  <1>2. /\ n \in Nat /\ s \in [1..n -> h]
        /\ \A i, j \in 1..n : i < j => Better(s[i], s[j])
        /\ \A e \in h : \E i \in 1..n : s[i] = e
    <2>1. Drained(h, n, s)
      BY <1>1, DrainFacts, Zenon
    <2> QED
      BY <2>1, Zenon DEF Drained
  <1>3. n \in 1..n
    <2>1. PICK e \in h : TRUE
      BY Zenon
    <2>2. PICK i \in 1..n : s[i] = e
      BY <1>2, Zenon
    <2> QED
      BY <1>2, <2>2
  <1>4. s[n] \in h /\ \A f \in h \ {s[n]} : Better(f, s[n])
    <2>1. ASSUME NEW f \in h \ {s[n]} PROVE Better(f, s[n])
      <3>1. PICK i \in 1..n : s[i] = f
        BY <1>2, Zenon
      <3>2. i < n
        BY <1>2, <2>1, <3>1
      <3> QED
        BY <1>2, <1>3, <3>1, <3>2, Zenon
    <2> QED
      BY <1>2, <1>3, <2>1, Zenon
  <1>5. w \in h /\ \A f \in h \ {w} : Better(f, w)
    <2>1. \E e \in h : \A f \in h \ {e} : Better(f, e)
      BY <1>4, Zenon
    <2>2. w = CHOOSE e \in h : \A f \in h \ {e} : Better(f, e)
      BY Zenon DEF Worst
    <2> QED
      BY <2>1, <2>2
  <1>6. ASSUME NEW f \in h PROVE f.score >= w.score
    <2>1. CASE f = w
      <3>1. w.score \in Nat
        BY <1>5 DEF HitsOk
      <3> QED
        BY <2>1, <3>1
    <2>2. CASE f # w
      BY <1>5, <2>2, BetterOrder, Zenon
    <2> QED
      BY <2>1, <2>2, Zenon
  <1> QED
    BY <1>5, <1>6, Zenon

\* h holds the best k of the hits O.
Best(h, O) ==
    /\ h \in SUBSET O /\ Cardinality(h) <= k /\ (Cardinality(h) < k => h = O)
    /\ \A e \in h, f \in O \ h : Better(e, f)

\* A heap of the best hits: its size, and its worst entry once it is full.
LEMMA BestFacts ==
    ASSUME k \in Nat \ {0}, NEW O, HitsOk(O), NEW h, Best(h, O)
    PROVE  /\ HitsOk(h) /\ IsFiniteSet(h) /\ Cardinality(h) \in Nat
           /\ Cardinality(h) < k \/ Cardinality(h) = k
           /\ Cardinality(h) = k => h # {}
  <1>1. h \in SUBSET O /\ Cardinality(h) <= k
    BY Zenon DEF Best
  <1>2. HitsOk(h)
    BY <1>1, SubHits, Zenon
  <1>3. IsFiniteSet(h)
    BY <1>2, Zenon DEF HitsOk
  <1>4. Cardinality(h) \in Nat /\ Cardinality({}) = 0
    BY <1>3, FS_CardinalityType, FS_EmptySet, Zenon
  <1> QED
    BY <1>1, <1>2, <1>3, <1>4

\* offer() keeps the best k, and the threshold never falls.
LEMMA OfferBest ==
    ASSUME k \in Nat \ {0}, NEW O, NEW e, HitsOk(O \cup {e}), e \notin O, NEW h, Best(h, O)
    PROVE  Best(Offer(h, e), O \cup {e})
  <1>1. HitsOk(O)
    BY SubHits, Zenon
  <1>2. /\ HitsOk(h) /\ IsFiniteSet(h) /\ Cardinality(h) \in Nat
        /\ Cardinality(h) < k \/ Cardinality(h) = k
        /\ Cardinality(h) = k => h # {}
    BY <1>1, BestFacts, Zenon
  <1>3. h \in SUBSET O /\ (Cardinality(h) < k => h = O) /\ \A a \in h, f \in O \ h : Better(a, f)
    BY Zenon DEF Best
  <1>4. e \notin h /\ IsFiniteSet(h \cup {e}) /\ Cardinality(h \cup {e}) = Cardinality(h) + 1
    <2>1. e \notin h
      BY <1>3, Zenon
    <2> QED
      BY <1>2, <2>1, FS_AddElement, Zenon
  <1>5. CASE Cardinality(h) < k
    <2>1. Offer(h, e) = h \cup {e} /\ h = O
      BY <1>3, <1>5, Zenon DEF Offer
    <2>2. Cardinality(h \cup {e}) <= k
      BY <1>2, <1>4, <1>5
    <2> QED
      BY <2>1, <2>2, Zenon DEF Best
  <1>6. CASE Cardinality(h) = k
    <2>1. ~(Cardinality(h) < k) /\ k <= k /\ ~(k < k)
      BY <1>6
    <2>2. PICK w : w = Worst(h)
      BY Zenon
    <2>3. w \in h /\ \A f \in h \ {w} : Better(f, w)
      BY <1>2, <1>6, <2>2, WorstFacts, Zenon
    <2>4. \A a, b, c \in O \cup {e} : Better(a, b) /\ Better(b, c) => Better(a, c)
      BY BetterOrder, Zenon
    <2>5. \A a, b \in O \cup {e} : a # b => Better(a, b) \/ Better(b, a)
      BY BetterOrder, Zenon
    <2>6. CASE Better(e, w)
      <3>1. PICK g : g = (h \ {w}) \cup {e}
        BY Zenon
      <3>2. Offer(h, e) = g
        BY <2>1, <2>2, <2>6, <3>1, Zenon DEF Offer
      <3>3. Cardinality(g) = k
        <4>1. IsFiniteSet(h \ {w}) /\ Cardinality(h \ {w}) = Cardinality(h) - 1
          BY <1>2, <2>3, FS_RemoveElement, Zenon
        <4>2. Cardinality(g) = Cardinality(h \ {w}) + 1
          BY <1>4, <3>1, <4>1, FS_AddElement, Zenon
        <4> QED
          BY <1>2, <1>6, <4>1, <4>2
      <3>4. g \in SUBSET (O \cup {e})
        BY <1>3, <3>1, Zenon
      <3>5. ASSUME NEW a \in g, NEW f \in (O \cup {e}) \ g
            PROVE  Better(a, f)
        <4>1. (a = e \/ (a \in h /\ a # w)) /\ (f = w \/ f \in O \ h)
          BY <3>1, Zenon
        <4>2. a = e => Better(a, w)
          BY <2>6, Zenon
        <4>3. a \in h /\ a # w => Better(a, w)
          BY <2>3, Zenon
        <4>4. Better(a, w)
          BY <4>1, <4>2, <4>3, Zenon
        <4>5. f # w => Better(w, f)
          BY <1>3, <2>3, <4>1, Zenon
        <4>6. a \in O \cup {e} /\ f \in O \cup {e} /\ w \in O \cup {e}
          BY <1>3, <2>3, <3>4, Zenon
        <4> QED
          BY <2>4, <4>4, <4>5, <4>6, Zenon
      <3>6. Best(g, O \cup {e})
        BY <2>1, <3>3, <3>4, <3>5, Zenon DEF Best
      <3> QED
        BY <3>2, <3>6, Zenon
    <2>7. CASE ~Better(e, w)
      <3>1. Offer(h, e) = h
        BY <2>1, <2>2, <2>7, Zenon DEF Offer
      <3>2. Better(w, e)
        BY <1>3, <1>4, <2>3, <2>5, <2>7, Zenon
      <3>3. ASSUME NEW a \in h
            PROVE  Better(a, e)
        <4>1. a = w \/ Better(a, w)
          BY <2>3, Zenon
        <4>2. a \in O \cup {e} /\ w \in O \cup {e} /\ e \in O \cup {e}
          BY <1>3, <2>3, Zenon
        <4> QED
          BY <2>4, <3>2, <4>1, <4>2, Zenon
      <3>4. \A a \in h, f \in (O \cup {e}) \ h : Better(a, f)
        BY <1>3, <3>3, Zenon
      <3>5. Best(h, O \cup {e})
        BY <1>3, <1>6, <2>1, <3>4, Zenon DEF Best
      <3> QED
        BY <3>1, <3>5, Zenon
    <2> QED
      BY <2>6, <2>7, Zenon
  <1> QED
    BY <1>2, <1>5, <1>6, Zenon

\* The threshold of a heap: -1 until it is full, then its worst score.
LEMMA ThresholdIs ==
    ASSUME k \in Nat \ {0}, NEW O, HitsOk(O), NEW h, Best(h, O), NEW x, x = Threshold(h)
    PROVE  /\ x \in Int /\ x >= -1
           /\ Cardinality(h) < k => x = -1
           /\ Cardinality(h) = k => x \in Nat /\ \A f \in h : f.score >= x
           /\ Cardinality(h) = k => \E w \in h : w.score = x /\ \A f \in h \ {w} : Better(f, w)
  <1>1. /\ HitsOk(h) /\ Cardinality(h) \in Nat
        /\ Cardinality(h) < k \/ Cardinality(h) = k
        /\ Cardinality(h) = k => h # {}
    BY BestFacts, Zenon
  <1>2. x = IF Cardinality(h) < k THEN -1 ELSE Worst(h).score
    BY Zenon DEF Threshold
  <1>3. CASE Cardinality(h) < k
    BY <1>1, <1>2, <1>3
  <1>4. CASE Cardinality(h) = k
    <2>1. ~(Cardinality(h) < k)
      BY <1>4
    <2>2. PICK w : w = Worst(h)
      BY Zenon
    <2>3. w \in h /\ (\A f \in h \ {w} : Better(f, w)) /\ \A f \in h : f.score >= w.score
      BY <1>1, <1>4, <2>2, WorstFacts, Zenon
    <2>4. x = w.score /\ w.score \in Nat
      BY <1>1, <1>2, <2>1, <2>2, <2>3, Zenon DEF HitsOk
    <2>5. x \in Int /\ x >= -1
      BY <2>4
    <2> QED
      BY <2>1, <2>3, <2>4, <2>5, Zenon
  <1> QED
    BY <1>1, <1>3, <1>4, Zenon

\* offer() never lowers the threshold.
LEMMA OfferRaises ==
    ASSUME k \in Nat \ {0}, NEW O, NEW e, HitsOk(O \cup {e}), e \notin O, NEW h, Best(h, O)
    PROVE  Threshold(h) <= Threshold(Offer(h, e))
  <1>1. PICK g, x, y : g = Offer(h, e) /\ x = Threshold(h) /\ y = Threshold(g)
    BY Zenon
  <1>2. HitsOk(O)
    BY SubHits, Zenon
  <1>3. Best(g, O \cup {e})
    BY <1>1, OfferBest, Zenon
  <1>4. Cardinality(g) \in Nat /\ (Cardinality(g) < k \/ Cardinality(g) = k)
    BY <1>3, BestFacts, Zenon
  <1>5. Cardinality(h) \in Nat /\ (Cardinality(h) < k \/ Cardinality(h) = k) /\ HitsOk(h)
    BY <1>2, BestFacts, Zenon
  <1>6. /\ x \in Int /\ (Cardinality(h) < k => x = -1)
        /\ Cardinality(h) = k => x \in Nat /\ \A f \in h : f.score >= x
        /\ Cardinality(h) = k => \E w \in h : w.score = x /\ \A f \in h \ {w} : Better(f, w)
    BY <1>1, <1>2, ThresholdIs
  <1>7. /\ y \in Int /\ y >= -1 /\ (Cardinality(g) < k => y = -1)
        /\ Cardinality(g) = k => y \in Nat
        /\ Cardinality(g) = k => \E w \in g : w.score = y
    BY <1>1, <1>3, ThresholdIs
  <1>8. CASE Cardinality(h) < k
    BY <1>1, <1>6, <1>7, <1>8
  <1>9. CASE Cardinality(h) = k
    <2>1. ~(Cardinality(h) < k)
      BY <1>9
    <2>2. g = h \/ (Better(e, Worst(h)) /\ g = (h \ {Worst(h)}) \cup {e})
      BY <1>1, <2>1, Zenon DEF Offer
    <2>3. CASE g = h
      BY <1>1, <1>6, <2>3
    <2>4. CASE g # h
      <3>1. PICK w : w = Worst(h)
        BY Zenon
      <3>2. h # {}
        BY <1>2, <1>9, BestFacts, Zenon
      <3>3. w \in h
        BY <1>5, <3>1, <3>2, WorstFacts, Zenon
      <3>4. h \in SUBSET O
        BY Zenon DEF Best
      <3>5. e.score >= w.score
        <4>1. PICK S : S = O \cup {e}
          BY Zenon
        <4>2. Better(e, w) /\ e \in S /\ w \in S /\ HitsOk(S)
          BY <2>2, <2>4, <3>1, <3>3, <3>4, <4>1, Zenon
        <4> QED
          BY <4>2, BetterOrder, Zenon
      <3>6. w.score = x
        BY <1>1, <2>1, <3>1, Zenon DEF Threshold
      <3>7. \A f \in g : f.score >= x
        BY <1>6, <1>9, <2>2, <2>4, <3>5, <3>6, Zenon
      <3>8. Cardinality(g) = k
        <4>1. ~(Cardinality(g) < k)
          <5>1. SUFFICES ASSUME Cardinality(g) < k PROVE FALSE
            BY Zenon
          <5>2. g = O \cup {e}
            BY <1>3, <5>1, Zenon DEF Best
          <5>3. w \in g /\ w # e
            BY <3>3, <3>4, <5>2, Zenon
          <5> QED
            BY <2>2, <2>4, <3>1, <5>3, Zenon
        <4> QED
          BY <1>4, <4>1, Zenon
      <3>9. y \in Nat /\ y >= x
        BY <1>7, <3>7, <3>8, Zenon
      <3> QED
        BY <1>1, <1>6, <1>9, <3>9
    <2> QED
      BY <2>3, <2>4, Zenon
  <1> QED
    BY <1>5, <1>8, <1>9, Zenon

\* Hits below the threshold do not change what is best.
LEMMA BestOfMore ==
    ASSUME k \in Nat \ {0}, NEW A, HitsOk(A), NEW O \in SUBSET A, NEW h, Best(h, O),
           \A a \in A \ O : a.score < Threshold(h)
    PROVE  Best(h, A)
  <1>1. HitsOk(O)
    BY SubHits, Zenon
  <1>2. PICK x : x = Threshold(h)
    BY Zenon
  <1>3. Cardinality(h) < k \/ Cardinality(h) = k
    BY <1>1, BestFacts, Zenon
  <1>4. /\ x \in Int /\ (Cardinality(h) < k => x = -1)
        /\ Cardinality(h) = k => x \in Nat /\ \A f \in h : f.score >= x
    BY <1>1, <1>2, ThresholdIs
  <1>5. \A a \in A : a.score \in Nat
    BY DEF HitsOk
  <1>6. h \in SUBSET O /\ Cardinality(h) <= k /\ (Cardinality(h) < k => h = O)
        /\ \A e \in h, f \in O \ h : Better(e, f)
    BY Zenon DEF Best
  <1>7. CASE Cardinality(h) < k
    <2>1. A \ O = {}
      BY <1>2, <1>4, <1>5, <1>7
    <2>2. A = O
      BY <2>1, Zenon
    <2> QED
      BY <2>2, Zenon
  <1>8. CASE Cardinality(h) = k
    <2>1. ASSUME NEW e \in h, NEW f \in A \ h
          PROVE  Better(e, f)
      <3>1. CASE f \in O
        BY <1>6, <3>1, Zenon
      <3>2. CASE f \notin O
        <4>1. f.score < x /\ e.score >= x /\ x \in Nat /\ f.score \in Nat /\ e.score \in Nat
          BY <1>2, <1>4, <1>5, <1>6, <1>8, <3>2, Zenon
        <4> QED
          BY <4>1 DEF Better
      <3> QED
        BY <3>1, <3>2, Zenon
    <2>2. ~(Cardinality(h) < k)
      BY <1>8
    <2> QED
      BY <1>6, <2>1, <2>2, Zenon DEF Best
  <1> QED
    BY <1>3, <1>7, <1>8, Zenon

\* The beginning of a sequence.
LEMMA Beginning ==
    ASSUME NEW S, NEW n \in Nat, NEW s \in [1..n -> S], NEW m \in 0..n
    PROVE  SubSeq(s, 1, m) = [i \in 1..m |-> s[i]] /\ Len(s) = n
  <1>1. s \in Seq(S) /\ Len(s) = n
    BY SMT
  <1> QED
    BY <1>1, SMT

\* The best k hits, drained, are the first k of all hits, drained.
LEMMA BestDrained ==
    ASSUME k \in Nat \ {0}, NEW O, HitsOk(O), NEW h, Best(h, O)
    PROVE  DrainSorted(h) = Truncate(DrainSorted(O))
  <1>1. PICK m, n, r, s :
          m = Cardinality(h) /\ n = Cardinality(O) /\ r = DrainSorted(h) /\ s = DrainSorted(O)
    BY Zenon
  <1>2. HitsOk(h) /\ m \in Nat /\ (m < k \/ m = k)
    BY <1>1, BestFacts, Zenon
  <1>3. Drained(h, m, r)
    BY <1>1, <1>2, DrainFacts, Zenon
  <1>4. Drained(O, n, s)
    BY <1>1, DrainFacts, Zenon
  <1>5. m \in Nat /\ r \in [1..m -> h] /\ \A i \in 1..m : Cardinality(Above(h, r[i])) = i - 1
    BY <1>3, Zenon DEF Drained
  <1>6. /\ n \in Nat /\ s \in [1..n -> O]
        /\ \A e \in O : \E i \in 1..n : s[i] = e /\ Cardinality(Above(O, e)) = i - 1
    BY <1>4, Zenon DEF Drained
  <1>7. h \in SUBSET O /\ (m < k => h = O) /\ \A e \in h, f \in O \ h : Better(e, f)
    BY <1>1, Zenon DEF Best
  <1>8. ASSUME NEW e \in h
        PROVE  Above(O, e) = Above(h, e)
    <2>1. ASSUME NEW f \in O, Better(f, e)
          PROVE  f \in h
      <3>1. SUFFICES ASSUME f \notin h PROVE FALSE
        BY Zenon
      <3>2. Better(e, f) /\ e \in O
        BY <1>7, <3>1, Zenon
      <3> QED
        BY <2>1, <3>2, BetterOrder, Zenon
    <2> QED
      BY <1>7, <2>1, Zenon DEF Above
  <1>9. m <= n /\ (m < k => m = n)
    <2>1. IsFiniteSet(O)
      BY Zenon DEF HitsOk
    <2>2. m <= n
      BY <1>1, <1>7, <2>1, FS_Subset, Zenon
    <2> QED
      BY <1>1, <1>7, <2>2, Zenon
  <1>10. Min({k, n}) = m
    <2>1. k \in Nat /\ n \in Nat
      BY <1>6
    <2>2. Min({k, n}) = IF k <= n THEN k ELSE n
      BY <2>1, MinOfTwo, Zenon
    <2> QED
      BY <1>2, <1>6, <1>9, <2>2
  <1>11. m \in 0..n
    BY <1>2, <1>6, <1>9
  <1>12. SubSeq(s, 1, m) = [i \in 1..m |-> s[i]] /\ Len(s) = n
    BY <1>6, <1>11, Beginning
  <1>13. ASSUME NEW i \in 1..m
         PROVE  s[i] = r[i]
    <2>1. PICK e \in h : e = r[i]
      BY <1>5, Zenon
    <2>2. Cardinality(Above(O, e)) = i - 1
      BY <1>5, <1>8, <2>1, Zenon
    <2>3. PICK j \in 1..n : s[j] = e /\ Cardinality(Above(O, e)) = j - 1
      BY <1>6, <1>7, Zenon
    <2>4. j = i
      BY <1>2, <1>6, <2>2, <2>3
    <2> QED
      BY <2>1, <2>3, <2>4, Zenon
  <1>14. [i \in 1..m |-> s[i]] = [i \in 1..m |-> r[i]] /\ r = [i \in 1..m |-> r[i]]
    BY <1>5, <1>13, Zenon
  <1>15. Truncate(s) = SubSeq(s, 1, Min({k, Len(s)}))
    BY Zenon DEF Truncate
  <1> QED
    BY <1>1, <1>10, <1>12, <1>14, <1>15, Zenon

----------------------------------------------------------------------------
(* The cursors of a query and the sums of their bounds. *)

\* What each cursor could still add, by its window's bound.
Bound(cs) == [i \in DOMAIN cs |-> TermBoundAt(cs[i], CurrentDoc(cs[i]))]

\* The cursors that have not passed document e.
Upto(cs, e) == {i \in DOMAIN cs : CurrentDoc(cs[i]) <= e}

\* What they could add up to.
Ceil(cs, e) == SumFunctionOnSet(Bound(cs), Upto(cs, e))

\* cs is a finite family of cursors with docids and bounds.
Family(cs) ==
    /\ IsFiniteSet(DOMAIN cs)
    /\ \A i \in DOMAIN cs : CurrentDoc(cs[i]) \in Nat /\ Bound(cs)[i] \in Nat

\* o lists the cursors by their documents.
ListOf(cs, o, n) ==
    /\ n \in Nat /\ o \in [1..n -> DOMAIN cs] /\ Len(o) = n
    /\ \A i, j \in 1..n : o[i] = o[j] => i = j
    /\ \A c \in DOMAIN cs : \E i \in 1..n : o[i] = c
    /\ \A i, j \in 1..n : i <= j => CurrentDoc(cs[o[i]]) <= CurrentDoc(cs[o[j]])

\* The sort of the loop gives such a list.
LEMMA SortedFacts ==
    ASSUME NEW cs, Family(cs), NEW o \in Sorted(cs), NEW n, n = Cardinality(DOMAIN cs)
    PROVE  ListOf(cs, o, n)
  <1>1. n \in Nat /\ \A i \in DOMAIN cs : CurrentDoc(cs[i]) \in Nat
    BY FS_CardinalityType, Zenon DEF Family
  <1>2. o \in Bijection(1..n, DOMAIN cs)
    BY Zenon DEF Sorted
  <1>3. /\ o \in [1..n -> DOMAIN cs]
        /\ \A i, j \in 1..n : o[i] = o[j] => i = j
        /\ \A c \in DOMAIN cs : \E i \in 1..n : o[i] = c
    BY <1>2, Zenon DEF Bijection, Injection, Surjection, IsInjective
  <1>4. Len(o) = n
    BY <1>1, <1>3
  <1>5. \A i \in 1..(n - 1) : CurrentDoc(cs[o[i]]) <= CurrentDoc(cs[o[i + 1]])
    BY <1>4, Zenon DEF Sorted
  <1>6. ASSUME NEW i \in 1..n, NEW j \in 1..n, i <= j
        PROVE  CurrentDoc(cs[o[i]]) <= CurrentDoc(cs[o[j]])
    <2>1. PICK l \in Nat : l = n - i + 1 /\ j - i + 1 \in 1..l
      BY <1>1, <1>6
    <2>2. PICK g : g = [x \in 1..l |-> CurrentDoc(cs[o[x + i - 1]])]
      BY Zenon
    <2>3. \A x \in 1..l : x + i - 1 \in 1..n
      BY <1>1, <2>1
    <2>4. \A x \in 1..l : CurrentDoc(cs[o[x + i - 1]]) \in Nat
      BY <1>1, <1>3, <2>3, Zenon
    <2>5. g \in [1..l -> Nat] /\ \A x \in 1..l : g[x] = CurrentDoc(cs[o[x + i - 1]])
      BY <2>2, <2>4, Zenon
    <2>6. \A x \in 1..(l - 1) : g[x] <= g[x + 1]
      <3>1. SUFFICES ASSUME NEW x \in 1..(l - 1) PROVE g[x] <= g[x + 1]
        BY Zenon
      <3>2. x \in 1..l /\ x + 1 \in 1..l /\ x + i - 1 \in 1..(n - 1) /\ (x + 1) + i - 1 = (x + i - 1) + 1
        BY <1>1, <2>1
      <3>3. CurrentDoc(cs[o[x + i - 1]]) <= CurrentDoc(cs[o[(x + i - 1) + 1]])
        BY <1>5, <3>2, Zenon
      <3>4. g[x] = CurrentDoc(cs[o[x + i - 1]]) /\ g[x + 1] = CurrentDoc(cs[o[(x + 1) + i - 1]])
        BY <2>5, <3>2, Zenon
      <3> QED
        BY <3>2, <3>3, <3>4, Zenon
    <2>7. \A x \in 1..l : g[1] <= g[x]
      BY <2>1, <2>5, <2>6, Chain, Zenon
    <2>8. 1 \in 1..l /\ 1 + i - 1 = i /\ (j - i + 1) + i - 1 = j
      BY <1>1, <2>1
    <2>9. g[1] = CurrentDoc(cs[o[i]]) /\ g[j - i + 1] = CurrentDoc(cs[o[j]])
      BY <2>1, <2>5, <2>8
    <2> QED
      BY <2>1, <2>7, <2>9, Zenon
  <1> QED
    BY <1>1, <1>3, <1>4, <1>6, Zenon DEF ListOf

\* The sum of the first m bounds is that of the first m cursors.
LEMMA UpToIs ==
    ASSUME NEW cs, Family(cs), NEW o, NEW n, ListOf(cs, o, n), NEW m \in 0..n
    PROVE  BoundUpTo(cs, o, m) = SumFunctionOnSet(Bound(cs), {o[j] : j \in 1..m})
  <1>1. PICK f, J, g : f = Bound(cs) /\ J = 1..m /\ g = [j \in J |-> f[o[j]]]
    BY Zenon
  <1>2. n \in Nat /\ o \in [1..n -> DOMAIN cs] /\ \A i, j \in 1..n : o[i] = o[j] => i = j
    BY Zenon DEF ListOf
  <1>3. J \subseteq 1..n
    BY <1>1, <1>2
  <1>4. IsFiniteSet(J)
    <2>1. 1 \in Int /\ m \in Int
      OBVIOUS
    <2> QED
      BY <1>1, <2>1, FS_Interval, Zenon
  <1>5. \A i, j \in J : o[i] = o[j] => i = j
    BY <1>2, <1>3, Zenon
  <1>6. \A j \in J : o[j] \in DOMAIN cs /\ f[o[j]] \in Nat
    BY <1>1, <1>2, <1>3, Zenon DEF Family
  <1>7. \A j \in J : f[o[j]] = TermBoundAt(cs[o[j]], CurrentDoc(cs[o[j]]))
    BY <1>1, <1>6, Zenon DEF Bound
  <1>8. g = [j \in 1..m |-> TermBoundAt(cs[o[j]], CurrentDoc(cs[o[j]]))]
    BY <1>1, <1>7, Zenon
  <1>9. BoundUpTo(cs, o, m) = SumFunctionOnSet(g, J)
    <2>1. BoundUpTo(cs, o, m) = SumFunction(g) /\ DOMAIN g = J
      BY <1>1, <1>8, Zenon DEF BoundUpTo
    <2> QED
      BY <2>1, SumDomain, Zenon
  <1>10. SumFunctionOnSet(g, J) = SumFunctionOnSet(f, {o[j] : j \in J})
    BY <1>1, <1>4, <1>5, <1>6, SumRenamed
  <1> QED
    BY <1>1, <1>9, <1>10, Zenon

\* The ceiling of a document is a number.
LEMMA CeilIs ==
    ASSUME NEW cs, Family(cs), NEW e
    PROVE  Ceil(cs, e) \in Nat /\ IsFiniteSet(Upto(cs, e)) /\ Upto(cs, e) \in SUBSET DOMAIN cs
  <1>1. Upto(cs, e) \in SUBSET DOMAIN cs /\ IsFiniteSet(DOMAIN cs)
    BY Zenon DEF Upto, Family
  <1>2. Sums(Bound(cs), DOMAIN cs)
    BY SumFacts, Zenon DEF Family
  <1>3. SumFunctionOnSet(Bound(cs), Upto(cs, e)) \in Nat
    BY <1>1, <1>2, Zenon DEF Sums
  <1> QED
    BY <1>1, <1>3, FS_Subset, Zenon DEF Ceil

\* A pivot at or before e: the cursors up to e could reach theta.
LEMMA PivotReaches ==
    ASSUME NEW cs, Family(cs), NEW o, NEW n, ListOf(cs, o, n), NEW theta \in Int,
           NEW m \in Pivots(cs, o, theta), NEW e \in Nat, CurrentDoc(cs[o[m]]) <= e
    PROVE  theta <= Ceil(cs, e)
  <1>1. /\ n \in Nat /\ o \in [1..n -> DOMAIN cs] /\ Len(o) = n
        /\ \A i, j \in 1..n : i <= j => CurrentDoc(cs[o[i]]) <= CurrentDoc(cs[o[j]])
    BY Zenon DEF ListOf
  <1>2. m \in 1..n /\ BoundUpTo(cs, o, m) >= theta
    BY <1>1, Zenon DEF Pivots
  <1>3. PICK U, T : U = {o[j] : j \in 1..m} /\ T = Upto(cs, e)
    BY Zenon
  <1>4. BoundUpTo(cs, o, m) = SumFunctionOnSet(Bound(cs), U)
    <2>1. m \in 0..n
      BY <1>1, <1>2
    <2> QED
      BY <1>3, <2>1, UpToIs
  <1>5. U \in SUBSET T
    <2>1. ASSUME NEW j \in 1..m
          PROVE  o[j] \in T
      <3>1. j \in 1..n /\ j <= m
        BY <1>1, <1>2
      <3>2. o[j] \in DOMAIN cs /\ o[m] \in DOMAIN cs /\ CurrentDoc(cs[o[j]]) <= CurrentDoc(cs[o[m]])
        BY <1>1, <1>2, <3>1, Zenon
      <3>3. CurrentDoc(cs[o[j]]) \in Nat /\ CurrentDoc(cs[o[m]]) \in Nat
        BY <3>2, Zenon DEF Family
      <3>4. CurrentDoc(cs[o[j]]) <= e
        BY <3>2, <3>3
      <3> QED
        BY <1>3, <3>2, <3>4, Zenon DEF Upto
    <2> QED
      BY <1>3, <2>1, Zenon
  <1>6. IsFiniteSet(T) /\ T \in SUBSET DOMAIN cs /\ SumFunctionOnSet(Bound(cs), T) \in Nat
    BY <1>3, CeilIs, Zenon DEF Ceil
  <1>7. \A x \in T : Bound(cs)[x] \in Nat
    BY <1>6, Zenon DEF Family
  <1>8. SumFunctionOnSet(Bound(cs), U) <= SumFunctionOnSet(Bound(cs), T)
    BY <1>5, <1>6, <1>7, SumSubset, Zenon
  <1>9. SumFunctionOnSet(Bound(cs), U) \in Nat
    <2>1. Sums(Bound(cs), DOMAIN cs) /\ U \in SUBSET DOMAIN cs
      BY <1>5, <1>6, SumFacts, Zenon DEF Family
    <2> QED
      BY <2>1, Zenon DEF Sums
  <1>10. Ceil(cs, e) = SumFunctionOnSet(Bound(cs), T)
    BY <1>3, Zenon DEF Ceil
  <1> QED
    BY <1>2, <1>4, <1>6, <1>8, <1>9, <1>10

\* No pivot at or before e: the cursors up to e stay below theta.
LEMMA CeilBelow ==
    ASSUME NEW cs, Family(cs), NEW o, NEW n, ListOf(cs, o, n), NEW theta \in Int,
           NEW e \in Docs, Upto(cs, e) # {},
           \A m \in Pivots(cs, o, theta) : ~(CurrentDoc(cs[o[m]]) <= e)
    PROVE  Ceil(cs, e) < theta
  <1>1. /\ n \in Nat /\ o \in [1..n -> DOMAIN cs] /\ Len(o) = n
        /\ \A c \in DOMAIN cs : \E i \in 1..n : o[i] = c
    BY Zenon DEF ListOf
  <1>2. PICK J, T : J = {j \in 1..n : CurrentDoc(cs[o[j]]) <= e} /\ T = Upto(cs, e)
    BY Zenon
  <1>3. \A c \in T : \E j \in J : o[j] = c
    BY <1>1, <1>2, Zenon DEF Upto
  <1>4. J # {} /\ J \subseteq Nat /\ \A j \in J : j <= n
    BY <1>1, <1>2, <1>3
  <1>5. PICK m \in J : \A j \in J : m >= j
    BY <1>1, <1>4, MaxFacts, Zenon
  <1>6. PICK U : U = {o[j] : j \in 1..m}
    BY Zenon
  <1>7. m \in 1..n /\ m \in 0..n /\ CurrentDoc(cs[o[m]]) <= e
    BY <1>1, <1>2
  <1>8. T \in SUBSET U
    <2>1. \A j \in J : j \in 1..m
      BY <1>2, <1>5, <1>7
    <2> QED
      BY <1>3, <1>6, <2>1, Zenon
  <1>9. BoundUpTo(cs, o, m) = SumFunctionOnSet(Bound(cs), U)
    BY <1>6, <1>7, UpToIs
  <1>10. U \in SUBSET DOMAIN cs
    <2>1. \A j \in 1..m : j \in 1..n
      BY <1>1, <1>7
    <2> QED
      BY <1>1, <1>6, <2>1, Zenon
  <1>11. SumFunctionOnSet(Bound(cs), U) \in Nat /\ SumFunctionOnSet(Bound(cs), T) \in Nat
    <2>1. Sums(Bound(cs), DOMAIN cs) /\ T \in SUBSET DOMAIN cs
      BY <1>8, <1>10, SumFacts, Zenon DEF Family
    <2> QED
      BY <1>10, <2>1, Zenon DEF Sums
  <1>12. SumFunctionOnSet(Bound(cs), T) <= SumFunctionOnSet(Bound(cs), U)
    <2>1. IsFiniteSet(U) /\ \A x \in U : Bound(cs)[x] \in Nat
      BY <1>10, FS_Subset, Zenon DEF Family
    <2> QED
      BY <1>8, <2>1, SumSubset, Zenon
  <1>13. ~(BoundUpTo(cs, o, m) >= theta)
    <2>1. CurrentDoc(cs[o[m]]) # NoDoc
      <3>1. CurrentDoc(cs[o[m]]) \in Nat
        BY <1>1, <1>7, Zenon DEF Family
      <3>2. e \in Nat /\ e < NoDoc /\ NoDoc \in Nat
        BY DocsAre, Zenon
      <3> QED
        BY <1>7, <3>1, <3>2
    <2>2. m \notin Pivots(cs, o, theta)
      BY <1>7, Zenon
    <2> QED
      BY <1>1, <1>7, <2>1, <2>2, Zenon DEF Pivots
  <1>14. Ceil(cs, e) = SumFunctionOnSet(Bound(cs), T)
    BY <1>2, Zenon DEF Ceil
  <1> QED
    BY <1>9, <1>11, <1>12, <1>13, <1>14

\* Cursors that move past e leave its ceiling, which does not rise.
LEMMA CeilFalls ==
    ASSUME NEW cs, Family(cs), NEW cz, Family(cz), DOMAIN cz = DOMAIN cs, NEW e,
           \A i \in DOMAIN cs : cz[i] = cs[i] \/ ~(CurrentDoc(cz[i]) <= e)
    PROVE  Ceil(cz, e) <= Ceil(cs, e)
  <1>1. PICK U, T : U = Upto(cz, e) /\ T = Upto(cs, e)
    BY Zenon
  <1>2. U \in SUBSET T /\ \A i \in U : cz[i] = cs[i]
    BY <1>1, Zenon DEF Upto
  <1>3. IsFiniteSet(T) /\ T \in SUBSET DOMAIN cs /\ IsFiniteSet(U) /\ U \in SUBSET DOMAIN cs
    BY <1>1, CeilIs, Zenon
  <1>4. \A i \in U : Bound(cz)[i] \in Nat /\ Bound(cz)[i] = Bound(cs)[i]
    <2>1. SUFFICES ASSUME NEW i \in U PROVE Bound(cz)[i] \in Nat /\ Bound(cz)[i] = Bound(cs)[i]
      BY Zenon
    <2>2. cz[i] = cs[i] /\ i \in DOMAIN cs /\ i \in DOMAIN cz
      BY <1>2, <1>3, Zenon
    <2>3. Bound(cz)[i] \in Nat
      BY <2>2, Zenon DEF Family
    <2> QED
      BY <2>2, <2>3, Zenon DEF Bound
  <1>5. SumFunctionOnSet(Bound(cz), U) = SumFunctionOnSet(Bound(cs), U)
    BY <1>3, <1>4, SumSame, Zenon
  <1>6. \A x \in T : Bound(cs)[x] \in Nat
    BY <1>3, Zenon DEF Family
  <1>7. SumFunctionOnSet(Bound(cs), U) <= SumFunctionOnSet(Bound(cs), T)
    BY <1>2, <1>3, <1>6, SumSubset, Zenon
  <1> QED
    BY <1>1, <1>5, <1>7, Zenon DEF Ceil

----------------------------------------------------------------------------
(* The query q: its hits and their full scores. *)

\* What each term of the query adds to the score of d.
Gain(q, d) == [i \in 1..Len(q) |-> IF d \in DocsOf(q[i]) THEN DocScore(q[i], d) ELSE 0]

\* FullScore, Found and AllHits for the query q.
Full(q, d) == SumFunction(Gain(q, d))
Fnd(q) == {i \in DOMAIN q : DocsOf(q[i]) # {}}
HitDocs(q) == UNION {DocsOf(t) : t \in Range(q)}
Hits(q) == {[docid |-> d, score |-> Full(q, d)] : d \in HitDocs(q)}

\* The query variable's terms found and hits, by the names used here.
LEMMA QueryNames ==
    ASSUME NEW q, query = q
    PROVE  Found = Fnd(q) /\ AllHits = Hits(q)
  <1>1. \A d : FullScore(d) = Full(q, d)
    BY Zenon DEF FullScore, Full, Gain
  <1>2. AllHits = Hits(q)
    BY <1>1, Zenon DEF AllHits, Hits, HitDocs
  <1> QED
    BY <1>2, Zenon DEF Found, Fnd

\* q is a query on the index.
QueryOk(q) == CorpusOk /\ q \in Seq(Terms)

\* The places of a query.
LEMMA QueryPlaces ==
    ASSUME NEW q, QueryOk(q), NEW T, T = 1..Len(q)
    PROVE  /\ IsFiniteSet(T) /\ DOMAIN q = T /\ CorpusOk
           /\ \A i \in T : q[i] \in Terms
           /\ Fnd(q) \in SUBSET T /\ IsFiniteSet(Fnd(q))
           /\ \A i \in Fnd(q) : TermOk(q[i])
  <1>1. q \in Seq(Terms) /\ CorpusOk
    BY DEF QueryOk
  <1>2. Len(q) \in Nat /\ DOMAIN q = T /\ \A i \in T : q[i] \in Terms
    BY <1>1
  <1>3. IsFiniteSet(T)
    <2>1. 1 \in Int /\ Len(q) \in Int
      BY <1>2
    <2> QED
      BY <2>1, FS_Interval, Zenon
  <1>4. Fnd(q) \in SUBSET T
    BY <1>2, Zenon DEF Fnd
  <1>5. IsFiniteSet(Fnd(q))
    BY <1>3, <1>4, FS_Subset, Zenon
  <1>6. \A i \in Fnd(q) : TermOk(q[i])
    BY <1>1, <1>2, Zenon DEF Fnd, TermOk
  <1> QED
    BY <1>1, <1>2, <1>3, <1>4, <1>5, <1>6, Zenon

\* The documents that match are those of the terms found.
LEMMA HitDocsAre ==
    ASSUME NEW q, QueryOk(q)
    PROVE  /\ HitDocs(q) \in SUBSET Docs
           /\ \A d : d \in HitDocs(q) <=> \E i \in Fnd(q) : d \in DocsOf(q[i])
  <1>1. DOMAIN q = 1..Len(q)
    BY QueryPlaces, Zenon
  <1>2. Range(q) = {q[i] : i \in DOMAIN q}
    BY Zenon DEF Range
  <1>3. \A t : DocsOf(t) \in SUBSET Docs
    BY DocsFacts, Zenon
  <1>4. HitDocs(q) \in SUBSET Docs
    BY <1>3, Zenon DEF HitDocs
  <1>5. ASSUME NEW d
        PROVE  d \in HitDocs(q) <=> \E i \in Fnd(q) : d \in DocsOf(q[i])
    BY <1>2, Zenon DEF HitDocs, Fnd
  <1> QED
    BY <1>4, <1>5, Zenon

\* What the terms add are numbers.
LEMMA GainIs ==
    ASSUME NEW q, QueryOk(q), NEW d, NEW i \in 1..Len(q)
    PROVE  /\ Gain(q, d)[i] \in Nat
           /\ Gain(q, d)[i] = IF d \in DocsOf(q[i]) THEN DocScore(q[i], d) ELSE 0
  <1>1. CorpusOk /\ q[i] \in Terms
    BY QueryPlaces, Zenon
  <1>2. d \in DocsOf(q[i]) => DocScore(q[i], d) \in Nat
    BY <1>1, DocScoreIs, Zenon
  <1>3. Gain(q, d)[i] = IF d \in DocsOf(q[i]) THEN DocScore(q[i], d) ELSE 0
    BY Zenon DEF Gain
  <1> QED
    BY <1>2, <1>3

\* The full score is the sum over any places that include those of the terms d has.
LEMMA FullOver ==
    ASSUME NEW q, QueryOk(q), NEW d, NEW U \in SUBSET (1..Len(q)),
           \A i \in 1..Len(q) : d \in DocsOf(q[i]) => i \in U
    PROVE  Full(q, d) = SumFunctionOnSet(Gain(q, d), U) /\ Full(q, d) \in Nat
  <1>1. PICK T, f : T = 1..Len(q) /\ f = Gain(q, d)
    BY Zenon
  <1>2. IsFiniteSet(T) /\ \A i \in T : f[i] \in Nat
    BY <1>1, QueryPlaces, GainIs, Zenon
  <1>3. \A i \in T \ U : f[i] = 0
    BY <1>1, GainIs, Zenon
  <1>4. SumFunctionOnSet(f, U) = SumFunctionOnSet(f, T)
    BY <1>1, <1>2, <1>3, SumSubset, Zenon
  <1>5. Full(q, d) = SumFunctionOnSet(f, T)
    <2>1. DOMAIN f = T
      BY <1>1, Zenon DEF Gain
    <2> QED
      BY <1>1, <2>1, SumDomain, Zenon DEF Full
  <1>6. SumFunctionOnSet(f, T) \in Nat
    <2>1. Sums(f, T) /\ T \in SUBSET T
      BY <1>2, SumFacts, Zenon
    <2> QED
      BY <2>1, Zenon DEF Sums
  <1> QED
    BY <1>1, <1>4, <1>5, <1>6, Zenon

\* Hits are finitely many, one for each document.
LEMMA HitsFacts ==
    ASSUME NEW q, QueryOk(q)
    PROVE  /\ HitsOk(Hits(q))
           /\ \A d \in HitDocs(q) : Full(q, d) \in Nat
           /\ \A x \in Hits(q) : x.docid \in HitDocs(q) /\ x.score = Full(q, x.docid)
           /\ \A d \in HitDocs(q) : [docid |-> d, score |-> Full(q, d)] \in Hits(q)
  <1>1. \A d : Full(q, d) \in Nat
    BY FullOver, Zenon
  <1>2. HitDocs(q) \in SUBSET Docs
    BY HitDocsAre, Zenon
  <1>3. IsFiniteSet(HitDocs(q)) /\ \A d \in HitDocs(q) : d \in Nat
    BY <1>2, DocsAre, FS_Subset, Zenon
  <1>4. ASSUME NEW x \in Hits(q)
        PROVE  /\ x.docid \in HitDocs(q) /\ x.score = Full(q, x.docid)
               /\ x = [docid |-> x.docid, score |-> Full(q, x.docid)]
    <2>1. PICK d \in HitDocs(q) : x = [docid |-> d, score |-> Full(q, d)]
      BY Zenon DEF Hits
    <2>2. x.docid = d /\ x.score = Full(q, d)
      BY <2>1
    <2> QED
      BY <2>1, <2>2, Zenon
  <1>5. IsFiniteSet(Hits(q))
    <2>1. PICK g : g = [d \in HitDocs(q) |-> [docid |-> d, score |-> Full(q, d)]]
      BY Zenon
    <2>2. g \in Surjection(HitDocs(q), Hits(q))
      BY <2>1, Zenon DEF Surjection, Hits
    <2> QED
      BY <1>3, <2>2, FS_Surjection, Zenon
  <1>6. \A x \in Hits(q) : x.score \in Nat /\ x.docid \in Nat
    BY <1>1, <1>3, <1>4, Zenon
  <1>7. ASSUME NEW x \in Hits(q), NEW y \in Hits(q), x.docid = y.docid
        PROVE  x = y
    BY <1>4, <1>7, Zenon
  <1>8. HitsOk(Hits(q))
    BY <1>5, <1>6, <1>7, Zenon DEF HitsOk
  <1>9. \A d \in HitDocs(q) : [docid |-> d, score |-> Full(q, d)] \in Hits(q)
    BY Zenon DEF Hits
  <1> QED
    BY <1>1, <1>4, <1>8, <1>9, Zenon

----------------------------------------------------------------------------
(* The loop. *)

\* One cursor for each term found.
CursorsOk(q, cs) == DOMAIN cs = Fnd(q) /\ \A i \in Fnd(q) : CursorOk(cs[i], q[i])

\* The cursors that BuildTermCursor made all stand somewhere, with bounds to sum.
LEMMA CursorsFacts ==
    ASSUME NEW q, QueryOk(q), NEW cs, CursorsOk(q, cs)
    PROVE  /\ Family(cs)
           /\ \A i \in DOMAIN cs : /\ i \in 1..Len(q) /\ TermOk(q[i]) /\ CursorOk(cs[i], q[i])
                                   /\ Stands(cs[i], q[i], CurrentDoc(cs[i]))
  <1>1. DOMAIN cs = Fnd(q) /\ \A i \in DOMAIN cs : CursorOk(cs[i], q[i])
    BY Zenon DEF CursorsOk
  <1>2. Fnd(q) \in SUBSET (1..Len(q)) /\ IsFiniteSet(Fnd(q)) /\ \A i \in Fnd(q) : TermOk(q[i])
    BY QueryPlaces, Zenon
  <1>3. \A i \in DOMAIN cs : Stands(cs[i], q[i], CurrentDoc(cs[i]))
    BY <1>1, <1>2, CursorStands, Zenon
  <1>4. ASSUME NEW i \in DOMAIN cs
        PROVE  CurrentDoc(cs[i]) \in Nat /\ Bound(cs)[i] \in Nat
    <2>1. CurrentDoc(cs[i]) \in Nat /\ TermBoundAt(cs[i], CurrentDoc(cs[i])) \in Nat
      BY <1>3, Zenon DEF Stands
    <2> QED
      BY <2>1, Zenon DEF Bound
  <1>5. Family(cs)
    BY <1>1, <1>2, <1>4, Zenon DEF Family
  <1> QED
    BY <1>1, <1>2, <1>3, <1>5, Zenon

\* The documents that a cursor of theirs has passed and that were not offered.
Skip(q, cs, off) ==
    {e \in HitDocs(q) : e \notin Range(off) /\ \E i \in DOMAIN cs : e \in DocsOf(q[i]) /\ e < CurrentDoc(cs[i])}

AllFall(cs) == \A i \in DOMAIN cs : Falls(cs[i])

\* A document that is neither: no cursor of its terms has passed it.
LEMMA Unpassed ==
    ASSUME NEW q, QueryOk(q), NEW cs, CursorsOk(q, cs), NEW off,
           NEW e, e \notin Range(off), e \notin Skip(q, cs, off)
    PROVE  \A i \in 1..Len(q) : e \in DocsOf(q[i]) => i \in Upto(cs, e)
  <1>1. SUFFICES ASSUME NEW i \in 1..Len(q), e \in DocsOf(q[i])
                 PROVE  i \in Upto(cs, e)
    BY Zenon
  <1>2. i \in DOMAIN cs
    <2>1. i \in Fnd(q)
      BY <1>1, QueryPlaces, Zenon DEF Fnd
    <2> QED
      BY <2>1, Zenon DEF CursorsOk
  <1>3. e \in HitDocs(q)
    <2>1. i \in Fnd(q)
      BY <1>2, Zenon DEF CursorsOk
    <2> QED
      BY <1>1, <2>1, HitDocsAre, Zenon
  <1>4. ~(e < CurrentDoc(cs[i]))
    BY <1>1, <1>2, <1>3, Zenon DEF Skip
  <1>5. CurrentDoc(cs[i]) \in Nat /\ e \in Nat
    <2>1. CurrentDoc(cs[i]) \in Nat
      BY <1>2, CursorsFacts, Zenon DEF Stands
    <2> QED
      BY <1>1, <2>1, DocsFacts, Zenon
  <1>6. CurrentDoc(cs[i]) <= e
    BY <1>4, <1>5
  <1> QED
    BY <1>2, <1>6, Zenon DEF Upto

\* Such a document's full score is within its ceiling when no bounds rise.
LEMMA FullUnder ==
    ASSUME NEW q, QueryOk(q), NEW cs, CursorsOk(q, cs), NEW off, AllFall(cs),
           NEW e, e \notin Range(off), e \notin Skip(q, cs, off)
    PROVE  Full(q, e) <= Ceil(cs, e) /\ Full(q, e) \in Nat
  <1>1. PICK U, f : U = Upto(cs, e) /\ f = Gain(q, e)
    BY Zenon
  <1>2. \A i \in 1..Len(q) : e \in DocsOf(q[i]) => i \in U
    BY <1>1, Unpassed, Zenon
  <1>3. Family(cs) /\ \A i \in DOMAIN cs : i \in 1..Len(q)
    BY CursorsFacts, Zenon
  <1>4. IsFiniteSet(U) /\ U \in SUBSET DOMAIN cs
    BY <1>1, <1>3, CeilIs, Zenon
  <1>5. U \in SUBSET (1..Len(q))
    BY <1>3, <1>4, Zenon
  <1>6. Full(q, e) = SumFunctionOnSet(f, U) /\ Full(q, e) \in Nat
    BY <1>1, <1>2, <1>5, FullOver, Zenon
  <1>7. ASSUME NEW i \in U
        PROVE  f[i] \in Nat /\ Bound(cs)[i] \in Nat /\ f[i] <= Bound(cs)[i]
    <2>1. i \in DOMAIN cs /\ i \in 1..Len(q) /\ CurrentDoc(cs[i]) <= e
      BY <1>1, <1>5, Zenon DEF Upto
    <2>2. TermOk(q[i]) /\ CursorOk(cs[i], q[i]) /\ Falls(cs[i]) /\ CurrentDoc(cs[i]) \in Nat
      BY <2>1, CursorsFacts, Zenon DEF AllFall, Stands
    <2>3. f[i] \in Nat /\ f[i] = IF e \in DocsOf(q[i]) THEN DocScore(q[i], e) ELSE 0
      BY <1>1, <2>1, GainIs, Zenon
    <2>4. Bound(cs)[i] \in Nat /\ Bound(cs)[i] = TermBoundAt(cs[i], CurrentDoc(cs[i]))
      BY <1>3, <2>1, Zenon DEF Family, Bound
    <2>5. e \in DocsOf(q[i]) => DocScore(q[i], e) <= TermBoundAt(cs[i], CurrentDoc(cs[i]))
      BY <2>1, <2>2, FallingBound
    <2> QED
      BY <2>3, <2>4, <2>5
  <1>8. SumFunctionOnSet(f, U) <= SumFunctionOnSet(Bound(cs), U)
    BY <1>4, <1>7, SumMono, Zenon
  <1> QED
    BY <1>1, <1>6, <1>8, Zenon DEF Ceil

\* A document on which all cursors of its terms stand is scored in full.
LEMMA ScoreIsFull ==
    ASSUME NEW q, QueryOk(q), NEW cs, CursorsOk(q, cs), NEW off,
           NEW d \in Docs, d \notin Range(off), d \notin Skip(q, cs, off),
           \A i \in DOMAIN cs : d <= CurrentDoc(cs[i])
    PROVE  ScoreAt(cs, d) = Full(q, d)
  <1>1. PICK U, f, g : U = At(cs, d) /\ f = Gain(q, d) /\ g = [i \in U |-> cs[i].postings[cs[i].pos].score]
    BY Zenon
  <1>2. Family(cs) /\ \A i \in DOMAIN cs : i \in 1..Len(q) /\ CurrentDoc(cs[i]) \in Nat
    BY CursorsFacts, Zenon DEF Stands
  <1>3. U \in SUBSET DOMAIN cs /\ U \in SUBSET (1..Len(q)) /\ IsFiniteSet(U)
    <2>1. U \in SUBSET DOMAIN cs
      BY <1>1, Zenon DEF At
    <2> QED
      BY <1>2, <2>1, FS_Subset, Zenon DEF Family
  <1>4. d \in Nat /\ d # NoDoc
    <2>1. d \in Nat /\ d < NoDoc /\ NoDoc \in Nat
      BY DocsAre, Zenon
    <2> QED
      BY <2>1
  <1>5. \A i \in 1..Len(q) : d \in DocsOf(q[i]) => i \in U
    <2>1. SUFFICES ASSUME NEW i \in 1..Len(q), d \in DocsOf(q[i]) PROVE i \in U
      BY Zenon
    <2>2. i \in DOMAIN cs /\ CurrentDoc(cs[i]) <= d
      BY <2>1, Unpassed, Zenon DEF Upto
    <2>3. CurrentDoc(cs[i]) = d
      BY <1>2, <1>4, <2>2
    <2> QED
      BY <1>1, <2>2, <2>3, Zenon DEF At
  <1>6. Full(q, d) = SumFunctionOnSet(f, U)
    BY <1>1, <1>3, <1>5, FullOver, Zenon
  <1>7. ASSUME NEW i \in U
        PROVE  f[i] \in Nat /\ f[i] = g[i]
    <2>1. i \in DOMAIN cs /\ i \in 1..Len(q) /\ CurrentDoc(cs[i]) = d
      BY <1>1, <1>3, Zenon DEF At
    <2>2. Stands(cs[i], q[i], d)
      BY <2>1, CursorsFacts, Zenon
    <2>3. d \in DocsOf(q[i]) /\ cs[i].postings[cs[i].pos].score = DocScore(q[i], d)
      BY <1>4, <2>2, Zenon DEF Stands
    <2>4. f[i] \in Nat /\ f[i] = DocScore(q[i], d)
      BY <1>1, <2>1, <2>3, GainIs, Zenon
    <2> QED
      BY <1>1, <2>3, <2>4, Zenon
  <1>8. SumFunctionOnSet(f, U) = SumFunctionOnSet(g, U)
    BY <1>3, <1>7, SumSame, Zenon
  <1>9. ScoreAt(cs, d) = SumFunctionOnSet(g, U)
    <2>1. ScoreAt(cs, d) = SumFunction(g) /\ DOMAIN g = U
      BY <1>1, Zenon DEF ScoreAt
    <2> QED
      BY <2>1, SumDomain, Zenon
  <1> QED
    BY <1>6, <1>8, <1>9, Zenon

\* The hits offered.
Of(q, off) == {x \in Hits(q) : x.docid \in Range(off)}

\* The offers so far: ascending, behind every cursor, the best of them in the heap.
OfferOk(q, cs, h, off) ==
    /\ off \in Seq(Nat) /\ Range(off) \in SUBSET HitDocs(q)
    /\ \A i, j \in DOMAIN off : i < j => off[i] < off[j]
    /\ \A d \in Range(off), i \in DOMAIN cs : d < CurrentDoc(cs[i])
    /\ Best(h, Of(q, off))

\* The skipped document e cannot reach the score x: not by the bounds of the cursors
\* that are still before it, so it is never the pivot; nor in truth when bounds fall.
Low(q, cs, e, x) == Ceil(cs, e) < x /\ (AllFall(cs) => Full(q, e) < x)

\* The invariant of the loop.
LoopOk(q, cs, h, off) ==
    /\ QueryOk(q) /\ k \in Nat \ {0}
    /\ CursorsOk(q, cs)
    /\ OfferOk(q, cs, h, off)
    /\ \A e \in Skip(q, cs, off) : Low(q, cs, e, Threshold(h))

\* The least pivot of the sorted cursors, and its document.
PivotAt(cs, o, x, d) ==
    LET ps == Pivots(cs, o, x) IN ps # {} /\ d = CurrentDoc(cs[o[Min(ps)]])

\* What is known of the pivot's document.
LEMMA PivotFacts ==
    ASSUME NEW q, NEW cs, NEW h, NEW off, LoopOk(q, cs, h, off), NEW o \in Sorted(cs),
           NEW x, x = Threshold(h), NEW d, PivotAt(cs, o, x, d)
    PROVE  /\ x \in Int /\ Family(cs) /\ ListOf(cs, o, Cardinality(DOMAIN cs))
           /\ d \in Docs /\ d \in Nat /\ d <= NoDoc /\ d \in HitDocs(q)
           /\ o[1] \in DOMAIN cs /\ \A i \in DOMAIN cs : CurrentDoc(cs[o[1]]) <= CurrentDoc(cs[i])
           /\ \A m \in Pivots(cs, o, x) : d <= CurrentDoc(cs[o[m]])
           /\ \A e \in Skip(q, cs, off) : e < d
           /\ d \notin Skip(q, cs, off)
  <1>1. QueryOk(q) /\ k \in Nat \ {0} /\ CursorsOk(q, cs) /\ Best(h, Of(q, off))
        /\ \A e \in Skip(q, cs, off) : Ceil(cs, e) < x
    BY Zenon DEF LoopOk, OfferOk, Low
  <1>2. Family(cs)
    BY <1>1, CursorsFacts, Zenon
  <1>3. x \in Int
    <2>1. HitsOk(Of(q, off))
      BY <1>1, HitsFacts, SubHits, Zenon DEF Of
    <2> QED
      BY <1>1, <2>1, ThresholdIs, Zenon
  <1>4. PICK n : n = Cardinality(DOMAIN cs)
    BY Zenon
  <1>5. ListOf(cs, o, n)
    BY <1>2, <1>4, SortedFacts, Zenon
  <1>6. /\ n \in Nat /\ o \in [1..n -> DOMAIN cs] /\ Len(o) = n
        /\ \A c \in DOMAIN cs : \E i \in 1..n : o[i] = c
        /\ \A i, j \in 1..n : i <= j => CurrentDoc(cs[o[i]]) <= CurrentDoc(cs[o[j]])
    BY <1>5, Zenon DEF ListOf
  <1>7. PICK ps, m : ps = Pivots(cs, o, x) /\ ps # {} /\ m = Min(ps) /\ d = CurrentDoc(cs[o[m]])
    BY Zenon DEF PivotAt
  <1>8. \A j \in ps : j \in 1..n /\ CurrentDoc(cs[o[j]]) # NoDoc
    BY <1>6, <1>7, Zenon DEF Pivots
  <1>9. ps \subseteq Nat
    BY <1>6, <1>8
  <1>10. m \in ps /\ \A j \in ps : m <= j
    BY <1>7, <1>9, MinFacts, Zenon
  <1>11. m \in 1..n /\ d # NoDoc /\ o[m] \in DOMAIN cs
    BY <1>6, <1>7, <1>8, <1>10, Zenon
  <1>12. d \in DocsOf(q[o[m]])
    <2>1. Stands(cs[o[m]], q[o[m]], d)
      BY <1>1, <1>7, <1>11, CursorsFacts, Zenon
    <2> QED
      BY <1>11, <2>1, Zenon DEF Stands
  <1>13. d \in Docs /\ d \in Nat /\ d \in HitDocs(q)
    <2>1. o[m] \in Fnd(q)
      BY <1>1, <1>11, Zenon DEF CursorsOk
    <2> QED
      BY <1>1, <1>12, <2>1, HitDocsAre, DocsFacts, Zenon
  <1>14. d <= NoDoc
    <2>1. d < NoDoc /\ NoDoc \in Nat
      BY <1>13, DocsAre, Zenon
    <2> QED
      BY <1>13, <2>1
  <1>15. 1 \in 1..n /\ \A j \in 1..n : 1 <= j
    BY <1>6, <1>11
  <1>16. o[1] \in DOMAIN cs /\ \A i \in DOMAIN cs : CurrentDoc(cs[o[1]]) <= CurrentDoc(cs[i])
    BY <1>6, <1>15, Zenon
  <1>17. \A j \in ps : d <= CurrentDoc(cs[o[j]])
    BY <1>6, <1>7, <1>8, <1>10, <1>11, Zenon
  <1>18. ASSUME NEW e \in Nat, d <= e
         PROVE  e \notin Skip(q, cs, off)
    <2>1. x <= Ceil(cs, e)
      BY <1>2, <1>3, <1>5, <1>7, <1>10, <1>18, PivotReaches
    <2>2. Ceil(cs, e) \in Nat
      BY <1>2, CeilIs, Zenon
    <2>3. ~(Ceil(cs, e) < x)
      BY <1>3, <2>1, <2>2
    <2> QED
      BY <1>1, <2>3, Zenon
  <1>19. \A e \in Skip(q, cs, off) : e \in Nat
    <2>1. \A e \in Skip(q, cs, off) : e \in Docs
      BY <1>1, HitDocsAre, Zenon DEF Skip
    <2> QED
      BY <2>1, DocsAre, Zenon
  <1>20. ASSUME NEW e \in Skip(q, cs, off)
         PROVE  e < d
    <2>1. e \in Nat /\ ~(d <= e)
      BY <1>18, <1>19, Zenon
    <2> QED
      BY <1>13, <2>1
  <1>21. d \notin Skip(q, cs, off)
    <2>1. d <= d
      BY <1>13
    <2> QED
      BY <1>13, <1>18, <2>1, Zenon
  <1>22. \A j \in Pivots(cs, o, x) : d <= CurrentDoc(cs[o[j]])
    BY <1>7, <1>17, Zenon
  <1> QED
    BY <1>2, <1>3, <1>4, <1>5, <1>13, <1>14, <1>16, <1>20, <1>21, <1>22, Zenon

\* What was low stays low while the threshold rises and cursors move past e.
LEMMA LowKeeps ==
    ASSUME NEW q, NEW cs, Family(cs), NEW cz, Family(cz), DOMAIN cz = DOMAIN cs,
           NEW e \in Docs, NEW x \in Int, NEW y \in Int, x <= y, Low(q, cs, e, x), Full(q, e) \in Nat,
           \A i \in DOMAIN cs : cz[i].windows = cs[i].windows,
           \A i \in DOMAIN cs : cz[i] = cs[i] \/ ~(CurrentDoc(cz[i]) <= e)
    PROVE  Low(q, cz, e, y)
  <1>1. Ceil(cz, e) <= Ceil(cs, e)
    BY CeilFalls, Zenon
  <1>2. Ceil(cz, e) \in Nat /\ Ceil(cs, e) \in Nat
    BY CeilIs, Zenon
  <1>3. Ceil(cs, e) < x /\ (AllFall(cs) => Full(q, e) < x)
    BY Zenon DEF Low
  <1>4. Ceil(cz, e) < y
    BY <1>1, <1>2, <1>3
  <1>5. AllFall(cz) => AllFall(cs)
    BY Zenon DEF AllFall, Falls
  <1>6. AllFall(cs) => Full(q, e) < y
    BY <1>3
  <1> QED
    BY <1>4, <1>5, <1>6, Zenon DEF Low

\* Appending to the documents offered.
LEMMA Offered ==
    ASSUME NEW off \in Seq(Nat), NEW d \in Nat, \A x \in Range(off) : x < d,
           \A i, j \in DOMAIN off : i < j => off[i] < off[j], NEW oz, oz = Append(off, d)
    PROVE  /\ oz \in Seq(Nat) /\ Range(oz) = Range(off) \cup {d}
           /\ \A i, j \in DOMAIN oz : i < j => oz[i] < oz[j]
  <1>1. PICK n \in Nat : n = Len(off)
    OBVIOUS
  <1>2. DOMAIN off = 1..n /\ DOMAIN oz = 1..(n + 1) /\ oz[n + 1] = d
        /\ \A i \in 1..n : oz[i] = off[i] /\ off[i] \in Nat
    BY <1>1
  <1>3. oz \in Seq(Nat)
    OBVIOUS
  <1>4. \A i \in 1..(n + 1) : i \in 1..n \/ i = n + 1
    BY <1>1
  <1>5. \A i \in 1..n : i \in 1..(n + 1)
    BY <1>1
  <1>6. n + 1 \in 1..(n + 1)
    BY <1>1
  <1>7. Range(off) = {off[i] : i \in 1..n} /\ Range(oz) = {oz[i] : i \in 1..(n + 1)}
    BY <1>2, Zenon DEF Range
  <1>8. Range(oz) = Range(off) \cup {d}
    <2>1. \A i \in 1..(n + 1) : oz[i] \in Range(off) \cup {d}
      BY <1>2, <1>4, <1>7, Zenon
    <2>2. \A i \in 1..n : off[i] \in Range(oz)
      BY <1>2, <1>5, <1>7, Zenon
    <2>3. d \in Range(oz)
      BY <1>2, <1>6, <1>7, Zenon
    <2> QED
      BY <1>7, <2>1, <2>2, <2>3, Zenon
  <1>9. ASSUME NEW i \in 1..(n + 1), NEW j \in 1..(n + 1), i < j
        PROVE  oz[i] < oz[j]
    <2>1. i \in 1..n
      BY <1>1, <1>9
    <2>2. CASE j \in 1..n
      BY <1>2, <1>9, <2>1, <2>2, Zenon
    <2>3. CASE j = n + 1
      BY <1>2, <1>7, <2>1, <2>3, Zenon
    <2> QED
      BY <1>4, <2>2, <2>3, Zenon
  <1> QED
    BY <1>2, <1>3, <1>8, <1>9, Zenon

\* The cursors after the pivot's document is scored.
AfterScore(cs, d) ==
    [i \in DOMAIN cs |-> IF i \in At(cs, d) THEN [cs[i] EXCEPT !.pos = @ + 1] ELSE cs[i]]

\* The cursors cz are cs, those on document d moved on past it.
PastDoc(q, cs, cz, d) ==
    /\ CursorsOk(q, cz) /\ DOMAIN cz = DOMAIN cs
    /\ \A i \in DOMAIN cs : CurrentDoc(cs[i]) # d => cz[i] = cs[i]
    /\ \A i \in DOMAIN cs : CurrentDoc(cs[i]) = d => Moved(cs[i], cz[i], q[i], d + 1)
    /\ \A i \in DOMAIN cs : cz[i].windows = cs[i].windows

\* Scoring the pivot's document moves each cursor on it past it, and no other.
LEMMA AfterScoreFacts ==
    ASSUME NEW q, QueryOk(q), NEW cs, CursorsOk(q, cs), NEW d \in Docs, NEW cz, cz = AfterScore(cs, d)
    PROVE  PastDoc(q, cs, cz, d)
  <1>1. DOMAIN cz = DOMAIN cs /\ DOMAIN cs = Fnd(q) /\ \A i \in DOMAIN cs : CursorOk(cs[i], q[i])
    BY Zenon DEF AfterScore, CursorsOk
  <1>2. \A i \in DOMAIN cs : CurrentDoc(cs[i]) # d => cz[i] = cs[i]
    BY Zenon DEF AfterScore, At
  <1>3. \A i \in DOMAIN cs : CurrentDoc(cs[i]) = d => cz[i] = [cs[i] EXCEPT !.pos = @ + 1]
    BY Zenon DEF AfterScore, At
  <1>4. d # NoDoc
    <2>1. d < NoDoc /\ d \in Nat /\ NoDoc \in Nat
      BY DocsAre, Zenon
    <2> QED
      BY <2>1
  <1>5. ASSUME NEW i \in DOMAIN cs, CurrentDoc(cs[i]) = d
        PROVE  Moved(cs[i], cz[i], q[i], d + 1)
    <2>1. TermOk(q[i]) /\ CursorOk(cs[i], q[i])
      BY CursorsFacts, Zenon
    <2>2. Moved(cs[i], [cs[i] EXCEPT !.pos = @ + 1], q[i], d + 1)
      BY <1>4, <1>5, <2>1, NextMoves
    <2> QED
      BY <1>3, <1>5, <2>2, Zenon
  <1>6. \A i \in DOMAIN cs : CursorOk(cz[i], q[i]) /\ cz[i].windows = cs[i].windows
    BY <1>1, <1>2, <1>5, Zenon DEF Moved
  <1> QED
    BY <1>1, <1>2, <1>5, <1>6, Zenon DEF CursorsOk, PastDoc

\* The iteration that scores the pivot's document keeps the invariant.
LEMMA ScoreKeeps ==
    ASSUME NEW q, NEW cs, NEW h, NEW off, LoopOk(q, cs, h, off), NEW o \in Sorted(cs),
           NEW d, PivotAt(cs, o, Threshold(h), d), CurrentDoc(cs[o[1]]) = d
    PROVE  LoopOk(q, AfterScore(cs, d), Offer(h, [docid |-> d, score |-> ScoreAt(cs, d)]), Append(off, d))
  <1>1. PICK x, cz, oz : x = Threshold(h) /\ cz = AfterScore(cs, d) /\ oz = Append(off, d)
    BY Zenon
  <1>2. /\ QueryOk(q) /\ k \in Nat \ {0} /\ CursorsOk(q, cs)
        /\ \A e \in Skip(q, cs, off) : Low(q, cs, e, x)
    BY <1>1, Zenon DEF LoopOk
  <1>3. /\ off \in Seq(Nat) /\ Range(off) \in SUBSET HitDocs(q)
        /\ \A i, j \in DOMAIN off : i < j => off[i] < off[j]
        /\ \A e \in Range(off), i \in DOMAIN cs : e < CurrentDoc(cs[i])
        /\ Best(h, Of(q, off))
    BY Zenon DEF LoopOk, OfferOk
  <1>4. PivotAt(cs, o, x, d)
    BY <1>1, Zenon
  <1>5. /\ x \in Int /\ Family(cs)
        /\ d \in Docs /\ d \in Nat /\ d \in HitDocs(q)
        /\ o[1] \in DOMAIN cs /\ \A i \in DOMAIN cs : d <= CurrentDoc(cs[i])
        /\ \A e \in Skip(q, cs, off) : e < d
        /\ d \notin Skip(q, cs, off)
    BY <1>1, <1>4, PivotFacts
  <1>6. \A e \in Range(off) : e < d
    BY <1>3, <1>5, Zenon
  <1>7. d \notin Range(off)
    <2>1. ~(d < d)
      BY <1>5
    <2> QED
      BY <1>6, <2>1, Zenon
  <1>8. ScoreAt(cs, d) = Full(q, d)
    BY <1>2, <1>5, <1>7, ScoreIsFull
  <1>9. PICK e, g : e = [docid |-> d, score |-> Full(q, d)] /\ g = Offer(h, e)
    BY Zenon
  <1>10. /\ oz \in Seq(Nat) /\ Range(oz) = Range(off) \cup {d}
         /\ \A i, j \in DOMAIN oz : i < j => oz[i] < oz[j]
    BY <1>1, <1>3, <1>5, <1>6, Offered, Zenon
  <1>11. /\ CursorsOk(q, cz) /\ DOMAIN cz = DOMAIN cs
         /\ \A i \in DOMAIN cs : CurrentDoc(cs[i]) # d => cz[i] = cs[i]
         /\ \A i \in DOMAIN cs : CurrentDoc(cs[i]) = d => Moved(cs[i], cz[i], q[i], d + 1)
         /\ \A i \in DOMAIN cs : cz[i].windows = cs[i].windows
    <2>1. d \in Docs /\ QueryOk(q) /\ CursorsOk(q, cs)
      BY <1>2, <1>5, Zenon
    <2>2. PastDoc(q, cs, cz, d)
      BY <1>1, <2>1, AfterScoreFacts, ZenonT(40)
    <2> QED
      BY <2>2, Zenon DEF PastDoc
  <1>12. Family(cz)
    BY <1>2, <1>11, CursorsFacts, Zenon
  <1>13. e \in Hits(q) /\ e.docid = d /\ e \notin Of(q, off) /\ Of(q, oz) = Of(q, off) \cup {e}
    <2>1. e \in Hits(q)
      BY <1>2, <1>5, <1>9, HitsFacts, Zenon
    <2>2. e.docid = d
      BY <1>9
    <2>3. \A y \in Hits(q) : y.docid = d => y = e
      BY <1>2, <2>1, <2>2, HitsFacts, Zenon DEF HitsOk
    <2> QED
      BY <1>7, <1>10, <2>1, <2>2, <2>3, Zenon DEF Of
  <1>14. HitsOk(Of(q, oz))
    BY <1>2, HitsFacts, SubHits, Zenon DEF Of
  <1>15. Best(g, Of(q, oz))
    <2>1. PICK O : O = Of(q, off)
      OBVIOUS
    <2>2. HitsOk(O \cup {e}) /\ e \notin O /\ Best(h, O) /\ Of(q, oz) = O \cup {e}
      BY <1>3, <1>13, <1>14, <2>1, Zenon
    <2>3. Best(Offer(h, e), O \cup {e})
      BY <1>2, <2>2, OfferBest, ZenonT(40)
    <2> QED
      BY <1>9, <2>2, <2>3, Zenon
  <1>16. x <= Threshold(g)
    BY <1>1, <1>2, <1>3, <1>9, <1>13, <1>14, OfferRaises
  <1>17. Threshold(g) \in Int
    BY <1>2, <1>14, <1>15, ThresholdIs, Zenon
  <1>18. ASSUME NEW i \in DOMAIN cs
         PROVE  CurrentDoc(cz[i]) \in Nat /\ d < CurrentDoc(cz[i])
    <2>1. CurrentDoc(cz[i]) \in Nat /\ CurrentDoc(cs[i]) \in Nat /\ d <= CurrentDoc(cs[i])
      BY <1>5, <1>11, <1>12, Zenon DEF Family
    <2>2. CASE CurrentDoc(cs[i]) = d
      <3>1. CurrentDoc(cz[i]) >= d + 1
        BY <1>11, <2>2, Zenon DEF Moved
      <3> QED
        <4>1. PICK z : z = CurrentDoc(cz[i]) /\ z \in Nat /\ z >= d + 1 /\ d \in Nat
          BY <1>5, <2>1, <3>1, Zenon
        <4>2. d < z
          BY <4>1
        <4> QED
          BY <4>1, <4>2, Zenon
    <2>3. CASE CurrentDoc(cs[i]) # d
      <3>1. cz[i] = cs[i]
        BY <1>11, <2>3, Zenon
      <3> QED
        BY <1>5, <2>1, <2>3, <3>1
    <2> QED
      BY <2>2, <2>3, Zenon
  <1>19. \A y \in Range(oz), i \in DOMAIN cz : y < CurrentDoc(cz[i])
    <2>1. SUFFICES ASSUME NEW y \in Range(oz), NEW i \in DOMAIN cs PROVE y < CurrentDoc(cz[i])
      BY <1>11, Zenon
    <2>2. y = d \/ (y \in Range(off) /\ y < d)
      BY <1>6, <1>10, Zenon
    <2>3. y \in Nat
      <3>1. HitDocs(q) \in SUBSET Docs
        BY <1>2, HitDocsAre, Zenon
      <3> QED
        BY <1>3, <1>5, <2>2, <3>1, DocsAre, Zenon
    <2> QED
      BY <1>5, <1>18, <2>2, <2>3
  <1>20. OfferOk(q, cz, g, oz)
    BY <1>3, <1>5, <1>10, <1>15, <1>19, Zenon DEF OfferOk
  <1>21. ASSUME NEW y \in Skip(q, cz, oz)
         PROVE  Low(q, cz, y, Threshold(g))
    <2>1. y \in HitDocs(q) /\ y \notin Range(off) /\ y # d
      BY <1>10, Zenon DEF Skip
    <2>2. y \in Docs /\ y \in Nat /\ Full(q, y) \in Nat
      BY <1>2, <2>1, HitDocsAre, HitsFacts, DocsAre, Zenon
    <2>3. PICK i \in DOMAIN cs : y \in DocsOf(q[i]) /\ y < CurrentDoc(cz[i])
      BY <1>11, Zenon DEF Skip
    <2>4. y < CurrentDoc(cs[i])
      <3>1. CASE CurrentDoc(cs[i]) = d
        <4>1. y < d + 1
          BY <1>11, <2>3, <3>1, Zenon DEF Moved
        <4> QED
          BY <1>5, <2>1, <2>2, <3>1, <4>1
      <3>2. CASE CurrentDoc(cs[i]) # d
        BY <1>11, <2>3, <3>2, Zenon
      <3> QED
        BY <3>1, <3>2, Zenon
    <2>5. y \in Skip(q, cs, off)
      BY <2>1, <2>3, <2>4, Zenon DEF Skip
    <2>6. y < d /\ Low(q, cs, y, x)
      BY <1>2, <1>5, <2>5, Zenon
    <2>7. \A j \in DOMAIN cs : cz[j] = cs[j] \/ ~(CurrentDoc(cz[j]) <= y)
      BY <1>5, <1>18, <2>2, <2>6
    <2> QED
      BY <1>5, <1>11, <1>12, <1>16, <1>17, <2>2, <2>6, <2>7, LowKeeps
  <1>22. LoopOk(q, cz, g, oz)
    BY <1>2, <1>11, <1>20, <1>21, Zenon DEF LoopOk
  <1> QED
    BY <1>1, <1>8, <1>9, <1>22, Zenon

\* The iteration that moves the first cursor up to the pivot keeps the invariant.
LEMMA AdvanceKeeps ==
    ASSUME NEW q, NEW cs, NEW h, NEW off, LoopOk(q, cs, h, off), NEW o \in Sorted(cs),
           NEW d, PivotAt(cs, o, Threshold(h), d), CurrentDoc(cs[o[1]]) < d,
           NEW cz, cz = [cs EXCEPT ![o[1]] = SkipTo(@, d)]
    PROVE  LoopOk(q, cz, h, off) /\ Moved(cs[o[1]], cz[o[1]], q[o[1]], d)
  <1>1. PICK x, a, n : x = Threshold(h) /\ a = o[1] /\ n = Cardinality(DOMAIN cs)
    BY Zenon
  <1>2. /\ QueryOk(q) /\ k \in Nat \ {0} /\ CursorsOk(q, cs)
        /\ \A e \in Skip(q, cs, off) : Low(q, cs, e, x)
    BY <1>1, Zenon DEF LoopOk
  <1>3. /\ off \in Seq(Nat) /\ Range(off) \in SUBSET HitDocs(q)
        /\ \A i, j \in DOMAIN off : i < j => off[i] < off[j]
        /\ \A e \in Range(off), i \in DOMAIN cs : e < CurrentDoc(cs[i])
        /\ Best(h, Of(q, off))
    BY Zenon DEF LoopOk, OfferOk
  <1>4. PivotAt(cs, o, x, d)
    BY <1>1, Zenon
  <1>5. /\ x \in Int /\ Family(cs) /\ ListOf(cs, o, n)
        /\ d \in Docs /\ d \in Nat /\ d <= NoDoc
        /\ a \in DOMAIN cs
        /\ \A m \in Pivots(cs, o, x) : d <= CurrentDoc(cs[o[m]])
        /\ \A e \in Skip(q, cs, off) : e < d
    BY <1>1, <1>4, PivotFacts
  <1>6. /\ DOMAIN cz = DOMAIN cs /\ cz[a] = SkipTo(cs[a], d)
        /\ \A i \in DOMAIN cs : i # a => cz[i] = cs[i]
    BY <1>1, <1>5, Zenon
  <1>7. Moved(cs[a], cz[a], q[a], d)
    <2>1. TermOk(q[a]) /\ CursorOk(cs[a], q[a])
      BY <1>2, <1>5, CursorsFacts, Zenon
    <2>2. CurrentDoc(cs[a]) < d
      BY <1>1, Zenon
    <2>3. Moved(cs[a], SkipTo(cs[a], d), q[a], d)
      BY <1>5, <2>1, <2>2, SkipMoves
    <2> QED
      BY <1>6, <2>3, Zenon
  <1>8. \A i \in DOMAIN cs : CursorOk(cz[i], q[i]) /\ cz[i].windows = cs[i].windows
    <2>1. \A i \in DOMAIN cs : CursorOk(cs[i], q[i])
      BY <1>2, Zenon DEF CursorsOk
    <2> QED
      BY <1>6, <1>7, <2>1, Zenon DEF Moved
  <1>9. CursorsOk(q, cz)
    BY <1>2, <1>6, <1>8, Zenon DEF CursorsOk
  <1>10. Family(cz)
    BY <1>2, <1>9, CursorsFacts, Zenon
  <1>11. CurrentDoc(cz[a]) >= d /\ CurrentDoc(cz[a]) \in Nat /\ CurrentDoc(cs[a]) \in Nat
         /\ CurrentDoc(cs[a]) < d /\ \A e \in DocsOf(q[a]) : e < CurrentDoc(cz[a]) => e < d
    BY <1>1, <1>5, <1>6, <1>7, <1>10, Zenon DEF Moved, Family
  <1>12. \A e \in Range(off), i \in DOMAIN cz : e < CurrentDoc(cz[i])
    <2>1. SUFFICES ASSUME NEW e \in Range(off), NEW i \in DOMAIN cs PROVE e < CurrentDoc(cz[i])
      BY <1>6, Zenon
    <2>2. CASE i = a
      <3>1. e < CurrentDoc(cs[a]) /\ e \in Nat
        <4>1. HitDocs(q) \in SUBSET Docs
          BY <1>2, HitDocsAre, Zenon
        <4> QED
          BY <1>3, <1>5, <4>1, DocsAre, Zenon
      <3> QED
        <4>1. PICK y, z : /\ y = CurrentDoc(cs[a]) /\ z = CurrentDoc(cz[a]) /\ y \in Nat
                          /\ z \in Nat /\ d \in Nat /\ e \in Nat /\ z >= d /\ y < d /\ e < y
          BY <1>5, <1>11, <3>1, Zenon
        <4>2. e < z
          BY <4>1
        <4> QED
          BY <2>2, <4>1, <4>2, Zenon
    <2>3. CASE i # a
      BY <1>3, <1>6, <2>3, Zenon
    <2> QED
      BY <2>2, <2>3, Zenon
  <1>13. OfferOk(q, cz, h, off)
    BY <1>3, <1>12, Zenon DEF OfferOk
  <1>14. ASSUME NEW y \in Skip(q, cz, off)
         PROVE  Low(q, cz, y, x)
    <2>1. y \in HitDocs(q) /\ y \notin Range(off)
      BY Zenon DEF Skip
    <2>2. y \in Docs /\ y \in Nat /\ Full(q, y) \in Nat
      BY <1>2, <2>1, HitDocsAre, HitsFacts, DocsAre, Zenon
    <2>3. PICK i \in DOMAIN cs : y \in DocsOf(q[i]) /\ y < CurrentDoc(cz[i])
      BY <1>6, Zenon DEF Skip
    <2>4. y < d /\ Low(q, cs, y, x)
      <3>1. CASE y \in Skip(q, cs, off)
        BY <1>2, <1>5, <3>1, Zenon
      <3>2. CASE y \notin Skip(q, cs, off)
        <4>1. i = a
          BY <1>6, <2>1, <2>3, <3>2, Zenon DEF Skip
        <4>2. y < d
          BY <1>11, <2>3, <4>1, Zenon
        <4>3. i \in Upto(cs, y)
          <5>1. i \in 1..Len(q)
            BY <1>2, CursorsFacts, Zenon
          <5> QED
            BY <1>2, <2>1, <2>3, <3>2, <5>1, Unpassed, Zenon
        <4>4. \A m \in Pivots(cs, o, x) : ~(CurrentDoc(cs[o[m]]) <= y)
          <5>1. SUFFICES ASSUME NEW m \in Pivots(cs, o, x) PROVE ~(CurrentDoc(cs[o[m]]) <= y)
            BY Zenon
          <5>2. d <= CurrentDoc(cs[o[m]])
            BY <1>5, Zenon
          <5>3. CurrentDoc(cs[o[m]]) \in Nat
            <6>1. m \in 1..Len(o) /\ o \in [1..n -> DOMAIN cs] /\ Len(o) = n
              BY <1>5, Zenon DEF Pivots, ListOf
            <6> QED
              BY <1>5, <6>1, Zenon DEF Family
          <5> QED
            BY <1>5, <2>2, <4>2, <5>2, <5>3
        <4>5. Ceil(cs, y) < x
          BY <1>5, <2>2, <4>3, <4>4, CeilBelow
        <4>6. AllFall(cs) => Full(q, y) <= Ceil(cs, y)
          BY <1>2, <2>1, <3>2, FullUnder, Zenon
        <4>7. Ceil(cs, y) \in Nat
          BY <1>5, CeilIs, Zenon
        <4>8. AllFall(cs) => Full(q, y) < x
          BY <1>5, <2>2, <4>5, <4>6, <4>7
        <4> QED
          BY <4>2, <4>5, <4>8, Zenon DEF Low
      <3> QED
        BY <3>1, <3>2, Zenon
    <2>5. \A j \in DOMAIN cs : cz[j] = cs[j] \/ ~(CurrentDoc(cz[j]) <= y)
      <3>1. ~(CurrentDoc(cz[a]) <= y)
        <4>1. PICK z : z = CurrentDoc(cz[a]) /\ z \in Nat /\ d \in Nat /\ y \in Nat /\ z >= d /\ y < d
          BY <1>5, <1>11, <2>2, <2>4, Zenon
        <4>2. ~(z <= y)
          BY <4>1
        <4> QED
          BY <4>1, <4>2, Zenon
      <3> QED
        BY <1>6, <3>1, Zenon
    <2>6. x <= x
      BY <1>5
    <2> QED
      BY <1>5, <1>6, <1>8, <1>10, <2>2, <2>4, <2>5, <2>6, LowKeeps, Zenon
  <1>15. LoopOk(q, cz, h, off)
    BY <1>1, <1>2, <1>9, <1>13, <1>14, Zenon DEF LoopOk
  <1> QED
    BY <1>1, <1>7, <1>15, Zenon

\* When no pivot is left and no bounds rise, no document outside the heap is better.
LEMMA FinishBest ==
    ASSUME NEW q, NEW cs, NEW h, NEW off, LoopOk(q, cs, h, off), NEW o \in Sorted(cs),
           Pivots(cs, o, Threshold(h)) = {}, AllFall(cs)
    PROVE  Best(h, Hits(q))
  <1>1. PICK x, n : x = Threshold(h) /\ n = Cardinality(DOMAIN cs)
    BY Zenon
  <1>2. /\ QueryOk(q) /\ k \in Nat \ {0} /\ CursorsOk(q, cs) /\ Best(h, Of(q, off))
        /\ \A e \in Skip(q, cs, off) : Low(q, cs, e, x)
    BY <1>1, Zenon DEF LoopOk, OfferOk
  <1>3. HitsOk(Hits(q)) /\ Of(q, off) \in SUBSET Hits(q) /\ HitsOk(Of(q, off))
    BY <1>2, HitsFacts, SubHits, Zenon DEF Of
  <1>4. x \in Int
    BY <1>1, <1>2, <1>3, ThresholdIs, Zenon
  <1>5. Family(cs)
    BY <1>2, CursorsFacts, Zenon
  <1>6. ListOf(cs, o, n)
    BY <1>1, <1>5, SortedFacts, Zenon
  <1>7. ASSUME NEW y \in HitDocs(q), y \notin Range(off)
        PROVE  Full(q, y) < x
    <2>1. CASE y \in Skip(q, cs, off)
      BY <1>2, <2>1, Zenon DEF Low
    <2>2. CASE y \notin Skip(q, cs, off)
      <3>1. y \in Docs
        BY <1>2, HitDocsAre, Zenon
      <3>2. PICK i \in Fnd(q) : y \in DocsOf(q[i])
        BY <1>2, HitDocsAre, Zenon
      <3>3. i \in Upto(cs, y)
        <4>1. i \in 1..Len(q)
          BY <1>2, QueryPlaces, Zenon
        <4> QED
          BY <1>2, <1>7, <2>2, <3>2, <4>1, Unpassed, Zenon
      <3>4. Upto(cs, y) # {} /\ \A m \in Pivots(cs, o, x) : ~(CurrentDoc(cs[o[m]]) <= y)
        BY <1>1, <3>3, Zenon
      <3>5. Ceil(cs, y) < x
        BY <1>4, <1>5, <1>6, <3>1, <3>4, CeilBelow
      <3>6. Full(q, y) <= Ceil(cs, y) /\ Full(q, y) \in Nat
        BY <1>2, <1>7, <2>2, FullUnder, Zenon
      <3>7. Ceil(cs, y) \in Nat
        BY <1>5, CeilIs, Zenon
      <3> QED
        BY <1>4, <3>5, <3>6, <3>7
    <2> QED
      BY <2>1, <2>2, Zenon
  <1>8. \A a \in Hits(q) \ Of(q, off) : a.score < Threshold(h)
    <2>1. SUFFICES ASSUME NEW a \in Hits(q) \ Of(q, off) PROVE a.score < x
      BY <1>1, Zenon
    <2>2. a.docid \in HitDocs(q) /\ a.score = Full(q, a.docid)
      BY <1>2, HitsFacts, Zenon
    <2>3. a.docid \notin Range(off)
      BY Zenon DEF Of
    <2> QED
      BY <1>7, <2>2, <2>3, Zenon
  <1> QED
    BY <1>2, <1>3, <1>8, BestOfMore

----------------------------------------------------------------------------
(* A step leaves the index and k alone, and with them what follows from them. *)

\* The index does not change.
LEMMA SameDocs ==
    ASSUME corpus' = corpus, NEW t
    PROVE  DocsOf(t)' = DocsOf(t)
  BY Zenon DEF DocsOf

\* Nor does a term's document frequency,
LEMMA SameDf ==
    ASSUME corpus' = corpus, NEW t
    PROVE  Df(t)' = Df(t)
  BY SameDocs, Zenon DEF Df

\* the list of its documents,
LEMMA SameSeq ==
    ASSUME corpus' = corpus, NEW t
    PROVE  DocSeq(t)' = DocSeq(t)
  BY SameDocs DEF DocSeq

\* a document's score,
LEMMA SameScore ==
    ASSUME corpus' = corpus, NEW t, NEW d
    PROVE  DocScore(t, d)' = DocScore(t, d)
  BY SameDf, Zenon DEF DocScore, Score

\* or what ScoreDecoded returns for the term.
LEMMA SamePostings ==
    ASSUME corpus' = corpus, NEW t
    PROVE  Postings(t)' = Postings(t)
  <1>1. PICK ds : DocSeq(t) = ds /\ DocSeq(t)' = ds
    BY SameSeq, Zenon
  <1>2. PICK n : Df(t) = n /\ Df(t)' = n
    BY SameDf, Zenon
  <1>3. ASSUME NEW i
        PROVE  DocScore(t, ds[i])' = DocScore(t, ds[i])
    BY SameScore, Zenon
  <1>4. /\ Postings(t) = [i \in 1..n |-> [docid |-> ds[i], score |-> DocScore(t, ds[i])]]
        /\ Postings(t)' = [i \in 1..n |-> [docid |-> ds[i], score |-> DocScore(t, ds[i])']]
    BY <1>1, <1>2, Zenon DEF Postings
  <1> QED
    BY <1>3, <1>4, Zenon

\* The list ds of n documents, cut into windows.
CutAll(ds, n) ==
    [w \in 1..((n + WindowDocs - 1) \div WindowDocs) |->
        LET first == (w - 1) * WindowDocs + 1
        IN  SubSeq(ds, first, Min({first + WindowDocs - 1, n}))]

\* So BuildWindowBounds returns the same bounds,
LEMMA SameBuild ==
    ASSUME corpus' = corpus, NEW t
    PROVE  BuildWindowBounds(t)' = BuildWindowBounds(t)
  <1>0. WindowsOf(t) = CutAll(DocSeq(t), Df(t)) /\ WindowsOf(t)' = CutAll(DocSeq(t), Df(t))'
    BY Zenon DEF WindowsOf, CutAll
  <1>1. WindowsOf(t)' = WindowsOf(t)
    BY <1>0, SameDf, SameSeq
  <1> QED
    BY <1>1, SameDf, Zenon DEF BuildWindowBounds, BlockMax, Score

\* and SingleWindowFallback the same window:
LEMMA SameSingle ==
    ASSUME corpus' = corpus, NEW t
    PROVE  SingleWindowFallback(t)' = SingleWindowFallback(t)
  <1>1. {DocScore(t, d) : d \in DocsOf(t)}' = {DocScore(t, d) : d \in DocsOf(t)}
    BY SameDocs, SameDf DEF DocScore, Score
  <1>2. Max({DocScore(t, d) : d \in DocsOf(t)})' = Max({DocScore(t, d) : d \in DocsOf(t)})
    BY <1>1, Zenon
  <1> QED
    BY <1>2, SameDf, SameSeq, Zenon DEF SingleWindowFallback

\* a cursor's windows stay the ones it was built with,
LEMMA SameWindows ==
    ASSUME corpus' = corpus, NEW t
    PROVE  CursorWindows(t)' = CursorWindows(t)
  BY SameDf, SameBuild, SameSingle DEF CursorWindows, Windowed

\* and a cursor that was right for its term still is.
LEMMA SameCursor ==
    ASSUME corpus' = corpus, NEW t, NEW c
    PROVE  CursorOk(c, t)' = CursorOk(c, t)
  BY SameDf, SamePostings, SameWindows, Zenon DEF CursorOk

\* As k does not change, neither does what TopK should hold, nor its threshold.
LEMMA SameBest ==
    ASSUME k' = k, NEW h, NEW O
    PROVE  Best(h, O)' = Best(h, O) /\ Threshold(h)' = Threshold(h)
  BY Zenon DEF Best, Threshold

\* The full score of a document is the same,
LEMMA SameFull ==
    ASSUME corpus' = corpus, NEW q, NEW d
    PROVE  Full(q, d)' = Full(q, d)
  <1>1. Gain(q, d)' = Gain(q, d)
    BY SameDocs, SameScore DEF Gain
  <1> QED
    BY <1>1 DEF Full

\* and so are the documents the query hits and the terms it finds.
LEMMA SameHits ==
    ASSUME corpus' = corpus, NEW q
    PROVE  /\ HitDocs(q)' = HitDocs(q) /\ Hits(q)' = Hits(q) /\ Fnd(q)' = Fnd(q)
           /\ QueryOk(q)' = QueryOk(q)
  <1>1. HitDocs(q)' = HitDocs(q)
    BY SameDocs DEF HitDocs
  <1>2. Hits(q)' = Hits(q)
    BY <1>1, SameFull DEF Hits
  <1>3. Fnd(q)' = Fnd(q)
    BY SameDocs DEF Fnd
  <1>4. QueryOk(q)' = QueryOk(q)
    BY Zenon DEF QueryOk, CorpusOk
  <1> QED
    BY <1>1, <1>2, <1>3, <1>4, Zenon

\* What the loop maintains about given cursors, heap and offers is unaffected by a step
\* that leaves the index and k alone.
LEMMA SameLoop ==
    ASSUME corpus' = corpus, k' = k, NEW q, NEW cs, NEW h, NEW off, LoopOk(q, cs, h, off)
    PROVE  LoopOk(q, cs, h, off)'
  <1>1. QueryOk(q)' /\ k' \in Nat \ {0}
    BY SameHits, Zenon DEF LoopOk
  <1>2. CursorsOk(q, cs)'
    <2>1. CursorsOk(q, cs)
      BY Zenon DEF LoopOk
    <2> QED
      BY <2>1, SameHits, SameCursor, Zenon DEF CursorsOk
  <1>3. OfferOk(q, cs, h, off)'
    <2>1. OfferOk(q, cs, h, off)
      BY Zenon DEF LoopOk
    <2>2. Of(q, off)' = Of(q, off)
      BY SameHits DEF Of
    <2>3. Best(h, Of(q, off))'
      <3>1. Best(h, Of(q, off))
        BY <2>1, Zenon DEF OfferOk
      <3> QED
        BY <2>2, <3>1, Zenon DEF Best
    <2> QED
      BY <2>1, <2>3, SameHits, Zenon DEF OfferOk
  <1>4. (\A e \in Skip(q, cs, off) : Low(q, cs, e, Threshold(h)))'
    <2>1. Skip(q, cs, off)' = Skip(q, cs, off)
      <3>1. HitDocs(q)' = HitDocs(q) /\ \A i : DocsOf(q[i])' = DocsOf(q[i])
        BY SameHits, SameDocs, Zenon
      <3> QED
        BY <3>1 DEF Skip
    <2>2. Threshold(h)' = Threshold(h)
      BY SameBest, Zenon
    <2>3. ASSUME NEW e \in Skip(q, cs, off)
          PROVE  Low(q, cs, e, Threshold(h))'
      <3>1. Low(q, cs, e, Threshold(h))
        BY Zenon DEF LoopOk
      <3>2. Ceil(cs, e) < Threshold(h) /\ (AllFall(cs) => Full(q, e) < Threshold(h))
        BY <3>1, Zenon DEF Low
      <3> QED
        BY <2>2, <3>2, SameFull, Zenon DEF Low
    <2> QED
      BY <2>1, <2>3, Zenon
  <1> QED
    BY <1>1, <1>2, <1>3, <1>4, Zenon DEF LoopOk

----------------------------------------------------------------------------
(* The inductive invariant. *)

\* Before the loop, after an error and for k = 0 nothing was offered; in the loop its
\* invariant holds; a result is the drained heap, and the best of all hits when no
\* bounds rise.
WandInv ==
    \E q, cs, h, off :
        /\ query = q /\ cursors = cs /\ heap = h /\ offered = off
        /\ QueryOk(q) /\ k \in Nat
        /\ phase \in {"start", "loop", "done", "error"}
        /\ phase \in {"start", "error"} \/ (phase = "done" /\ k = 0) =>
               h = {} /\ off = <<>> /\ out = <<>>
        /\ phase = "loop" => LoopOk(q, cs, h, off)
        /\ phase = "done" /\ k # 0 =>
               /\ LoopOk(q, cs, h, off) /\ out = DrainSorted(h)
               /\ AllFall(cs) => Best(h, Hits(q))

\* No hits, drained.
LEMMA DrainNone ==
    ASSUME k \in Nat
    PROVE  /\ DrainSorted({}) = Truncate(DrainSorted({}))
           /\ \A s : k = 0 /\ (\E n \in Nat : \E S : s \in [1..n -> S]) => Truncate(s) = <<>>
  <1>1. Cardinality({}) = 0
    BY FS_EmptySet, Zenon
  <1>2. PICK s : s = DrainSorted({})
    BY Zenon
  <1>3. s = [i \in 1..0 |-> CHOOSE e \in {} : Cardinality({f \in {} : Better(f, e)}) = i - 1]
    BY <1>1, <1>2, Zenon DEF DrainSorted
  <1>4. 1..0 = {}
    OBVIOUS
  <1>5. s \in [1..0 -> {}] /\ s = <<>>
    BY <1>3, <1>4
  <1>6. Len(s) = 0
    BY <1>5
  <1>7. Min({k, 0}) = 0
    <2>1. 0 \in Nat
      OBVIOUS
    <2>2. Min({k, 0}) = IF k <= 0 THEN k ELSE 0
      BY <2>1, MinOfTwo, Zenon
    <2> QED
      BY <2>2
  <1>8. Truncate(s) = SubSeq(s, 1, 0)
    BY <1>6, <1>7, Zenon DEF Truncate
  <1>9. SubSeq(s, 1, 0) = <<>>
    BY <1>5
  <1>10. ASSUME k = 0, NEW r, NEW n \in Nat, NEW S, r \in [1..n -> S]
         PROVE  Truncate(r) = <<>>
    <2>1. Len(r) = n /\ r \in Seq(S)
      BY <1>10, SMT
    <2>2. 0 \in Nat
      OBVIOUS
    <2>3. Min({0, n}) = IF 0 <= n THEN 0 ELSE n
      BY <2>2, MinOfTwo, Zenon
    <2>4. Min({0, n}) = 0
      BY <2>3
    <2>5. Truncate(r) = SubSeq(r, 1, 0)
      BY <1>10, <2>1, <2>4, Zenon DEF Truncate
    <2> QED
      BY <2>1, <2>5
  <1> QED
    BY <1>2, <1>5, <1>8, <1>9, <1>10, Zenon

\* The invariant implies that the heap holds the best of the documents offered.
LEMMA InvHeap ==
    ASSUME WandInv
    PROVE  HeapIsBestOfOffered
  <1>1. PICK q, cs, h, off :
           /\ query = q /\ cursors = cs /\ heap = h /\ offered = off
           /\ QueryOk(q) /\ k \in Nat
           /\ phase \in {"start", "loop", "done", "error"}
           /\ phase \in {"start", "error"} \/ (phase = "done" /\ k = 0) => h = {} /\ off = <<>>
           /\ phase = "loop" => LoopOk(q, cs, h, off)
           /\ phase = "done" /\ k # 0 => LoopOk(q, cs, h, off)
    BY ZenonT(60) DEF WandInv
  <1>2. {x \in AllHits : x.docid \in Range(offered)} = Of(q, off)
    <2>1. AllHits = Hits(q)
      BY <1>1, QueryNames, Zenon
    <2> QED
      BY <1>1, <2>1, Zenon DEF Of
  <1>3. SUFFICES /\ \A i, j \in DOMAIN off : i < j => off[i] < off[j]
                 /\ DrainSorted(h) = Truncate(DrainSorted(Of(q, off)))
    BY <1>1, <1>2, Zenon DEF HeapIsBestOfOffered
  <1>4. CASE LoopOk(q, cs, h, off)
    <2>1. \A i, j \in DOMAIN off : i < j => off[i] < off[j]
      BY <1>4, Zenon DEF LoopOk, OfferOk
    <2>2. k \in Nat \ {0} /\ QueryOk(q) /\ Best(h, Of(q, off))
      BY <1>4, Zenon DEF LoopOk, OfferOk
    <2>3. HitsOk(Of(q, off))
      BY <2>2, HitsFacts, SubHits, Zenon DEF Of
    <2> QED
      BY <2>1, <2>2, <2>3, BestDrained, Zenon
  <1>5. CASE h = {} /\ off = <<>>
    <2>1. DOMAIN off = {} /\ Range(off) = {}
      <3>1. DOMAIN off = {}
        BY <1>5
      <3> QED
        BY <3>1, Zenon DEF Range
    <2>2. Of(q, off) = {}
      BY <2>1, Zenon DEF Of
    <2> QED
      BY <1>1, <1>5, <2>1, <2>2, DrainNone, Zenon
  <1> QED
    BY <1>1, <1>4, <1>5, Zenon

\* ... and that the result is the exhaustive one when no bounds rise.
LEMMA InvExact ==
    ASSUME WandInv
    PROVE  ExactWhenBoundsFall
  <1>1. PICK q, cs, h, off :
           /\ query = q /\ cursors = cs /\ heap = h /\ offered = off
           /\ QueryOk(q) /\ k \in Nat
           /\ phase \in {"start", "error"} \/ (phase = "done" /\ k = 0) => h = {} /\ off = <<>> /\ out = <<>>
           /\ phase = "done" /\ k # 0 =>
                  out = DrainSorted(h) /\ (AllFall(cs) => Best(h, Hits(q)))
    BY Zenon DEF WandInv
  <1>2. AllHits = Hits(q) /\ HitsOk(Hits(q))
    BY <1>1, QueryNames, HitsFacts, Zenon
  <1>3. BoundsFall => AllFall(cs)
    BY <1>1, Zenon DEF BoundsFall, AllFall, Falls
  <1>4. SUFFICES ASSUME phase = "done", BoundsFall PROVE out = Truncate(DrainSorted(Hits(q)))
    BY <1>2, Zenon DEF ExactWhenBoundsFall, Exhaustive
  <1>5. CASE k = 0
    <2>1. PICK n, s : n = Cardinality(Hits(q)) /\ s = DrainSorted(Hits(q))
      BY Zenon
    <2>2. n \in Nat /\ s \in [1..n -> Hits(q)]
      <3>1. Drained(Hits(q), n, s)
        BY <1>2, <2>1, DrainFacts, Zenon
      <3> QED
        BY <3>1, Zenon DEF Drained
    <2>3. Truncate(s) = <<>>
      BY <1>1, <1>5, <2>2, DrainNone, Zenon
    <2> QED
      BY <1>1, <1>4, <1>5, <2>1, <2>3, Zenon
  <1>6. CASE k # 0
    <2>1. out = DrainSorted(h) /\ Best(h, Hits(q)) /\ k \in Nat \ {0}
      BY <1>1, <1>3, <1>4, <1>6, Zenon
    <2> QED
      BY <1>2, <2>1, BestDrained, Zenon
  <1> QED
    BY <1>5, <1>6, Zenon

\* The cursors as they are built satisfy the invariant of the loop: no document lies
\* before a first posting.
LEMMA BuildLoop ==
    ASSUME NEW q, QueryOk(q), k \in Nat \ {0}, NEW ws,
           \A i \in Fnd(q) : ws[i] \in CursorWindows(q[i]),
           NEW cs, cs = [i \in Fnd(q) |-> [postings |-> Postings(q[i]), windows |-> ws[i], pos |-> 1]]
    PROVE  LoopOk(q, cs, {}, <<>>)
  <1>1. DOMAIN cs = Fnd(q)
        /\ \A i \in Fnd(q) : cs[i] = [postings |-> Postings(q[i]), windows |-> ws[i], pos |-> 1]
    BY Zenon
  <1>2. ASSUME NEW i \in Fnd(q)
        PROVE  CursorOk(cs[i], q[i]) /\ cs[i].pos = 1
    <2>1. 1 \in 1..(Df(q[i]) + 1)
      <3>1. Df(q[i]) \in Nat
        BY DocsFacts, Zenon
      <3> QED
        BY <3>1
    <2> QED
      BY <1>1, <2>1 DEF CursorOk
  <1>3. CursorsOk(q, cs)
    BY <1>1, <1>2, Zenon DEF CursorsOk
  <1>4. PICK off : off = <<>>
    BY Zenon
  <1>5. off \in Seq(Nat) /\ DOMAIN off = {} /\ Range(off) = {}
    <2>1. off \in Seq(Nat) /\ DOMAIN off = {}
      BY <1>4
    <2> QED
      BY <2>1, Zenon DEF Range
  <1>6. Best({}, Of(q, off))
    <2>1. Of(q, off) = {}
      BY <1>5, Zenon DEF Of
    <2>2. Cardinality({}) = 0
      BY FS_EmptySet, Zenon
    <2>3. 0 <= k
      OBVIOUS
    <2> QED
      BY <2>1, <2>2, <2>3, Zenon DEF Best
  <1>7. OfferOk(q, cs, {}, off)
    BY <1>5, <1>6, Zenon DEF OfferOk
  <1>8. ASSUME NEW i \in Fnd(q), NEW e \in DocsOf(q[i])
        PROVE  ~(e < CurrentDoc(cs[i]))
    <2>1. PICK t, n, ds, c : t = q[i] /\ n = Df(t) /\ ds = DocSeq(t) /\ c = cs[i]
      BY Zenon
    <2>2. CursorOk(c, t) /\ c.pos = 1 /\ e \in DocsOf(t)
      BY <1>2, <2>1, Zenon
    <2>3. /\ n \in Nat /\ ds \in [1..n -> DocsOf(t)]
          /\ \A a, b \in 1..n : a <= b => ds[a] <= ds[b]
          /\ \A d \in DocsOf(t) : \E a \in 1..n : ds[a] = d
      BY <2>1, DocSeqFacts
    <2>4. PICK a \in 1..n : ds[a] = e
      BY <2>2, <2>3, Zenon
    <2>5. 1 \in 1..n /\ 1 <= a /\ 1 <= n
      BY <2>3, <2>4, SMTT(60)
    <2>6. CurrentDoc(c) = IF c.pos <= n THEN ds[c.pos] ELSE NoDoc
      BY <2>1, <2>2, CursorFields
    <2>7. CurrentDoc(c) = ds[1]
      BY <2>2, <2>5, <2>6, Zenon
    <2>8. ds[1] <= ds[a] /\ ds[1] \in Nat /\ ds[a] \in Nat
      BY <2>3, <2>5, DocsFacts, Zenon
    <2>9. ~(ds[a] < ds[1])
      BY <2>8
    <2> QED
      BY <2>1, <2>4, <2>7, <2>9, Zenon
  <1>9. Skip(q, cs, off) = {}
    BY <1>1, <1>8, Zenon DEF Skip
  <1>10. LoopOk(q, cs, {}, off)
    BY <1>3, <1>7, <1>9, Zenon DEF LoopOk
  <1> QED
    BY <1>4, <1>10, Zenon

\* The postings left to the cursors cs.
Left(cs) == SumFunction([i \in DOMAIN cs |-> Len(cs[i].postings) + 1 - cs[i].pos])

\* A cursor that moves on leaves fewer.
LEMMA FewerLeft ==
    ASSUME NEW n \in Nat, NEW u \in 1..(n + 1), NEW v \in 1..(n + 1), u = v \/ u > v,
           NEW x, NEW y, x = n + 1 - u, y = n + 1 - v
    PROVE  x \in Nat /\ y \in Nat /\ x <= y /\ (u > v => x < y)
  OBVIOUS

\* They get fewer when a cursor moves on and none moves back.
LEMMA LeftLess ==
    ASSUME NEW q, QueryOk(q), NEW cs, CursorsOk(q, cs), NEW cz, CursorsOk(q, cz),
           NEW a \in DOMAIN cs, cz[a].pos > cs[a].pos,
           \A i \in DOMAIN cs : cz[i] = cs[i] \/ cz[i].pos > cs[i].pos
    PROVE  Left(cz) < Left(cs)
  <1>1. PICK T, f, g :
          /\ T = DOMAIN cs
          /\ f = [i \in DOMAIN cz |-> Len(cz[i].postings) + 1 - cz[i].pos]
          /\ g = [i \in DOMAIN cs |-> Len(cs[i].postings) + 1 - cs[i].pos]
    BY Zenon
  <1>2. T = Fnd(q) /\ DOMAIN cz = T
    BY <1>1, Zenon DEF CursorsOk
  <1>3. IsFiniteSet(T)
    BY <1>2, QueryPlaces, Zenon
  <1>4. ASSUME NEW i \in T
        PROVE  /\ f[i] \in Nat /\ g[i] \in Nat /\ f[i] <= g[i]
               /\ cz[i].pos > cs[i].pos => f[i] < g[i]
    <2>1. CursorOk(cs[i], q[i]) /\ CursorOk(cz[i], q[i])
      BY <1>2, Zenon DEF CursorsOk
    <2>2. PICK n : n = Df(q[i])
      BY Zenon
    <2>3. n \in Nat /\ Len(cs[i].postings) = n /\ cs[i].pos \in 1..(n + 1)
      BY <2>1, <2>2, CursorFields, Zenon
    <2>4. Len(cz[i].postings) = n /\ cz[i].pos \in 1..(n + 1)
      BY <2>1, <2>2, CursorFields, Zenon
    <2>5. f[i] = n + 1 - cz[i].pos /\ g[i] = n + 1 - cs[i].pos
      BY <1>1, <1>2, <2>3, <2>4, Zenon
    <2>6. cz[i].pos = cs[i].pos \/ cz[i].pos > cs[i].pos
      BY <1>1, Zenon
    <2> QED
      BY <2>3, <2>4, <2>5, <2>6, FewerLeft, SMTT(60)
  <1>5. SumFunctionOnSet(f, T) < SumFunctionOnSet(g, T)
    BY <1>1, <1>3, <1>4, SumLess, Zenon
  <1>6. Left(cz) = SumFunctionOnSet(f, T) /\ Left(cs) = SumFunctionOnSet(g, T)
    <2>1. Left(cz) = SumFunction(f) /\ Left(cs) = SumFunction(g) /\ DOMAIN f = T /\ DOMAIN g = T
      BY <1>1, <1>2, Zenon DEF Left
    <2> QED
      BY <2>1, SumDomain, Zenon
  <1> QED
    BY <1>5, <1>6, Zenon

\* The postings left after scoring.
LEMMA ScoreLess ==
    ASSUME NEW q, NEW cs, NEW h, NEW off, LoopOk(q, cs, h, off), NEW o \in Sorted(cs),
           NEW d, PivotAt(cs, o, Threshold(h), d), CurrentDoc(cs[o[1]]) = d
    PROVE  Left(AfterScore(cs, d)) < Left(cs)
  <1>1. PICK cz, x : cz = AfterScore(cs, d) /\ x = Threshold(h)
    BY Zenon
  <1>2. QueryOk(q) /\ CursorsOk(q, cs)
    BY Zenon DEF LoopOk
  <1>3. d \in Docs /\ o[1] \in DOMAIN cs
    BY <1>1, PivotFacts
  <1>4. /\ CursorsOk(q, cz)
        /\ \A i \in DOMAIN cs : CurrentDoc(cs[i]) # d => cz[i] = cs[i]
        /\ \A i \in DOMAIN cs : CurrentDoc(cs[i]) = d => Moved(cs[i], cz[i], q[i], d + 1)
    <2>1. PastDoc(q, cs, cz, d)
      BY <1>1, <1>2, <1>3, AfterScoreFacts, ZenonT(40)
    <2> QED
      BY <2>1, Zenon DEF PastDoc
  <1>5. cz[o[1]].pos > cs[o[1]].pos /\ \A i \in DOMAIN cs : cz[i] = cs[i] \/ cz[i].pos > cs[i].pos
    BY <1>3, <1>4, Zenon DEF Moved
  <1> QED
    BY <1>1, <1>2, <1>3, <1>4, <1>5, LeftLess

\* The postings left after a skip.
LEMMA AdvanceLess ==
    ASSUME NEW q, NEW cs, NEW h, NEW off, LoopOk(q, cs, h, off), NEW o \in Sorted(cs),
           NEW d, PivotAt(cs, o, Threshold(h), d), CurrentDoc(cs[o[1]]) < d,
           NEW cz, cz = [cs EXCEPT ![o[1]] = SkipTo(@, d)]
    PROVE  Left(cz) < Left(cs)
  <1>1. PICK a, x : a = o[1] /\ x = Threshold(h)
    BY Zenon
  <1>2. QueryOk(q) /\ CursorsOk(q, cs)
    BY Zenon DEF LoopOk
  <1>3. a \in DOMAIN cs
    BY <1>1, PivotFacts
  <1>4. LoopOk(q, cz, h, off) /\ Moved(cs[a], cz[a], q[a], d)
    BY <1>1, AdvanceKeeps, Zenon
  <1>5. cz[a].pos > cs[a].pos /\ CursorsOk(q, cz)
    BY <1>4, Zenon DEF Moved, LoopOk
  <1>6. \A i \in DOMAIN cs : i # a => cz[i] = cs[i]
    BY <1>1, <1>3, Zenon
  <1>7. \A i \in DOMAIN cs : cz[i] = cs[i] \/ cz[i].pos > cs[i].pos
    BY <1>5, <1>6, Zenon
  <1> QED
    BY <1>2, <1>3, <1>5, <1>7, LeftLess, Zenon

\* The query starts in the invariant.
LEMMA InitInv ==
    ASSUME Init
    PROVE  WandInv
  <1>1. PICK q, cs, h, off : query = q /\ cursors = cs /\ heap = h /\ offered = off
    BY Zenon
  <1>2. /\ CorpusOk /\ q \in Queries /\ k \in Ks /\ phase = "start"
        /\ h = {} /\ out = <<>> /\ off = <<>>
    BY <1>1, Zenon DEF Init, CorpusOk
  <1>3. QueryOk(q) /\ k \in Nat
    BY <1>2, WandAssumption, Zenon DEF QueryOk
  <1>4. phase \in {"start", "loop", "done", "error"} /\ phase # "loop" /\ phase # "done"
    BY <1>2
  <1> QED
    BY <1>1, <1>2, <1>3, <1>4, Zenon DEF WandInv

\* Steps that leave the query, the index and k alone: the invariant after them.
LEMMA NextInv ==
    ASSUME NEW q, NEW cs, NEW h, NEW off, QueryOk(q), k \in Nat,
           corpus' = corpus, query' = query, k' = k, query = q,
           cursors' = cs, heap' = h, offered' = off,
           phase' \in {"start", "loop", "done", "error"},
           phase' \in {"start", "error"} \/ (phase' = "done" /\ k = 0) =>
               h = {} /\ off = <<>> /\ out' = <<>>,
           phase' = "loop" => LoopOk(q, cs, h, off),
           phase' = "done" /\ k # 0 =>
               LoopOk(q, cs, h, off) /\ out' = DrainSorted(h) /\ (AllFall(cs) => Best(h, Hits(q)))
    PROVE  WandInv'
  <1>1. query' = q /\ QueryOk(q)' /\ k' \in Nat
    BY SameHits, Zenon
  <1>2. phase' = "loop" => LoopOk(q, cs, h, off)'
    BY SameLoop, Zenon
  <1>3. phase' = "done" /\ k' # 0 => LoopOk(q, cs, h, off)'
    BY SameLoop, Zenon
  <1>4. phase' = "done" /\ k' # 0 => out' = DrainSorted(h)
    BY Zenon
  <1>5. phase' = "done" /\ k' # 0 => (AllFall(cs) => Best(h, Hits(q))')
    <2>1. Hits(q)' = Hits(q)
      BY SameHits, Zenon
    <2>2. Best(h, Hits(q)) => Best(h, Hits(q))'
      BY <2>1, Zenon DEF Best
    <2> QED
      BY <2>2, Zenon
  <1>6. phase' \in {"start", "error"} \/ (phase' = "done" /\ k' = 0) =>
               h = {} /\ off = <<>> /\ out' = <<>>
    BY Zenon
  <1> QED
    BY <1>1, <1>2, <1>3, <1>4, <1>5, <1>6, Zenon DEF WandInv

\* What the invariant says of the current state.
LEMMA InvNow ==
    ASSUME WandInv, NEW q, NEW cs, NEW h, NEW off,
           query = q, cursors = cs, heap = h, offered = off
    PROVE  /\ QueryOk(q) /\ k \in Nat
           /\ phase \in {"start", "loop", "done", "error"}
           /\ phase \in {"start", "error"} \/ (phase = "done" /\ k = 0) =>
                  h = {} /\ off = <<>> /\ out = <<>>
           /\ phase = "loop" => LoopOk(q, cs, h, off)
           /\ phase = "done" /\ k # 0 =>
                  LoopOk(q, cs, h, off) /\ out = DrainSorted(h) /\ (AllFall(cs) => Best(h, Hits(q)))
  BY ZenonT(60) DEF WandInv

\* The steps before the loop.
LEMMA StartSteps ==
    ASSUME WandInv, AskForNone \/ BuildCursors \/ ReadFails
    PROVE  WandInv'
  <1>1. PICK q, cs, h, off : query = q /\ cursors = cs /\ heap = h /\ offered = off
    BY Zenon
  <1>2. phase = "start"
    BY Zenon DEF AskForNone, BuildCursors, ReadFails
  <1>3. QueryOk(q) /\ k \in Nat /\ h = {} /\ off = <<>> /\ out = <<>>
    BY <1>1, <1>2, InvNow
  <1>4. corpus' = corpus /\ query' = query /\ k' = k /\ heap' = h /\ offered' = off /\ out' = out
    BY <1>1, Zenon DEF AskForNone, BuildCursors, ReadFails
  <1>5. CASE AskForNone \/ ReadFails
    <2>1. cursors' = cs /\ (phase' = "error" \/ (phase' = "done" /\ k = 0))
      BY <1>1, <1>5, Zenon DEF AskForNone, ReadFails
    <2>2. phase' \in {"start", "loop", "done", "error"} /\ phase' # "loop" /\ ~(phase' = "done" /\ k # 0)
      BY <2>1
    <2> QED
      BY <1>1, <1>3, <1>4, <2>1, <2>2, NextInv, Zenon
  <1>6. CASE BuildCursors
    <2>1. Found = Fnd(q)
      BY <1>1, QueryNames, Zenon
    <2>2. PICK ws : /\ \A i \in Fnd(q) : ws[i] \in CursorWindows(query[i])
                    /\ cursors' = [i \in Fnd(q) |->
                          [postings |-> Postings(query[i]), windows |-> ws[i], pos |-> 1]]
      BY <1>6, <2>1, Zenon DEF BuildCursors
    <2>3. PICK cz : cz = [i \in Fnd(q) |-> [postings |-> Postings(q[i]), windows |-> ws[i], pos |-> 1]]
      BY Zenon
    <2>4. cursors' = cz /\ \A i \in Fnd(q) : ws[i] \in CursorWindows(q[i])
      BY <1>1, <2>2, <2>3, Zenon
    <2>5. k # 0 /\ phase' = "loop"
      BY <1>6, Zenon DEF BuildCursors
    <2>6. LoopOk(q, cz, {}, <<>>)
      BY <1>3, <2>3, <2>4, <2>5, BuildLoop
    <2>7. phase' \in {"start", "loop", "done", "error"} /\ phase' \notin {"start", "error"} /\ phase' # "done"
      BY <2>5
    <2> QED
      BY <1>1, <1>3, <1>4, <2>4, <2>6, <2>7, NextInv
  <1> QED
    BY <1>5, <1>6, Zenon

\* An iteration of the loop.
LEMMA LoopSteps ==
    ASSUME WandInv, NEW o \in Sorted(cursors), ScorePivot(o) \/ AdvanceLagging(o) \/ Finish(o)
    PROVE  WandInv' /\ (phase' = "loop" => Remaining' < Remaining)
  <1>1. PICK q, cs, h, off : query = q /\ cursors = cs /\ heap = h /\ offered = off
    BY Zenon
  <1>2. phase = "loop" /\ o \in Sorted(cs)
    BY <1>1, Zenon DEF ScorePivot, AdvanceLagging, Finish
  <1>3. QueryOk(q) /\ k \in Nat /\ LoopOk(q, cs, h, off)
    BY <1>1, <1>2, InvNow
  <1>4. k # 0
    BY <1>3, Zenon DEF LoopOk
  <1>5. corpus' = corpus /\ query' = query /\ k' = k
    BY Zenon DEF ScorePivot, AdvanceLagging, Finish
  <1>6. Remaining = Left(cs) /\ \A cz : cursors' = cz => Remaining' = Left(cz)
    BY <1>1, Zenon DEF Remaining, Left
  <1>7. phase' = "loop" => /\ phase' \in {"start", "loop", "done", "error"}
                           /\ phase' \notin {"start", "error"} /\ phase' # "done"
    OBVIOUS
  <1>8. CASE ScorePivot(o)
    <2>1. PICK d : /\ PivotAt(cs, o, Threshold(h), d) /\ CurrentDoc(cs[o[1]]) = d
                   /\ heap' = Offer(h, [docid |-> d, score |-> ScoreAt(cs, d)])
                   /\ cursors' = AfterScore(cs, d) /\ offered' = Append(off, d)
      BY <1>1, <1>8, Zenon DEF ScorePivot, PivotAt, AfterScore
    <2>2. phase' = "loop"
      BY <1>2, <1>8, Zenon DEF ScorePivot
    <2>3. PICK cz, hz, oz : /\ cz = AfterScore(cs, d) /\ oz = Append(off, d)
                            /\ hz = Offer(h, [docid |-> d, score |-> ScoreAt(cs, d)])
      BY Zenon
    <2>4. LoopOk(q, cz, hz, oz)
      BY <1>2, <1>3, <2>1, <2>3, ScoreKeeps
    <2>5. Left(cz) < Left(cs)
      BY <1>2, <1>3, <2>1, <2>3, ScoreLess
    <2>6. cursors' = cz /\ heap' = hz /\ offered' = oz
      BY <2>1, <2>3, Zenon
    <2>7. WandInv'
      BY <1>1, <1>3, <1>5, <1>7, <2>2, <2>4, <2>6, NextInv
    <2> QED
      BY <1>6, <2>5, <2>6, <2>7, Zenon
  <1>9. CASE AdvanceLagging(o)
    <2>1. PICK d : /\ PivotAt(cs, o, Threshold(h), d) /\ CurrentDoc(cs[o[1]]) < d
                   /\ cursors' = [cs EXCEPT ![o[1]] = SkipTo(@, d)]
      BY <1>1, <1>9, Zenon DEF AdvanceLagging, PivotAt
    <2>2. phase' = "loop" /\ heap' = h /\ offered' = off
      BY <1>1, <1>2, <1>9, Zenon DEF AdvanceLagging
    <2>3. PICK cz : cz = [cs EXCEPT ![o[1]] = SkipTo(@, d)]
      BY Zenon
    <2>4. LoopOk(q, cz, h, off)
      BY <1>2, <1>3, <2>1, <2>3, AdvanceKeeps, Zenon
    <2>5. Left(cz) < Left(cs)
      BY <1>2, <1>3, <2>1, <2>3, AdvanceLess, Zenon
    <2>6. cursors' = cz
      BY <2>1, <2>3, Zenon
    <2>7. WandInv'
      BY <1>1, <1>3, <1>5, <1>7, <2>2, <2>4, <2>6, NextInv
    <2> QED
      BY <1>6, <2>5, <2>6, <2>7, Zenon
  <1>10. CASE Finish(o)
    <2>1. /\ Pivots(cs, o, Threshold(h)) = {} /\ phase' = "done" /\ out' = DrainSorted(h)
          /\ cursors' = cs /\ heap' = h /\ offered' = off
      BY <1>1, <1>10, Zenon DEF Finish
    <2>2. AllFall(cs) => Best(h, Hits(q))
      BY <1>2, <1>3, <2>1, FinishBest
    <2>3. /\ phase' \in {"start", "loop", "done", "error"}
          /\ phase' \notin {"start", "error"} /\ phase' # "loop"
      BY <2>1
    <2>4. WandInv'
      BY <1>1, <1>3, <1>4, <1>5, <2>1, <2>2, <2>3, NextInv
    <2> QED
      BY <2>3, <2>4, Zenon
  <1> QED
    BY <1>8, <1>9, <1>10, Zenon

\* Nothing changes in a stuttering step.
LEMMA StutterInv ==
    ASSUME WandInv, UNCHANGED vars
    PROVE  WandInv'
  <1>1. PICK q, cs, h, off : query = q /\ cursors = cs /\ heap = h /\ offered = off
    BY Zenon
  <1>2. /\ corpus' = corpus /\ query' = query /\ k' = k /\ phase' = phase /\ cursors' = cs
        /\ heap' = h /\ out' = out /\ offered' = off
    BY <1>1, Zenon DEF vars
  <1>3. /\ QueryOk(q) /\ k \in Nat
        /\ phase' \in {"start", "loop", "done", "error"}
        /\ phase' \in {"start", "error"} \/ (phase' = "done" /\ k = 0) =>
               h = {} /\ off = <<>> /\ out' = <<>>
        /\ phase' = "loop" => LoopOk(q, cs, h, off)
        /\ phase' = "done" /\ k # 0 =>
               LoopOk(q, cs, h, off) /\ out' = DrainSorted(h) /\ (AllFall(cs) => Best(h, Hits(q)))
    <2>1. phase' = phase /\ out' = out
      BY <1>2, Zenon
    <2> QED
      BY <1>1, <2>1, InvNow
  <1> QED
    BY <1>1, <1>2, <1>3, NextInv

\* Every step of scoring_query_wand keeps the invariant, and every iteration that
\* stays in the loop leaves fewer postings.
LEMMA StepInv ==
    ASSUME WandInv, [Next]_vars
    PROVE  WandInv' /\ [phase = "loop" /\ phase' = "loop" => Remaining' < Remaining]_vars
  <1>1. CASE AskForNone \/ BuildCursors \/ ReadFails
    <2>1. phase # "loop"
      <3>1. phase = "start"
        BY <1>1, Zenon DEF AskForNone, BuildCursors, ReadFails
      <3> QED
        BY <3>1
    <2> QED
      BY <1>1, <2>1, StartSteps, Zenon
  <1>2. CASE \E o \in Sorted(cursors) : ScorePivot(o) \/ AdvanceLagging(o) \/ Finish(o)
    BY <1>2, LoopSteps, Zenon
  <1>3. CASE UNCHANGED vars
    BY <1>3, StutterInv, Zenon
  <1> QED
    BY <1>1, <1>2, <1>3, Zenon DEF Next

----------------------------------------------------------------------------
(* The theorems. *)

\* The inductive invariant of the eager query: in particular, every document that a
\* cursor passed without its being offered is bounded below the heap's threshold.
THEOREM WandInvariant == Spec => []WandInv
  <1>1. Init => WandInv
    BY InitInv
  <1>2. WandInv /\ [Next]_vars => WandInv'
    BY StepInv
  <1> QED
    BY <1>1, <1>2, PTL DEF Spec

\* However scoring_query_wand skips and re-sorts its cursors, it offers documents in
\* ascending order with their full scores, and TopK holds the best k of them.
THEOREM HeapIsBest == Spec => []HeapIsBestOfOffered
  <1>1. WandInv => HeapIsBestOfOffered
    BY InvHeap
  <1> QED
    BY <1>1, WandInvariant, PTL

\* When no term's window bounds rise, scoring_query_wand returns what the exhaustive
\* path returns, ties included.
THEOREM FallingBoundsExact == Spec => []ExactWhenBoundsFall
  <1>1. WandInv => ExactWhenBoundsFall
    BY InvExact
  <1> QED
    BY <1>1, WandInvariant, PTL

\* Every iteration of the loop that does not end it moves a cursor forward.
THEOREM LoopProgress == Spec => Progress
  <1>1. WandInv /\ [Next]_vars => [phase = "loop" /\ phase' = "loop" => Remaining' < Remaining]_vars
    BY StepInv
  <1> QED
    BY <1>1, WandInvariant, PTL DEF Spec, Progress
============================================================================
