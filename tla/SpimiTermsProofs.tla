-------------------------- MODULE SpimiTermsProofs --------------------------
(***************************************************************************)
(* What a drain hands out, for every vocabulary, cap and fault: no term is *)
(* lost, repeated or skipped.  A second inductive invariant, over the one  *)
(* of SpimiBufferProofs.                                                   *)
(***************************************************************************)
EXTENDS SpimiBufferProofs

----------------------------------------------------------------------------
(* The parts of the invariant: where the terms fed are held. *)

\* A run lists ids of the vocabulary in string order, with terms of T.
RunSorted(vocab, run, T) ==
    /\ \E n \in Nat : Len(run) = n /\ DOMAIN run = 1..n
    /\ \A j \in DOMAIN run : run[j].id \in 1..Len(vocab) /\ vocab[run[j].id] \in T
    /\ \A j, k \in DOMAIN run : j < k => vocab[run[j].id] < vocab[run[k].id]

InRuns(vocab, runs, t) ==
    \E i \in DOMAIN runs : \E j \in DOMAIN runs[i] : vocab[runs[i][j].id] = t

\* The touched ids and the runs together have the terms of T.
Holds(vocab, touched, runs, T) ==
    /\ \A id \in touched : vocab[id] \in T
    /\ \A i \in DOMAIN runs : RunSorted(vocab, runs[i], T)
    /\ \A t \in T : (\E id \in touched : vocab[id] = t) \/ InRuns(vocab, runs, t)

\* The merge has emitted what its readers have passed, and nothing as great as what
\* is still before them.
Standing(vocab, runs, at, E) ==
    \A i \in DOMAIN runs :
        /\ i \in DOMAIN at /\ at[i] \in Nat \ {0}
        /\ \A j \in DOMAIN runs[i] :
              IF j < at[i] THEN vocab[runs[i][j].id] \in E
              ELSE \A e \in E : e < vocab[runs[i][j].id]

\* The second inductive invariant.
TermsInv ==
    /\ phase = "fill" =>
          out = <<>> /\ (buf.status = "ok" => Holds(buf.vocab, buf.touched, buf.runs, FedTerms))
    /\ phase = "merge" =>
          /\ Holds(buf.vocab, {}, buf.runs, FedTerms)
          /\ DOMAIN pos = DOMAIN buf.runs /\ Standing(buf.vocab, buf.runs, pos, Emitted(out))
    /\ TermsEmitted

\* The records of x are for the ids of T, in string order.
Walks(x, v, T) ==
    \E n \in Nat :
        /\ Len(x) = n /\ DOMAIN x = 1..n
        /\ \A j \in 1..n : x[j].id \in T
        /\ \A j, k \in 1..n : j < k => v[x[j].id] < v[x[k].id]
        /\ \A id \in T : \E j \in 1..n : x[j].id = id

\* The terms of a run are those of the ids it was written from.
LEMMA RunTerms ==
    ASSUME NEW b, NEW ids, Ordered(b, ids), NEW allow, NEW x, x = RecordsOf(b, ids, allow)
    PROVE  Walks(x, b.vocab, b.touched)
  <1>10. PICK v : v = b.vocab
    BY Zenon
  <1>1. PICK n \in Nat :
           /\ ids \in [1..n -> b.touched]
           /\ \A i, j \in 1..n : i < j => v[ids[i]] < v[ids[j]]
           /\ \A id \in b.touched : \E i \in 1..n : ids[i] = id
    BY <1>10, Zenon DEF Ordered
  <1>2. PICK k \in Nat : Lists(ids, k, b.touched) /\ Len(ids) = k
    BY OrderedSet, Zenon
  <1>3. 1..k = 1..n
    BY <1>1, <1>2, Zenon DEF Lists
  <1> DEFINE P(i) == ToPostings(b.slots[b.slot_of[ids[i]]], allow)
             R(i) == WithId(ids[i], P(i))
  <1>4. x = [i \in 1..k |-> R(i)]
    BY <1>2, Zenon DEF RecordsOf
  <1>5. Len(x) = k /\ DOMAIN x = 1..k
    <2> HIDE DEF R
    <2> QED
      BY <1>2, <1>4
  <1>6. \A i \in 1..k : x[i].id = ids[i]
    <2> TAKE i \in 1..k
    <2>1. x[i] = R(i)
      BY <1>4, Zenon
    <2>2. R(i).id = ids[i]
      BY DEF WithId
    <2> QED
      BY <2>1, <2>2, Zenon
  <1>7. \A j \in 1..k : x[j].id \in b.touched
    BY <1>1, <1>3, <1>6, Zenon
  <1>8. ASSUME NEW i \in 1..k, NEW j \in 1..k, i < j PROVE v[x[i].id] < v[x[j].id]
    <2>1. v[ids[i]] < v[ids[j]]
      BY <1>1, <1>3, <1>8, Zenon
    <2>2. x[i].id = ids[i] /\ x[j].id = ids[j]
      BY <1>6, Zenon
    <2> QED
      BY <2>1, <2>2, Zenon
  <1>9. \A id \in b.touched : \E j \in 1..k : x[j].id = id
    BY <1>1, <1>3, <1>6, Zenon
  <1> QED
    BY <1>2, <1>5, <1>7, <1>8, <1>9, <1>10, Zenon DEF Walks

\* A spill moves terms to a run and loses none.
LEMMA HoldsRun ==
    ASSUME NEW b, NEW S, b.runs \in Seq(S), b.touched \subseteq 1..Len(b.vocab),
           NEW T, Holds(b.vocab, b.touched, b.runs, T), NEW x, RunOf(b, x)
    PROVE  Holds(b.vocab, {}, Append(b.runs, x), T)
  <1>1. PICK ids : Ordered(b, ids) /\ x = RecordsOf(b, ids, FALSE)
    BY Zenon DEF RunOf
  <1>3. PICK v : v = b.vocab
    BY Zenon
  <1>2. PICK n \in Nat :
              /\ Len(x) = n /\ DOMAIN x = 1..n
              /\ \A j \in 1..n : x[j].id \in b.touched
              /\ \A j, k \in 1..n : j < k => v[x[j].id] < v[x[k].id]
              /\ \A id \in b.touched : \E j \in 1..n : x[j].id = id
    <2>1. Walks(x, v, b.touched)
      BY <1>1, <1>3, RunTerms, Zenon
    <2> QED
      BY <2>1, Zenon DEF Walks
  <1>4. PICK runs : runs = b.runs
    BY Zenon
  <1>5. /\ \A id \in b.touched : v[id] \in T
        /\ \A i \in DOMAIN runs : RunSorted(v, runs[i], T)
        /\ \A t \in T : (\E id \in b.touched : v[id] = t) \/ InRuns(v, runs, t)
    BY <1>3, <1>4, Zenon DEF Holds
  <1>6. RunSorted(v, x, T)
    BY <1>2, <1>3, <1>5, Zenon DEF RunSorted
  <1>7. PICK m \in Nat : m = Len(runs) /\ DOMAIN runs = 1..m
    BY <1>4
  <1>8. PICK r2 : r2 = Append(runs, x)
    BY Zenon
  <1>9. DOMAIN r2 = 1..(m + 1) /\ r2[m + 1] = x /\ \A i \in 1..m : r2[i] = runs[i]
    BY <1>4, <1>7, <1>8
  <1>10. (\A i \in 1..(m + 1) : i \in 1..m \/ i = m + 1) /\ (\A i \in 1..m : i \in 1..(m + 1))
         /\ m + 1 \in 1..(m + 1)
    BY <1>7
  <1>11. \A i \in DOMAIN r2 : RunSorted(v, r2[i], T)
    BY <1>5, <1>6, <1>7, <1>9, <1>10, Zenon
  <1>12. ASSUME NEW t \in T PROVE InRuns(v, r2, t)
    <2>1. CASE \E id \in b.touched : v[id] = t
      <3>1. PICK j \in 1..n : v[x[j].id] = t
        BY <1>2, <2>1, Zenon
      <3>2. m + 1 \in DOMAIN r2 /\ j \in DOMAIN r2[m + 1] /\ v[r2[m + 1][j].id] = t
        BY <1>2, <1>9, <1>10, <3>1, Zenon
      <3> QED
        BY <3>2, Zenon DEF InRuns
    <2>2. CASE InRuns(v, runs, t)
      BY <1>7, <1>9, <1>10, <2>2, Zenon DEF InRuns
    <2> QED
      BY <1>5, <2>1, <2>2, Zenon
  <1> QED
    BY <1>3, <1>4, <1>8, <1>11, <1>12, Zenon DEF Holds

\* A token adds its term, and an interned string changes no other.
LEMMA HoldsMore ==
    ASSUME NEW v, NEW v2, NEW n \in Nat, NEW n2 \in Nat, Len(v) = n, Len(v2) = n2, n <= n2,
           \A i \in 1..n : v2[i] = v[i],
           NEW touched, touched \subseteq 1..n, NEW runs, NEW T, Holds(v, touched, runs, T),
           NEW id \in 1..n2, NEW t, v2[id] = t
    PROVE  Holds(v2, touched \cup {id}, runs, T \cup {t})
  <1>1. \A x \in touched \cup {id} : v2[x] \in T \cup {t}
    BY Zenon DEF Holds
  <1>2. \A i \in 1..n : i \in 1..n2
    OBVIOUS
  <1>3. ASSUME NEW i \in DOMAIN runs
        PROVE  /\ RunSorted(v2, runs[i], T \cup {t})
               /\ \A j \in DOMAIN runs[i] : v2[runs[i][j].id] = v[runs[i][j].id]
    <2>1. RunSorted(v, runs[i], T)
      BY Zenon DEF Holds
    <2>2. PICK run : run = runs[i]
      BY Zenon
    <2>3. \A j \in DOMAIN run : run[j].id \in 1..n /\ v[run[j].id] \in T
      BY <2>1, <2>2, Zenon DEF RunSorted
    <2>4. \A j \in DOMAIN run : run[j].id \in 1..n2 /\ v2[run[j].id] = v[run[j].id]
      BY <1>2, <2>3, Zenon
    <2>5. RunSorted(v2, run, T \cup {t})
      <3>1. \A j \in DOMAIN run : v2[run[j].id] \in T \cup {t}
        BY <2>3, <2>4, Zenon
      <3>2. \A j, k \in DOMAIN run : j < k => v2[run[j].id] < v2[run[k].id]
        BY <2>1, <2>2, <2>4, Zenon DEF RunSorted
      <3> QED
        BY <2>1, <2>2, <2>4, <3>1, <3>2, Zenon DEF RunSorted
    <2> QED
      BY <2>2, <2>4, <2>5, Zenon
  <1>4. ASSUME NEW s \in T \cup {t}
        PROVE  (\E x \in touched \cup {id} : v2[x] = s) \/ InRuns(v2, runs, s)
    <2>1. CASE s = t
      BY <2>1, Zenon
    <2>2. CASE s \in T /\ \E x \in touched : v[x] = s
      BY <2>2, Zenon
    <2>3. CASE InRuns(v, runs, s)
      <3>1. InRuns(v2, runs, s)
        <4>1. PICK i \in DOMAIN runs : \E j \in DOMAIN runs[i] : v[runs[i][j].id] = s
          BY <2>3, Zenon DEF InRuns
        <4>2. PICK j \in DOMAIN runs[i] : v[runs[i][j].id] = s
          BY <4>1, Zenon
        <4>3. v2[runs[i][j].id] = s
          BY <1>3, <4>2, Zenon
        <4> QED
          BY <4>3, Zenon DEF InRuns
      <3> QED
        BY <3>1, Zenon
    <2> QED
      BY <2>1, <2>2, <2>3, Zenon DEF Holds
  <1> QED
    BY <1>1, <1>3, <1>4, Zenon DEF Holds

\* What interning adds: at most one string, at the end.
Grown(c, b, t, id) ==
    /\ c.touched = b.touched /\ c.runs = b.runs /\ c.status = b.status
    /\ \E n, n2 \in Nat :
          /\ Len(b.vocab) = n /\ Len(c.vocab) = n2 /\ n <= n2
          /\ \A i \in 1..n : c.vocab[i] = b.vocab[i]
          /\ id \in 1..n2 /\ c.vocab[id] = t

\* intern: the id of a string is that of its entry.
LEMMA InternTerms ==
    ASSUME NEW b, IsBuf(b), b.vocab \in Seq(Terms), NEW t \in Terms, NEW c, c = Intern(b, t),
           NEW id, id = IdOf(c, t)
    PROVE  Grown(c, b, t, id)
  <1>1. PICK n \in Nat : n = Len(b.vocab) /\ DOMAIN b.vocab = 1..n
    OBVIOUS
  <1>2. ASSUME NEW n2 \in Nat, Len(c.vocab) = n2, \E i \in 1..n2 : c.vocab[i] = t
        PROVE  id \in 1..n2 /\ c.vocab[id] = t
    BY <1>2, Zenon DEF IdOf
  <1>3. CASE t \in Range(b.vocab)
    <2>1. c = b
      BY <1>3, Zenon DEF Intern
    <2>2. \E i \in 1..n : b.vocab[i] = t
      BY <1>1, <1>3, Zenon DEF Range
    <2>3. n <= n
      BY <1>1
    <2>4. id \in 1..n /\ c.vocab[id] = t
      BY <1>1, <1>2, <2>1, <2>2, Zenon
    <2> QED
      BY <1>1, <2>1, <2>3, <2>4, Zenon DEF Grown
  <1>4. CASE t \notin Range(b.vocab)
    <2>1. c = [b EXCEPT !.vocab = Append(@, t), !.slot_of = Append(@, 0)]
      BY <1>4, Zenon DEF Intern
    <2>2. /\ c.vocab = Append(b.vocab, t) /\ c.touched = b.touched /\ c.runs = b.runs
          /\ c.status = b.status
      BY <2>1, Zenon DEF IsBuf, Fields
    <2>3. /\ Len(c.vocab) = n + 1 /\ c.vocab[n + 1] = t
          /\ \A i \in 1..n : c.vocab[i] = b.vocab[i]
      BY <1>1, <2>2
    <2>4. n + 1 \in Nat /\ n <= n + 1 /\ n + 1 \in 1..(n + 1)
      BY <1>1
    <2>5. id \in 1..(n + 1) /\ c.vocab[id] = t
      BY <1>2, <2>3, <2>4, Zenon
    <2> QED
      BY <1>1, <2>2, <2>3, <2>4, <2>5, Zenon DEF Grown
  <1> QED
    BY <1>3, <1>4, Zenon

\* One more id is touched.
Touches(c, b, id) == c.touched = b.touched \cup {id}

\* accumulate touches its id.
LEMMA AccumulateTouched ==
    ASSUME NEW b, IsBuf(b), PoolOK(b), NEW id \in DOMAIN b.slot_of, b.touched = LiveIds(b.slot_of),
           NEW d, NEW p, NEW grow, NEW c, c = Accumulate(b, id, d, p, grow)
    PROVE  Touches(c, b, id)
  <1>1. PICK s : s = TermSlot(b, id)
    BY Zenon
  <1>2. IsBuf(s)
    BY <1>1, TermSlotFields, Zenon
  <1>3. s.touched = b.touched \cup {id}
    <2>1. CASE b.slot_of[id] # 0
      BY <1>1, <2>1, Zenon DEF TermSlot, LiveIds
    <2>2. CASE b.slot_of[id] = 0
      BY <1>1, <2>2, Zenon DEF TermSlot, IsBuf, Fields
    <2> QED
      BY <2>1, <2>2, Zenon
  <1>4. PICK w : \E x : w = [s EXCEPT !.slots[s.slot_of[id]] = x, !.arena = @ + grow] /\ c = Report(w)
    BY <1>1, Zenon DEF Accumulate
  <1>5. IsBuf(w) /\ w.touched = s.touched
    BY <1>2, <1>4, Zenon DEF IsBuf, Fields
  <1>6. c.touched = w.touched
    BY <1>4, <1>5, ReportFields, Zenon DEF SamePool
  <1> QED
    BY <1>3, <1>5, <1>6, Zenon DEF Touches

\* The history grows by a term at most.
LEMMA FedGrows ==
    ASSUME fed \in Seq(Token), NEW x \in Token, fed' = Append(fed, x)
    PROVE  FedTerms' = FedTerms \cup {x.term}
  <1>1. PICK n \in Nat : n = Len(fed) /\ DOMAIN fed = 1..n
    OBVIOUS
  <1>2. DOMAIN fed' = 1..(n + 1) /\ fed'[n + 1] = x /\ \A i \in 1..n : fed'[i] = fed[i]
    BY <1>1
  <1>3. /\ \A i \in 1..(n + 1) : i \in 1..n \/ i = n + 1
        /\ \A i \in 1..n : i \in 1..(n + 1)
        /\ n + 1 \in 1..(n + 1)
    BY <1>1
  <1>4. \A t : t \in FedTerms' <=> t \in FedTerms \cup {x.term}
    BY <1>1, <1>2, <1>3, Zenon DEF FedTerms
  <1> QED
    BY <1>4, Zenon

\* add_token: what it adds is resident or in the run it spills.
LEMMA AddTokenTerms ==
    ASSUME SpimiInv, TermsInv,
           NEW t \in Terms, NEW d \in Docs, NEW grow \in {0, 1}, NEW f \in SpillFaults,
           AddToken(t, d, grow, f)
    PROVE  buf'.status = "ok" => Holds(buf'.vocab, buf'.touched, buf'.runs, FedTerms')
  <1> SUFFICES ASSUME buf'.status = "ok"
               PROVE  Holds(buf'.vocab, buf'.touched, buf'.runs, FedTerms')
    OBVIOUS
  <1>1. phase = "fill" /\ FillInv(buf) /\ fed \in Seq(Token)
    BY Zenon DEF AddToken, SpimiInv
  <1>2. PICK a : a = Intern(buf, t)
    BY Zenon
  <1>3. PICK p \in Nat : p = Len(fed) + 1
    BY <1>1
  <1>4. PICK id : id = IdOf(a, t)
    BY Zenon
  <1>5. PICK c : c = Accumulate(a, id, d, p, grow)
    BY Zenon
  <1>6. d \in Nat /\ grow \in Nat
    BY SpimiAssumption
  <1>7. FillInv(c)
    BY <1>1, <1>2, <1>3, <1>4, <1>5, <1>6, AccumulateFill, Zenon
  <1>8. buf' = MaybeSpill(c, f)
    BY <1>2, <1>3, <1>4, <1>5, Zenon DEF AddToken
  <1>9. buf' = c \/ Moved(buf', c)
    BY <1>7, <1>8, MaybeSpillFill, Zenon
  <1>10. c.status = "ok"
    BY <1>9, Zenon DEF Moved
  <1>11. Interned(a, buf) /\ id \in DOMAIN a.slot_of
    BY <1>1, <1>2, <1>4, InternFill, Zenon
  <1>12. IsBuf(a) /\ PoolOK(a) /\ a.touched = LiveIds(a.slot_of)
    BY <1>11, Zenon DEF Interned, FillOK
  <1>13. c.touched = a.touched \cup {id}
    <2>1. Touches(c, a, id)
      BY <1>5, <1>11, <1>12, AccumulateTouched, Zenon
    <2> QED
      BY <2>1, Zenon DEF Touches
  <1>14. Kept(c, a)
    <2>1. buf.arena \in Nat /\ buf.reported \in Nat /\ buf.current = buf.reported
      BY <1>1, BooksNat, Zenon DEF FillInv
    <2>2. a.arena \in Nat /\ a.reported \in Nat /\ a.current = a.reported
      BY <1>11, <2>1, Zenon DEF Interned, SameBooks
    <2>3. Accumulated(c, a, id)
      BY <1>3, <1>5, <1>6, <1>11, <1>12, <2>2, AccumulateFields, Zenon
    <2> QED
      BY <2>3, Zenon DEF Accumulated
  <1>15. Grown(a, buf, t, id)
    BY <1>1, <1>2, <1>4, InternTerms, Zenon DEF FillInv, Distinct
  <1>16. buf.status = "ok"
    BY <1>10, <1>14, <1>15, Zenon DEF Kept, Grown
  <1>17. Holds(buf.vocab, buf.touched, buf.runs, FedTerms)
    BY <1>1, <1>16, Zenon DEF TermsInv
  <1>18. Holds(c.vocab, c.touched, c.runs, FedTerms \cup {t})
    <2>1. buf.touched \subseteq 1..Len(buf.vocab)
      BY <1>1, FillBase, Zenon DEF BaseInv
    <2>2. c.vocab = a.vocab /\ c.runs = buf.runs /\ c.touched = buf.touched \cup {id}
      BY <1>13, <1>14, <1>15, Zenon DEF Kept, Grown
    <2>3. Holds(a.vocab, buf.touched \cup {id}, buf.runs, FedTerms \cup {t})
      BY <1>15, <1>17, <2>1, HoldsMore, Zenon DEF Grown
    <2> QED
      BY <2>2, <2>3, Zenon
  <1>19. FedTerms' = FedTerms \cup {t}
    <2>1. PICK x : x = [term |-> t, doc |-> d, pos |-> IF HasPositions THEN p ELSE 0]
      BY Zenon
    <2>2. x \in Token /\ x.term = t
      BY <1>3, <2>1 DEF Token
    <2>3. fed' = Append(fed, x)
      BY <1>3, <2>1, Zenon DEF AddToken
    <2> QED
      BY <1>1, <2>2, <2>3, FedGrows, Zenon
  <1>20. CASE Moved(buf', c)
    <2>1. MovedToRun(buf', c) /\ buf'.vocab = c.vocab
      BY <1>20, Zenon DEF Moved
    <2>2. PICK x : RunOf(c, x) /\ buf'.runs = Append(c.runs, x) /\ buf'.touched = {}
      BY <2>1, Zenon DEF MovedToRun
    <2>3. PICK S : c.runs \in Seq(S)
      BY <1>7, Zenon DEF FillInv, RestOK
    <2>4. c.touched \subseteq 1..Len(c.vocab)
      BY <1>7, FillBase, Zenon DEF BaseInv
    <2>5. Holds(c.vocab, {}, Append(c.runs, x), FedTerms \cup {t})
      BY <1>18, <2>2, <2>3, <2>4, HoldsRun, Zenon
    <2> QED
      BY <1>19, <2>1, <2>2, <2>5, Zenon
  <1> QED
    BY <1>9, <1>18, <1>19, <1>20, Zenon

\* An empty output has skipped nothing.
LEMMA NothingEmitted ==
    ASSUME NEW T
    PROVE  LeastOf(<<>>, T) /\ Emitted(<<>>) = {}
  <1>1. DOMAIN <<>> = {}
    OBVIOUS
  <1>2. Emitted(<<>>) = {}
    BY <1>1, Zenon DEF Emitted
  <1> QED
    BY <1>1, <1>2, Zenon DEF LeastOf

\* The drain from memory hands over one entry per touched id.
LEMMA HandedTerms ==
    ASSUME NEW b, NEW ids, Ordered(b, ids), NEW allow,
           NEW o, o = Handed(b.vocab, RecordsOf(b, ids, allow)),
           NEW T, Holds(b.vocab, b.touched, <<>>, T)
    PROVE  LeastOf(o, T) /\ Emitted(o) = T
  <1>1. PICK x : x = RecordsOf(b, ids, allow)
    BY Zenon
  <1>2. PICK v : v = b.vocab
    BY Zenon
  <1>3. Walks(x, v, b.touched)
    BY <1>1, <1>2, RunTerms, Zenon
  <1>4. PICK n \in Nat :
           /\ Len(x) = n /\ DOMAIN x = 1..n
           /\ \A j \in 1..n : x[j].id \in b.touched
           /\ \A j, k \in 1..n : j < k => v[x[j].id] < v[x[k].id]
           /\ \A id \in b.touched : \E j \in 1..n : x[j].id = id
    BY <1>3, Zenon DEF Walks
  <1> DEFINE O(i) == [term |-> v[x[i].id], docids |-> x[i].docids,
                      freqs |-> x[i].freqs, flat |-> x[i].flat, pump |-> x[i].pump]
  <1>5. o = [i \in 1..n |-> O(i)]
    BY <1>1, <1>2, <1>4, Zenon DEF Handed
  <1>6. DOMAIN o = 1..n /\ \A i \in 1..n : o[i].term = v[x[i].id]
    <2>1. DOMAIN o = 1..n /\ \A i \in 1..n : o[i] = O(i)
      BY <1>5, Zenon
    <2>2. \A i \in 1..n : O(i).term = v[x[i].id]
      OBVIOUS
    <2> HIDE DEF O
    <2> QED
      BY <2>1, <2>2, Zenon
  <1>7. /\ \A id \in b.touched : v[id] \in T
        /\ \A t \in T : \E id \in b.touched : v[id] = t
    <2>1. \A t : ~InRuns(v, <<>>, t)
      <3>1. DOMAIN <<>> = {}
        OBVIOUS
      <3> QED
        BY <3>1, Zenon DEF InRuns
    <2> QED
      BY <1>2, <2>1, Zenon DEF Holds
  <1>8. Emitted(o) = T
    <2>1. ASSUME NEW t \in T PROVE t \in Emitted(o)
      <3>1. PICK id \in b.touched : v[id] = t
        BY <1>7, Zenon
      <3>2. PICK j \in 1..n : x[j].id = id
        BY <1>4, Zenon
      <3> QED
        BY <1>6, <3>1, <3>2, Zenon DEF Emitted
    <2>2. ASSUME NEW t \in Emitted(o) PROVE t \in T
      <3>1. PICK i \in 1..n : t = v[x[i].id]
        BY <1>6, Zenon DEF Emitted
      <3> QED
        BY <1>4, <1>7, <3>1, Zenon
    <2> QED
      BY <2>1, <2>2, Zenon
  <1>9. ASSUME NEW i \in DOMAIN o, NEW j \in DOMAIN o, i < j PROVE o[i].term < o[j].term
    <2>1. v[x[i].id] < v[x[j].id]
      BY <1>4, <1>6, <1>9, Zenon
    <2>2. o[i].term = v[x[i].id] /\ o[j].term = v[x[j].id]
      BY <1>6, Zenon
    <2> QED
      BY <2>1, <2>2, Zenon
  <1> QED
    BY <1>8, <1>9, Zenon DEF LeastOf

\* The drain from memory.
LEMMA DrainInMemoryTerms ==
    ASSUME SpimiInv, TermsInv, NEW k, DrainInMemory(k)
    PROVE  TermsInv'
  <1>1. /\ phase = "fill" /\ phase' = "done" /\ fed' = fed
        /\ buf.runs = <<>> /\ buf.status = "ok"
    BY Zenon DEF DrainInMemory, InMemory
  <1>2. FillInv(buf) /\ Holds(buf.vocab, buf.touched, <<>>, FedTerms)
    BY <1>1, Zenon DEF SpimiInv, TermsInv
  <1>3. PICK r : r = EnsureStringRank(buf)
    BY Zenon
  <1>4. /\ IsBuf(r) /\ Kept(r, buf) /\ SamePool(r, buf) /\ SameBooks(r, buf)
        /\ r.rank = RankOf(r.vocab, Len(r.vocab))
    BY <1>2, <1>3, EnsureFields, Zenon DEF FillInv
  <1>5. PoolOK(r) /\ FillOK(r) /\ Distinct(r.vocab)
    BY <1>2, <1>4, Zenon DEF FillInv, PoolOK, FillOK, SamePool, SameBooks, Kept
  <1>6. PICK ids : ids = SortedIds(r)
    BY Zenon
  <1>7. Ordered(r, ids)
    BY <1>4, <1>5, <1>6, TouchedIds, SortedIdsFacts, Zenon
  <1>8. DrainedRecords(r, k = "each") = RecordsOf(r, ids, k = "each")
    BY <1>6, Zenon DEF DrainedRecords, RecordsOf
  <1>9. r.vocab = buf.vocab /\ r.touched = buf.touched
    BY <1>4, Zenon DEF Kept, SamePool
  <1>10. out' = Handed(r.vocab, RecordsOf(r, ids, k = "each"))
    BY <1>3, <1>8, <1>9, Zenon DEF DrainInMemory
  <1>11. LeastOf(out', FedTerms) /\ Emitted(out') = FedTerms
    <2>1. PICK allow : allow = (k = "each")
      BY Zenon
    <2>2. out' = Handed(r.vocab, RecordsOf(r, ids, allow))
      BY <1>10, <2>1, Zenon
    <2>3. Holds(r.vocab, r.touched, <<>>, FedTerms)
      BY <1>2, <1>9, Zenon
    <2> QED
      BY <1>7, <2>2, <2>3, HandedTerms, Zenon
  <1>12. FedTerms' = FedTerms
    BY <1>1, Zenon DEF FedTerms
  <1> QED
    BY <1>1, <1>11, <1>12, Zenon DEF TermsInv, TermsEmitted

\* The flush before the merge, and where its readers start.
LEMMA StartMergeTerms ==
    ASSUME SpimiInv, TermsInv, NEW k, NEW f \in SpillFaults, StartMerge(k, f)
    PROVE  TermsInv'
  <1>1. phase = "fill" /\ out' = out /\ fed' = fed
    BY Zenon DEF StartMerge
  <1>2. FillInv(buf) /\ out = <<>> /\ ret = "none"
    BY <1>1, Zenon DEF SpimiInv, TermsInv
  <1>3. FedTerms' = FedTerms
    BY <1>1, Zenon DEF FedTerms
  <1>4. LeastOf(out', FedTerms) /\ Emitted(out') = {}
    BY <1>1, <1>2, NothingEmitted, Zenon
  <1>5. PICK a : a = FlushResidual(buf, f)
    BY Zenon
  <1>6. /\ FillInv(a) /\ (a.status = "ok" => a.arena = 0 /\ a.touched = {})
        /\ (a = buf \/ Moved(a, buf))
    BY <1>2, <1>5, FlushFill, Zenon
  <1>7. PICK b : b = [a EXCEPT !.drained = TRUE]
    BY Zenon
  <1>8. /\ IsBuf(b) /\ SamePool(b, a) /\ SameBooks(b, a)
        /\ b.vocab = a.vocab /\ b.runs = a.runs /\ b.status = a.status
        /\ b.cap = a.cap /\ b.files = a.files /\ b.drained = TRUE
    BY <1>6, <1>7, DrainedFlag, Zenon DEF FillInv
  <1>9. CASE b.status # "ok"
    <2>1. phase' = "done" /\ ret' = b.status
      BY <1>5, <1>7, <1>9, Zenon DEF StartMerge, OpenRuns
    <2> QED
      BY <1>3, <1>4, <1>9, <2>1, Zenon DEF TermsInv, TermsEmitted
  <1>10. CASE b.status = "ok"
    <2>1. /\ buf' = Report(FreeSlots(b)) /\ phase' = "merge" /\ ret' = ret
          /\ pos' = [i \in 1..Len(b.runs) |-> 1]
      BY <1>5, <1>7, <1>10, Zenon DEF StartMerge, OpenRuns
    <2>2. a.status = "ok" /\ a.arena = 0 /\ a.touched = {}
      BY <1>6, <1>8, <1>10, Zenon
    <2>3. buf'.vocab = a.vocab /\ buf'.runs = a.runs
      <3>1. RestOK(b) /\ b.touched \subseteq 1..Len(b.vocab)
        <4>1. a.touched \subseteq 1..Len(a.vocab)
          BY <1>6, FillBase, Zenon DEF BaseInv
        <4> QED
          BY <1>6, <1>8, <4>1, Zenon DEF FillInv, RestOK, SamePool
      <3>2. b.arena = 0 /\ b.reported \in Nat /\ b.current = b.reported
        <4>1. a.reported \in Nat /\ a.current = a.reported
          BY <1>6, BooksNat, Zenon DEF FillInv
        <4> QED
          BY <1>8, <2>2, <4>1, Zenon DEF SameBooks
      <3>3. DroppedOK(buf', b)
        BY <1>8, <2>1, <3>1, <3>2, DropFill, Zenon
      <3> QED
        BY <1>8, <3>3, Zenon DEF DroppedOK
    <2>4. buf.status = "ok"
      BY <1>6, <2>2, Zenon DEF Moved
    <2>5. Holds(buf.vocab, buf.touched, buf.runs, FedTerms)
      BY <1>1, <2>4, Zenon DEF TermsInv
    <2>6. Holds(a.vocab, {}, a.runs, FedTerms)
      <3>1. CASE a = buf
        BY <2>2, <2>5, <3>1, Zenon
      <3>2. CASE Moved(a, buf)
        <4>1. PICK x : RunOf(buf, x) /\ a.runs = Append(buf.runs, x) /\ a.vocab = buf.vocab
          BY <2>2, <3>2, Zenon DEF Moved, MovedToRun
        <4>2. PICK S : buf.runs \in Seq(S)
          BY <1>2, Zenon DEF FillInv, RestOK
        <4>3. buf.touched \subseteq 1..Len(buf.vocab)
          BY <1>2, FillBase, Zenon DEF BaseInv
        <4>4. Holds(buf.vocab, {}, Append(buf.runs, x), FedTerms)
          BY <2>5, <4>1, <4>2, <4>3, HoldsRun, Zenon
        <4> QED
          BY <4>1, <4>4, Zenon
      <3> QED
        BY <1>6, <3>1, <3>2, Zenon
    <2>7. PICK m \in Nat : m = Len(a.runs) /\ DOMAIN a.runs = 1..m
      <3>1. PICK S : a.runs \in Seq(S)
        BY <1>6, Zenon DEF FillInv, RestOK
      <3> QED
        BY <3>1
    <2>8. pos' = [i \in 1..m |-> 1]
      BY <1>8, <2>1, <2>7, Zenon
    <2>9. Standing(buf'.vocab, buf'.runs, pos', Emitted(out'))
      <3>1. 1 \in Nat \ {0}
        OBVIOUS
      <3>2. ASSUME NEW i \in 1..m PROVE \A j \in DOMAIN a.runs[i] : ~(j < 1)
        <4>1. RunSorted(a.vocab, a.runs[i], FedTerms)
          BY <2>6, <2>7, Zenon DEF Holds
        <4>2. PICK n \in Nat : DOMAIN a.runs[i] = 1..n
          BY <4>1, Zenon DEF RunSorted
        <4>3. \A j \in 1..n : ~(j < 1)
          OBVIOUS
        <4> QED
          BY <4>2, <4>3, Zenon
      <3> QED
        BY <1>4, <2>3, <2>7, <2>8, <3>1, <3>2, Zenon DEF Standing
    <2>10. DOMAIN pos' = DOMAIN buf'.runs
      BY <2>3, <2>7, <2>8, Zenon
    <2>11. Holds(buf'.vocab, {}, buf'.runs, FedTerms)
      BY <2>3, <2>6, Zenon
    <2> QED
      BY <1>2, <1>3, <1>4, <2>1, <2>9, <2>10, <2>11, Zenon DEF TermsInv, TermsEmitted
  <1> QED
    BY <1>9, <1>10, Zenon

\* One iteration of the merge loop emits the least term still before a reader, and
\* moves every reader past it.
LEMMA MergeEmits ==
    ASSUME SpimiInv, TermsInv, phase = "merge", Heads # {}, NEW flat, NEW pump, Emit(flat, pump),
           NEW at, at = [i \in DOMAIN pos |-> IF i \in Matching THEN pos[i] + 1 ELSE pos[i]]
    PROVE  /\ LeastOf(out', FedTerms)
           /\ Standing(buf.vocab, buf.runs, at, Emitted(out'))
  <1>1. PICK v : v = buf.vocab
    BY Zenon
  <1>2. PICK runs : runs = buf.runs
    BY Zenon
  <1>3. PICK E : E = Emitted(out)
    BY Zenon
  <1>4. /\ Holds(v, {}, runs, FedTerms) /\ Standing(v, runs, pos, E)
        /\ DOMAIN pos = DOMAIN runs /\ LeastOf(out, FedTerms)
    BY <1>1, <1>2, <1>3, Zenon DEF TermsInv, TermsEmitted
  <1>5. FedTerms \subseteq Nat
    <2>1. fed \in Seq(Token)
      BY Zenon DEF SpimiInv
    <2>2. \A i \in DOMAIN fed : fed[i] \in Token
      BY <2>1
    <2>3. \A y \in Token : y.term \in Terms
      BY DEF Token
    <2> QED
      BY <2>2, <2>3, SpimiAssumption, Zenon DEF FedTerms
  <1>6. DOMAIN runs = 1..Len(runs)
    <2>1. PICK S : buf.runs \in Seq(S)
      BY Zenon DEF SpimiInv, BaseInv, RestOK
    <2> QED
      BY <1>2, <2>1
  <1> DEFINE T(i, j) == v[runs[i][j].id]
  <1>7. ASSUME NEW i \in DOMAIN runs
        PROVE  /\ \A j \in DOMAIN runs[i] : T(i, j) \in FedTerms
               /\ \A j, k \in DOMAIN runs[i] : j < k => T(i, j) < T(i, k)
               /\ pos[i] \in Nat \ {0}
               /\ \A j \in DOMAIN runs[i] : IF j < pos[i] THEN T(i, j) \in E
                                            ELSE \A e \in E : e < T(i, j)
               /\ \E n \in Nat : Len(runs[i]) = n /\ DOMAIN runs[i] = 1..n
    <2>1. RunSorted(v, runs[i], FedTerms)
      BY <1>4, Zenon DEF Holds
    <2> QED
      BY <1>4, <2>1, Zenon DEF RunSorted, Standing
  <1>8. \A i \in DOMAIN runs : HeadTerm(i) = T(i, pos[i])
    BY <1>1, <1>2, Zenon DEF HeadTerm
  <1>9. ASSUME NEW i \in DOMAIN runs
        PROVE  /\ i \in Heads <=> pos[i] \in DOMAIN runs[i]
               /\ \A j \in DOMAIN runs[i] : ~(j < pos[i]) => i \in Heads
    <2>1. PICK n \in Nat : Len(runs[i]) = n /\ DOMAIN runs[i] = 1..n
      BY <1>7, Zenon
    <2>2. pos[i] \in Nat \ {0}
      BY <1>7, Zenon
    <2>3. i \in Heads <=> pos[i] <= n
      BY <1>2, <1>6, <2>1, Zenon DEF Heads
    <2>4. pos[i] <= n <=> pos[i] \in 1..n
      BY <2>1, <2>2
    <2>5. \A j \in 1..n : ~(j < pos[i]) => pos[i] <= n
      BY <2>1, <2>2
    <2> QED
      BY <2>1, <2>3, <2>4, <2>5, Zenon
  <1>10. \A i \in Heads : i \in DOMAIN runs /\ pos[i] \in DOMAIN runs[i]
    <2>1. \A i \in Heads : i \in DOMAIN runs
      BY <1>2, <1>6, Zenon DEF Heads
    <2> QED
      BY <1>9, <2>1, Zenon
  <1>11. \A i \in Heads : HeadTerm(i) \in FedTerms
    <2> TAKE i \in Heads
    <2>1. i \in DOMAIN runs /\ pos[i] \in DOMAIN runs[i]
      BY <1>10, Zenon
    <2>2. T(i, pos[i]) \in FedTerms
      BY <1>7, <2>1, Zenon
    <2> QED
      BY <1>8, <2>1, <2>2, Zenon
  <1>12. PICK x \in FedTerms : /\ \E i \in Heads : HeadTerm(i) = x
                               /\ \A i \in Heads : x <= HeadTerm(i)
    <2>1. PICK H : H = {HeadTerm(i) : i \in Heads}
      BY Zenon
    <2>2. H # {} /\ H \subseteq Nat
      BY <1>5, <1>11, <2>1, Zenon
    <2>3. PICK x \in H : \A y \in H : x <= y
      BY <2>2, Least, Zenon
    <2> QED
      BY <1>11, <2>1, <2>3, Zenon
  <1>13. x \in Nat /\ \A i \in Heads : HeadTerm(i) \in Nat
    BY <1>5, <1>11, <1>12, Zenon
  <1>14. \A i \in Heads : i \in Matching <=> HeadTerm(i) = x
    <2>1. ASSUME NEW i \in Heads, HeadTerm(i) = x PROVE i \in Matching
      BY <1>12, <2>1, Zenon DEF Matching
    <2>2. ASSUME NEW i \in Matching PROVE HeadTerm(i) = x
      <3>1. PICK k \in Heads : HeadTerm(k) = x
        BY <1>12, Zenon
      <3>2. HeadTerm(i) <= x /\ x <= HeadTerm(i) /\ i \in Heads
        BY <1>12, <2>2, <3>1, Zenon DEF Matching
      <3>3. HeadTerm(i) \in Nat
        BY <1>13, <3>2, Zenon
      <3> QED
        BY <1>13, <3>2, <3>3
    <2> QED
      BY <2>1, <2>2, Zenon
  <1>15. PICK i0 \in Matching : i0 = CHOOSE i \in Matching : TRUE
    <2>1. PICK i \in Matching : TRUE
      BY <1>12, <1>14, Zenon
    <2> QED
      BY <2>1, Zenon
  <1>16. i0 \in Heads /\ HeadTerm(i0) = x
    BY <1>14, <1>15, Zenon DEF Matching
  <1>17. \A e \in E : e < x
    <2>1. i0 \in DOMAIN runs /\ pos[i0] \in DOMAIN runs[i0] /\ T(i0, pos[i0]) = x
      BY <1>8, <1>10, <1>16, Zenon
    <2>2. ~(pos[i0] < pos[i0])
      <3>1. pos[i0] \in Nat
        BY <1>7, <2>1, Zenon
      <3> QED
        BY <3>1
    <2> QED
      BY <1>7, <2>1, <2>2, Zenon
  <1>18. PICK rec : rec.term = x /\ out' = Append(out, rec)
    <2>1. PICK rec : rec = [term |-> HeadTerm(CHOOSE i \in Matching : TRUE),
                            docids |-> Merged.docids, freqs |-> Merged.freqs,
                            flat |-> flat, pump |-> pump]
      BY Zenon
    <2>2. rec.term = HeadTerm(CHOOSE i \in Matching : TRUE)
      BY <2>1
    <2>3. rec.term = x
      BY <1>15, <1>16, <2>2, Zenon
    <2> QED
      BY <2>1, <2>3, Zenon DEF Emit
  <1>19. PICK n \in Nat : /\ DOMAIN out = 1..n /\ DOMAIN out' = 1..(n + 1) /\ out'[n + 1] = rec
                          /\ \A i \in 1..n : out'[i] = out[i]
    <2>1. PICK S : out \in Seq(S)
      BY Zenon DEF SpimiInv, OutOK
    <2> QED
      BY <1>18, <2>1
  <1>20. /\ \A i \in 1..(n + 1) : i \in 1..n \/ i = n + 1
         /\ \A i \in 1..n : i \in 1..(n + 1)
         /\ n + 1 \in 1..(n + 1)
         /\ \A i \in 1..(n + 1) : ~(n + 1 < i)
    BY <1>19
  <1>21. Emitted(out') = E \cup {x}
    <2>1. \A t : t \in Emitted(out') <=> t \in E \cup {x}
      BY <1>3, <1>18, <1>19, <1>20, Zenon DEF Emitted
    <2> QED
      BY <2>1, Zenon
  <1>22. ASSUME NEW i \in DOMAIN runs, NEW j \in DOMAIN runs[i]
         PROVE  IF j < at[i] THEN T(i, j) \in E \cup {x} ELSE \A e \in E \cup {x} : e < T(i, j)
    <2>1. pos[i] \in Nat \ {0} /\ j \in Nat
      BY <1>7
    <2>2. at[i] = IF i \in Matching THEN pos[i] + 1 ELSE pos[i]
      BY <1>4, Zenon
    <2>3. CASE j < pos[i]
      <3>1. j < at[i]
        BY <2>1, <2>2, <2>3
      <3> QED
        BY <1>7, <2>3, <3>1, Zenon
    <2>4. CASE j = pos[i] /\ i \in Matching
      <3>1. j < at[i]
        BY <2>1, <2>2, <2>4
      <3>2. T(i, j) = x
        BY <1>8, <1>14, <2>4, Zenon DEF Matching
      <3> QED
        BY <3>1, <3>2, Zenon
    <2>5. CASE ~(j < pos[i]) /\ ~(j = pos[i] /\ i \in Matching)
      <3>1. ~(j < at[i])
        BY <2>1, <2>2, <2>5
      <3>2. i \in Heads /\ pos[i] \in DOMAIN runs[i]
        BY <1>9, <2>5, Zenon
      <3>3. T(i, j) \in Nat /\ HeadTerm(i) \in Nat /\ x <= HeadTerm(i)
        BY <1>5, <1>7, <1>12, <1>13, <3>2, Zenon
      <3>4. x < T(i, j)
        <4>1. CASE j = pos[i]
          <5>1. T(i, j) = HeadTerm(i) /\ HeadTerm(i) # x
            BY <1>8, <1>14, <2>5, <3>2, <4>1, Zenon
          <5> QED
            BY <1>13, <3>3, <5>1
        <4>2. CASE j # pos[i]
          <5>1. pos[i] < j
            BY <2>1, <2>5, <4>2
          <5>2. HeadTerm(i) < T(i, j)
            BY <1>7, <1>8, <3>2, <5>1, Zenon
          <5> HIDE DEF T
          <5> QED
            BY <1>13, <3>3, <5>2
        <4> QED
          BY <4>1, <4>2, Zenon
      <3>5. \A e \in E : e < T(i, j)
        BY <1>7, <2>5, Zenon
      <3> QED
        BY <3>1, <3>4, <3>5, Zenon
    <2> QED
      BY <2>3, <2>4, <2>5, Zenon
  <1>23. Standing(v, runs, at, E \cup {x})
    <2>1. \A i \in DOMAIN runs : i \in DOMAIN at /\ at[i] \in Nat \ {0}
      <3> TAKE i \in DOMAIN runs
      <3>1. i \in DOMAIN at /\ at[i] = IF i \in Matching THEN pos[i] + 1 ELSE pos[i]
        BY <1>4, Zenon
      <3>2. pos[i] \in Nat \ {0}
        BY <1>7, Zenon
      <3> QED
        BY <3>1, <3>2
    <2> QED
      BY <1>22, <2>1, Zenon DEF Standing
  <1>24. LeastOf(out', FedTerms)
    <2>1. ASSUME NEW i \in DOMAIN out', NEW j \in DOMAIN out', i < j
          PROVE  out'[i].term < out'[j].term
      <3>1. i \in 1..n
        <4>1. i \in 1..(n + 1) /\ j \in 1..(n + 1)
          BY <1>19, Zenon
        <4> QED
          BY <1>19, <2>1, <4>1
      <3>2. out'[i].term = out[i].term /\ out[i].term \in E
        BY <1>3, <1>19, <3>1, Zenon DEF Emitted
      <3>3. CASE j \in 1..n
        <4>1. out[i].term < out[j].term
          BY <1>4, <1>19, <2>1, <3>1, <3>3, Zenon DEF LeastOf
        <4> QED
          BY <1>19, <3>2, <3>3, <4>1, Zenon
      <3>4. CASE j = n + 1
        BY <1>17, <1>18, <1>19, <3>2, <3>4, Zenon
      <3> QED
        BY <1>19, <1>20, <3>3, <3>4, Zenon
    <2>2. E \subseteq FedTerms
      BY <1>3, <1>4, Zenon DEF LeastOf
    <2>3. ASSUME NEW t \in FedTerms, NEW e \in E \cup {x}, t <= e
          PROVE  t \in E \cup {x}
      <3>1. InRuns(v, runs, t)
        BY <1>4, Zenon DEF Holds
      <3>2. PICK i \in DOMAIN runs : \E j \in DOMAIN runs[i] : T(i, j) = t
        BY <3>1, Zenon DEF InRuns
      <3>3. PICK j \in DOMAIN runs[i] : T(i, j) = t
        BY <3>2, Zenon
      <3>4. t \in Nat /\ e \in Nat
        BY <1>5, <1>12, <2>2, Zenon
      <3>5. ~(e < t)
        BY <2>3, <3>4
      <3> QED
        BY <1>22, <3>3, <3>5, Zenon
    <2> QED
      BY <1>12, <1>21, <2>1, <2>2, <2>3, Zenon DEF LeastOf
  <1> QED
    BY <1>1, <1>2, <1>21, <1>23, <1>24, Zenon

\* The merge and the ways it ends.
LEMMA MergeTerms ==
    ASSUME SpimiInv, TermsInv,
           \/ MergeOpenFails \/ MergeStep \/ MergePositionsFail \/ MergePumpFails
           \/ MergeAdvanceFails \/ MergeEnds
    PROVE  TermsInv'
  <1>1. phase = "merge" /\ fed' = fed
    BY Zenon DEF MergeOpenFails, MergeStep, MergePositionsFail, MergePumpFails,
                 MergeAdvanceFails, MergeEnds
  <1>2. FedTerms' = FedTerms
    BY <1>1, Zenon DEF FedTerms
  <1>3. LeastOf(out, FedTerms) /\ ret = "none"
    BY <1>1, Zenon DEF TermsInv, TermsEmitted, SpimiInv
  <1>4. PICK at : at = [i \in DOMAIN pos |-> IF i \in Matching THEN pos[i] + 1 ELSE pos[i]]
    BY Zenon
  <1>5. ASSUME FailMerge, LeastOf(out', FedTerms) PROVE TermsInv'
    <2>1. phase' = "done" /\ ret' = "io"
      BY <1>5, Zenon DEF FailMerge
    <2> QED
      BY <1>2, <1>5, <2>1 DEF TermsInv, TermsEmitted
  <1>6. CASE MergeOpenFails \/ MergePositionsFail
    <2>1. FailMerge /\ out' = out
      BY <1>6, Zenon DEF MergeOpenFails, MergePositionsFail
    <2> QED
      BY <1>3, <1>5, <2>1, Zenon
  <1>7. CASE MergePumpFails
    <2>1. Heads # {} /\ FailMerge
      BY <1>7, Zenon DEF MergePumpFails
    <2>2. PICK flat : Emit(flat, TRUE)
      BY <1>7, Zenon DEF MergePumpFails
    <2>3. LeastOf(out', FedTerms)
      BY <1>1, <1>4, <2>1, <2>2, MergeEmits, Zenon
    <2> QED
      BY <1>5, <2>1, <2>3, Zenon
  <1>8. ASSUME Heads # {}, Emit(Merged.flat, StreamMerged)
        PROVE  LeastOf(out', FedTerms) /\ Standing(buf.vocab, buf.runs, at, Emitted(out'))
    <2>1. PICK flat : flat = Merged.flat
      BY Zenon
    <2>2. PICK pump : pump = StreamMerged
      BY Zenon
    <2>3. Emit(flat, pump)
      BY <1>8, <2>1, <2>2, Zenon
    <2> QED
      BY <1>1, <1>4, <1>8, <2>3, MergeEmits, Zenon
  <1>9. CASE MergeAdvanceFails
    <2>1. Heads # {} /\ FailMerge /\ Emit(Merged.flat, StreamMerged)
      BY <1>9, Zenon DEF MergeAdvanceFails
    <2> QED
      BY <1>5, <1>8, <2>1, Zenon
  <1>10. CASE MergeStep
    <2>1. /\ Heads # {} /\ Emit(Merged.flat, StreamMerged)
          /\ buf' = buf /\ phase' = phase /\ ret' = ret /\ pos' = at
      BY <1>4, <1>10, Zenon DEF MergeStep, AdvanceReaders
    <2>2. LeastOf(out', FedTerms) /\ Standing(buf'.vocab, buf'.runs, pos', Emitted(out'))
      BY <1>8, <2>1, Zenon
    <2>3. Holds(buf'.vocab, {}, buf'.runs, FedTerms) /\ DOMAIN pos' = DOMAIN buf'.runs
      BY <1>1, <1>4, <2>1, Zenon DEF TermsInv
    <2>4. phase' # "fill" /\ ret' # "ok"
      BY <1>1, <1>3, <2>1
    <2> QED
      BY <1>2, <2>2, <2>3, <2>4, Zenon DEF TermsInv, TermsEmitted
  <1>11. CASE MergeEnds
    <2>1. Heads = {} /\ phase' = "done" /\ out' = out
      BY <1>11, Zenon DEF MergeEnds
    <2>2. PICK v : v = buf.vocab
      BY Zenon
    <2>3. PICK runs : runs = buf.runs
      BY Zenon
    <2>4. Holds(v, {}, runs, FedTerms) /\ Standing(v, runs, pos, Emitted(out))
      BY <1>1, <2>2, <2>3, Zenon DEF TermsInv
    <2>5. DOMAIN runs = 1..Len(runs)
      <3>1. PICK S : buf.runs \in Seq(S)
        BY Zenon DEF SpimiInv, BaseInv, RestOK
      <3> QED
        BY <2>3, <3>1
    <2>6. ASSUME NEW t \in FedTerms PROVE t \in Emitted(out)
      <3>1. InRuns(v, runs, t)
        BY <2>4, Zenon DEF Holds
      <3>2. PICK i \in DOMAIN runs : \E j \in DOMAIN runs[i] : v[runs[i][j].id] = t
        BY <3>1, Zenon DEF InRuns
      <3>3. PICK j \in DOMAIN runs[i] : v[runs[i][j].id] = t
        BY <3>2, Zenon
      <3>4. PICK n \in Nat : Len(runs[i]) = n /\ DOMAIN runs[i] = 1..n
        BY <2>4, Zenon DEF Holds, RunSorted
      <3>5. ~(pos[i] <= n)
        BY <2>1, <2>3, <2>5, <3>4, Zenon DEF Heads
      <3>6. pos[i] \in Nat
        BY <2>4 DEF Standing
      <3>7. j < pos[i]
        BY <3>4, <3>5, <3>6
      <3> QED
        BY <2>4, <3>3, <3>7, Zenon DEF Standing
    <2>7. Emitted(out') = FedTerms /\ LeastOf(out', FedTerms)
      BY <1>3, <2>1, <2>6, Zenon DEF LeastOf
    <2>8. phase' # "fill" /\ phase' # "merge"
      BY <2>1
    <2> QED
      BY <1>2, <2>7, <2>8, Zenon DEF TermsInv, TermsEmitted
  <1> QED
    BY <1>6, <1>7, <1>9, <1>10, <1>11, Zenon

\* Every step.
LEMMA TermsNextInv == SpimiInv /\ TermsInv /\ [Next]_vars => TermsInv'
  <1> SUFFICES ASSUME SpimiInv, TermsInv, [Next]_vars PROVE TermsInv'
    OBVIOUS
  <1>1. ASSUME NEW t \in Terms, NEW d \in Docs, NEW grow \in {0, 1}, NEW f \in SpillFaults,
               AddToken(t, d, grow, f)
        PROVE  TermsInv'
    <2>1. phase = "fill" /\ phase' = phase /\ out' = out /\ ret' = ret
      BY <1>1, Zenon DEF AddToken
    <2>2. out' = <<>> /\ ret' # "ok" /\ phase' # "merge"
      BY <2>1, Zenon DEF TermsInv, SpimiInv
    <2>3. buf'.status = "ok" => Holds(buf'.vocab, buf'.touched, buf'.runs, FedTerms')
      BY <1>1, AddTokenTerms, Zenon
    <2>4. LeastOf(out', FedTerms')
      BY <2>2, NothingEmitted, Zenon
    <2> QED
      BY <2>2, <2>3, <2>4, Zenon DEF TermsInv, TermsEmitted
  <1>2. CASE RejectToken
    <2>1. /\ phase = "fill" /\ phase' = phase /\ out' = out /\ ret' = ret /\ fed' = fed
          /\ buf' = IF buf.status = "ok" THEN [buf EXCEPT !.status = "invalid"] ELSE buf
      BY <1>2, Zenon DEF RejectToken
    <2>2. IsBuf(buf)
      BY Zenon DEF SpimiInv, BaseInv
    <2>3. buf'.status # "ok"
      <3>1. CASE buf.status = "ok"
        <4>1. buf' = [buf EXCEPT !.status = "invalid"]
          BY <2>1, <3>1, Zenon
        <4>2. buf'.status = "invalid"
          BY <2>2, <4>1, Zenon DEF IsBuf, Fields
        <4> QED
          BY <4>2
      <3>2. CASE buf.status # "ok"
        BY <2>1, <3>2, Zenon
      <3> QED
        BY <3>1, <3>2, Zenon
    <2>4. FedTerms' = FedTerms /\ phase' # "merge"
      BY <2>1 DEF FedTerms
    <2> QED
      BY <2>1, <2>3, <2>4, Zenon DEF TermsInv, TermsEmitted
  <1>3. CASE \E k \in {"each", "final"} : DrainInMemory(k)
    BY <1>3, DrainInMemoryTerms, Zenon
  <1>4. CASE \E k \in {"each", "final"} : \E f \in SpillFaults : StartMerge(k, f)
    BY <1>4, StartMergeTerms, Zenon
  <1>5. CASE \/ MergeOpenFails \/ MergeStep \/ MergePositionsFail \/ MergePumpFails
             \/ MergeAdvanceFails \/ MergeEnds
    BY <1>5, MergeTerms, Zenon
  <1>6. CASE Destroy \/ \E k \in {"each", "final"} : DrainAgain(k)
    <2>1. phase' \in {"done", "gone"} /\ out' = out /\ ret' = ret /\ fed' = fed
      BY <1>6, Zenon DEF Destroy, DrainAgain
    <2>2. FedTerms' = FedTerms /\ phase' # "fill" /\ phase' # "merge"
      BY <2>1 DEF FedTerms
    <2> QED
      BY <2>1, <2>2, Zenon DEF TermsInv, TermsEmitted
  <1>7. CASE UNCHANGED vars
    <2>1. /\ buf' = buf /\ phase' = phase /\ pos' = pos /\ out' = out /\ ret' = ret
          /\ fed' = fed
      BY <1>7, Zenon DEF vars
    <2>2. FedTerms' = FedTerms
      BY <2>1, Zenon DEF FedTerms
    <2> QED
      BY <2>1, <2>2, Zenon DEF TermsInv, TermsEmitted
  <1> QED
    BY <1>1, <1>2, <1>3, <1>4, <1>5, <1>6, <1>7, Zenon DEF Next

\* Wherever spills fall, however ids, ranks and slots are reused, and wherever the merge
\* fails: the caller has been handed the least of the terms fed, each once and in string
\* order, and all of them when the drain returned OK.
THEOREM NoTermLost == Spec => []TermsEmitted
  <1>1. Init => TermsInv
    <2> SUFFICES ASSUME Init PROVE TermsInv
      OBVIOUS
    <2>1. /\ phase = "fill" /\ out = <<>> /\ ret = "none" /\ fed = <<>>
          /\ buf.touched = {} /\ buf.runs = <<>>
      BY DEF Init
    <2>2. DOMAIN <<>> = {}
      OBVIOUS
    <2>3. FedTerms = {}
      BY <2>1, <2>2, Zenon DEF FedTerms
    <2>4. Holds(buf.vocab, {}, <<>>, {})
      BY <2>2, Zenon DEF Holds
    <2>5. phase # "merge" /\ ret # "ok"
      BY <2>1
    <2>6. LeastOf(out, FedTerms)
      BY <2>1, NothingEmitted, Zenon
    <2> QED
      BY <2>1, <2>3, <2>4, <2>5, <2>6, Zenon DEF TermsInv, TermsEmitted
  <1>2. TermsInv => TermsEmitted
    BY Zenon DEF TermsInv
  <1> QED
    BY <1>1, <1>2, TermsNextInv, SpimiInvariant, PTL DEF Spec

============================================================================
