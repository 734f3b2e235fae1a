------------------------ MODULE SelectiveWandProofs ------------------------
(***************************************************************************)
(* Proofs about SelectiveWand: each window is read at most once, and the   *)
(* lazily read cursors implement the WAND loop over postings that are all  *)
(* there from the start.                                                   *)
(***************************************************************************)
EXTENDS SelectiveWand, FiniteFacts

----------------------------------------------------------------------------
(* The inductive invariant of a cursor. *)

\* A LazyTermCursor with these fields.
LazyTermCursor(ws, fl, ps, st, fe, at, rd) ==
    [windows |-> ws, full |-> fl, postings |-> ps, win_start |-> st,
     fetched |-> fe, pos |-> at, reads |-> rd]

\* Windows 1..n cut the postings fl into consecutive nonempty runs, window w being
\* the postings st[w] + 1 to st[w + 1], with its last docid; docids ascend.
Cut(ws, fl, st, n, total) ==
    /\ n \in Nat \ {0} /\ total \in Nat
    /\ DOMAIN ws = 1..n
    /\ DOMAIN fl = 1..total /\ Len(fl) = total
    /\ \A p \in 1..total : fl[p].docid \in Eager!Docs
    /\ \A p, q \in 1..total : p < q => fl[p].docid < fl[q].docid
    /\ st \in [1..(n + 1) -> 0..total] /\ Len(st) = n + 1
    /\ st[1] = 0 /\ st[n + 1] = total
    /\ \A v, w \in 1..(n + 1) : v < w => st[v] < st[w]
    /\ \A w \in 1..n : ws[w].last = fl[st[w + 1]].docid

\* What is read is what the file holds.
Read(fl, ps, st, fe, n, total) ==
    /\ DOMAIN ps = 1..total /\ Len(ps) = total
    /\ fe \in [1..n -> BOOLEAN]
    /\ \A w \in 1..n : \A p \in (st[w] + 1)..st[w + 1] : fe[w] => ps[p] = fl[p]

\* The windows rd were fetched, each once.
Once(fe, rd, n) ==
    /\ rd \in Seq(1..n)
    /\ \A a \in 1..Len(rd) : fe[rd[a]]
    /\ \A a, b \in 1..Len(rd) : rd[a] = rd[b] => a = b

\* A cursor over n windows and total postings.
CursorInv(c, n, total) ==
    /\ c = LazyTermCursor(c.windows, c.full, c.postings, c.win_start, c.fetched, c.pos, c.reads)
    /\ Cut(c.windows, c.full, c.win_start, n, total)
    /\ Read(c.full, c.postings, c.win_start, c.fetched, n, total)
    /\ Once(c.fetched, c.reads, n)
    /\ c.pos \in 1..(total + 1)

\* The cursor of the eager path that c stands for.
View(c) == [postings |-> c.full, windows |-> c.windows, pos |-> c.pos]

----------------------------------------------------------------------------
(* Windows. *)

\* TotalPostings is the number of postings of the term.
LEMMA TotalFacts ==
    ASSUME NEW c, NEW n, NEW total, CursorInv(c, n, total)
    PROVE  TotalPostings(c) = total
  BY Zenon DEF CursorInv, Cut, TotalPostings

\* A posting lies in exactly one window.
LEMMA WindowFacts ==
    ASSUME NEW c, NEW n, NEW total, CursorInv(c, n, total), NEW p \in 1..total
    PROVE  /\ WindowOf(c, p) \in 1..n
           /\ p \in (c.win_start[WindowOf(c, p)] + 1)..c.win_start[WindowOf(c, p) + 1]
           /\ \A v \in 1..n : p \in (c.win_start[v] + 1)..c.win_start[v + 1] => v = WindowOf(c, p)
  <1>1. PICK st : st = c.win_start
    OBVIOUS
  <1>2. /\ n \in Nat \ {0} /\ total \in Nat /\ DOMAIN c.windows = 1..n
        /\ st \in [1..(n + 1) -> 0..total] /\ st[1] = 0 /\ st[n + 1] = total
        /\ \A v, w \in 1..(n + 1) : v < w => st[v] < st[w]
    BY <1>1, Zenon DEF CursorInv, Cut
  <1> DEFINE S == {w \in 1..n : st[w] < p}
  <1>3. S \subseteq Nat /\ 1 \in S /\ \A w \in S : w <= n
    BY <1>2
  <1>4. PICK m : m = WindowOf(c, p)
    OBVIOUS
  <1>5. m \in S /\ \A w \in S : m >= w
    BY <1>1, <1>2, <1>3, <1>4, MaxFacts, Zenon DEF WindowOf
  <1>6. p <= st[m + 1]
    <2>1. CASE m = n
      BY <1>2, <2>1
    <2>2. CASE m # n
      <3>1. m + 1 \in 1..n /\ m + 1 \notin S
        BY <1>2, <1>5, <2>2
      <3> QED
        BY <1>2, <3>1
    <2> QED
      BY <2>1, <2>2
  <1>7. ASSUME NEW v \in 1..n, st[v] < p, p <= st[v + 1]
        PROVE  v = m
    <2>1. m >= v /\ m \in 1..n /\ st[m] < p
      BY <1>5, <1>7
    <2>2. CASE v < m
      <3>1. v + 1 \in 1..(n + 1) /\ m \in 1..(n + 1) /\ (v + 1 < m \/ v + 1 = m)
        BY <1>2, <2>1, <2>2
      <3>2. st[v + 1] <= st[m] /\ st[v + 1] \in Nat /\ st[m] \in Nat
        BY <1>2, <3>1
      <3> QED
        BY <1>7, <2>1, <3>2
    <2> QED
      BY <2>1, <2>2
  <1>8. st[m] \in Nat /\ st[m + 1] \in Nat /\ m \in 1..n /\ st[m] < p
    BY <1>2, <1>5
  <1>9. p \in (st[m] + 1)..st[m + 1]
    BY <1>6, <1>8
  <1>10. ASSUME NEW v \in 1..n, p \in (st[v] + 1)..st[v + 1]
         PROVE  v = m
    <2>1. st[v] \in Nat /\ st[v + 1] \in Nat
      BY <1>2
    <2>2. st[v] < p /\ p <= st[v + 1]
      BY <1>10, <2>1
    <2> QED
      BY <1>7, <2>2
  <1> QED
    BY <1>1, <1>4, <1>8, <1>9, <1>10, Zenon

----------------------------------------------------------------------------
(* Reading and moving a cursor. *)

Moved(c, x) == [c EXCEPT !.pos = x]

\* A cursor that moves within the postings and their end stays one.
LEMMA MoveInv ==
    ASSUME NEW c, NEW n, NEW total, CursorInv(c, n, total), NEW x \in 1..(total + 1),
           NEW e, e = Moved(c, x)
    PROVE  CursorInv(e, n, total) /\ View(e) = Moved(View(c), x)
  <1>1. PICK ws, fl, ps, st, fe, at, rd :
            /\ ws = c.windows /\ fl = c.full /\ ps = c.postings /\ st = c.win_start
            /\ fe = c.fetched /\ at = c.pos /\ rd = c.reads
    OBVIOUS
  <1>2. /\ c = LazyTermCursor(ws, fl, ps, st, fe, at, rd)
        /\ Cut(ws, fl, st, n, total) /\ Read(fl, ps, st, fe, n, total) /\ Once(fe, rd, n)
    BY <1>1, Zenon DEF CursorInv
  <1>3. e = LazyTermCursor(ws, fl, ps, st, fe, x, rd)
    BY <1>2 DEF LazyTermCursor, Moved
  <1>4. /\ e.windows = ws /\ e.full = fl /\ e.postings = ps /\ e.win_start = st
        /\ e.fetched = fe /\ e.pos = x /\ e.reads = rd
    BY <1>3 DEF LazyTermCursor
  <1>5. CursorInv(e, n, total)
    BY <1>2, <1>3, <1>4, Zenon DEF CursorInv
  <1>6. View(e) = [postings |-> fl, windows |-> ws, pos |-> x]
    BY <1>4, Zenon DEF View
  <1>7. View(c) = [postings |-> fl, windows |-> ws, pos |-> at]
    BY <1>1, Zenon DEF View
  <1>8. Moved(View(c), x) = [postings |-> fl, windows |-> ws, pos |-> x]
    BY <1>7 DEF Moved
  <1> QED
    BY <1>5, <1>6, <1>8, Zenon

\* What MaterializeWindow leaves of a window that was not fetched.
LEMMA MaterializeFields ==
    ASSUME NEW c, NEW w, ~c.fetched[w],
           c = LazyTermCursor(c.windows, c.full, c.postings, c.win_start, c.fetched, c.pos, c.reads)
    PROVE  MaterializeWindow(c, w) =
               LazyTermCursor(c.windows, c.full,
                   [p \in DOMAIN c.postings |-> IF WindowOf(c, p) = w THEN c.full[p] ELSE c.postings[p]],
                   c.win_start, [c.fetched EXCEPT ![w] = TRUE], c.pos, Append(c.reads, w))
  <1>1. MaterializeWindow(c, w) =
            [c EXCEPT !.postings = [p \in DOMAIN c.postings |->
                                       IF WindowOf(c, p) = w THEN c.full[p] ELSE c.postings[p]],
                      !.fetched = [c.fetched EXCEPT ![w] = TRUE], !.reads = Append(c.reads, w)]
    BY DEF MaterializeWindow, LazyTermCursor
  <1> QED
    BY <1>1, Zenon DEF LazyTermCursor

\* One more window in the list of windows read.
LEMMA AppendFacts ==
    ASSUME NEW S, NEW s \in Seq(S), NEW w \in S
    PROVE  /\ Append(s, w) \in Seq(S) /\ Len(Append(s, w)) = Len(s) + 1
           /\ Append(s, w)[Len(s) + 1] = w
           /\ \A a \in 1..Len(s) : Append(s, w)[a] = s[a] /\ s[a] \in S
  <1>1. Append(s, w) \in Seq(S) /\ Len(Append(s, w)) = Len(s) + 1
    OBVIOUS
  <1>2. Append(s, w)[Len(s) + 1] = w
    OBVIOUS
  <1>3. \A a \in 1..Len(s) : Append(s, w)[a] = s[a] /\ s[a] \in S
    OBVIOUS
  <1> QED
    BY <1>1, <1>2, <1>3

\* m is the cursor c with window w read.
Materialized(c, w, n, total, m) ==
    /\ CursorInv(m, n, total) /\ View(m) = View(c)
    /\ \A p \in (c.win_start[w] + 1)..c.win_start[w + 1] : m.postings[p] = c.full[p]

\* MaterializeWindow reads a window: the cursor stays where it is, and the postings
\* of the window are those of the file.
LEMMA MaterializeInv ==
    ASSUME NEW c, NEW n, NEW total, CursorInv(c, n, total), NEW w \in 1..n,
           NEW m, m = MaterializeWindow(c, w)
    PROVE  Materialized(c, w, n, total, m)
  <1>1. PICK ws, fl, ps, st, fe, at, rd :
            /\ ws = c.windows /\ fl = c.full /\ ps = c.postings /\ st = c.win_start
            /\ fe = c.fetched /\ at = c.pos /\ rd = c.reads
    OBVIOUS
  <1>2. /\ c = LazyTermCursor(ws, fl, ps, st, fe, at, rd)
        /\ Cut(ws, fl, st, n, total) /\ Read(fl, ps, st, fe, n, total) /\ Once(fe, rd, n)
        /\ at \in 1..(total + 1)
    BY <1>1, Zenon DEF CursorInv
  <1>3. CASE fe[w]
    <2>1. m = c
      BY <1>1, <1>3, Zenon DEF MaterializeWindow
    <2>2. \A p \in (st[w] + 1)..st[w + 1] : ps[p] = fl[p]
      BY <1>2, <1>3, Zenon DEF Read
    <2> QED
      BY <1>1, <2>1, <2>2, Zenon DEF Materialized
  <1>4. CASE ~fe[w]
    <2>1. PICK qs, ge, sd :
              /\ qs = [p \in DOMAIN ps |-> IF WindowOf(c, p) = w THEN fl[p] ELSE ps[p]]
              /\ ge = [fe EXCEPT ![w] = TRUE] /\ sd = Append(rd, w)
      BY Zenon
    <2>2. m = LazyTermCursor(ws, fl, qs, st, ge, at, sd)
      <3>1. ~c.fetched[w] /\ c = LazyTermCursor(c.windows, c.full, c.postings, c.win_start,
                                                c.fetched, c.pos, c.reads)
        BY <1>1, <1>2, <1>4, Zenon
      <3> QED
        BY <1>1, <2>1, <3>1, MaterializeFields, Zenon
    <2>3. /\ m.windows = ws /\ m.full = fl /\ m.postings = qs /\ m.win_start = st
          /\ m.fetched = ge /\ m.pos = at /\ m.reads = sd
      BY <2>2 DEF LazyTermCursor
    <2>4. DOMAIN ps = 1..total /\ Len(ps) = total /\ fe \in [1..n -> BOOLEAN] /\ total \in Nat
      BY <1>2, Zenon DEF Read, Cut
    <2>5. DOMAIN qs = 1..total /\ \A p \in 1..total : qs[p] = IF WindowOf(c, p) = w THEN fl[p] ELSE ps[p]
      BY <2>1, <2>4, Zenon
    <2>6. Len(qs) = total
      BY <2>4, <2>5
    <2>7. ge \in [1..n -> BOOLEAN] /\ ge[w] /\ \A v \in 1..n : v # w => ge[v] = fe[v]
      BY <2>1, <2>4
    <2>8. ASSUME NEW v \in 1..n, NEW p \in (st[v] + 1)..st[v + 1], ge[v]
          PROVE  p \in 1..total /\ qs[p] = fl[p]
      <3>1. p \in 1..total
        BY <1>2 DEF Cut
      <3>2. v = WindowOf(c, p)
        BY <1>1, <3>1, WindowFacts, Zenon
      <3>3. CASE v = w
        BY <2>5, <3>1, <3>2, <3>3, Zenon
      <3>4. CASE v # w
        <4>1. fe[v]
          BY <2>7, <2>8, <3>4, Zenon
        <4>2. ps[p] = fl[p]
          BY <1>2, <4>1, Zenon DEF Read
        <4> QED
          BY <2>5, <3>1, <3>2, <3>4, <4>2, Zenon
      <3> QED
        BY <3>3, <3>4, Zenon
    <2>9. Read(fl, qs, st, ge, n, total)
      BY <2>5, <2>6, <2>7, <2>8, Zenon DEF Read
    <2>10. Once(ge, sd, n)
      <3>1. /\ rd \in Seq(1..n) /\ \A a \in 1..Len(rd) : fe[rd[a]]
            /\ \A a, b \in 1..Len(rd) : rd[a] = rd[b] => a = b
        BY <1>2, Zenon DEF Once
      <3>2. PICK l \in Nat : l = Len(rd)
        BY <3>1
      <3>3. /\ sd \in Seq(1..n) /\ Len(sd) = l + 1 /\ sd[l + 1] = w
            /\ \A a \in 1..l : sd[a] = rd[a] /\ rd[a] \in 1..n
        <4>1. /\ Append(rd, w) \in Seq(1..n) /\ Len(Append(rd, w)) = Len(rd) + 1
              /\ Append(rd, w)[Len(rd) + 1] = w
              /\ \A a \in 1..Len(rd) : Append(rd, w)[a] = rd[a] /\ rd[a] \in 1..n
          BY <3>1, AppendFacts, Zenon
        <4> QED
          BY <2>1, <3>2, <4>1, Zenon
      <3>4. \A a \in 1..(l + 1) : a \in 1..l \/ a = l + 1
        OBVIOUS
      <3>5. \A a \in 1..l : sd[a] # w
        BY <1>4, <3>1, <3>2, <3>3, Zenon
      <3>6. \A a \in 1..(l + 1) : ge[sd[a]]
        BY <2>7, <3>1, <3>2, <3>3, <3>4, <3>5, Zenon
      <3>7. ASSUME NEW a \in 1..(l + 1), NEW b \in 1..(l + 1), sd[a] = sd[b]
            PROVE  a = b
        <4>1. CASE a \in 1..l /\ b \in 1..l
          BY <3>1, <3>2, <3>3, <3>7, <4>1, Zenon
        <4>2. CASE a = l + 1 \/ b = l + 1
          BY <3>3, <3>4, <3>5, <3>7, <4>2, Zenon
        <4> QED
          BY <3>4, <4>1, <4>2, Zenon
      <3> QED
        BY <3>3, <3>6, <3>7, Zenon DEF Once
    <2>11. CursorInv(m, n, total)
      BY <1>2, <2>2, <2>3, <2>9, <2>10, Zenon DEF CursorInv
    <2>12. View(m) = View(c)
      BY <1>1, <2>3, Zenon DEF View
    <2>13. \A p \in (st[w] + 1)..st[w + 1] : qs[p] = fl[p]
      BY <2>7, <2>8, Zenon
    <2> QED
      BY <1>1, <2>3, <2>11, <2>12, <2>13, Zenon DEF Materialized
  <1> QED
    BY <1>3, <1>4, Zenon

\* The eager cursor has the postings of the file.
LEMMA ViewFacts ==
    ASSUME NEW c
    PROVE  View(c).postings = c.full /\ View(c).windows = c.windows /\ View(c).pos = c.pos
  BY DEF View

\* Touch reads the window under the cursor, which then shows the posting of the file.
LEMMA TouchInv ==
    ASSUME NEW c, NEW n, NEW total, CursorInv(c, n, total), NEW e, e = Touch(c)
    PROVE  /\ CursorInv(e, n, total) /\ View(e) = View(c)
           /\ e.pos <= total => e.postings[e.pos] = e.full[e.pos]
           /\ Eager!CurrentDoc(e) = Eager!CurrentDoc(View(e))
  <1>1. TotalPostings(c) = total /\ total \in Nat /\ c.pos \in 1..(total + 1)
    <2>1. TotalPostings(c) = total
      BY TotalFacts, Zenon
    <2> QED
      BY <2>1, Zenon DEF CursorInv, Cut
  <1>2. /\ CursorInv(e, n, total) /\ View(e) = View(c)
        /\ e.pos <= total => e.postings[e.pos] = e.full[e.pos]
    <2>1. CASE c.pos > total
      <3>1. e = c /\ ~(c.pos <= total)
        BY <1>1, <2>1 DEF Touch
      <3> QED
        BY <3>1, Zenon
    <2>2. CASE ~(c.pos > total)
      <3>1. PICK p \in 1..total : p = c.pos
        BY <1>1, <2>2
      <3>2. PICK w \in 1..n : w = WindowOf(c, p) /\ p \in (c.win_start[w] + 1)..c.win_start[w + 1]
        <4>1. /\ WindowOf(c, p) \in 1..n
              /\ p \in (c.win_start[WindowOf(c, p)] + 1)..c.win_start[WindowOf(c, p) + 1]
          BY WindowFacts, Zenon
        <4> QED
          BY <4>1, Zenon
      <3>3. e = MaterializeWindow(c, w)
        BY <1>1, <2>2, <3>1, <3>2, Zenon DEF Touch
      <3>4. CursorInv(e, n, total) /\ View(e) = View(c) /\ e.postings[p] = c.full[p]
        <4>1. Materialized(c, w, n, total, e)
          BY <3>3, MaterializeInv, Zenon
        <4> QED
          BY <3>2, <4>1, Zenon DEF Materialized
      <3>5. e.pos = p /\ e.full = c.full
        BY <3>1, <3>4, ViewFacts, Zenon
      <3> QED
        BY <3>4, <3>5, Zenon
    <2> QED
      BY <2>1, <2>2, Zenon
  <1>3. Len(e.postings) = total /\ Len(e.full) = total
    BY <1>2, Zenon DEF CursorInv, Cut, Read
  <1> QED
    BY <1>2, <1>3, ViewFacts, Zenon DEF Eager!CurrentDoc

\* The eager walk over a cursor's postings.
EagerAhead(c, target, total) == {p \in c.pos..total : c.full[p].docid >= target}
StopAt(c, target, total) ==
    IF EagerAhead(c, target, total) = {} THEN total + 1 ELSE Min(EagerAhead(c, target, total))

\* LazySkipTo stops where the walk over all postings stops: the windows it passes
\* unread end before the target, the landing window is read before it is walked.
LEMMA SkipPlace ==
    ASSUME NEW c, NEW n, NEW total, CursorInv(c, n, total), NEW target \in Nat,
           NEW e, e = LazySkipTo(c, target)
    PROVE  \E m : /\ CursorInv(m, n, total) /\ View(m) = View(c)
                  /\ e = Moved(m, StopAt(c, target, total))
  <1>1. PICK at, st, fl, ws : at = c.pos /\ st = c.win_start /\ fl = c.full /\ ws = c.windows
    OBVIOUS
  <1>2. /\ TotalPostings(c) = total /\ total \in Nat /\ n \in Nat /\ at \in 1..(total + 1)
        /\ DOMAIN ws = 1..n
    <2>1. TotalPostings(c) = total
      BY TotalFacts, Zenon
    <2>2. n \in Nat
      BY Zenon DEF CursorInv, Cut
    <2> QED
      BY <1>1, <2>1, <2>2, Zenon DEF CursorInv, Cut
  <1>3. /\ \A p \in 1..total : fl[p].docid \in Nat
        /\ \A p, q \in 1..total : p < q => fl[p].docid < fl[q].docid
        /\ st \in [1..(n + 1) -> 0..total]
        /\ \A v, w \in 1..(n + 1) : v < w => st[v] < st[w]
        /\ \A w \in 1..n : ws[w].last = fl[st[w + 1]].docid
    <2>1. \A d \in Eager!Docs : d \in Nat
      BY DEF Eager!Docs
    <2> QED
      BY <1>1, <2>1, Zenon DEF CursorInv, Cut
  <1> DEFINE A == EagerAhead(c, target, total)
             landing == {w \in 1..n : st[w + 1] >= at /\ ws[w].last >= target}
  <1>4. A = {p \in at..total : fl[p].docid >= target}
    BY <1>1, Zenon DEF EagerAhead
  <1>5. ASSUME NEW p \in A
        PROVE  \E v \in landing : st[v] < p /\ p <= st[v + 1]
    <2>1. p \in 1..total /\ p >= at /\ fl[p].docid >= target
      BY <1>2, <1>4
    <2>2. PICK v \in 1..n : p \in (st[v] + 1)..st[v + 1]
      BY <1>1, <2>1, WindowFacts, Zenon
    <2>3. st[v] \in 0..total /\ st[v + 1] \in 0..total
      BY <1>2, <1>3
    <2>4. st[v] < p /\ p <= st[v + 1] /\ st[v + 1] >= at /\ st[v + 1] \in 1..total
      BY <1>2, <2>1, <2>2, <2>3
    <2>5. ws[v].last = fl[st[v + 1]].docid
      BY <1>3
    <2>6. fl[st[v + 1]].docid >= fl[p].docid /\ fl[st[v + 1]].docid \in Nat /\ fl[p].docid \in Nat
      BY <1>3, <2>1, <2>4
    <2>7. ws[v].last >= target
      BY <2>1, <2>5, <2>6
    <2> QED
      BY <2>4, <2>7
  <1>6. LazySkipTo(c, target) =
            IF landing = {} THEN [c EXCEPT !.pos = total + 1]
            ELSE LET w     == Min(landing)
                     start == Max({at, st[w] + 1})
                     m     == MaterializeWindow(c, w)
                     ahead == {p \in start..total : m.postings[p].docid >= target}
                 IN  [m EXCEPT !.pos = IF ahead = {} THEN total + 1 ELSE Min(ahead)]
    BY <1>1, <1>2, Zenon DEF LazySkipTo
  <1> HIDE DEF landing, A
  <1>7. CASE landing = {}
    <2>1. A = {}
      BY <1>5, <1>7, Zenon
    <2>2. e = [c EXCEPT !.pos = total + 1]
      BY <1>6, <1>7, Zenon
    <2> QED
      BY <2>1, <2>2, Zenon DEF A, StopAt, Moved
  <1>8. CASE landing # {}
    <2>1. landing \subseteq Nat /\ landing \subseteq 1..n
      BY DEF landing
    <2>2. PICK w \in landing : w = Min(landing) /\ \A v \in landing : w <= v
      BY <1>8, <2>1, MinFacts, Zenon
    <2>3. /\ w \in 1..n /\ st[w + 1] >= at /\ ws[w].last >= target
          /\ st[w] \in 0..total /\ st[w + 1] \in 0..total /\ st[w] < st[w + 1]
          /\ fl[st[w + 1]].docid >= target
      BY <1>2, <1>3, <2>1 DEF landing
    <2>4. PICK q \in 1..total : q = st[w + 1]
      BY <2>3
    <2>5. PICK start \in Nat : /\ start = Max({at, st[w] + 1})
                               /\ at <= start /\ st[w] + 1 <= start
                               /\ start = at \/ start = st[w] + 1
      <3>1. at \in Nat /\ st[w] + 1 \in Nat
        BY <1>2, <2>3
      <3>2. Max({at, st[w] + 1}) = IF at >= st[w] + 1 THEN at ELSE st[w] + 1
        BY <3>1, MaxOfTwo, Zenon
      <3> QED
        BY <3>1, <3>2
    <2>6. PICK m : m = MaterializeWindow(c, w)
      OBVIOUS
    <2>7. /\ CursorInv(m, n, total) /\ View(m) = View(c)
          /\ \A p \in (st[w] + 1)..q : m.postings[p] = fl[p]
      <3>1. Materialized(c, w, n, total, m)
        BY <2>3, <2>6, MaterializeInv, Zenon
      <3> QED
        BY <1>1, <2>4, <3>1, Zenon DEF Materialized
    <2> DEFINE ahead == {p \in start..total : m.postings[p].docid >= target}
    <2>8. e = [m EXCEPT !.pos = IF ahead = {} THEN total + 1 ELSE Min(ahead)]
      BY <1>6, <1>8, <2>2, <2>5, <2>6, Zenon
    <2>9. start <= q /\ at <= q /\ at <= start /\ st[w] + 1 <= start
      <3>1. at <= start /\ st[w] + 1 <= start /\ (start = at \/ start = st[w] + 1)
        BY <2>5, Zenon
      <3>2. at <= q /\ st[w] + 1 <= q
        BY <1>2, <2>3, <2>4
      <3> QED
        BY <3>1, <3>2, Zenon
    <2>10. q \in ahead /\ q \in A
      <3>1. q \in (st[w] + 1)..q /\ q \in start..total /\ q \in at..total
        BY <1>2, <2>3, <2>4, <2>9
      <3>2. fl[q].docid >= target /\ m.postings[q] = fl[q]
        BY <2>3, <2>4, <2>7, <3>1, Zenon
      <3> QED
        BY <1>4, <3>1, <3>2, Zenon
    <2>11. ASSUME NEW p \in A
           PROVE  p >= start
      <3>1. PICK v \in landing : st[v] < p /\ p <= st[v + 1]
        BY <1>5, Zenon
      <3>2. w <= v /\ v \in 1..n /\ w \in 1..n
        BY <2>1, <2>2, <3>1
      <3>3. w \in 1..(n + 1) /\ v \in 1..(n + 1) /\ (w < v \/ w = v)
        BY <1>2, <3>2
      <3>4. (st[w] < st[v] \/ st[w] = st[v]) /\ st[w] \in 0..total /\ st[v] \in 0..total
        BY <1>3, <3>3, Zenon
      <3>5. p \in Int /\ p >= at
        BY <1>2, <1>4
      <3>6. st[w] + 1 <= p
        BY <1>2, <3>1, <3>4, <3>5
      <3>7. start = at \/ start = st[w] + 1
        BY <2>5, Zenon
      <3> QED
        BY <3>5, <3>6, <3>7, Zenon
    <2>12. ASSUME NEW p \in start..q
           PROVE  p \in A <=> p \in ahead
      <3>1. p \in (st[w] + 1)..q /\ p \in at..total /\ p \in start..total
        BY <1>2, <2>3, <2>4, <2>9
      <3>2. m.postings[p] = fl[p]
        BY <2>7, <3>1, Zenon
      <3> QED
        BY <1>4, <3>1, <3>2, Zenon
    <2>13. A \subseteq Nat /\ ahead \subseteq Nat /\ \A p \in ahead : p >= start
      BY <1>2, <1>4
    <2> HIDE DEF ahead
    <2>14. PICK x \in A : x = Min(A) /\ \A y \in A : x <= y
      BY <2>10, <2>13, MinFacts, Zenon
    <2>15. PICK z \in ahead : z = Min(ahead) /\ \A y \in ahead : z <= y
      BY <2>10, <2>13, MinFacts, Zenon
    <2>16. x \in start..q /\ z \in start..q
      BY <2>10, <2>11, <2>13, <2>14, <2>15
    <2>17. x \in ahead /\ z \in A
      BY <2>12, <2>16, Zenon
    <2>18. x = z
      BY <2>14, <2>15, <2>16, <2>17
    <2>19. e = [m EXCEPT !.pos = IF A = {} THEN total + 1 ELSE Min(A)]
      BY <2>8, <2>10, <2>14, <2>15, <2>18, Zenon
    <2> QED
      BY <2>7, <2>19, Zenon DEF A, StopAt, Moved
  <1> QED
    BY <1>7, <1>8, Zenon

\* The two modules have the same Min.
LEMMA EagerMin == \A S : Eager!Min(S) = Min(S)
  BY DEF Eager!Min, Min

\* The lazy skip is the eager skip of the cursor it stands for.
LEMMA SkipInv ==
    ASSUME NEW c, NEW n, NEW total, CursorInv(c, n, total), NEW target \in Nat,
           NEW e, e = LazySkipTo(c, target)
    PROVE  CursorInv(e, n, total) /\ View(e) = Eager!SkipTo(View(c), target)
  <1> DEFINE A == EagerAhead(c, target, total)
  <1>1. PICK x : x = StopAt(c, target, total) /\ x = IF A = {} THEN total + 1 ELSE Min(A)
    BY Zenon DEF StopAt
  <1>2. total \in Nat /\ c.pos \in 1..(total + 1) /\ Len(c.full) = total
    BY Zenon DEF CursorInv, Cut
  <1>3. A \subseteq 1..total /\ A \subseteq Nat
    BY <1>2 DEF EagerAhead
  <1> HIDE DEF A
  <1>4. x \in 1..(total + 1)
    <2>1. CASE A = {}
      BY <1>1, <1>2, <2>1
    <2>2. CASE A # {}
      <3>1. Min(A) \in A
        BY <1>3, <2>2, MinFacts, Zenon
      <3>2. x \in 1..total
        BY <1>1, <1>3, <2>2, <3>1, Zenon
      <3> QED
        BY <1>2, <3>2
    <2> QED
      BY <2>1, <2>2
  <1>5. PICK m : CursorInv(m, n, total) /\ View(m) = View(c) /\ e = Moved(m, x)
    <2>1. \E m : CursorInv(m, n, total) /\ View(m) = View(c) /\ e = Moved(m, StopAt(c, target, total))
      BY SkipPlace
    <2> QED
      BY <1>1, <2>1, Zenon
  <1>6. CursorInv(e, n, total) /\ View(e) = Moved(View(m), x)
    <2>1. CursorInv(m, n, total) /\ e = Moved(m, x)
      BY <1>5, Zenon
    <2> QED
      BY <1>4, <2>1, MoveInv
  <1>7. Eager!SkipTo(View(c), target) = Moved(View(c), x)
    <2>1. A = {p \in View(c).pos..Len(View(c).postings) : View(c).postings[p].docid >= target}
      BY <1>2, ViewFacts, Zenon DEF A, EagerAhead
    <2>2. Len(View(c).postings) = total
      BY <1>2, ViewFacts, Zenon
    <2> QED
      BY <1>1, <2>1, <2>2, EagerMin, Zenon DEF Eager!SkipTo, Moved
  <1> QED
    BY <1>5, <1>6, <1>7, Zenon

----------------------------------------------------------------------------
(* Building a cursor. *)

\* The two modules have the same Cardinality.
LEMMA EagerCardinality == \A S : Eager!Cardinality(S) = Cardinality(S)
  BY Zenon DEF Eager!Cardinality, Cardinality

\* The documents of a term are finitely many docids.
LEMMA DocsFacts ==
    ASSUME NEW t
    PROVE  /\ Eager!DocsOf(t) \subseteq Nat /\ Eager!DocsOf(t) \subseteq Eager!Docs
           /\ IsFiniteSet(Eager!DocsOf(t)) /\ Eager!Df(t) \in Nat
           /\ Eager!DocsOf(t) # {} => Eager!Df(t) # 0
  <1>1. Eager!DocsOf(t) \in SUBSET Eager!Docs
    BY Zenon DEF Eager!DocsOf
  <1>2. IsFiniteSet(Eager!Docs) /\ Eager!Docs \subseteq Nat
    <2>1. 0 \in Int /\ NumDocs - 1 \in Int
      BY SelectiveAssumption
    <2>2. IsFiniteSet(0..(NumDocs - 1))
      BY <2>1, FS_Interval, Zenon
    <2>3. 0..(NumDocs - 1) \subseteq Nat
      BY <2>1
    <2> QED
      BY <2>2, <2>3, Zenon DEF Eager!Docs
  <1>3. IsFiniteSet(Eager!DocsOf(t))
    BY <1>1, <1>2, FS_Subset, Zenon
  <1>4. Eager!Df(t) \in Nat
    BY <1>3, FS_CardinalityType, EagerCardinality, Zenon DEF Eager!Df
  <1>5. Eager!DocsOf(t) # {} => Eager!Df(t) # 0
    BY <1>3, FS_EmptySet, EagerCardinality, Zenon DEF Eager!Df
  <1> QED
    BY <1>1, <1>2, <1>3, <1>4, <1>5, Zenon

\* Ascending lists a finite set of numbers in order.
LEMMA AscendingFacts ==
    ASSUME NEW S, S \subseteq Nat, IsFiniteSet(S)
    PROVE  LET s == Eager!Ascending(S)
           IN  /\ s \in [1..Cardinality(S) -> S]
               /\ \A i, j \in 1..Cardinality(S) : i < j => s[i] < s[j]
  <1>1. PICK s : s = Eager!Ascending(S)
    OBVIOUS
  <1>2. Listed(S, s)
    <2> DEFINE X(i) == CHOOSE d \in S : Cardinality({e \in S : e < d}) = i - 1
               Y(i) == CHOOSE d \in S : Eager!Cardinality({e \in S : e < d}) = i - 1
    <2>1. \A i : X(i) = Y(i)
      BY EagerCardinality, Zenon
    <2>2. s = [i \in 1..Cardinality(S) |-> Y(i)]
      BY <1>1, EagerCardinality, Zenon DEF Eager!Ascending
    <2>3. Listed(S, s) <=> s = [i \in 1..Cardinality(S) |-> X(i)]
      BY Zenon DEF Listed
    <2> HIDE DEF X, Y
    <2> QED
      BY <2>1, <2>2, <2>3, Zenon
  <1> QED
    BY <1>1, <1>2, ListFacts, Zenon

\* The postings of a term: its documents in order.
LEMMA PostingsFacts ==
    ASSUME NEW t, NEW total, total = Eager!Df(t), NEW ds, ds = Eager!DocSeq(t),
           NEW fl, fl = Eager!Postings(t)
    PROVE  /\ total \in Nat /\ ds \in [1..total -> Eager!Docs] /\ Len(ds) = total
           /\ DOMAIN fl = 1..total /\ Len(fl) = total
           /\ \A p \in 1..total : fl[p].docid = ds[p] /\ fl[p].docid \in Eager!Docs
           /\ \A p, q \in 1..total : p < q => fl[p].docid < fl[q].docid
  <1>1. /\ Eager!DocsOf(t) \subseteq Nat /\ Eager!DocsOf(t) \subseteq Eager!Docs
        /\ IsFiniteSet(Eager!DocsOf(t)) /\ total \in Nat
    BY DocsFacts, Zenon
  <1>2. total = Cardinality(Eager!DocsOf(t))
    BY EagerCardinality, Zenon DEF Eager!Df
  <1>3. /\ ds \in [1..total -> Eager!DocsOf(t)]
        /\ \A i, j \in 1..total : i < j => ds[i] < ds[j]
    BY <1>1, <1>2, AscendingFacts, Zenon DEF Eager!DocSeq
  <1>4. ds \in [1..total -> Eager!Docs]
    BY <1>1, <1>3, Zenon
  <1>5. fl = [p \in 1..total |-> [docid |-> ds[p], score |-> Eager!DocScore(t, ds[p])]]
    BY Zenon DEF Eager!Postings
  <1>6. DOMAIN fl = 1..total /\ \A p \in 1..total : fl[p] = [docid |-> ds[p], score |-> Eager!DocScore(t, ds[p])]
    BY <1>5, Zenon
  <1>7. \A p \in 1..total : fl[p].docid = ds[p]
    BY <1>6
  <1>8. Len(fl) = total
    BY <1>1, <1>6
  <1>9. Len(ds) = total
    BY <1>1, <1>4
  <1> QED
    BY <1>1, <1>3, <1>4, <1>6, <1>7, <1>8, <1>9, Zenon

\* The last element of a stretch of a sequence.
LEMMA SubSeqLast ==
    ASSUME NEW S, NEW s \in Seq(S), NEW a \in 1..Len(s), NEW e \in a..Len(s)
    PROVE  LET u == SubSeq(s, a, e) IN u[Len(u)] = s[e]
  <1>1. /\ Len(SubSeq(s, a, e)) = e - a + 1 /\ e - a + 1 \in 1..(e - a + 1)
        /\ a + (e - a + 1) - 1 = e
    OBVIOUS
  <1>2. SubSeq(s, a, e)[e - a + 1] = s[a + (e - a + 1) - 1]
    BY <1>1
  <1> QED
    BY <1>1, <1>2

\* The windows of a term and where they start.
LEMMA BoundsFacts ==
    ASSUME NEW t, Eager!DocsOf(t) # {}, NEW b, b = Eager!BuildWindowBounds(t),
           NEW total, total = Eager!Df(t)
    PROVE  \E n \in Nat \ {0} : \E st :
              /\ DOMAIN b = 1..n /\ Len(b) = n
              /\ st = [w \in 1..(n + 1) |-> Min({(w - 1) * WindowDocs, total})]
              /\ Cut(b, Eager!Postings(t), st, n, total)
  <1>1. PICK ds, fl : ds = Eager!DocSeq(t) /\ fl = Eager!Postings(t)
    OBVIOUS
  <1>2. total \in Nat \ {0} /\ WindowDocs \in Nat \ {0}
    <2>1. total \in Nat /\ total # 0
      BY DocsFacts, Zenon
    <2> QED
      BY <2>1, SelectiveAssumption
  <1>3. /\ ds \in [1..total -> Eager!Docs] /\ Len(ds) = total
        /\ DOMAIN fl = 1..total /\ Len(fl) = total
        /\ \A p \in 1..total : fl[p].docid = ds[p] /\ fl[p].docid \in Eager!Docs
        /\ \A p, q \in 1..total : p < q => fl[p].docid < fl[q].docid
    BY <1>1, PostingsFacts
  <1>4. PICK n \in Nat \ {0} : /\ n = (total + WindowDocs - 1) \div WindowDocs
                               /\ (n - 1) * WindowDocs < total /\ total <= n * WindowDocs
    BY <1>2, Ceiling, Zenon
  <1>5. PICK m : m = [a \in Nat |-> a * WindowDocs]
    BY Zenon
  <1>6. \A a \in Nat : m[a] = a * WindowDocs
    BY <1>5, Zenon
  <1>7. PICK st : st = [w \in 1..(n + 1) |-> Min({m[w - 1], total})]
    BY Zenon
  <1>8. Runs(total, WindowDocs, n, m, st)
    <2>1. m \in [Nat -> Nat]
      BY <1>2, <1>5
    <2>2. m[0] = 0
      BY <1>2, <1>6
    <2>3. m[n - 1] < total /\ total <= m[n]
      <3>1. n - 1 \in Nat /\ n \in Nat
        OBVIOUS
      <3> QED
        BY <1>4, <1>6, <3>1, Zenon
    <2>4. ASSUME NEW a \in Nat, NEW b1 \in Nat, a < b1
          PROVE  m[a] + WindowDocs <= m[b1]
      <3>1. WindowDocs \in Nat
        BY <1>2
      <3>2. a * WindowDocs + WindowDocs <= b1 * WindowDocs
        BY <2>4, <3>1, Multiples, Zenon
      <3> QED
        BY <1>6, <3>2, Zenon
    <2> QED
      BY <1>7, <2>1, <2>2, <2>3, <2>4, Zenon DEF Runs
  <1>9. st = [w \in 1..(n + 1) |-> Min({(w - 1) * WindowDocs, total})]
    <2>1. \A w \in 1..(n + 1) : w - 1 \in Nat
      OBVIOUS
    <2>2. \A w \in 1..(n + 1) : m[w - 1] = (w - 1) * WindowDocs
      BY <1>6, <2>1, Zenon
    <2> QED
      BY <1>7, <2>2, Zenon
  <1>10. RunsCut(total, n, m, st)
    BY <1>2, <1>8, RunStarts, Zenon
  <1>11. /\ DOMAIN b = 1..n
         /\ \A w \in 1..n : b[w].last = LET first == (w - 1) * WindowDocs + 1
                                            u == SubSeq(ds, first, Min({first + WindowDocs - 1, total}))
                                        IN  u[Len(u)]
    <2>1. Eager!WindowsOf(t) =
              [w \in 1..n |-> LET first == (w - 1) * WindowDocs + 1
                              IN  SubSeq(ds, first, Min({first + WindowDocs - 1, total}))]
      BY <1>1, <1>4, EagerMin, Zenon DEF Eager!WindowsOf
    <2>2. DOMAIN Eager!WindowsOf(t) = 1..n
      BY <2>1, Zenon
    <2>3. DOMAIN b = 1..n /\ \A w \in 1..n : \E x :
              b[w] = [last |-> Eager!WindowsOf(t)[w][Len(Eager!WindowsOf(t)[w])], max |-> x]
      BY <2>2, Zenon DEF Eager!BuildWindowBounds
    <2>4. ASSUME NEW w \in 1..n
          PROVE  b[w].last = Eager!WindowsOf(t)[w][Len(Eager!WindowsOf(t)[w])]
      BY <2>3
    <2> QED
      BY <2>1, <2>3, <2>4, Zenon
  <1>12. ASSUME NEW w \in 1..n
         PROVE  b[w].last = fl[st[w + 1]].docid
    <2>1. w - 1 \in Nat /\ w \in Nat /\ w + 1 \in 1..(n + 1) /\ w \in 1..(n + 1) /\ w < w + 1 /\ n \in Nat
      OBVIOUS
    <2>2. PICK x \in Nat, y \in Nat : /\ x = m[w - 1] /\ y = m[w]
                                      /\ x = (w - 1) * WindowDocs /\ y = w * WindowDocs
      BY <1>6, <1>8, <2>1, Zenon DEF Runs
    <2>3. y = x + WindowDocs
      <3>1. w * WindowDocs = (w - 1) * WindowDocs + WindowDocs
        BY <1>2, <2>1, SMT
      <3> QED
        BY <2>2, <3>1, Zenon
    <2>4. st[w] = x /\ st[w + 1] = Min({y, total}) /\ st[w] < st[w + 1] /\ st[w + 1] \in 0..total
      BY <1>10, <2>1, <2>2, Zenon DEF RunsCut
    <2>5. PICK e \in Nat : e = st[w + 1] /\ x < e /\ e <= total /\ e = Min({y, total})
      BY <1>2, <2>4
    <2>6. (x + 1) + WindowDocs - 1 = y
      BY <1>2, <2>3
    <2>7. b[w].last = LET u == SubSeq(ds, x + 1, e) IN u[Len(u)]
      <3>1. b[w].last = LET first == (w - 1) * WindowDocs + 1
                            u == SubSeq(ds, first, Min({first + WindowDocs - 1, total}))
                        IN  u[Len(u)]
        BY <1>11, Zenon
      <3>2. /\ (w - 1) * WindowDocs + 1 = x + 1
            /\ Min({(x + 1) + WindowDocs - 1, total}) = e
        BY <2>2, <2>5, <2>6, Zenon
      <3> QED
        BY <3>1, <3>2, Zenon
    <2>8. ds \in Seq(Eager!Docs)
      BY <1>2, <1>3
    <2>9. x + 1 \in 1..Len(ds) /\ e \in (x + 1)..Len(ds) /\ e \in 1..total
      BY <1>2, <1>3, <2>5
    <2>10. b[w].last = ds[e]
      BY <2>7, <2>8, <2>9, SubSeqLast, Zenon
    <2> QED
      BY <1>3, <2>5, <2>9, <2>10, Zenon
  <1>13. Len(b) = n /\ Len(st) = n + 1
    <2>1. DOMAIN st = 1..(n + 1) /\ n + 1 \in Nat /\ n \in Nat
      BY <1>10 DEF RunsCut
    <2>2. Len(b) = n
      BY <1>11, <2>1
    <2> QED
      BY <2>1, <2>2
  <1>14. Cut(b, fl, st, n, total)
    <2>1. n \in Nat \ {0} /\ total \in Nat
      BY <1>2
    <2>2. /\ st \in [1..(n + 1) -> 0..total] /\ st[1] = 0 /\ st[n + 1] = total
          /\ \A v, w \in 1..(n + 1) : v < w => st[v] < st[w]
      BY <1>10, Zenon DEF RunsCut
    <2> QED
      BY <1>3, <1>11, <1>12, <1>13, <2>1, <2>2, Zenon DEF Cut
  <1> QED
    BY <1>1, <1>9, <1>11, <1>13, <1>14, Zenon

\* A cursor as it is built: at the first posting, nothing read on demand yet.
LEMMA BuiltInv ==
    ASSUME NEW c, NEW n, NEW total, NEW ws, NEW fl, NEW ps, NEW st, NEW fe,
           c = LazyTermCursor(ws, fl, ps, st, fe, 1, <<>>),
           Cut(ws, fl, st, n, total), Read(fl, ps, st, fe, n, total)
    PROVE  CursorInv(c, n, total) /\ View(c) = [postings |-> fl, windows |-> ws, pos |-> 1]
  <1>1. /\ c.windows = ws /\ c.full = fl /\ c.postings = ps /\ c.win_start = st
        /\ c.fetched = fe /\ c.pos = 1 /\ c.reads = <<>>
    BY DEF LazyTermCursor
  <1>2. Once(fe, <<>>, n)
    BY DEF Once
  <1>3. 1 \in 1..(total + 1)
    <2>1. total \in Nat
      BY Zenon DEF Cut
    <2> QED
      BY <2>1
  <1> QED
    BY <1>1, <1>2, <1>3, Zenon DEF CursorInv, View

\* A windowed cursor starts with every window unread.
LEMMA WindowedInv ==
    ASSUME NEW t, Eager!DocsOf(t) # {}, NEW c, c = BuildLazyWindowed(t)
    PROVE  /\ \E n, total : CursorInv(c, n, total)
           /\ View(c) = [postings |-> Eager!Postings(t), windows |-> Eager!BuildWindowBounds(t), pos |-> 1]
  <1>1. PICK total, fl, b : total = Eager!Df(t) /\ fl = Eager!Postings(t) /\ b = Eager!BuildWindowBounds(t)
    OBVIOUS
  <1>2. \E n \in Nat \ {0} : \E st :
            /\ DOMAIN b = 1..n /\ Len(b) = n
            /\ st = [w \in 1..(n + 1) |-> Min({(w - 1) * WindowDocs, total})]
            /\ Cut(b, fl, st, n, total)
    BY <1>1, BoundsFacts, Zenon
  <1>3. PICK n \in Nat \ {0} : \E st :
            /\ DOMAIN b = 1..n /\ Len(b) = n
            /\ st = [w \in 1..(n + 1) |-> Min({(w - 1) * WindowDocs, total})]
            /\ Cut(b, fl, st, n, total)
    BY <1>2, Zenon
  <1>4. PICK st : /\ DOMAIN b = 1..n /\ Len(b) = n
                  /\ st = [w \in 1..(n + 1) |-> Min({(w - 1) * WindowDocs, total})]
                  /\ Cut(b, fl, st, n, total)
    BY <1>3, Zenon
  <1>5. PICK ps, fe : ps = [p \in 1..total |-> Unread] /\ fe = [w \in 1..n |-> FALSE]
    BY Zenon
  <1>6. c = LazyTermCursor(b, fl, ps, st, fe, 1, <<>>)
    BY <1>1, <1>4, <1>5, Zenon DEF BuildLazyWindowed, LazyTermCursor
  <1>7. Read(fl, ps, st, fe, n, total)
    <2>1. total \in Nat
      BY <1>4, Zenon DEF Cut
    <2>2. DOMAIN ps = 1..total
      BY <1>5, Zenon
    <2>3. Len(ps) = total
      BY <2>1, <2>2
    <2> QED
      BY <1>5, <2>2, <2>3, Zenon DEF Read
  <1>8. CursorInv(c, n, total) /\ View(c) = [postings |-> fl, windows |-> b, pos |-> 1]
    BY <1>4, <1>6, <1>7, BuiltInv
  <1> QED
    BY <1>1, <1>8, Zenon

\* A slim or inline cursor has all its postings, in one window.
LEMMA SlimInv ==
    ASSUME NEW t, Eager!DocsOf(t) # {}, NEW c, c = BuildLazySlim(t)
    PROVE  /\ \E n, total : CursorInv(c, n, total)
           /\ View(c) = [postings |-> Eager!Postings(t), windows |-> Eager!SingleWindowFallback(t), pos |-> 1]
  <1>1. PICK total, ds, fl, b : /\ total = Eager!Df(t) /\ ds = Eager!DocSeq(t)
                                /\ fl = Eager!Postings(t) /\ b = Eager!SingleWindowFallback(t)
    OBVIOUS
  <1>2. total \in Nat /\ total # 0
    BY <1>1, DocsFacts, Zenon
  <1>3. /\ DOMAIN fl = 1..total /\ Len(fl) = total
        /\ \A p \in 1..total : fl[p].docid = ds[p] /\ fl[p].docid \in Eager!Docs
        /\ \A p, q \in 1..total : p < q => fl[p].docid < fl[q].docid
    BY <1>1, PostingsFacts
  <1>4. PICK st : st = <<0, total>>
    BY Zenon
  <1>5. PICK fe : fe = <<TRUE>>
    BY Zenon
  <1>6. c = LazyTermCursor(b, fl, fl, st, fe, 1, <<>>)
    BY <1>1, <1>4, <1>5, Zenon DEF BuildLazySlim, LazyTermCursor
  <1>7. st \in [1..2 -> 0..total] /\ Len(st) = 2 /\ st[1] = 0 /\ st[2] = total
    BY <1>2, <1>4
  <1>8. fe \in [1..1 -> BOOLEAN]
    <2>1. \A x : <<x>> = [i \in 1..1 |-> x]
      OBVIOUS
    <2> QED
      BY <1>5, <2>1, Zenon
  <1>9. DOMAIN b = 1..1 /\ b[1].last = ds[total]
    <2>1. PICK x : b = <<[last |-> ds[total], max |-> x]>>
      BY <1>1, Zenon DEF Eager!SingleWindowFallback
    <2> QED
      BY <2>1
  <1>10. /\ 1 \in Nat \ {0} /\ 1 + 1 = 2 /\ \A w \in 1..1 : w = 1 /\ total \in 1..total
         /\ \A v, w \in 1..2 : v < w => v = 1 /\ w = 2
    BY <1>2
  <1>11. \A v, w \in 1..2 : v < w => st[v] < st[w]
    BY <1>2, <1>7, <1>10
  <1>12. \A w \in 1..1 : b[w].last = fl[st[w + 1]].docid
    <2>1. b[1].last = fl[st[1 + 1]].docid
      BY <1>3, <1>7, <1>9, <1>10
    <2> QED
      BY <1>10, <2>1, Zenon
  <1>13. Cut(b, fl, st, 1, total)
    BY <1>2, <1>3, <1>7, <1>9, <1>10, <1>11, <1>12, Zenon DEF Cut
  <1>14. Read(fl, fl, st, fe, 1, total)
    BY <1>3, <1>8, Zenon DEF Read
  <1>15. CursorInv(c, 1, total) /\ View(c) = [postings |-> fl, windows |-> b, pos |-> 1]
    BY <1>6, <1>13, <1>14, BuiltInv
  <1> QED
    BY <1>1, <1>15, Zenon

----------------------------------------------------------------------------
(* One iteration looks at the current documents, the bounds and the scores of the
   postings under the cursors, and at nothing else. *)

\* cs and es show the loop the same documents and bounds.
SameDocs(cs, es) ==
    /\ DOMAIN cs = DOMAIN es
    /\ \A i \in DOMAIN cs : /\ Eager!CurrentDoc(cs[i]) = Eager!CurrentDoc(es[i])
                            /\ cs[i].windows = es[i].windows

\* Sorting gives places in the cursors.
LEMMA SortedFacts ==
    ASSUME NEW cs, IsFiniteSet(DOMAIN cs), NEW o \in Eager!Sorted(cs)
    PROVE  \E l \in Nat : /\ l = Len(o) /\ o \in [1..l -> DOMAIN cs]
                          /\ \A j \in 1..(l - 1) :
                                Eager!CurrentDoc(cs[o[j]]) <= Eager!CurrentDoc(cs[o[j + 1]])
  <1>1. PICK l \in Nat : l = Cardinality(DOMAIN cs)
    BY FS_CardinalityType
  <1>2. o \in Eager!Bijection(1..l, DOMAIN cs) /\
        \A j \in 1..(Len(o) - 1) : Eager!CurrentDoc(cs[o[j]]) <= Eager!CurrentDoc(cs[o[j + 1]])
    BY <1>1, EagerCardinality, Zenon DEF Eager!Sorted
  <1>3. o \in [1..l -> DOMAIN cs]
    BY <1>2, Zenon DEF Eager!Bijection, Eager!Injection
  <1>4. l = Len(o)
    BY <1>3
  <1> QED
    BY <1>2, <1>3, <1>4, Zenon

\* The same orders are possible.
LEMMA SortedSame ==
    ASSUME NEW cs, NEW es, SameDocs(cs, es), IsFiniteSet(DOMAIN cs)
    PROVE  Eager!Sorted(cs) \subseteq Eager!Sorted(es)
  <1> SUFFICES ASSUME NEW o \in Eager!Sorted(cs)
               PROVE  o \in Eager!Sorted(es)
    OBVIOUS
  <1>1. PICK l \in Nat : /\ l = Len(o) /\ o \in [1..l -> DOMAIN cs]
                         /\ \A j \in 1..(l - 1) :
                               Eager!CurrentDoc(cs[o[j]]) <= Eager!CurrentDoc(cs[o[j + 1]])
    BY SortedFacts, Zenon
  <1>2. \A j \in 1..(l - 1) : j \in 1..l /\ j + 1 \in 1..l
    OBVIOUS
  <1>3. \A j \in 1..(Len(o) - 1) : Eager!CurrentDoc(es[o[j]]) <= Eager!CurrentDoc(es[o[j + 1]])
    <2> SUFFICES ASSUME NEW j \in 1..(l - 1)
                 PROVE  Eager!CurrentDoc(es[o[j]]) <= Eager!CurrentDoc(es[o[j + 1]])
      BY <1>1, Zenon
    <2>1. o[j] \in DOMAIN cs /\ o[j + 1] \in DOMAIN cs
      BY <1>1, <1>2, Zenon
    <2>2. /\ Eager!CurrentDoc(cs[o[j]]) = Eager!CurrentDoc(es[o[j]])
          /\ Eager!CurrentDoc(cs[o[j + 1]]) = Eager!CurrentDoc(es[o[j + 1]])
      BY <2>1, Zenon DEF SameDocs
    <2> QED
      BY <1>1, <2>2, Zenon
  <1>4. o \in Eager!Bijection(1..Eager!Cardinality(DOMAIN es), DOMAIN es)
    BY Zenon DEF Eager!Sorted, SameDocs
  <1> QED
    BY <1>3, <1>4, Zenon DEF Eager!Sorted

\* Every sum of bounds is the same, so the pivots are.
LEMMA PivotsSame ==
    ASSUME NEW cs, NEW es, SameDocs(cs, es), NEW l \in Nat, NEW o \in [1..l -> DOMAIN cs],
           NEW theta
    PROVE  Eager!Pivots(cs, o, theta) = Eager!Pivots(es, o, theta)
  <1>1. Len(o) = l
    OBVIOUS
  <1>2. ASSUME NEW j \in 1..l
        PROVE  /\ Eager!CurrentDoc(cs[o[j]]) = Eager!CurrentDoc(es[o[j]])
               /\ cs[o[j]].windows = es[o[j]].windows
    <2>1. o[j] \in DOMAIN cs
      OBVIOUS
    <2> QED
      BY <2>1, Zenon DEF SameDocs
  <1>3. ASSUME NEW j \in 1..l
        PROVE  Eager!TermBoundAt(cs[o[j]], Eager!CurrentDoc(cs[o[j]])) =
               Eager!TermBoundAt(es[o[j]], Eager!CurrentDoc(es[o[j]]))
    BY <1>2, Zenon DEF Eager!TermBoundAt
  <1>4. ASSUME NEW i \in 1..l
        PROVE  Eager!BoundUpTo(cs, o, i) = Eager!BoundUpTo(es, o, i)
    <2>1. \A j \in 1..i : j \in 1..l
      OBVIOUS
    <2>2. [j \in 1..i |-> Eager!TermBoundAt(cs[o[j]], Eager!CurrentDoc(cs[o[j]]))] =
          [j \in 1..i |-> Eager!TermBoundAt(es[o[j]], Eager!CurrentDoc(es[o[j]]))]
      BY <1>3, <2>1, Zenon
    <2> QED
      BY <2>2, Zenon DEF Eager!BoundUpTo
  <1> QED
    BY <1>1, <1>2, <1>4, Zenon DEF Eager!Pivots

\* The cursors on a document are the same.
LEMMA AtSame ==
    ASSUME NEW cs, NEW es, SameDocs(cs, es), NEW d
    PROVE  Eager!At(cs, d) = Eager!At(es, d)
  BY Zenon DEF SameDocs, Eager!At

\* And so is the score of a document, from equal postings.
LEMMA ScoreSame ==
    ASSUME NEW cs, NEW es, SameDocs(cs, es), NEW d,
           \A i \in Eager!At(cs, d) : cs[i].postings[cs[i].pos] = es[i].postings[es[i].pos]
    PROVE  Eager!ScoreAt(cs, d) = Eager!ScoreAt(es, d)
  <1>1. [i \in Eager!At(cs, d) |-> cs[i].postings[cs[i].pos].score] =
        [i \in Eager!At(cs, d) |-> es[i].postings[es[i].pos].score]
    BY Zenon
  <1>2. Eager!At(cs, d) = Eager!At(es, d)
    BY AtSame, Zenon
  <1> QED
    BY <1>1, <1>2, Zenon DEF Eager!ScoreAt

\* The first cursor in order is not beyond any other.
LEMMA FirstLeast ==
    ASSUME NEW cs, IsFiniteSet(DOMAIN cs), NEW o \in Eager!Sorted(cs),
           \A i \in DOMAIN cs : Eager!CurrentDoc(cs[i]) \in Nat
    PROVE  \A j \in 1..Len(o) : /\ o[j] \in DOMAIN cs /\ o[1] \in DOMAIN cs
                                /\ Eager!CurrentDoc(cs[o[1]]) <= Eager!CurrentDoc(cs[o[j]])
  <1>1. PICK l \in Nat : /\ l = Len(o) /\ o \in [1..l -> DOMAIN cs]
                         /\ \A j \in 1..(l - 1) :
                               Eager!CurrentDoc(cs[o[j]]) <= Eager!CurrentDoc(cs[o[j + 1]])
    BY SortedFacts, Zenon
  <1>2. PICK g : g = [j \in 1..l |-> Eager!CurrentDoc(cs[o[j]])]
    BY Zenon
  <1>3. \A j \in 1..l : o[j] \in DOMAIN cs /\ g[j] = Eager!CurrentDoc(cs[o[j]])
    BY <1>1, <1>2, Zenon
  <1>4. g \in [1..l -> Nat]
    BY <1>1, <1>2, <1>3, Zenon
  <1>5. \A j \in 1..(l - 1) : j \in 1..l /\ j + 1 \in 1..l
    OBVIOUS
  <1>6. \A j \in 1..(l - 1) : g[j] <= g[j + 1]
    BY <1>1, <1>3, <1>5, Zenon
  <1>7. \A j \in 1..l : g[1] <= g[j]
    BY <1>4, <1>6, Chain, Zenon
  <1>8. \A j \in 1..l : 1 \in 1..l
    OBVIOUS
  <1> QED
    BY <1>1, <1>3, <1>7, <1>8, Zenon

----------------------------------------------------------------------------
(* The inductive invariant of the query. *)

CursorOk(c) == \E n, total : CursorInv(c, n, total)

LazyInv ==
    /\ query \in Seq(Terms)
    /\ phase = "start" => lazy = <<>>
    /\ lazy = [i \in DOMAIN lazy |-> lazy[i]] /\ DOMAIN lazy \subseteq DOMAIN query
    /\ \A i \in DOMAIN lazy : CursorOk(lazy[i])

\* There are finitely many cursors.
LEMMA FinitelyMany ==
    ASSUME LazyInv
    PROVE  IsFiniteSet(DOMAIN lazy)
  <1>1. PICK n \in Nat : DOMAIN query = 1..n
    BY DEF LazyInv
  <1>2. IsFiniteSet(1..n)
    BY FS_Interval
  <1> QED
    BY <1>1, <1>2, FS_Subset, Zenon DEF LazyInv

\* A cursor shows docids, or NoDoc behind the last posting.
LEMMA CurrentFacts ==
    ASSUME NEW c, CursorOk(c)
    PROVE  Eager!CurrentDoc(View(c)) \in Nat
  <1>1. PICK n, total : CursorInv(c, n, total)
    BY Zenon DEF CursorOk
  <1>2. /\ total \in Nat /\ c.pos \in 1..(total + 1) /\ Len(c.full) = total
        /\ \A p \in 1..total : c.full[p].docid \in Eager!Docs
    BY <1>1, Zenon DEF CursorInv, Cut
  <1>3. NumDocs \in Nat /\ \A d \in Eager!Docs : d \in Nat
    BY SelectiveAssumption DEF Eager!Docs
  <1>4. c.pos <= total => c.pos \in 1..total
    BY <1>2
  <1> QED
    BY <1>2, <1>3, <1>4, ViewFacts, Zenon DEF Eager!CurrentDoc, Eager!NoDoc

\* A touched cursor is one the loop can look at.
LEMMA TouchOk ==
    ASSUME NEW c, CursorOk(c), NEW e, e = Touch(c)
    PROVE  /\ CursorOk(e) /\ View(e) = View(c)
           /\ Eager!CurrentDoc(e) = Eager!CurrentDoc(View(c))
           /\ Eager!CurrentDoc(e) # Eager!NoDoc => e.postings[e.pos] = e.full[e.pos]
           /\ Eager!CurrentDoc(e) # Eager!NoDoc => CursorOk([e EXCEPT !.pos = @ + 1])
           /\ Eager!CurrentDoc(e) # Eager!NoDoc =>
                 View([e EXCEPT !.pos = @ + 1]) = [View(c) EXCEPT !.pos = @ + 1]
  <1>1. PICK n, total : CursorInv(c, n, total)
    BY Zenon DEF CursorOk
  <1>2. /\ CursorInv(e, n, total) /\ View(e) = View(c)
        /\ e.pos <= total => e.postings[e.pos] = e.full[e.pos]
        /\ Eager!CurrentDoc(e) = Eager!CurrentDoc(View(e))
    BY <1>1, TouchInv
  <1>3. total \in Nat /\ e.pos \in 1..(total + 1) /\ Len(e.postings) = total
    BY <1>2, Zenon DEF CursorInv, Cut, Read
  <1>4. Eager!CurrentDoc(e) # Eager!NoDoc => e.pos <= total
    BY <1>3, Zenon DEF Eager!CurrentDoc
  <1>5. ASSUME e.pos <= total
        PROVE  CursorOk([e EXCEPT !.pos = @ + 1]) /\ View([e EXCEPT !.pos = @ + 1]) = [View(c) EXCEPT !.pos = @ + 1]
    <2>1. PICK x : x = e.pos + 1
      OBVIOUS
    <2>2. x \in 1..(total + 1)
      BY <1>3, <1>5, <2>1
    <2>3. [e EXCEPT !.pos = @ + 1] = Moved(e, x)
      BY <2>1, Zenon DEF Moved
    <2>4. [View(c) EXCEPT !.pos = @ + 1] = Moved(View(e), x)
      BY <1>2, <2>1, ViewFacts, Zenon DEF Moved
    <2>5. CursorInv(Moved(e, x), n, total) /\ View(Moved(e, x)) = Moved(View(e), x)
      BY <1>2, <2>2, MoveInv
    <2>6. CursorOk(Moved(e, x))
      BY <2>5, Zenon DEF CursorOk
    <2> QED
      BY <2>3, <2>4, <2>5, <2>6
  <1> QED
    BY <1>2, <1>4, <1>5, Zenon DEF CursorOk

\* The cursors cs of an iteration, once read, against the eager cursors es.
Looked(cs, es) ==
    /\ DOMAIN cs = DOMAIN lazy /\ DOMAIN es = DOMAIN lazy /\ IsFiniteSet(DOMAIN cs)
    /\ SameDocs(cs, es)
    /\ \A i \in DOMAIN lazy :
          /\ CursorOk(cs[i]) /\ View(cs[i]) = es[i]
          /\ Eager!CurrentDoc(cs[i]) \in Nat
          /\ Eager!CurrentDoc(cs[i]) # Eager!NoDoc =>
                /\ cs[i].postings[cs[i].pos] = es[i].postings[es[i].pos]
                /\ CursorOk([cs[i] EXCEPT !.pos = @ + 1])
                /\ View([cs[i] EXCEPT !.pos = @ + 1]) = [es[i] EXCEPT !.pos = @ + 1]

\* The cursors of the eager path are the views of the lazy ones.
LEMMA EagerViews == EagerCursors = [i \in DOMAIN lazy |-> View(lazy[i])]
  BY Zenon DEF EagerCursors, View

\* Reading the window under every cursor shows the loop what the eager path sees.
LEMMA TouchedFacts ==
    ASSUME LazyInv, NEW cs, cs = Touched, NEW es, es = EagerCursors
    PROVE  Looked(cs, es)
  <1>1. /\ DOMAIN cs = DOMAIN lazy /\ DOMAIN es = DOMAIN lazy
        /\ \A i \in DOMAIN lazy : cs[i] = Touch(lazy[i]) /\ es[i] = View(lazy[i])
    BY EagerViews, Zenon DEF Touched
  <1>2. IsFiniteSet(DOMAIN cs)
    BY <1>1, FinitelyMany, Zenon
  <1>3. ASSUME NEW i \in DOMAIN lazy
        PROVE  /\ CursorOk(cs[i]) /\ View(cs[i]) = es[i]
               /\ Eager!CurrentDoc(cs[i]) \in Nat
               /\ Eager!CurrentDoc(cs[i]) = Eager!CurrentDoc(es[i])
               /\ cs[i].windows = es[i].windows
               /\ Eager!CurrentDoc(cs[i]) # Eager!NoDoc =>
                     /\ cs[i].postings[cs[i].pos] = es[i].postings[es[i].pos]
                     /\ CursorOk([cs[i] EXCEPT !.pos = @ + 1])
                     /\ View([cs[i] EXCEPT !.pos = @ + 1]) = [es[i] EXCEPT !.pos = @ + 1]
    <2>1. PICK c, e, v : c = lazy[i] /\ e = cs[i] /\ v = es[i]
      OBVIOUS
    <2>2. CursorOk(c) /\ e = Touch(c) /\ v = View(c)
      BY <1>1, <2>1, Zenon DEF LazyInv
    <2>3. /\ CursorOk(e) /\ View(e) = v
          /\ Eager!CurrentDoc(e) = Eager!CurrentDoc(v)
          /\ Eager!CurrentDoc(e) # Eager!NoDoc => e.postings[e.pos] = e.full[e.pos]
          /\ Eager!CurrentDoc(e) # Eager!NoDoc => CursorOk([e EXCEPT !.pos = @ + 1])
          /\ Eager!CurrentDoc(e) # Eager!NoDoc =>
                View([e EXCEPT !.pos = @ + 1]) = [v EXCEPT !.pos = @ + 1]
      BY <2>2, TouchOk, Zenon
    <2>4. Eager!CurrentDoc(v) \in Nat
      BY <2>2, CurrentFacts, Zenon
    <2>5. v.postings = e.full /\ v.windows = e.windows /\ v.pos = e.pos
      BY <2>3, ViewFacts, Zenon
    <2> QED
      BY <2>1, <2>3, <2>4, <2>5, Zenon
  <1>4. SameDocs(cs, es)
    BY <1>1, <1>3, Zenon DEF SameDocs
  <1> QED
    BY <1>1, <1>2, <1>3, <1>4, Zenon DEF Looked

\* So the same orders, pivots and pivot document are found.
LEMMA PivotFacts ==
    ASSUME NEW cs, NEW es, Looked(cs, es), NEW o \in Eager!Sorted(cs), NEW theta,
           NEW ps, ps = Eager!Pivots(cs, o, theta)
    PROVE  /\ o \in Eager!Sorted(es) /\ ps = Eager!Pivots(es, o, theta)
           /\ ps # {} =>
                /\ o[1] \in DOMAIN lazy
                /\ Eager!CurrentDoc(cs[o[1]]) = Eager!CurrentDoc(es[o[1]])
                /\ Eager!CurrentDoc(cs[o[Min(ps)]]) = Eager!CurrentDoc(es[o[Min(ps)]])
                /\ Eager!CurrentDoc(cs[o[Min(ps)]]) # Eager!NoDoc
                /\ Eager!CurrentDoc(cs[o[Min(ps)]]) \in Nat
                /\ Eager!CurrentDoc(cs[o[1]]) \in Nat
                /\ Eager!CurrentDoc(cs[o[1]]) <= Eager!CurrentDoc(cs[o[Min(ps)]])
  <1>1. /\ DOMAIN cs = DOMAIN lazy /\ DOMAIN es = DOMAIN lazy /\ IsFiniteSet(DOMAIN cs)
        /\ SameDocs(cs, es)
        /\ \A i \in DOMAIN cs : Eager!CurrentDoc(cs[i]) \in Nat
    BY Zenon DEF Looked
  <1>2. o \in Eager!Sorted(es)
    BY <1>1, SortedSame, Zenon
  <1>3. PICK l \in Nat : l = Len(o) /\ o \in [1..l -> DOMAIN cs]
    BY <1>1, SortedFacts, Zenon
  <1>4. ps = Eager!Pivots(es, o, theta)
    BY <1>1, <1>3, PivotsSame
  <1>5. ASSUME ps # {}
        PROVE  /\ Min(ps) \in 1..l
               /\ Eager!CurrentDoc(cs[o[Min(ps)]]) # Eager!NoDoc
    <2>1. /\ ps \subseteq 1..l
          /\ \A i \in ps : Eager!CurrentDoc(cs[o[i]]) # Eager!NoDoc
      BY <1>3, Zenon DEF Eager!Pivots
    <2>2. ps \subseteq Nat
      BY <2>1
    <2>3. Min(ps) \in ps
      BY <1>5, <2>2, MinFacts, Zenon
    <2> QED
      BY <2>1, <2>3, Zenon
  <1>6. \A j \in 1..l : /\ o[j] \in DOMAIN cs /\ o[1] \in DOMAIN cs
                        /\ Eager!CurrentDoc(cs[o[1]]) <= Eager!CurrentDoc(cs[o[j]])
    BY <1>1, <1>3, FirstLeast, Zenon
  <1>7. \A i \in DOMAIN cs : Eager!CurrentDoc(cs[i]) = Eager!CurrentDoc(es[i])
    BY <1>1, Zenon DEF SameDocs
  <1> QED
    BY <1>1, <1>2, <1>4, <1>5, <1>6, <1>7, Zenon

----------------------------------------------------------------------------
(* The actions. *)

\* A step that leaves sound cursors keeps the invariant.
LEMMA NextInv ==
    ASSUME LazyInv, NEW f, lazy' = f, query' = query, phase' # "start",
           f = [i \in DOMAIN f |-> f[i]], DOMAIN f \subseteq DOMAIN query,
           \A i \in DOMAIN f : CursorOk(f[i])
    PROVE  LazyInv'
  BY Zenon DEF LazyInv

\* Outside the error state the phases are the same.
LEMMA EagerPhases ==
    /\ phase # "error" => EagerPhase = phase
    /\ phase' # "error" => EagerPhase' = phase'
  BY Zenon DEF EagerPhase

\* After a step, too, the eager cursors are the views.
LEMMA EagerViewsNext ==
    ASSUME NEW f, lazy' = f
    PROVE  EagerCursors' = [i \in DOMAIN f |-> View(f[i])]
  BY Zenon DEF EagerCursors, View

\* k = 0 returns at once on both paths.
LEMMA AskStep ==
    ASSUME LazyInv, AskForNone
    PROVE  LazyInv' /\ Eager!AskForNone
  <1>1. /\ phase = "start" /\ k = 0 /\ phase' = "done" /\ query' = query /\ lazy' = lazy
        /\ corpus' = corpus /\ k' = k /\ heap' = heap /\ out' = out /\ offered' = offered
    BY Zenon DEF AskForNone
  <1>2. LazyInv'
    BY <1>1, NextInv, Zenon DEF LazyInv
  <1>3. EagerCursors' = EagerCursors
    BY <1>1, EagerViews, EagerViewsNext, Zenon
  <1>4. EagerPhase = "start" /\ EagerPhase' = "done"
    BY <1>1, EagerPhases
  <1> QED
    BY <1>1, <1>2, <1>3, <1>4, Zenon DEF Eager!AskForNone

\* A read that fails while the cursors are built fails on the eager path as well.
LEMMA BuildFailsStep ==
    ASSUME LazyInv, BuildFails
    PROVE  LazyInv' /\ Eager!ReadFails
  <1>1. /\ phase = "start" /\ k # 0 /\ Eager!Found # {} /\ phase' = "error" /\ query' = query
        /\ lazy' = lazy /\ lazy = <<>>
        /\ corpus' = corpus /\ k' = k /\ heap' = heap /\ out' = out /\ offered' = offered
    BY Zenon DEF BuildFails, LazyInv
  <1>2. LazyInv'
    BY <1>1, NextInv, Zenon DEF LazyInv
  <1>3. EagerCursors' = EagerCursors
    BY <1>1, EagerViews, EagerViewsNext, Zenon
  <1>4. EagerPhase = "start" /\ EagerPhase' = "error"
    BY <1>1 DEF EagerPhase
  <1> QED
    BY <1>1, <1>2, <1>3, <1>4, Zenon DEF Eager!ReadFails

\* The cursors are built as BuildCursors builds them, none of their preludes lost.
LEMMA BuildStep ==
    ASSUME LazyInv, SelectiveBuildCursors
    PROVE  LazyInv' /\ Eager!BuildCursors
  <1>1. PICK f : /\ f = [i \in Eager!Found |->
                            IF Eager!Windowed(query[i]) THEN BuildLazyWindowed(query[i])
                            ELSE BuildLazySlim(query[i])]
                 /\ lazy' = f
    BY Zenon DEF SelectiveBuildCursors
  <1>2. /\ phase = "start" /\ k # 0 /\ phase' = "loop" /\ query' = query
        /\ corpus' = corpus /\ k' = k /\ heap' = heap /\ out' = out /\ offered' = offered
    BY Zenon DEF SelectiveBuildCursors
  <1>3. /\ DOMAIN f = Eager!Found /\ f = [i \in DOMAIN f |-> f[i]]
        /\ Eager!Found \subseteq DOMAIN query
    BY <1>1, Zenon DEF Eager!Found
  <1>4. PICK ws : ws = [i \in Eager!Found |->
                            IF Eager!Windowed(query[i]) THEN Eager!BuildWindowBounds(query[i])
                            ELSE Eager!SingleWindowFallback(query[i])]
    BY Zenon
  <1>5. ASSUME NEW i \in Eager!Found
        PROVE  /\ CursorOk(f[i])
               /\ View(f[i]) = [postings |-> Eager!Postings(query[i]), windows |-> ws[i], pos |-> 1]
               /\ ws[i] \in Eager!CursorWindows(query[i])
    <2>1. PICK t : t = query[i]
      OBVIOUS
    <2>2. Eager!DocsOf(t) # {}
      BY <2>1, Zenon DEF Eager!Found
    <2>3. CASE Eager!Windowed(t)
      <3>1. f[i] = BuildLazyWindowed(t) /\ ws[i] = Eager!BuildWindowBounds(t)
        BY <1>1, <1>4, <2>1, <2>3, Zenon
      <3>2. CursorOk(f[i]) /\ View(f[i]) = [postings |-> Eager!Postings(t), windows |-> ws[i], pos |-> 1]
        BY <2>2, <3>1, WindowedInv, Zenon DEF CursorOk
      <3>3. ws[i] \in Eager!CursorWindows(t)
        BY <2>3, <3>1, Zenon DEF Eager!CursorWindows
      <3> QED
        BY <2>1, <3>2, <3>3, Zenon
    <2>4. CASE ~Eager!Windowed(t)
      <3>1. f[i] = BuildLazySlim(t) /\ ws[i] = Eager!SingleWindowFallback(t)
        BY <1>1, <1>4, <2>1, <2>4, Zenon
      <3>2. CursorOk(f[i]) /\ View(f[i]) = [postings |-> Eager!Postings(t), windows |-> ws[i], pos |-> 1]
        BY <2>2, <3>1, SlimInv, Zenon DEF CursorOk
      <3>3. ws[i] \in Eager!CursorWindows(t)
        BY <3>1, Zenon DEF Eager!CursorWindows
      <3> QED
        BY <2>1, <3>2, <3>3, Zenon
    <2> QED
      BY <2>3, <2>4, Zenon
  <1>6. LazyInv'
    BY <1>1, <1>2, <1>3, <1>5, NextInv, Zenon
  <1>7. EagerCursors' = [i \in Eager!Found |->
            [postings |-> Eager!Postings(query[i]), windows |-> ws[i], pos |-> 1]]
    <2>1. EagerCursors' = [i \in Eager!Found |-> View(f[i])]
      BY <1>1, <1>3, EagerViewsNext, Zenon
    <2> QED
      BY <1>5, <2>1, Zenon
  <1>8. ws \in [Eager!Found -> UNION {Eager!CursorWindows(query[i]) : i \in Eager!Found}]
    BY <1>4, <1>5, Zenon
  <1>9. EagerPhase = "start" /\ EagerPhase' = "loop"
    BY <1>2, EagerPhases
  <1> QED
    BY <1>2, <1>5, <1>6, <1>7, <1>8, <1>9, Zenon DEF Eager!BuildCursors

\* The loop ends when the eager loop ends, with the same result.
LEMMA DoneStep ==
    ASSUME LazyInv, phase = "loop", NEW cs, cs = Touched, NEW o \in Eager!Sorted(cs),
           Eager!Pivots(cs, o, Theta) = {}, SelectiveDone(cs)
    PROVE  LazyInv' /\ o \in Eager!Sorted(EagerCursors) /\ Eager!Finish(o)
  <1>1. PICK es : es = EagerCursors
    OBVIOUS
  <1>2. Looked(cs, es)
    BY <1>1, TouchedFacts, Zenon
  <1>3. o \in Eager!Sorted(es) /\ Eager!Pivots(es, o, Eager!Threshold(heap)) = {}
    <2>1. PICK th : th = Theta /\ th = Eager!Threshold(heap)
      BY Zenon DEF Theta
    <2> QED
      BY <1>2, <2>1, PivotFacts
  <1>4. /\ phase' = "done" /\ out' = Eager!DrainSorted(heap) /\ lazy' = cs /\ query' = query
        /\ corpus' = corpus /\ k' = k /\ heap' = heap /\ offered' = offered
    BY Zenon DEF SelectiveDone
  <1>5. cs = [i \in DOMAIN cs |-> cs[i]]
    BY Zenon DEF Touched
  <1>6. /\ DOMAIN cs = DOMAIN lazy
        /\ \A i \in DOMAIN lazy : CursorOk(cs[i]) /\ View(cs[i]) = es[i]
    BY <1>2, Zenon DEF Looked
  <1>7. LazyInv'
    BY <1>4, <1>5, <1>6, NextInv, Zenon DEF LazyInv
  <1>8. EagerCursors' = es
    <2>1. EagerCursors' = [i \in DOMAIN lazy |-> View(cs[i])]
      BY <1>4, <1>6, EagerViewsNext, Zenon
    <2>2. es = [i \in DOMAIN lazy |-> es[i]]
      BY <1>1, EagerViews, Zenon
    <2> QED
      BY <1>6, <2>1, <2>2, Zenon
  <1>9. EagerPhase = "loop" /\ EagerPhase' = "done"
    BY <1>4, EagerPhases
  <1> QED
    BY <1>1, <1>3, <1>4, <1>7, <1>8, <1>9, Zenon DEF Eager!Finish

\* The same document is scored, and offered with the same score.
LEMMA ScoreStep ==
    ASSUME LazyInv, phase = "loop", NEW cs, cs = Touched, NEW o \in Eager!Sorted(cs),
           NEW ps, ps = Eager!Pivots(cs, o, Theta), ps # {},
           NEW d, d = Eager!CurrentDoc(cs[o[Min(ps)]]), Eager!CurrentDoc(cs[o[1]]) = d,
           SelectiveScorePivot(cs, d)
    PROVE  LazyInv' /\ o \in Eager!Sorted(EagerCursors) /\ Eager!ScorePivot(o)
  <1>1. PICK es : es = EagerCursors
    OBVIOUS
  <1>2. Looked(cs, es)
    BY <1>1, TouchedFacts, Zenon
  <1>3. /\ o \in Eager!Sorted(es) /\ ps = Eager!Pivots(es, o, Eager!Threshold(heap))
        /\ Eager!CurrentDoc(es[o[1]]) = d /\ d = Eager!CurrentDoc(es[o[Eager!Min(ps)]])
        /\ d # Eager!NoDoc
    <2>1. PICK th : th = Theta /\ th = Eager!Threshold(heap)
      BY Zenon DEF Theta
    <2>2. Eager!Min(ps) = Min(ps)
      BY EagerMin, Zenon
    <2> QED
      BY <1>2, <2>1, <2>2, PivotFacts
  <1>4. PICK f : f = [i \in DOMAIN cs |->
                IF i \in Eager!At(cs, d) THEN [cs[i] EXCEPT !.pos = @ + 1] ELSE cs[i]]
    BY Zenon
  <1>5. /\ phase' = "loop" /\ lazy' = f /\ query' = query
        /\ heap' = Eager!Offer(heap, [docid |-> d, score |-> Eager!ScoreAt(cs, d)])
        /\ corpus' = corpus /\ k' = k /\ out' = out /\ offered' = Append(offered, d)
    BY <1>4, Zenon DEF SelectiveScorePivot
  <1>6. /\ DOMAIN cs = DOMAIN lazy /\ DOMAIN es = DOMAIN lazy /\ SameDocs(cs, es)
        /\ \A i \in DOMAIN lazy : CursorOk(cs[i]) /\ View(cs[i]) = es[i]
    BY <1>2, Zenon DEF Looked
  <1>7. \A i \in Eager!At(cs, d) :
           /\ cs[i].postings[cs[i].pos] = es[i].postings[es[i].pos]
           /\ CursorOk([cs[i] EXCEPT !.pos = @ + 1])
           /\ View([cs[i] EXCEPT !.pos = @ + 1]) = [es[i] EXCEPT !.pos = @ + 1]
    BY <1>2, <1>3, <1>6, Zenon DEF Looked, Eager!At
  <1>8. Eager!At(cs, d) = Eager!At(es, d) /\ Eager!ScoreAt(cs, d) = Eager!ScoreAt(es, d)
    <2>1. Eager!At(cs, d) = Eager!At(es, d)
      BY <1>6, AtSame, ZenonT(40)
    <2>2. \A i \in Eager!At(cs, d) : cs[i].postings[cs[i].pos] = es[i].postings[es[i].pos]
      BY <1>7, Zenon
    <2>3. Eager!ScoreAt(cs, d) = Eager!ScoreAt(es, d)
      BY <1>6, <2>2, ScoreSame, SMTT(40)
    <2> QED
      BY <2>1, <2>3, Zenon
  <1>9. DOMAIN f = DOMAIN lazy /\ f = [i \in DOMAIN f |-> f[i]]
    BY <1>4, <1>6, Zenon
  <1>10. \A i \in DOMAIN lazy :
            /\ CursorOk(f[i])
            /\ View(f[i]) = IF i \in Eager!At(es, d) THEN [es[i] EXCEPT !.pos = @ + 1] ELSE es[i]
    <2> SUFFICES ASSUME NEW i \in DOMAIN lazy
                 PROVE  /\ CursorOk(f[i])
                        /\ View(f[i]) = IF i \in Eager!At(es, d) THEN [es[i] EXCEPT !.pos = @ + 1]
                                        ELSE es[i]
      BY Zenon
    <2>1. CASE i \in Eager!At(cs, d)
      <3>1. f[i] = [cs[i] EXCEPT !.pos = @ + 1]
        BY <1>4, <1>6, <2>1, Zenon
      <3> QED
        BY <1>7, <1>8, <2>1, <3>1, Zenon
    <2>2. CASE i \notin Eager!At(cs, d)
      <3>1. f[i] = cs[i]
        BY <1>4, <1>6, <2>2, Zenon
      <3> QED
        BY <1>6, <1>8, <2>2, <3>1, Zenon
    <2> QED
      BY <2>1, <2>2, Zenon
  <1>11. LazyInv'
    <2>1. phase' # "start"
      BY <1>5
    <2> QED
      BY <1>5, <1>9, <1>10, <2>1, NextInv, Zenon DEF LazyInv
  <1>12. EagerCursors' = [i \in DOMAIN es |->
              IF i \in Eager!At(es, d) THEN [es[i] EXCEPT !.pos = @ + 1] ELSE es[i]]
    <2>1. EagerCursors' = [i \in DOMAIN lazy |-> View(f[i])]
      BY <1>5, <1>9, EagerViewsNext, Zenon
    <2> QED
      BY <1>6, <1>10, <2>1, Zenon
  <1>13. EagerPhase = "loop" /\ EagerPhase' = "loop"
    BY <1>5, EagerPhases
  <1> QED
    BY <1>1, <1>3, <1>5, <1>8, <1>11, <1>12, <1>13, Zenon DEF Eager!ScorePivot

\* A skip of a sound cursor is the eager skip.
LEMMA SkipOk ==
    ASSUME NEW c, CursorOk(c), NEW target \in Nat, NEW e, e = LazySkipTo(c, target)
    PROVE  CursorOk(e) /\ View(e) = Eager!SkipTo(View(c), target)
  <1>1. PICK n, total : CursorInv(c, n, total)
    BY Zenon DEF CursorOk
  <1>2. CursorInv(e, n, total) /\ View(e) = Eager!SkipTo(View(c), target)
    BY <1>1, SkipInv
  <1> QED
    BY <1>2, Zenon DEF CursorOk

\* The same cursor moves up to the pivot, to the same posting.
LEMMA AdvanceStep ==
    ASSUME LazyInv, phase = "loop", NEW cs, cs = Touched, NEW o \in Eager!Sorted(cs),
           NEW ps, ps = Eager!Pivots(cs, o, Theta), ps # {},
           NEW d, d = Eager!CurrentDoc(cs[o[Min(ps)]]), Eager!CurrentDoc(cs[o[1]]) # d,
           SelectiveAdvanceLagging(cs, o[1], d)
    PROVE  LazyInv' /\ o \in Eager!Sorted(EagerCursors) /\ Eager!AdvanceLagging(o)
  <1>1. PICK es, a : es = EagerCursors /\ a = o[1]
    OBVIOUS
  <1>2. Looked(cs, es)
    BY <1>1, TouchedFacts, Zenon
  <1>3. /\ o \in Eager!Sorted(es) /\ ps = Eager!Pivots(es, o, Eager!Threshold(heap))
        /\ a \in DOMAIN lazy /\ d \in Nat /\ d = Eager!CurrentDoc(es[o[Eager!Min(ps)]])
        /\ Eager!CurrentDoc(es[a]) < d
    <2>1. PICK th : th = Theta /\ th = Eager!Threshold(heap)
      BY Zenon DEF Theta
    <2>2. Eager!Min(ps) = Min(ps)
      BY EagerMin, Zenon
    <2>3. /\ o \in Eager!Sorted(es) /\ ps = Eager!Pivots(es, o, th)
          /\ a \in DOMAIN lazy /\ Eager!CurrentDoc(cs[a]) = Eager!CurrentDoc(es[a])
          /\ d = Eager!CurrentDoc(es[o[Min(ps)]]) /\ d \in Nat
          /\ Eager!CurrentDoc(cs[a]) \in Nat /\ Eager!CurrentDoc(cs[a]) <= d
      BY <1>1, <1>2, <2>1, PivotFacts, SMTT(40)
    <2>4. Eager!CurrentDoc(cs[a]) < d
      BY <1>1, <2>3, SMTT(40)
    <2> QED
      BY <2>1, <2>2, <2>3, <2>4, Zenon
  <1>4. PICK e, f : e = LazySkipTo(cs[a], d) /\ f = [cs EXCEPT ![a] = e]
    BY Zenon
  <1>5. /\ phase' = "loop" /\ lazy' = f /\ query' = query /\ heap' = heap
        /\ corpus' = corpus /\ k' = k /\ out' = out /\ offered' = offered
    BY <1>1, <1>4, Zenon DEF SelectiveAdvanceLagging
  <1>6. /\ DOMAIN cs = DOMAIN lazy /\ DOMAIN es = DOMAIN lazy
        /\ \A i \in DOMAIN lazy : CursorOk(cs[i]) /\ View(cs[i]) = es[i]
    BY <1>2, Zenon DEF Looked
  <1>7. CursorOk(e) /\ View(e) = Eager!SkipTo(es[a], d)
    <2>1. PICK c : c = cs[a] /\ CursorOk(c) /\ View(c) = es[a]
      BY <1>3, <1>6, Zenon
    <2>2. CursorOk(e) /\ View(e) = Eager!SkipTo(View(c), d)
      BY <1>3, <1>4, <2>1, SkipOk
    <2> QED
      BY <2>1, <2>2, Zenon
  <1>8. /\ DOMAIN f = DOMAIN lazy /\ f = [i \in DOMAIN f |-> f[i]]
        /\ \A i \in DOMAIN lazy : f[i] = IF i = a THEN e ELSE cs[i]
    BY <1>4, <1>6, Zenon
  <1>9. \A i \in DOMAIN lazy : /\ CursorOk(f[i])
                               /\ View(f[i]) = IF i = a THEN Eager!SkipTo(es[a], d) ELSE es[i]
    BY <1>6, <1>7, <1>8, Zenon
  <1>10. LazyInv'
    <2>1. phase' # "start"
      BY <1>5
    <2> QED
      BY <1>5, <1>8, <1>9, <2>1, NextInv, Zenon DEF LazyInv
  <1>11. EagerCursors' = [es EXCEPT ![a] = Eager!SkipTo(@, d)]
    <2>1. EagerCursors' = [i \in DOMAIN lazy |-> View(f[i])]
      BY <1>5, <1>8, EagerViewsNext, ZenonT(40)
    <2>2. [es EXCEPT ![a] = Eager!SkipTo(@, d)] =
          [i \in DOMAIN lazy |-> IF i = a THEN Eager!SkipTo(es[a], d) ELSE es[i]]
      BY <1>3, <1>6, Zenon
    <2> QED
      BY <1>9, <2>1, <2>2, Zenon
  <1>12. EagerPhase = "loop" /\ EagerPhase' = "loop"
    BY <1>5, EagerPhases
  <1> QED
    BY <1>1, <1>3, <1>5, <1>10, <1>11, <1>12, Zenon DEF Eager!AdvanceLagging

\* A window that cannot be read ends the query where the eager one stands.
LEMMA FetchFailsStep ==
    ASSUME LazyInv, FetchFails
    PROVE  LazyInv' /\ UNCHANGED Eager!vars
  <1>1. /\ phase = "loop" /\ phase' = "error" /\ query' = query /\ lazy' = lazy
        /\ corpus' = corpus /\ k' = k /\ heap' = heap /\ out' = out /\ offered' = offered
    BY Zenon DEF FetchFails
  <1>2. LazyInv'
    <2>1. phase' # "start"
      BY <1>1
    <2> QED
      BY <1>1, <2>1, NextInv, Zenon DEF LazyInv
  <1>3. EagerCursors' = EagerCursors
    BY <1>1, EagerViews, EagerViewsNext, Zenon
  <1>4. \E i : i \in DOMAIN lazy
    <2>1. PICK cs, es : cs = Touched /\ es = EagerCursors
      OBVIOUS
    <2>2. Looked(cs, es) /\ DOMAIN cs = DOMAIN lazy
      <3>1. Looked(cs, es)
        BY <2>1, TouchedFacts, Zenon
      <3> QED
        BY <3>1, Zenon DEF Looked
    <2>3. CASE Reads(cs)
      BY <2>2, <2>3, Zenon DEF Reads
    <2>4. CASE \E o \in Eager!Sorted(cs) : Eager!Pivots(cs, o, Theta) # {}
      <3>1. PICK o \in Eager!Sorted(cs) : Eager!Pivots(cs, o, Theta) # {}
        BY <2>4, Zenon
      <3>2. PICK th, ps : th = Theta /\ ps = Eager!Pivots(cs, o, th) /\ ps # {}
        BY <3>1, Zenon
      <3>3. o[1] \in DOMAIN lazy
        BY <2>2, <3>2, PivotFacts
      <3> QED
        BY <3>3, Zenon
    <2> QED
      BY <2>1, <2>3, <2>4, Zenon DEF FetchFails
  <1>5. lazy # <<>>
    BY <1>4
  <1>6. EagerPhase = "loop" /\ EagerPhase' = "loop"
    BY <1>1, <1>5 DEF EagerPhase
  <1> QED
    BY <1>1, <1>2, <1>3, <1>6, Zenon DEF Eager!vars

\* One iteration of the lazy loop is one iteration of the eager loop, of the same kind.
LEMMA IterationKind ==
    ASSUME LazyInv, SelectiveStep
    PROVE  /\ LazyInv'
           /\ \E o \in Eager!Sorted(EagerCursors) :
                 Eager!ScorePivot(o) \/ Eager!AdvanceLagging(o) \/ Eager!Finish(o)
  <1>1. PICK cs : cs = Touched
    OBVIOUS
  <1>2. phase = "loop"
    BY Zenon DEF SelectiveStep
  <1>3. PICK o \in Eager!Sorted(cs) :
           \/ /\ Eager!Pivots(cs, o, Theta) = {}
              /\ SelectiveDone(cs)
           \/ /\ Eager!Pivots(cs, o, Theta) # {}
              /\ LET d == Eager!CurrentDoc(cs[o[Min(Eager!Pivots(cs, o, Theta))]]) IN
                 IF Eager!CurrentDoc(cs[o[1]]) = d THEN SelectiveScorePivot(cs, d)
                 ELSE SelectiveAdvanceLagging(cs, o[1], d)
    BY <1>1, Zenon DEF SelectiveStep
  <1>4. PICK ps, d : /\ ps = Eager!Pivots(cs, o, Theta)
                     /\ d = Eager!CurrentDoc(cs[o[Min(ps)]])
    OBVIOUS
  <1>5. CASE ps = {} /\ SelectiveDone(cs)
    <2>1. LazyInv' /\ o \in Eager!Sorted(EagerCursors) /\ Eager!Finish(o)
      BY <1>1, <1>2, <1>4, <1>5, DoneStep, Zenon
    <2> QED
      BY <2>1, Zenon
  <1>6. CASE ps # {} /\ Eager!CurrentDoc(cs[o[1]]) = d /\ SelectiveScorePivot(cs, d)
    <2>1. LazyInv' /\ o \in Eager!Sorted(EagerCursors) /\ Eager!ScorePivot(o)
      BY <1>1, <1>2, <1>4, <1>6, ScoreStep
    <2> QED
      BY <2>1, Zenon
  <1>7. CASE ps # {} /\ Eager!CurrentDoc(cs[o[1]]) # d /\ SelectiveAdvanceLagging(cs, o[1], d)
    <2>1. LazyInv' /\ o \in Eager!Sorted(EagerCursors) /\ Eager!AdvanceLagging(o)
      BY <1>1, <1>2, <1>4, <1>7, AdvanceStep
    <2> QED
      BY <2>1, Zenon
  <1> QED
    BY <1>3, <1>4, <1>5, <1>6, <1>7, Zenon

\* So it is a step of the eager path.
LEMMA IterationStep ==
    ASSUME LazyInv, SelectiveStep
    PROVE  LazyInv' /\ Eager!Next
  BY IterationKind, Zenon DEF Eager!Next

\* The first state is one of the eager path.
LEMMA LazyInit ==
    ASSUME Init
    PROVE  LazyInv /\ Eager!Init
  <1>1. /\ query \in Queries /\ k \in Ks /\ phase = "start" /\ lazy = <<>>
        /\ heap = {} /\ out = <<>> /\ offered = <<>>
        /\ corpus \in [tf : [Terms -> [Eager!Docs -> 0..MaxTf]], norm : [Eager!Docs -> Norms]]
    BY Zenon DEF Init
  <1>2. DOMAIN lazy = {} /\ lazy = [i \in DOMAIN lazy |-> lazy[i]]
    BY <1>1
  <1>3. EagerCursors = <<>>
    <2>1. EagerCursors = [i \in {} |-> View(lazy[i])]
      BY <1>2, EagerViews, Zenon
    <2> QED
      BY <2>1
  <1>4. EagerPhase = "start"
    BY <1>1, EagerPhases
  <1>5. LazyInv
    BY <1>1, <1>2, SelectiveAssumption, Zenon DEF LazyInv
  <1> QED
    BY <1>1, <1>3, <1>4, <1>5, Zenon DEF Eager!Init

\* Every step keeps the invariant and is a step of the eager path, or none.
LEMMA LazyStep ==
    ASSUME LazyInv, [Next]_vars
    PROVE  LazyInv' /\ [Eager!Next]_Eager!vars
  <1>1. CASE AskForNone
    BY <1>1, AskStep, Zenon DEF Eager!Next
  <1>2. CASE SelectiveBuildCursors
    BY <1>2, BuildStep, Zenon DEF Eager!Next
  <1>3. CASE BuildFails
    BY <1>3, BuildFailsStep, Zenon DEF Eager!Next
  <1>4. CASE SelectiveStep
    BY <1>4, IterationStep, Zenon
  <1>5. CASE FetchFails
    BY <1>5, FetchFailsStep, Zenon
  <1>6. CASE UNCHANGED vars
    <2>1. /\ phase' = phase /\ query' = query /\ lazy' = lazy
          /\ corpus' = corpus /\ k' = k /\ heap' = heap /\ out' = out /\ offered' = offered
      BY <1>6, Zenon DEF vars
    <2>2. LazyInv'
      BY <2>1, Zenon DEF LazyInv
    <2>3. EagerCursors' = EagerCursors
      BY <2>1, EagerViews, EagerViewsNext, Zenon
    <2>4. EagerPhase' = EagerPhase
      BY <2>1, Zenon DEF EagerPhase
    <2> QED
      BY <2>1, <2>2, <2>3, <2>4, Zenon DEF Eager!vars
  <1> QED
    BY <1>1, <1>2, <1>3, <1>4, <1>5, <1>6, Zenon DEF Next

----------------------------------------------------------------------------
(* The loop ends. *)

\* The postings ahead of the cursors cs.
LeftOf(cs) == SumFunction([i \in DOMAIN cs |-> TotalPostings(cs[i]) + 1 - cs[i].pos])

\* A cursor has a natural number of postings ahead, and shows a docid or NoDoc.
LEMMA AheadFacts ==
    ASSUME NEW c, CursorOk(c), NEW v, v = View(c)
    PROVE  /\ TotalPostings(c) = Len(v.postings) /\ c.pos = v.pos /\ Len(v.postings) \in Nat
           /\ v.pos \in 1..(Len(v.postings) + 1)
           /\ Eager!CurrentDoc(v) \in 0..NumDocs
           /\ v.pos > Len(v.postings) => Eager!CurrentDoc(v) = NumDocs
  <1>1. PICK n, total : CursorInv(c, n, total)
    BY Zenon DEF CursorOk
  <1>2. /\ total \in Nat /\ c.pos \in 1..(total + 1) /\ Len(c.full) = total
        /\ \A p \in 1..total : c.full[p].docid \in Eager!Docs
    BY <1>1, Zenon DEF CursorInv, Cut
  <1>3. TotalPostings(c) = total
    BY <1>1, TotalFacts, Zenon
  <1>4. v.postings = c.full /\ v.pos = c.pos
    BY ViewFacts, Zenon
  <1>5. NumDocs \in 0..NumDocs /\ \A d \in Eager!Docs : d \in 0..NumDocs
    BY SelectiveAssumption DEF Eager!Docs
  <1>6. /\ c.pos <= total => c.pos \in 1..total
        /\ c.pos > total => ~(c.pos <= total)
    BY <1>2
  <1>7. Eager!CurrentDoc(v) = IF c.pos <= total THEN c.full[c.pos].docid ELSE NumDocs
    BY <1>2, <1>4, Zenon DEF Eager!CurrentDoc, Eager!NoDoc
  <1> QED
    BY <1>2, <1>3, <1>4, <1>5, <1>6, <1>7, Zenon

\* The walk of a cursor that is behind the target moves it on.
LEMMA SkipOn ==
    ASSUME NEW v, Len(v.postings) \in Nat, v.pos \in 1..(Len(v.postings) + 1),
           v.pos > Len(v.postings) => Eager!CurrentDoc(v) = NumDocs,
           Eager!CurrentDoc(v) \in 0..NumDocs,
           v = [postings |-> v.postings, windows |-> v.windows, pos |-> v.pos],
           NEW d \in 0..NumDocs, Eager!CurrentDoc(v) < d,
           NEW e, e = Eager!SkipTo(v, d)
    PROVE  e.postings = v.postings /\ e.pos \in Nat /\ v.pos < e.pos
  <1>1. PICK total \in Nat, at \in Nat : total = Len(v.postings) /\ at = v.pos
    OBVIOUS
  <1>2. PICK A : A = {p \in at..total : v.postings[p].docid >= d}
    BY Zenon
  <1>3. PICK x : x = IF A = {} THEN total + 1 ELSE Min(A)
    BY Zenon
  <1>4. e = [v EXCEPT !.pos = x]
    BY <1>1, <1>2, <1>3, EagerMin, Zenon DEF Eager!SkipTo
  <1>5. e.postings = v.postings /\ e.pos = x
    <2>1. PICK ps, ws, y : v = [postings |-> ps, windows |-> ws, pos |-> y]
      BY Zenon
    <2> QED
      BY <1>4, <2>1
  <1>6. NumDocs \in Nat
    BY SelectiveAssumption
  <1>7. at \in 1..total
    BY <1>1, <1>6
  <1>8. ~(v.postings[at].docid >= d)
    <2>1. at <= total
      BY <1>7
    <2>2. Eager!CurrentDoc(v) = v.postings[at].docid
      BY <1>1, <2>1, Zenon DEF Eager!CurrentDoc
    <2> QED
      BY <1>6, <2>2
  <1>9. A \subseteq Nat /\ \A p \in A : at < p
    BY <1>1, <1>2, <1>8
  <1>10. A # {} => Min(A) \in A
    BY <1>9, MinFacts, Zenon
  <1>11. x \in Nat /\ at < x
    <2>1. CASE A = {}
      BY <1>1, <1>3, <1>7, <2>1
    <2>2. CASE A # {}
      BY <1>3, <1>9, <1>10, <2>2, Zenon
    <2> QED
      BY <2>1, <2>2
  <1> QED
    BY <1>1, <1>5, <1>11, Zenon

\* The eager cursors ds are further on than es: over the same postings, none back,
\* one further.
FurtherOn(ds, es) ==
    /\ DOMAIN ds = DOMAIN es
    /\ \A i \in DOMAIN es : ds[i].postings = es[i].postings /\ es[i].pos <= ds[i].pos
    /\ \E i \in DOMAIN es : es[i].pos < ds[i].pos

\* Cursors that are further on have fewer postings ahead.
LEMMA LeftFalls ==
    ASSUME NEW cs, NEW fs, NEW es, NEW ds, IsFiniteSet(DOMAIN cs), DOMAIN fs = DOMAIN cs,
           \A i \in DOMAIN cs : CursorOk(cs[i]) /\ CursorOk(fs[i]),
           es = [i \in DOMAIN cs |-> View(cs[i])], ds = [i \in DOMAIN fs |-> View(fs[i])],
           FurtherOn(ds, es)
    PROVE  LeftOf(fs) < LeftOf(cs)
  <1>1. PICK g, h, T : /\ g = [i \in DOMAIN fs |-> TotalPostings(fs[i]) + 1 - fs[i].pos]
                       /\ h = [i \in DOMAIN cs |-> TotalPostings(cs[i]) + 1 - cs[i].pos]
                       /\ T = DOMAIN cs
    BY Zenon
  <1>2. ASSUME NEW i \in T
        PROVE  /\ g[i] \in Nat /\ h[i] \in Nat /\ g[i] <= h[i]
               /\ es[i].pos < ds[i].pos => g[i] < h[i]
    <2>1. PICK c, f, v, w : /\ c = cs[i] /\ f = fs[i] /\ v = es[i] /\ w = ds[i]
                            /\ CursorOk(c) /\ CursorOk(f) /\ v = View(c) /\ w = View(f)
      BY <1>1, Zenon
    <2>2. w.postings = v.postings /\ v.pos <= w.pos
      BY <1>1, <2>1, Zenon DEF FurtherOn
    <2>3. PICK total : total = Len(v.postings)
      BY Zenon
    <2>4. TotalPostings(c) = total /\ c.pos = v.pos /\ total \in Nat /\ v.pos \in 1..(total + 1)
      BY <2>1, <2>3, AheadFacts, Zenon
    <2>5. TotalPostings(f) = total /\ f.pos = w.pos /\ w.pos \in 1..(total + 1)
      <3>1. /\ TotalPostings(f) = Len(w.postings) /\ f.pos = w.pos
            /\ w.pos \in 1..(Len(w.postings) + 1)
        BY <2>1, AheadFacts, Zenon
      <3> QED
        BY <2>2, <2>3, <3>1, Zenon
    <2>6. g[i] = total + 1 - w.pos /\ h[i] = total + 1 - v.pos
      BY <1>1, <2>1, <2>4, <2>5, Zenon
    <2> QED
      BY <2>1, <2>2, <2>4, <2>5, <2>6
  <1>3. PICK y \in T : g[y] < h[y]
    BY <1>1, <1>2, Zenon DEF FurtherOn
  <1>4. SumFunctionOnSet(g, T) < SumFunctionOnSet(h, T)
    BY <1>1, <1>2, <1>3, SumLess, Zenon
  <1>5. DOMAIN g = T /\ DOMAIN h = T
    BY <1>1, Zenon
  <1> QED
    BY <1>1, <1>4, <1>5, Zenon DEF LeftOf, SumFunction

\* An iteration that goes on moves a cursor: past the scored document, or up to the pivot.
LEMMA IterationMoves ==
    ASSUME LazyInv, NEW es, es = EagerCursors, NEW o \in Eager!Sorted(es),
           Eager!ScorePivot(o) \/ Eager!AdvanceLagging(o),
           NEW ds, ds = EagerCursors'
    PROVE  FurtherOn(ds, es)
  <1>1. /\ DOMAIN es = DOMAIN lazy /\ IsFiniteSet(DOMAIN es)
        /\ \A i \in DOMAIN es : es[i] = View(lazy[i]) /\ CursorOk(lazy[i])
    BY EagerViews, FinitelyMany, Zenon DEF LazyInv
  <1>2. ASSUME NEW i \in DOMAIN es
        PROVE  /\ es[i].pos \in Nat /\ Len(es[i].postings) \in Nat
               /\ es[i].pos \in 1..(Len(es[i].postings) + 1)
               /\ es[i].pos > Len(es[i].postings) => Eager!CurrentDoc(es[i]) = NumDocs
               /\ Eager!CurrentDoc(es[i]) \in 0..NumDocs
               /\ es[i] = [postings |-> es[i].postings, windows |-> es[i].windows,
                           pos |-> es[i].pos]
    <2>1. PICK c, v : v = es[i] /\ CursorOk(c) /\ v = View(c)
      BY <1>1, Zenon
    <2>2. /\ Len(v.postings) \in Nat /\ v.pos \in 1..(Len(v.postings) + 1)
          /\ Eager!CurrentDoc(v) \in 0..NumDocs
          /\ v.pos > Len(v.postings) => Eager!CurrentDoc(v) = NumDocs
      BY <2>1, AheadFacts, Zenon
    <2>3. v.pos \in Nat
      BY <2>2
    <2>4. v = [postings |-> v.postings, windows |-> v.windows, pos |-> v.pos]
      BY <2>1, ViewFacts, Zenon DEF View
    <2> QED
      BY <2>1, <2>2, <2>3, <2>4, Zenon
  <1>3. PICK ps : ps = Eager!Pivots(es, o, Eager!Threshold(heap))
    OBVIOUS
  <1>4. PICK l \in Nat : l = Len(o) /\ o \in [1..l -> DOMAIN es]
    BY <1>1, SortedFacts, Zenon
  <1>5. ASSUME ps # {}
        PROVE  o[1] \in DOMAIN es /\ o[Eager!Min(ps)] \in DOMAIN es
    <2>1. ps \subseteq 1..l /\ ps \subseteq Nat
      <3>1. ps \subseteq 1..l
        BY <1>3, <1>4, Zenon DEF Eager!Pivots
      <3> QED
        BY <3>1
    <2>2. Min(ps) \in ps
      BY <1>5, <2>1, MinFacts, Zenon
    <2>3. 1 \in 1..l
      <3>1. PICK p : p \in 1..l
        BY <1>5, <2>1, Zenon
      <3> QED
        BY <3>1
    <2> QED
      BY <1>4, <2>1, <2>2, <2>3, EagerMin, Zenon
  <1>6. CASE Eager!ScorePivot(o)
    <2>1. PICK d : /\ ps # {} /\ Eager!CurrentDoc(es[o[1]]) = d
                   /\ ds = [i \in DOMAIN es |->
                          IF i \in Eager!At(es, d) THEN [es[i] EXCEPT !.pos = @ + 1] ELSE es[i]]
      BY <1>3, <1>6, Zenon DEF Eager!ScorePivot
    <2>2. o[1] \in Eager!At(es, d)
      BY <1>5, <2>1, Zenon DEF Eager!At
    <2>3. ASSUME NEW i \in DOMAIN es
          PROVE  /\ ds[i].postings = es[i].postings /\ es[i].pos <= ds[i].pos
                 /\ i \in Eager!At(es, d) => es[i].pos < ds[i].pos
      <3>1. CASE i \in Eager!At(es, d)
        <4>1. PICK v : v = es[i] /\ v.pos \in Nat
                       /\ v = [postings |-> v.postings, windows |-> v.windows, pos |-> v.pos]
          BY <1>2, Zenon
        <4>2. ds[i] = [v EXCEPT !.pos = @ + 1]
          BY <2>1, <3>1, <4>1, Zenon
        <4>3. ds[i].postings = v.postings /\ ds[i].pos = v.pos + 1
          BY <4>1, <4>2
        <4> QED
          BY <4>1, <4>3
      <3>2. CASE i \notin Eager!At(es, d)
        <4>1. ds[i] = es[i]
          BY <2>1, <3>2, Zenon
        <4>2. es[i].pos \in Nat
          BY <1>2, Zenon
        <4> QED
          BY <3>2, <4>1, <4>2
      <3> QED
        BY <3>1, <3>2, Zenon
    <2> QED
      BY <1>5, <2>1, <2>2, <2>3, Zenon DEF FurtherOn
  <1>7. CASE Eager!AdvanceLagging(o)
    <2>1. PICK d, a : /\ ps # {} /\ a = o[1] /\ d = Eager!CurrentDoc(es[o[Eager!Min(ps)]])
                      /\ Eager!CurrentDoc(es[a]) < d
                      /\ ds = [es EXCEPT ![a] = Eager!SkipTo(@, d)]
      BY <1>3, <1>7, Zenon DEF Eager!AdvanceLagging
    <2>2. a \in DOMAIN es /\ d \in 0..NumDocs
      BY <1>2, <1>5, <2>1, Zenon
    <2>3. PICK v, e : v = es[a] /\ e = Eager!SkipTo(v, d)
      OBVIOUS
    <2>4. e.postings = v.postings /\ e.pos \in Nat /\ v.pos < e.pos
      <3>1. /\ Len(v.postings) \in Nat /\ v.pos \in 1..(Len(v.postings) + 1)
            /\ v.pos > Len(v.postings) => Eager!CurrentDoc(v) = NumDocs
            /\ Eager!CurrentDoc(v) \in 0..NumDocs
            /\ v = [postings |-> v.postings, windows |-> v.windows, pos |-> v.pos]
        BY <1>2, <2>2, <2>3, Zenon
      <3>2. Eager!CurrentDoc(v) < d
        BY <2>1, <2>3, Zenon
      <3> QED
        BY <2>2, <2>3, <3>1, <3>2, SkipOn
    <2>5. DOMAIN ds = DOMAIN es /\ \A i \in DOMAIN es : ds[i] = IF i = a THEN e ELSE es[i]
      BY <2>1, <2>2, <2>3, Zenon
    <2>6. ASSUME NEW i \in DOMAIN es
          PROVE  ds[i].postings = es[i].postings /\ es[i].pos <= ds[i].pos
      <3>1. es[i].pos \in Nat
        BY <1>2, Zenon
      <3>2. CASE i = a
        <4>1. ds[i] = e /\ es[i] = v
          BY <2>3, <2>5, <3>2, Zenon
        <4> QED
          BY <2>4, <3>1, <4>1
      <3>3. CASE i # a
        <4>1. ds[i] = es[i]
          BY <2>5, <3>3, Zenon
        <4> QED
          BY <3>1, <4>1
      <3> QED
        BY <3>2, <3>3, Zenon
    <2> QED
      BY <2>2, <2>3, <2>4, <2>5, <2>6, Zenon DEF FurtherOn
  <1> QED
    BY <1>6, <1>7, Zenon

----------------------------------------------------------------------------
(* The theorems. *)

\* Whatever is skipped, every cursor of scoring_query_wand_selective shows exactly
\* the postings of the file in the windows it has read, and its windows cut the
\* postings into consecutive runs.
THEOREM LazyInvariant == Spec => []LazyInv
  <1>1. Init => LazyInv
    BY LazyInit, Zenon
  <1>2. LazyInv /\ [Next]_vars => LazyInv'
    BY LazyStep, Zenon
  <1> QED
    BY <1>1, <1>2, PTL DEF Spec

\* MaterializeWindow never reads a window of a cursor a second time.
THEOREM ReadsOnce == Spec => []FetchedOnce
  <1>1. ASSUME LazyInv
        PROVE  FetchedOnce
    <2> SUFFICES ASSUME NEW i \in DOMAIN lazy
                 PROVE  \A a, b \in DOMAIN lazy[i].reads :
                            lazy[i].reads[a] = lazy[i].reads[b] => a = b
      BY Zenon DEF FetchedOnce
    <2>1. PICK n, total : CursorInv(lazy[i], n, total)
      BY <1>1, Zenon DEF LazyInv, CursorOk
    <2>2. PICK rd : rd = lazy[i].reads
      OBVIOUS
    <2>3. rd \in Seq(1..n) /\ \A a, b \in 1..Len(rd) : rd[a] = rd[b] => a = b
      BY <2>1, <2>2, Zenon DEF CursorInv, Once
    <2>4. DOMAIN rd = 1..Len(rd)
      BY <2>3
    <2> QED
      BY <2>2, <2>3, <2>4, Zenon
  <1> QED
    BY <1>1, LazyInvariant, PTL

\* scoring_query_wand_selective is scoring_query_wand: for every corpus, query and k,
\* with any failed read, its pivots, offers and result are those of the path that
\* decodes every posting first.
THEOREM SelectiveIsEager == Spec => ImplementsEager
  <1>1. Init => Eager!Init
    BY LazyInit, Zenon
  <1>2. LazyInv /\ [Next]_vars => [Eager!Next]_Eager!vars
    BY LazyStep, Zenon
  <1> QED
    BY <1>1, <1>2, LazyInvariant, PTL DEF Spec, ImplementsEager, Eager!Spec

\* Every iteration of scoring_query_wand_selective that does not end the loop leaves
\* fewer postings ahead of its cursors, although a lagging cursor moves by whole
\* unread windows: for every corpus, query and k the loop ends.
THEOREM SelectiveProgress == Spec => Progress
  <1>1. ASSUME LazyInv, [Next]_vars
        PROVE  [phase = "loop" /\ phase' = "loop" => Remaining' < Remaining]_vars
    <2> SUFFICES ASSUME ~UNCHANGED vars, phase = "loop", phase' = "loop"
                 PROVE  Remaining' < Remaining
      BY Zenon
    <2>1. SelectiveStep
      <3>1. /\ ~AskForNone /\ ~SelectiveBuildCursors /\ ~BuildFails /\ ~FetchFails
        BY DEF AskForNone, SelectiveBuildCursors, BuildFails, FetchFails
      <3> QED
        BY <1>1, <3>1, Zenon DEF Next
    <2>2. PICK cs, fs, es, ds : /\ cs = lazy /\ fs = lazy' /\ es = EagerCursors
                                /\ ds = EagerCursors'
      OBVIOUS
    <2>3. LazyInv' /\ \E o \in Eager!Sorted(es) :
                         Eager!ScorePivot(o) \/ Eager!AdvanceLagging(o) \/ Eager!Finish(o)
      BY <1>1, <2>1, <2>2, IterationKind, Zenon
    <2>4. ~\E o : Eager!Finish(o)
      <3>1. EagerPhase' = "loop"
        BY EagerPhases
      <3> QED
        BY <3>1 DEF Eager!Finish
    <2>5. PICK o \in Eager!Sorted(es) : Eager!ScorePivot(o) \/ Eager!AdvanceLagging(o)
      BY <2>3, <2>4, Zenon
    <2>6. FurtherOn(ds, es)
      BY <1>1, <2>2, <2>5, IterationMoves, Zenon
    <2>7. /\ es = [i \in DOMAIN cs |-> View(cs[i])] /\ ds = [i \in DOMAIN fs |-> View(fs[i])]
          /\ IsFiniteSet(DOMAIN cs)
      BY <1>1, <2>2, EagerViews, EagerViewsNext, FinitelyMany, Zenon
    <2>8. DOMAIN fs = DOMAIN cs
      BY <2>6, <2>7, Zenon DEF FurtherOn
    <2>9. \A i \in DOMAIN cs : CursorOk(cs[i]) /\ CursorOk(fs[i])
      BY <1>1, <2>2, <2>3, <2>8, Zenon DEF LazyInv
    <2>10. LeftOf(fs) < LeftOf(cs)
      BY <2>6, <2>7, <2>8, <2>9, LeftFalls, Zenon
    <2>11. Remaining = LeftOf(cs) /\ Remaining' = LeftOf(fs)
      BY <2>2 DEF Remaining, LeftOf
    <2> QED
      BY <2>10, <2>11, Zenon
  <1> QED
    BY <1>1, LazyInvariant, PTL DEF Spec, Progress
============================================================================
