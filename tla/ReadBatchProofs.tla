-------------------------- MODULE ReadBatchProofs ---------------------------
(***************************************************************************)
(* For every number of concurrent GETs, every batch and every order in     *)
(* which its GETs return or fail: the reads in flight are bounded, and a   *)
(* batch that succeeds is complete.                                        *)
(***************************************************************************)
EXTENDS BatchReader, FiniteSetTheorems, TLAPS

Fields == {"state", "reader", "reqs", "segs", "loc", "wave", "flying", "bufs", "errs"}

\* The reads in flight belong to the wave that ends at f.wave.
Shaped(f) ==
  /\ DOMAIN f = Fields
  /\ f.segs \in Seq(Segment)
  /\ f.wave \in 0..Len(f.segs)
  /\ DOMAIN f.bufs = 1..Len(f.segs)
  /\ \A j \in f.flying : j \in 1..f.wave /\ f.wave - WaveSize(f) < j

\* Each of the first n segments is in flight, has failed or has its bytes.
Settled(f, n) ==
  \A j \in 1..n : j \in f.flying \/ j \in f.errs \/ f.bufs[j] = Bytes(file, f.segs[j])

\* The inductive invariant.  Completeness alone is not inductive: the step that
\* ends a batch needs to know of every earlier wave that it was settled.
BatchInv(f) ==
  /\ Shaped(f)
  /\ f.state \in {"none", "reading", "ok", "error"}
  /\ f.state = "reading" => Settled(f, f.wave)
  /\ f.state # "reading" => f.flying = {}
  /\ f.state = "ok" => f.errs = {} /\ Settled(f, Len(f.segs))

\* A wave has room for at least one read (kMaxConcurrent is positive).
LEMMA WaveSizePositive ==
  ASSUME NEW f PROVE WaveSize(f) \in Nat \ {0}
  BY ConcurrencyAssumption DEF WaveSize

\* NextWave keeps the invariant when nothing is in flight and all segments up to
\* the last one launched are settled: the loop head of read_batch.
LEMMA NextWaveInv ==
  ASSUME NEW f, Shaped(f), f.state = "reading", f.flying = {}, Settled(f, f.wave)
  PROVE  BatchInv(NextWave(f, f.wave))
<1> DEFINE g == NextWave(f, f.wave)
           n == Len(f.segs)
           w == WaveSize(f)
<1>1. n \in Nat /\ f.wave \in 0..n /\ w \in Nat \ {0}
  BY WaveSizePositive DEF Shaped
<1>2. CASE f.wave = n \/ (f.reader # "s3" /\ f.errs # {})
  <2>1. g = [f EXCEPT !.state = IF f.errs = {} THEN "ok" ELSE "error"]
    BY <1>2 DEF NextWave
  <2>2. /\ DOMAIN g = Fields
        /\ g.state = IF f.errs = {} THEN "ok" ELSE "error"
        /\ g.segs = f.segs /\ g.wave = f.wave /\ g.bufs = f.bufs /\ g.flying = {}
        /\ g.errs = f.errs /\ g.reader = f.reader
    BY <2>1 DEF Shaped, Fields
  <2>3. WaveSize(g) = w
    BY <2>2 DEF WaveSize
  <2>4. Shaped(g)
    BY <2>2, <2>3 DEF Shaped
  <2>5. ASSUME g.state = "ok" PROVE g.errs = {} /\ Settled(g, Len(g.segs))
    BY <1>2, <2>2, <2>5 DEF Settled
  <2>6. QED
    BY <2>2, <2>4, <2>5 DEF BatchInv
<1>3. CASE ~(f.wave = n \/ (f.reader # "s3" /\ f.errs # {}))
  <2> DEFINE e == WaveEnd(f, f.wave)
  <2>1. g = [f EXCEPT !.wave = e, !.flying = (f.wave + 1)..e]
    BY <1>3 DEF NextWave
  <2>2. /\ DOMAIN g = Fields
        /\ g.state = "reading" /\ g.wave = e /\ g.flying = (f.wave + 1)..e
        /\ g.segs = f.segs /\ g.bufs = f.bufs
        /\ g.errs = f.errs /\ g.reader = f.reader
    BY <2>1 DEF Shaped, Fields
  <2>3. e \in 0..n /\ e <= f.wave + w
    BY <1>1, <1>3 DEF WaveEnd
  <2>4. WaveSize(g) = w
    BY <2>2 DEF WaveSize
  <2> HIDE DEF g, e, n, w
  <2>5. ASSUME NEW j \in g.flying PROVE j \in 1..g.wave /\ g.wave - WaveSize(g) < j
    BY <1>1, <2>2, <2>3, <2>4
  <2>6. Shaped(g)
    BY <2>2, <2>3, <2>5 DEF Shaped, n
  <2>7. ASSUME NEW j \in 1..g.wave
        PROVE  j \in g.flying \/ j \in g.errs \/ g.bufs[j] = Bytes(file, g.segs[j])
    <3>1. j \in 1..f.wave \/ j \in g.flying
      BY <1>1, <2>2, <2>3, <2>7
    <3>2. QED
      BY <2>2, <3>1 DEF Settled
  <2>8. Settled(g, g.wave)
    BY <2>7 DEF Settled
  <2>9. BatchInv(g)
    BY <2>2, <2>6, <2>8 DEF BatchInv
  <2>10. QED
    BY <2>9 DEF g
<1>4. QED
  BY <1>2, <1>3

\* A new batch of any segments satisfies the invariant (the entry of read_batch).
LEMMA LaunchInv ==
  ASSUME NEW reader, NEW reqs, NEW segs \in Seq(Segment), NEW loc
  PROVE  BatchInv(Launch(reader, reqs, segs, loc))
<1> DEFINE f == [NoFetch EXCEPT !.state = "reading", !.reader = reader, !.reqs = reqs,
                                !.segs = segs, !.loc = loc,
                                !.bufs = [i \in 1..Len(segs) |-> <<>>]]
<1>1. /\ DOMAIN f = Fields
      /\ f.state = "reading" /\ f.segs = segs /\ f.wave = 0 /\ f.flying = {}
      /\ f.bufs = [i \in 1..Len(segs) |-> <<>>]
  BY DEF NoFetch, Fields
<1>2. Launch(reader, reqs, segs, loc) = NextWave(f, 0)
  BY DEF Launch
<1> HIDE DEF f
<1>3. Shaped(f)
  BY <1>1 DEF Shaped
<1>4. Settled(f, f.wave)
  BY <1>1 DEF Settled
<1>5. QED
  BY <1>1, <1>2, <1>3, <1>4, NextWaveInv

\* A GET that returns, one way or the other, keeps the invariant.
LEMMA ReturnInv ==
  ASSUME NEW f, BatchInv(f), f.state = "reading", NEW i \in f.flying, NEW ok \in BOOLEAN
  PROVE  BatchInv(AfterReturn(f, i, ok, file))
<1> DEFINE g == [f EXCEPT !.flying = @ \ {i}, !.errs = IF ok THEN @ ELSE @ \cup {i},
                          !.bufs[i] = IF ok THEN Bytes(file, f.segs[i]) ELSE <<>>]
<1>1. Shaped(f) /\ Settled(f, f.wave) /\ i \in 1..f.wave /\ f.wave \in 0..Len(f.segs)
      /\ Len(f.segs) \in Nat
  BY DEF BatchInv, Shaped
<1>2. i \in DOMAIN f.bufs
  BY <1>1 DEF Shaped
<1>3. /\ DOMAIN g = Fields
      /\ g.state = "reading" /\ g.segs = f.segs /\ g.wave = f.wave /\ g.reader = f.reader
      /\ g.flying = f.flying \ {i}
      /\ g.errs = IF ok THEN f.errs ELSE f.errs \cup {i}
      /\ g.bufs = [f.bufs EXCEPT ![i] = IF ok THEN Bytes(file, f.segs[i]) ELSE <<>>]
  BY <1>1 DEF Shaped, Fields
<1>4. AfterReturn(f, i, ok, file) = IF g.flying # {} THEN g ELSE NextWave(g, f.wave)
  BY DEF AfterReturn
<1> HIDE DEF g
<1>5. WaveSize(g) = WaveSize(f)
  BY <1>3 DEF WaveSize
<1>6. Shaped(g)
  BY <1>1, <1>3, <1>5 DEF Shaped
<1>7. ASSUME NEW j \in 1..g.wave
      PROVE  j \in g.flying \/ j \in g.errs \/ g.bufs[j] = Bytes(file, g.segs[j])
  <2>1. CASE j = i
    BY <1>2, <1>3, <2>1
  <2>2. CASE j # i
    <3>1. j \in f.flying \/ j \in f.errs \/ f.bufs[j] = Bytes(file, f.segs[j])
      BY <1>1, <1>3, <1>7 DEF Settled
    <3>2. g.bufs[j] = f.bufs[j]
      BY <1>1, <1>3, <1>7, <2>2 DEF Shaped
    <3>3. QED
      BY <1>3, <2>2, <3>1, <3>2
  <2>3. QED
    BY <2>1, <2>2
<1>8. Settled(g, g.wave)
  BY <1>7 DEF Settled
<1>9. CASE g.flying # {}
  <2>1. BatchInv(g)
    BY <1>3, <1>6, <1>8 DEF BatchInv
  <2>2. QED
    BY <1>4, <1>9, <2>1
<1>10. CASE g.flying = {}
  BY <1>3, <1>4, <1>6, <1>8, <1>10, NextWaveInv
<1>11. QED
  BY <1>9, <1>10

\* It holds of no batch, and of one that was refused or dropped.
LEMMA IdleInv ==
  ASSUME NEW f, DOMAIN f = Fields, f.state \in {"none", "error"},
         f.segs = <<>>, f.wave = 0, f.flying = {}, f.bufs = <<>>
  PROVE  BatchInv(f)
<1>1. <<>> \in Seq(Segment)
  OBVIOUS
<1>2. Len(<<>>) = 0 /\ DOMAIN <<>> = 1..0
  OBVIOUS
<1>3. Shaped(f)
  BY <1>1, <1>2 DEF Shaped
<1>4. QED
  BY <1>3 DEF BatchInv

\* The invariant holds of the batch in progress, whatever batches are read and
\* however their GETs interleave and fail (S3FileReader::read_batch).
THEOREM BatchInvariant == Spec => []BatchInv(io)
<1>1. Init => BatchInv(io)
  BY IdleInv DEF Init, NoFetch, Fields
<1>2. ASSUME BatchInv(io), [Next]_<<io, file>> PROVE BatchInv(io)'
  <2>1. CASE Start
    <3>1. file' = file /\ BatchInv(io')
      BY <2>1, LaunchInv DEF Start
    <3>2. QED
      BY <3>1 DEF BatchInv, Shaped, Settled, WaveSize
  <2>2. CASE Refuse
    <3>1. file' = file /\ BatchInv(io')
      BY <2>2, IdleInv DEF Refuse, NoFetch, Fields
    <3>2. QED
      BY <3>1 DEF BatchInv, Shaped, Settled, WaveSize
  <2>3. CASE Drop
    <3>1. file' = file /\ BatchInv(io')
      BY <2>3, IdleInv DEF Drop, NoFetch, Fields
    <3>2. QED
      BY <3>1 DEF BatchInv, Shaped, Settled, WaveSize
  <2>4. CASE Return
    <3>1. file' = file /\ BatchInv(io')
      BY <1>2, <2>4, ReturnInv DEF Return
    <3>2. QED
      BY <3>1 DEF BatchInv, Shaped, Settled, WaveSize
  <2>5. CASE Replace
    BY <1>2, <2>5 DEF Replace, BatchInv, Shaped, Settled, WaveSize
  <2>6. CASE UNCHANGED <<io, file>>
    BY <1>2, <2>6 DEF BatchInv, Shaped, Settled, WaveSize
  <2>7. QED
    BY <1>2, <2>1, <2>2, <2>3, <2>4, <2>5, <2>6 DEF Next
<1>3. QED
  BY <1>1, <1>2, PTL DEF Spec

\* However many segments a batch has, no more than kMaxConcurrent of its GETs are
\* in flight, and one read of a local file (S3FileReader::read_batch).
THEOREM InFlight == Spec => []InFlightBounded
<1>1. ASSUME BatchInv(io) PROVE InFlightBounded
  <2> DEFINE w == WaveSize(io)
             a == (io.wave - w) + 1
  <2>1. w \in Nat \ {0} /\ io.wave \in Nat
    BY <1>1, WaveSizePositive DEF BatchInv, Shaped
  <2>2. io.flying \in SUBSET (a..io.wave)
    BY <1>1, <2>1 DEF BatchInv, Shaped
  <2> HIDE DEF w
  <2>3. a \in Int /\ io.wave \in Int /\ a <= io.wave /\ (io.wave - a) + 1 = w
    BY <2>1
  <2> HIDE DEF a
  <2>4. IsFiniteSet(a..io.wave) /\ Cardinality(a..io.wave) = w
    <3>1. /\ IsFiniteSet(a..io.wave)
          /\ Cardinality(a..io.wave) = IF a > io.wave THEN 0 ELSE io.wave - a + 1
      BY <2>3, FS_Interval
    <3>2. QED
      BY <2>3, <3>1
  <2>5. Cardinality(io.flying) <= w
    BY <2>2, <2>3, <2>4, FS_Subset
  <2>6. QED
    BY <2>5 DEF InFlightBounded, w
<1>2. QED
  BY <1>1, BatchInvariant, PTL

\* A batch that succeeds has the bytes of every one of its segments, and no GET of
\* it is still writing to a buffer (S3FileReader::read_batch, FileReader::read_batch).
THEOREM Complete == Spec => []BatchComplete(file)
<1>1. ASSUME BatchInv(io) PROVE BatchComplete(file)
  BY <1>1 DEF BatchInv, Settled, BatchComplete
<1>2. QED
  BY <1>1, BatchInvariant, PTL

=============================================================================
