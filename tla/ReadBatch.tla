----------------------------- MODULE ReadBatch ------------------------------
(***************************************************************************)
(* read_batch: the segments of a batch are read in waves.  S3FileReader    *)
(* launches up to kMaxConcurrent GETs, waits for all of them, and goes on  *)
(* to the next wave also after an error; a local file reads one segment    *)
(* after the other and stops at the first error                            *)
(* (core/src/io/s3_object_store.cpp, core/include/snii/io/file_reader.h).  *)
(*                                                                         *)
(* A segment is [offset, len].                                             *)
(***************************************************************************)
EXTENDS Integers, Sequences, FiniteSets

CONSTANT kMaxConcurrent      \* GETs in flight in a wave (16)

ASSUME ConcurrencyAssumption == kMaxConcurrent \in Nat \ {0}

VARIABLE io                  \* the batch in progress: see NoFetch

\* flying are the segments of the current wave still to return, wave is the
\* last segment of it, errs the segments that failed; reqs and loc belong to
\* the planner of the batch.
NoFetch == [state |-> "none", reader |-> "", reqs |-> <<>>, segs |-> <<>>, loc |-> <<>>,
            wave |-> 0, flying |-> {}, bufs |-> <<>>, errs |-> {}]

Bytes(file, s) == SubSeq(file, s.offset + 1, s.offset + s.len)

WaveSize(f) == IF f.reader = "s3" THEN kMaxConcurrent ELSE 1

\* The wave after segment i: the last segment of it.
WaveEnd(f, i) == IF i + WaveSize(f) < Len(f.segs) THEN i + WaveSize(f) ELSE Len(f.segs)

\* Fault: all that is left is launched at once.
BadNextWave(f, i) ==
  IF i = Len(f.segs) \/ (f.reader # "s3" /\ f.errs # {})
  THEN [f EXCEPT !.state = IF f.errs = {} THEN "ok" ELSE "error"]
  ELSE [f EXCEPT !.wave = Len(f.segs), !.flying = (i + 1)..Len(f.segs)]
\* Segments up to i are back: the next wave, or the end of the batch.
NextWave(f, i) ==
  IF i = Len(f.segs) \/ (f.reader # "s3" /\ f.errs # {})
  THEN [f EXCEPT !.state = IF f.errs = {} THEN "ok" ELSE "error"]
  ELSE [f EXCEPT !.wave = WaveEnd(f, i), !.flying = (i + 1)..WaveEnd(f, i)]

\* Segment i returns: with its bytes, or not ok (a failed GET, a short body).
AfterReturn(f, i, ok, file) ==
  LET g == [f EXCEPT !.flying = @ \ {i}, !.errs = IF ok THEN @ ELSE @ \cup {i},
                     !.bufs[i] = IF ok THEN Bytes(file, f.segs[i]) ELSE <<>>]
  IN  IF g.flying # {} THEN g ELSE NextWave(g, f.wave)

\* A new batch of segments.
Launch(reader, reqs, segs, loc) ==
  NextWave([NoFetch EXCEPT !.state = "reading", !.reader = reader, !.reqs = reqs,
                           !.segs = segs, !.loc = loc,
                           !.bufs = [i \in 1..Len(segs) |-> <<>>]], 0)

\* No more than kMaxConcurrent GETs are in flight, one read for a local file
\* (S3FileReader::read_batch).
InFlightBounded == Cardinality(io.flying) <= WaveSize(io)

\* A batch that succeeded has the bytes of every segment, and no segment is
\* still being read into a buffer the caller now owns (read_batch).
BatchComplete(file) ==
  io.state = "ok" =>
    io.flying = {} /\ \A i \in 1..Len(io.segs) : io.bufs[i] = Bytes(file, io.segs[i])

=============================================================================
