----------------------------- MODULE RangeFetch -----------------------------
(***************************************************************************)
(* Reading ranges: BatchRangeFetcher merges the requests of a plan into    *)
(* physical segments, MeteredFileReader accounts for the blocks they       *)
(* touch, and the backend reads the segments                               *)
(* (core/src/io/batch_range_fetcher.cpp, metered_file_reader.cpp).         *)
(*                                                                         *)
(* A range is [offset, len].                                               *)
(***************************************************************************)
EXTENDS Encoding, ReadBatch

CONSTANT MeterBlock       \* block_size_ of the metered reader (1 MiB)

VARIABLE meter            \* the metered reader: resident_ and metrics_

(***************************************************************************)
(* BatchRangeFetcher::fetch: [segs, end, loc], loc[h] the place of request *)
(* h, its segment and the offset within it.                                *)
(***************************************************************************)
OffsetOrder(reqs) ==
  LET offsets == Sorted({reqs[h].offset : h \in 1..Len(reqs)})
  IN  Concat([i \in 1..Len(offsets) |->
        SelectSeq(Count(Len(reqs)), LAMBDA h : reqs[h].offset = offsets[i])])

\* Fault: a segment ends where its last request ends.
BadSweep(acc, h, r, gap) ==
  LET new  == acc.segs = <<>> \/ r.offset - acc.end > gap
      segs == IF new THEN Append(acc.segs, r) ELSE acc.segs
      end  == r.offset + r.len
      n    == Len(segs)
  IN  [segs |-> [segs EXCEPT ![n].len = end - segs[n].offset], end |-> end,
       loc  |-> [acc.loc EXCEPT ![h] = [phys |-> n, sub |-> r.offset - segs[n].offset]]]
Sweep(acc, h, r, gap) ==
  LET new  == acc.segs = <<>> \/ r.offset - acc.end > gap
      segs == IF new THEN Append(acc.segs, r) ELSE acc.segs
      end  == IF new \/ r.offset + r.len > acc.end THEN r.offset + r.len ELSE acc.end
      n    == Len(segs)
  IN  [segs |-> [segs EXCEPT ![n].len = end - segs[n].offset], end |-> end,
       loc  |-> [acc.loc EXCEPT ![h] = [phys |-> n, sub |-> r.offset - segs[n].offset]]]

PlanFetch(reqs, gap) ==
  Fold(LAMBDA acc, h : Sweep(acc, h, reqs[h], gap),
       [segs |-> <<>>, end |-> 0, loc |-> [h \in 1..Len(reqs) |-> [phys |-> 0, sub |-> 0]]],
       OffsetOrder(reqs))

(***************************************************************************)
(* MeteredFileReader.                                                      *)
(***************************************************************************)
ColdMeter == [resident |-> {}, calls |-> 0, rounds |-> 0, gets |-> 0, bytes |-> 0,
              requested |-> 0]

BlockRange(r) ==
  IF r.len = 0 THEN {} ELSE (r.offset \div MeterBlock)..((r.offset + r.len - 1) \div MeterBlock)

BlockBytes(b, total) ==
  IF total - b * MeterBlock < MeterBlock THEN total - b * MeterBlock ELSE MeterBlock

\* Fault: a block that is resident already is fetched and counted again.
BadAccountBlocks(m, touched, total) ==
  [m EXCEPT !.resident = @ \cup touched,
            !.bytes = @ + MapThenSumSet(LAMBDA b : BlockBytes(b, total), touched),
            !.gets = @ + Cardinality({b \in touched : b - 1 \notin touched}),
            !.rounds = @ + (IF touched = {} THEN 0 ELSE 1)]
\* Touching blocks: the missing ones are fetched, a run of neighbours by one
\* GET, all of them in one round.
AccountBlocks(m, touched, total) ==
  LET misses == touched \ m.resident
  IN  [m EXCEPT !.resident = @ \cup misses,
                !.bytes = @ + MapThenSumSet(LAMBDA b : BlockBytes(b, total), misses),
                !.gets = @ + Cardinality({b \in misses : b - 1 \notin misses}),
                !.rounds = @ + (IF misses = {} THEN 0 ELSE 1)]

ValidateRange(r, total) == r.offset <= total /\ r.len <= total - r.offset

MeterReadAt(m, r, total) ==
  AccountBlocks([m EXCEPT !.calls = @ + 1, !.requested = @ + r.len], BlockRange(r), total)

\* Fault: the ranges of a batch are accounted for one after the other.
BadMeterReadBatch(m, ranges, total) ==
  Fold(LAMBDA a, r : MeterReadAt(a, r, total), m, ranges)
\* A batch is one round, whatever it touches.
MeterReadBatch(m, ranges, total) ==
  AccountBlocks([m EXCEPT !.calls = @ + Len(ranges),
                          !.requested = @ + Fold(LAMBDA a, r : a + r.len, 0, ranges)],
                UNION {BlockRange(ranges[i]) : i \in 1..Len(ranges)}, total)

(***************************************************************************)
(* A fetch through the metered reader: the new io and meter.  The blocks   *)
(* count as resident before the backend has read them.                     *)
(***************************************************************************)
StartFetch(reqs, gap, reader, file, m) ==
  LET plan == PlanFetch(reqs, gap)
  IN  IF \A i \in 1..Len(plan.segs) : ValidateRange(plan.segs[i], Len(file))
      THEN [io |-> Launch(reader, reqs, plan.segs, plan.loc),
            meter |-> MeterReadBatch(m, plan.segs, Len(file))]
      ELSE [io |-> [NoFetch EXCEPT !.state = "error"], meter |-> m]

\* BatchRangeFetcher::get.
Got(h) == Take(io.bufs[io.loc[h].phys], io.loc[h].sub, io.reqs[h].len)

=============================================================================
