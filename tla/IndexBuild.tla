----------------------------- MODULE IndexBuild -----------------------------
(***************************************************************************)
(* Building one logical index into a container on object storage: the      *)
(* terms stream in sorted order, postings go straight to the output, the   *)
(* dictionary blocks to a buffer that moves to a temporary file when the   *)
(* writer's shared memory cap is reached, and the finished container is    *)
(* uploaded with one PutObject                                             *)
(* (core/src/writer/logical_index_writer.cpp, snii_compound_writer.cpp,    *)
(* core/include/snii/writer/spillable_byte_buffer.h, memory_reporter.h,    *)
(* S3FileWriter of core/src/io/s3_object_store.cpp).                       *)
(*                                                                         *)
(* The input is a corpus: for every document the sequence of its           *)
(* <<term, position>> occurrences, by position.                            *)
(***************************************************************************)
EXTENDS LogicalIndex

CONSTANTS Builds,        \* the builds: [corpus, cfg], cfg = [tier, target, cap,
                         \* resident_max, reader, rot]
          CopyChunk,     \* bytes of a copy step of stream_into (1 MiB)
          MaxFaults      \* how many I/O faults may happen in a behaviour

VARIABLES corpus,        \* the corpus being indexed
          cfg,           \* the configuration of the build and of its readers
          phase,         \* where the caller is
          next,          \* the next term of the stream
          out,           \* S3FileWriter::buffer_: the container so far
          block,         \* the open dictionary block, or NoBlock
          dict,          \* dict_buf_
          reported,      \* MemoryReporter::current_
          blocks,        \* blocks_: one record per flushed block
          dict_off,      \* Placement::dict_off
          object,        \* the stored object, <<>> while there is none
          faults         \* I/O faults so far

buildVars == <<corpus, cfg, phase, next, out, block, dict, reported, blocks, dict_off, object>>

(***************************************************************************)
(* The corpus as the sorted term stream the writer drains.                 *)
(***************************************************************************)
DocIds == Sorted(DOMAIN corpus)
Places(d, t) == {corpus[d][i][2] : i \in {j \in 1..Len(corpus[d]) : corpus[d][j][1] = t}}
TermSet == UNION {{corpus[d][i][1] : i \in 1..Len(corpus[d])} : d \in DOMAIN corpus}
DocsOf(t) == {d \in DOMAIN corpus : Places(d, t) # {}}

TermPostings(t) ==
  LET docs  == Sorted(DocsOf(t))
      lists == Eager([i \in 1..Len(docs) |-> Sorted(Places(docs[i], t))])
  IN  [term |-> t, docids |-> docs, freqs |-> Eager([i \in 1..Len(docs) |-> Len(lists[i])]),
       positions |-> Concat(lists)]

TermStream == SetToSortSeq(TermSet, TermLess)

\* A norm byte per document: the caller's encoding of its length.
Norms == IF cfg.tier < 3 THEN <<>> ELSE [i \in 1..Cardinality(DOMAIN corpus) |->
                                           Len(corpus[DocIds[i]])]
Writer == [id |-> 7, suffix |-> <<>>, tier |-> cfg.tier, norms |-> Eager(Norms)]
Stats == [doc_count |-> Cardinality(DOMAIN corpus), indexed_doc_count |-> Cardinality(DOMAIN corpus),
          term_count |-> Cardinality(TermSet), null_count |-> 0,
          sum_total_term_freq |-> SeqSum([i \in 1..Len(DocIds) |-> Len(corpus[DocIds[i]])])]

(***************************************************************************)
(* SpillableByteBuffer.  An operation that writes has several outcomes.    *)
(***************************************************************************)
NoBlock == <<>>
EmptyBuffer == [chunks |-> <<>>, temp |-> <<>>, spilled |-> FALSE, sealed |-> FALSE]
RamBytes(d) == Len(Concat(d.chunks))
BufferSize(d) == IF d.spilled THEN Len(d.temp) ELSE RamBytes(d)

OverCap(current) == cfg.cap # 0 /\ current >= cfg.cap

\* Fault: the bytes that moved to disk stay counted as memory.
BadSpillToDisk(d, current) ==
  {[d |-> [d EXCEPT !.temp = Concat(d.chunks), !.chunks = <<>>, !.spilled = TRUE],
    current |-> current, ok |-> TRUE],
   [d |-> d, current |-> current, ok |-> FALSE]}
SpillToDisk(d, current) ==
  {[d |-> [d EXCEPT !.temp = Concat(d.chunks), !.chunks = <<>>, !.spilled = TRUE],
    current |-> current - RamBytes(d), ok |-> TRUE],
   [d |-> d, current |-> current, ok |-> FALSE]}

\* Fault: the block that reaches the cap is lost by the spill it causes.
BadAppendMove(d, current, bytes) ==
  LET d1 == [d EXCEPT !.chunks = Append(@, bytes)]
      c1 == current + Len(bytes)
  IN  IF d.spilled
      THEN {[d |-> [d EXCEPT !.temp = @ \o bytes], current |-> current, ok |-> TRUE],
            [d |-> d, current |-> current, ok |-> FALSE]}
      ELSE IF OverCap(c1) THEN SpillToDisk(d, current)
      ELSE {[d |-> d1, current |-> c1, ok |-> TRUE]}
AppendMove(d, current, bytes) ==
  LET d1 == [d EXCEPT !.chunks = Append(@, bytes)]
      c1 == current + Len(bytes)
  IN  IF d.spilled
      THEN {[d |-> [d EXCEPT !.temp = @ \o bytes], current |-> current, ok |-> TRUE],
            [d |-> d, current |-> current, ok |-> FALSE]}
      ELSE IF OverCap(c1) THEN SpillToDisk(d1, c1)
      ELSE {[d |-> d1, current |-> c1, ok |-> TRUE]}

\* The sealed buffer in append order: its chunks, or the temporary file read
\* back in windows of CopyChunk bytes.
StreamInto(d) ==
  LET n == Len(d.temp)
  IN  IF ~d.spilled THEN Concat(d.chunks)
      ELSE Concat([k \in 1..CeilDiv(n, CopyChunk) |->
             Take(d.temp, (k - 1) * CopyChunk, MinOf(CopyChunk, n - (k - 1) * CopyChunk))])

(***************************************************************************)
(* The build.                                                              *)
(***************************************************************************)
FreshWriter ==
  /\ phase' = "terms" /\ next' = 1 /\ out' = EncodeBootstrapHeader
  /\ block' = NoBlock /\ dict' = EmptyBuffer /\ reported' = 0 /\ blocks' = <<>>
  /\ dict_off' = 0

BuildInit ==
  /\ \E b \in Builds : corpus = b.corpus /\ cfg = b.cfg
  /\ phase = "terms" /\ next = 1 /\ out = EncodeBootstrapHeader
  /\ block = NoBlock /\ dict = EmptyBuffer /\ reported = 0 /\ blocks = <<>>
  /\ dict_off = 0 /\ object = <<>> /\ faults = 0

\* A fault is possible only while the budget lasts.
Charge(ok) ==
  IF ok THEN faults' = faults ELSE faults < MaxFaults /\ faults' = faults + 1

\* flush_block of b into the buffer; then is the caller's phase on success.
FlushInto(b, then) ==
  \E f \in {FlushBlock(b, cfg.tier, BufferSize(dict))} :
    \E o \in AppendMove(dict, reported, f.bytes) :
      /\ Charge(o.ok)
      /\ dict' = o.d /\ reported' = o.current
      /\ blocks' = IF o.ok THEN Append(blocks, f.rec) ELSE blocks
      /\ block' = IF o.ok THEN NoBlock ELSE b
      /\ phase' = IF o.ok THEN then ELSE "failed"

PostingSize == Len(out) - kBootstrapHeaderSize

OpenBlock ==
  IF block # NoBlock THEN block
  ELSE [frq_base |-> PostingSize, prx_base |-> PostingSize, entries |-> <<>>]

ProcessTerm ==
  /\ phase = "terms" /\ next <= Len(TermStream)
  /\ next' = next + 1
  /\ \E tp \in {TermPostings(TermStream[next])} :
       /\ ValidateTerm(tp, cfg.tier)
       /\ \E e \in {BuildEntry(tp, Writer, PostingSize, OpenBlock.frq_base)} :
            LET full == [OpenBlock EXCEPT !.entries = Append(@, e.entry)]
            IN  /\ out' = out \o e.out
                /\ IF EstimatedBytes(full, HasPrx(cfg.tier)) >= cfg.target
                   THEN FlushInto(full, "terms")
                   ELSE block' = full /\ UNCHANGED <<dict, reported, blocks, phase, faults>>
  /\ UNCHANGED <<corpus, cfg, dict_off, object>>

\* The last block, open when the stream ends.
FinalFlush ==
  /\ phase = "terms" /\ next > Len(TermStream)
  /\ IF block = NoBlock
     THEN phase' = "seal" /\ UNCHANGED <<dict, reported, blocks, block, faults>>
     ELSE FlushInto(block, "seal")
  /\ UNCHANGED <<corpus, cfg, next, out, dict_off, object>>

\* seal(): finalize of the temporary file, nothing for a resident buffer.
Seal ==
  /\ phase = "seal"
  /\ \E ok \in IF dict.spilled THEN BOOLEAN ELSE {TRUE} :
       /\ Charge(ok)
       /\ dict' = [dict EXCEPT !.sealed = dict.spilled /\ ok]
       /\ phase' = IF ok THEN "stream" ELSE "failed"
  /\ UNCHANGED <<corpus, cfg, next, out, block, reported, blocks, dict_off, object>>

StreamDictRegion ==
  /\ phase = "stream"
  /\ \E ok \in IF dict.spilled THEN BOOLEAN ELSE {TRUE} :
       /\ Charge(ok)
       /\ out' = IF ok THEN out \o StreamInto(dict) ELSE out
       /\ phase' = IF ok THEN "finish" ELSE "failed"
  /\ dict_off' = Len(out)
  /\ UNCHANGED <<corpus, cfg, next, block, dict, reported, blocks, object>>

TermHashes == [i \in 1..Len(TermStream) |-> BsbfHash(TermStream[i])]

\* finish() up to the upload.
Finish ==
  /\ phase = "finish"
  /\ out' = FinishContainer(out, Writer, Stats, blocks, Eager(TermHashes),
                            kBootstrapHeaderSize, dict_off)
  /\ phase' = "put"
  /\ UNCHANGED <<corpus, cfg, next, block, dict, reported, blocks, dict_off, object, faults>>

\* S3FileWriter::finalize.  A failed call may have stored the object all the
\* same; the writer is not finalized and the caller may call again, or give up.
Finalize ==
  /\ phase = "put"
  /\ \E ok \in BOOLEAN, stored \in BOOLEAN :
       /\ ok => stored
       /\ Charge(ok)
       /\ object' = IF stored THEN out ELSE object
       /\ phase' \in IF ok THEN {"stored"} ELSE {"put", "failed"}
  /\ UNCHANGED <<corpus, cfg, next, out, block, dict, reported, blocks, dict_off>>

\* The destructors: a buffer that never spilled gives its bytes back.
DestroyWriter ==
  /\ phase \in {"stored", "failed"}
  /\ reported' = IF dict.spilled THEN reported ELSE reported - RamBytes(dict)
  /\ dict' = EmptyBuffer /\ out' = <<>> /\ block' = NoBlock /\ blocks' = <<>>
  /\ phase' = IF phase = "stored" THEN "closed" ELSE "abandoned"
  /\ UNCHANGED <<corpus, cfg, next, dict_off, object, faults>>

\* The caller starts over after a failed build.
Rebuild ==
  /\ phase = "abandoned"
  /\ FreshWriter
  /\ UNCHANGED <<corpus, cfg, object, faults>>

BuildNext ==
  \/ ProcessTerm \/ FinalFlush \/ Seal \/ StreamDictRegion \/ Finish \/ Finalize
  \/ DestroyWriter \/ Rebuild

=============================================================================
