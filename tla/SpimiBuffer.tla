---------------------------- MODULE SpimiBuffer ----------------------------
(***************************************************************************)
(* SpimiTermBuffer with its spill runs: tokens accumulate in per-term      *)
(* chains, a memory trigger drains them to a sorted run file, and one      *)
(* final drain hands the postings of every term, in string order, to the   *)
(* index writer -- from memory, or through the k-way merge of the runs.    *)
(*                                                                         *)
(* A term is a number, its string order the order of numbers.  A chain     *)
(* keeps the tagged entries (position, new-doc bit, docid delta), not      *)
(* their varint bytes (the arena itself is module PostingPool).  A token's *)
(* position is its rank in the feed, so a position names one token.        *)
(***************************************************************************)
EXTENDS Integers, Sequences, FiniteSets, FiniteSetsExt

CONSTANTS
    Terms,          \* term strings
    Docs,           \* docids
    InitVocab,      \* the borrowed vocabulary; <<>> for owned-vocab mode
    HasPositions,   \* has_positions_
    Caps,           \* values of the reporter's cap_bytes (0 = unlimited)
    ArenaSpillCap,  \* kArenaSpillCap
    SlimDf,         \* kSlimDfThreshold
    StreamTokens,   \* kStreamPositionsTokenThreshold
    SpillFaults,    \* outcomes of a spill: "none", "space", "open", "write"
    MaxTokens       \* bound on the tokens fed

\* The strings of a vocabulary are distinct; the limits are those of the code.
ASSUME SpimiAssumption ==
    /\ Terms \subseteq Nat /\ Docs \subseteq Nat
    /\ InitVocab \in Seq(Terms)
    /\ \A i, j \in DOMAIN InitVocab : InitVocab[i] = InitVocab[j] => i = j
    /\ HasPositions \in BOOLEAN
    /\ Caps \subseteq Nat
    /\ ArenaSpillCap \in Nat \ {0}
    /\ SpillFaults \subseteq {"none", "space", "open", "write"}

Owned == InitVocab = <<>>

VARIABLES
    buf,     \* the members of the buffer, the reporter and the run files
    phase,   \* "fill", "merge" (inside MergeRuns), "done", "gone" (destroyed)
    kind,    \* which drain runs: "each" (for_each_term_sorted) or "final"
    pos,     \* per run, the record its reader stands at
    out,     \* the TermPostings handed to the caller
    ret,     \* the status the drain returned, "none" before
    fed      \* history: the tokens accumulated

vars == <<buf, phase, kind, pos, out, ret, fed>>

EmptyTerm == [chain |-> <<>>, cur_docid |-> 0, started |-> FALSE, sorted |-> TRUE]
NoPostings == [docids |-> <<>>, freqs |-> <<>>, flat |-> <<>>]

\* back() and pop_back() of a vector.
Last(s) == s[Len(s)]
Front(s) == SubSeq(s, 1, Len(s) - 1)

----------------------------------------------------------------------------
(* Memory accounting. *)

\* resident_bytes: the arena plus the slot index, in abstract units.
Resident(b) == b.arena + Len(b.slot_of)

\* Fault: the delta with its operands swapped.
BadReport(b) ==
    [b EXCEPT !.current = @ + b.reported - Resident(b), !.reported = Resident(b)]

\* report_arena_delta: the signed change goes to the writer-level reporter.
Report(b) ==
    [b EXCEPT !.current = @ + Resident(b) - b.reported, !.reported = Resident(b)]

OverCap(b) == b.cap # 0 /\ b.current >= b.cap
ArenaNearLimit(b) == b.arena >= ArenaSpillCap

----------------------------------------------------------------------------
(* Slots and chains. *)

\* term_slot: the live slot of an id, a recycled one, or a fresh one.
TermSlot(b, id) ==
    IF b.slot_of[id] # 0 THEN b
    ELSE LET recycled == b.free # <<>>
             slot     == IF recycled THEN Last(b.free) ELSE Len(b.slots) + 1
         IN  [b EXCEPT !.slot_of[id] = slot,
                       !.free = IF recycled THEN Front(@) ELSE @,
                       !.slots = IF recycled THEN @ ELSE Append(@, EmptyTerm),
                       !.touched = @ \cup {id}]

\* Fault: the ids keep their slots after the slots are recycled.
BadReleaseTerms(b, ids) ==
    LET freed == [i \in 1..Len(ids) |-> b.slot_of[ids[i]]]
    IN  [b EXCEPT !.slots = [s \in 1..Len(@) |-> IF s \in Range(freed) THEN EmptyTerm ELSE @[s]],
                  !.free = @ \o freed]

\* release_term of one id after the other: its slot is emptied and recycled.
ReleaseTerms(b, ids) ==
    LET freed == [i \in 1..Len(ids) |-> b.slot_of[ids[i]]]
    IN  [b EXCEPT !.slots = [s \in 1..Len(@) |-> IF s \in Range(freed) THEN EmptyTerm ELSE @[s]],
                  !.free = @ \o freed,
                  !.slot_of = [id \in 1..Len(@) |-> IF id \in Range(ids) THEN 0 ELSE @[id]]]

\* The entry accumulate appends, and the growth of the arena it causes.
Accumulate(b, id, d, p, grow) ==
    LET s == TermSlot(b, id)
        t == s.slots[s.slot_of[id]]
        new_doc == ~t.started \/ t.cur_docid # d
        entry == [pos   |-> IF HasPositions THEN p ELSE 0,
                  new   |-> new_doc,
                  delta |-> IF new_doc THEN d - t.cur_docid ELSE 0]
    IN  Report([s EXCEPT
           !.slots[s.slot_of[id]] =
               [chain |-> Append(t.chain, entry), cur_docid |-> d, started |-> TRUE,
                sorted |-> t.sorted /\ ~(t.started /\ d < t.cur_docid)],
           !.arena = @ + grow])

----------------------------------------------------------------------------
(* Decoding a chain: to_postings. *)

\* One entry of the chain: the next token of the current document, or the first
\* of a document whose docid is delta away.
DecodeEntry(a, e) ==
    LET prev == a.prev + e.delta
        n    == Len(a.docids)
    IN  [prev   |-> prev,
         docids |-> IF e.new THEN Append(a.docids, prev) ELSE a.docids,
         freqs  |-> IF e.new THEN Append(a.freqs, 1) ELSE [a.freqs EXCEPT ![n] = @ + 1],
         flat   |-> IF HasPositions THEN Append(a.flat, e.pos) ELSE <<>>]

NoEntries == [prev |-> 0, docids |-> <<>>, freqs |-> <<>>, flat |-> <<>>]

\* The loop over a chain's entries, the oldest first.
DecodeChain(chain) ==
    MapThenFoldSet(LAMBDA e, a : DecodeEntry(a, e), NoEntries,
                   LAMBDA i : chain[i], Max, DOMAIN chain)

\* The elements of a set of numbers in ascending order.
InOrder(S) ==
    [i \in 1..Cardinality(S) |-> CHOOSE d \in S : Cardinality({e \in S : e < d}) = i - 1]

\* SortByDocid: a stable sort of the doc groups by docid; groups of one docid are
\* coalesced, and every group takes its positions along.
SortByDocid(p) ==
    LET docs    == InOrder(Range(p.docids))
        before(g) == {h \in DOMAIN p.docids :
                         p.docids[h] < p.docids[g] \/ (p.docids[h] = p.docids[g] /\ h < g)}
        from(g) == SumFunctionOnSet(p.freqs, 1..(g - 1))
        to(g)   == SumFunctionOnSet(p.freqs, before(g))
        at(n)   == CHOOSE g \in DOMAIN p.docids : to(g) < n /\ n <= to(g) + p.freqs[g]
    IN  [docids |-> docs,
         freqs  |-> [i \in 1..Len(docs) |->
                        SumFunctionOnSet(p.freqs, {g \in DOMAIN p.docids : p.docids[g] = docs[i]})],
         flat   |-> [n \in 1..Len(p.flat) |-> p.flat[from(at(n)) + n - to(at(n))]]]

WithPump(p, pump) == [docids |-> p.docids, freqs |-> p.freqs, flat |-> p.flat, pump |-> pump]

\* to_postings.  pump: the positions are not materialized but pulled by the
\* caller, in chain order, while the drain runs; flat is then what it pulls.
ToPostings(t, allow_stream) ==
    LET d      == DecodeChain(t.chain)
        stream == allow_stream /\ HasPositions /\ t.sorted /\ Len(t.chain) >= StreamTokens
    IN  WithPump(IF t.sorted THEN d ELSE SortByDocid(d), stream /\ Len(d.docids) >= SlimDf)

----------------------------------------------------------------------------
(* Draining the chains in string order. *)

\* ensure_string_rank: the cached rank of each id, rebuilt when its length
\* differs from the vocabulary's.
EnsureStringRank(b) ==
    IF Len(b.rank) = Len(b.vocab) THEN b
    ELSE [b EXCEPT !.rank =
             [id \in 1..Len(b.vocab) |->
                 Cardinality({o \in 1..Len(b.vocab) : b.vocab[o] < b.vocab[id]})]]

\* sorted_ids: the touched ids by cached rank.
SortedIds(b) ==
    [i \in 1..Cardinality(b.touched) |->
        CHOOSE id \in b.touched :
            Cardinality({o \in b.touched : b.rank[o] < b.rank[id]}) = i - 1]

WithId(id, p) ==
    [id |-> id, docids |-> p.docids, freqs |-> p.freqs, flat |-> p.flat, pump |-> p.pump]

\* One record per touched id, in sorted_ids order.
DrainedRecords(b, allow_stream) ==
    LET ids == SortedIds(b)
    IN  [i \in 1..Len(ids) |-> WithId(ids[i], ToPostings(b.slots[b.slot_of[ids[i]]], allow_stream))]

ReleaseAll(b) == [ReleaseTerms(b, SortedIds(b)) EXCEPT !.touched = {}]

\* Fault: the arena's release is not reported.
BadDrainToWriter(b, fault) ==
    LET r    == EnsureStringRank(b)
        recs == DrainedRecords(r, FALSE)
    IN  [ReleaseAll(r) EXCEPT
           !.arena = 0,
           !.runs  = Append(@, IF fault = "write" THEN Front(recs) ELSE recs)]

\* drain_to_writer: every term leaves the arena, whatever the run file takes;
\* the records the file holds after a failed write are a proper prefix.
DrainToWriter(b, fault) ==
    LET r    == EnsureStringRank(b)
        recs == DrainedRecords(r, FALSE)
    IN  Report([ReleaseAll(r) EXCEPT
           !.arena = 0,
           !.runs  = Append(@, IF fault = "write" THEN Front(recs) ELSE recs)])

\* Fault: the path of a run is tracked only once the run is complete.
BadSpillToRun(b, fault) ==
    IF fault \in {"space", "open"} THEN [b |-> b, st |-> "io"]
    ELSE LET d == DrainToWriter([b EXCEPT !.files = @ + 1], fault)
         IN  IF fault = "write" THEN [b |-> [d EXCEPT !.runs = b.runs], st |-> "io"]
             ELSE [b |-> d, st |-> "ok"]

\* spill_to_run: the space check and the open fail before anything moves; the
\* path is tracked from the open on.
SpillToRun(b, fault) ==
    IF fault \in {"space", "open"} THEN [b |-> b, st |-> "io"]
    ELSE [b  |-> DrainToWriter([b EXCEPT !.files = @ + 1], fault),
          st |-> IF fault = "write" THEN "io" ELSE "ok"]

\* Fault: no arena safety stop.
BadMaybeSpill(b, fault) ==
    IF OverCap(b) /\ b.status = "ok"
    THEN LET s == SpillToRun(b, fault) IN [s.b EXCEPT !.status = s.st]
    ELSE b

\* The first error stays.
Latch(s) == [s.b EXCEPT !.status = IF @ = "ok" THEN s.st ELSE @]

\* The end of accumulate: the gate-2 trigger and the arena safety stop, which
\* fire only while no error is latched.
MaybeSpill(b, fault) ==
    IF (OverCap(b) \/ ArenaNearLimit(b)) /\ b.status = "ok" THEN Latch(SpillToRun(b, fault))
    ELSE b

FreeSlots(b) == [b EXCEPT !.slots = <<>>, !.free = <<>>, !.slot_of = <<>>]

\* drain_sorted: the arena and the slot pool are dropped after the last term.
DrainSorted(b) == Report(FreeSlots([ReleaseAll(EnsureStringRank(b)) EXCEPT !.arena = 0]))

----------------------------------------------------------------------------
(* The k-way merge of the runs: MergeRuns. *)

\* The runs that still have a record, and those whose head is the least string.
HeadTerm(i) == buf.vocab[buf.runs[i][pos[i]].id]

\* Fault: a reader at its last record counts as exhausted.
BadHeads == {i \in 1..Len(buf.runs) : pos[i] < Len(buf.runs[i])}

Heads == {i \in 1..Len(buf.runs) : pos[i] <= Len(buf.runs[i])}

\* Fault: the least run index decides, not the least string.
BadMatching == {i \in Heads : \A j \in Heads : HeadTerm(i) = HeadTerm(j) \/ i < j}

Matching == {i \in Heads : \A j \in Heads : HeadTerm(i) <= HeadTerm(j)}

\* Fault: the document a spill cut in two stays in two entries.
BadConcat(dst, src) ==
    [docids |-> dst.docids \o src.docids, freqs |-> dst.freqs \o src.freqs,
     flat |-> dst.flat \o src.flat]

\* Concat: append in run order, coalescing the doc a spill cut in two.
Concat(dst, src) ==
    LET seam == dst.docids # <<>> /\ src.docids # <<>> /\ Last(dst.docids) = Head(src.docids)
        from == IF seam THEN 2 ELSE 1
        n    == Len(dst.freqs)
    IN  [docids |-> dst.docids \o SubSeq(src.docids, from, Len(src.docids)),
         freqs  |-> (IF seam THEN [dst.freqs EXCEPT ![n] = @ + Head(src.freqs)] ELSE dst.freqs)
                       \o SubSeq(src.freqs, from, Len(src.freqs)),
         flat   |-> dst.flat \o src.flat]

MatchingRecords ==
    LET order == InOrder(Matching)
    IN  [i \in 1..Len(order) |-> buf.runs[order[i]][pos[order[i]]]]

\* The loop over the matching runs, the earliest first.
Merged ==
    LET recs == MatchingRecords
    IN  MapThenFoldSet(LAMBDA rec, dst : Concat(dst, rec), NoPostings,
                       LAMBDA i : recs[i], Max, DOMAIN recs)

\* Fault: no second look at the coalesced df.
BadStreamMerged ==
    LET recs == MatchingRecords
    IN  /\ kind = "each" /\ HasPositions
        /\ SumFunction([i \in 1..Len(recs) |-> Len(recs[i].flat)]) # 0
        /\ SumFunction([i \in 1..Len(recs) |-> Len(recs[i].docids)]) >= SlimDf

\* ShouldStreamPositions on the sums taken before coalescing, then the second
\* look at the coalesced df that the writer's dispatch will use.
StreamMerged ==
    LET recs       == MatchingRecords
        total_docs == SumFunction([i \in 1..Len(recs) |-> Len(recs[i].docids)])
        total_pos  == SumFunction([i \in 1..Len(recs) |-> Len(recs[i].flat)])
    IN  /\ kind = "each" /\ HasPositions /\ total_pos # 0 /\ total_docs >= SlimDf
        /\ Len(Merged.docids) >= SlimDf

----------------------------------------------------------------------------
(* Operations. *)

Init ==
    /\ \E cap \in Caps :
          buf = [vocab |-> InitVocab, rank |-> <<>>,
                 slot_of |-> [id \in 1..Len(InitVocab) |-> 0],
                 slots |-> <<>>, free |-> <<>>, touched |-> {},
                 arena |-> 0, reported |-> Len(InitVocab), current |-> Len(InitVocab),
                 cap |-> cap, runs |-> <<>>, files |-> 0,
                 status |-> "ok", drained |-> FALSE]
    /\ phase = "fill" /\ kind = "each" /\ pos = <<>>
    /\ out = <<>> /\ ret = "none" /\ fed = <<>>

\* The intern table of owned-vocab mode: a new string takes the next id.
Intern(b, t) ==
    IF t \in Range(b.vocab) THEN b
    ELSE [b EXCEPT !.vocab = Append(@, t), !.slot_of = Append(@, 0)]

IdOf(b, t) == CHOOSE id \in 1..Len(b.vocab) : b.vocab[id] = t

\* add_token of a valid term, by string (owned) or by id (borrowed), through the
\* spill its growth may trigger.  The arena grows by whole blocks, so a token
\* may leave it as it is; the first one after a reset may not.
AddToken(t, d, grow, fault) ==
    /\ phase = "fill" /\ Len(fed) < MaxTokens
    /\ Owned \/ t \in Range(buf.vocab)
    /\ buf.arena = 0 => grow = 1
    /\ LET b == Intern(buf, t)
           p == Len(fed) + 1
       IN  /\ buf' = MaybeSpill(Accumulate(b, IdOf(b, t), d, p, grow), fault)
           /\ fed' = Append(fed, [term |-> t, doc |-> d, pos |-> IF HasPositions THEN p ELSE 0])
    /\ UNCHANGED <<phase, kind, pos, out, ret>>

\* add_token with an id outside the vocabulary, or by string in borrowed-vocab
\* mode: the token is dropped and the error latched.
RejectToken ==
    /\ phase = "fill" /\ ~Owned
    /\ buf' = IF buf.status = "ok" THEN [buf EXCEPT !.status = "invalid"] ELSE buf
    /\ UNCHANGED <<phase, kind, pos, out, ret, fed>>

InMemory == buf.runs = <<>> /\ buf.status = "ok"

\* The TermPostings of drained records.
Handed(vocab, recs) ==
    [i \in 1..Len(recs) |->
        [term |-> vocab[recs[i].id], docids |-> recs[i].docids, freqs |-> recs[i].freqs,
         flat |-> recs[i].flat, pump |-> recs[i].pump]]

\* for_each_term_sorted ("each") or finalize_sorted ("final"), nothing spilled.
DrainInMemory(k) ==
    /\ phase = "fill" /\ InMemory
    /\ out' = Handed(buf.vocab, DrainedRecords(EnsureStringRank(buf), k = "each"))
    /\ buf' = [DrainSorted(buf) EXCEPT !.drained = TRUE]
    /\ phase' = "done" /\ kind' = k /\ ret' = "ok"
    /\ UNCHANGED <<pos, fed>>

\* Fault: the flush overwrites the latched error.
BadFlushResidual(b, fault) ==
    IF b.touched = {} THEN b
    ELSE LET s == SpillToRun(b, fault) IN [s.b EXCEPT !.status = s.st]

\* merge_runs up to MergeRuns: what is resident becomes a last run, also when an
\* error is latched already.
FlushResidual(b, fault) == IF b.touched = {} THEN b ELSE Latch(SpillToRun(b, fault))

\* An error ends the drain with no output; else MergeRuns opens every run at its first record.
OpenRuns(b) ==
    IF b.status # "ok"
    THEN buf' = b /\ phase' = "done" /\ ret' = b.status /\ UNCHANGED pos
    ELSE /\ buf' = Report(FreeSlots(b))
         /\ phase' = "merge" /\ pos' = [i \in 1..Len(b.runs) |-> 1]
         /\ UNCHANGED ret

StartMerge(k, fault) ==
    /\ phase = "fill" /\ ~InMemory
    /\ kind' = k
    /\ OpenRuns([FlushResidual(buf, fault) EXCEPT !.drained = TRUE])
    /\ UNCHANGED <<out, fed>>

\* An I/O error inside MergeRuns ends the drain; only finalize_sorted, which
\* returns no status, latches it.
FailMerge ==
    /\ phase' = "done" /\ ret' = "io"
    /\ buf' = IF kind = "final" THEN [buf EXCEPT !.status = "io"] ELSE buf

\* A run cannot be opened (or its first record read).
MergeOpenFails ==
    /\ phase = "merge" /\ out = <<>>
    /\ FailMerge
    /\ UNCHANGED <<kind, pos, out, fed>>

Emit(flat, pump) ==
    out' = Append(out, [term |-> HeadTerm(CHOOSE i \in Matching : TRUE),
                        docids |-> Merged.docids, freqs |-> Merged.freqs,
                        flat |-> flat, pump |-> pump])

AdvanceReaders == pos' = [i \in DOMAIN pos |-> IF i \in Matching THEN pos[i] + 1 ELSE pos[i]]

\* Fault: the loop waits for a second run.
BadMergeStep ==
    /\ phase = "merge" /\ Cardinality(Heads) > 1
    /\ Emit(Merged.flat, StreamMerged)
    /\ AdvanceReaders
    /\ UNCHANGED <<buf, phase, kind, ret, fed>>

\* One iteration of the merge loop.
MergeStep ==
    /\ phase = "merge" /\ Heads # {}
    /\ Emit(Merged.flat, StreamMerged)
    /\ AdvanceReaders
    /\ UNCHANGED <<buf, phase, kind, ret, fed>>

\* materialize_positions fails: the term is not emitted.
MergePositionsFail ==
    /\ phase = "merge" /\ Heads # {}
    /\ HasPositions /\ ~StreamMerged
    /\ FailMerge
    /\ UNCHANGED <<kind, pos, out, fed>>

\* stream_positions fails while the caller pulls: it gets zeros from then on,
\* and the error surfaces when it returns.
MergePumpFails ==
    /\ phase = "merge" /\ Heads # {}
    /\ StreamMerged
    /\ \E n \in 0..(Len(Merged.flat) - 1) :
          Emit([i \in DOMAIN Merged.flat |-> IF i <= n THEN Merged.flat[i] ELSE 0], TRUE)
    /\ FailMerge
    /\ UNCHANGED <<kind, pos, fed>>

\* A reader fails to advance past the emitted term.
MergeAdvanceFails ==
    /\ phase = "merge" /\ Heads # {}
    /\ Emit(Merged.flat, StreamMerged)
    /\ FailMerge
    /\ UNCHANGED <<kind, pos, fed>>

MergeEnds ==
    /\ phase = "merge" /\ Heads = {}
    /\ phase' = "done" /\ ret' = "ok"
    /\ UNCHANGED <<buf, kind, pos, out, fed>>

\* A drain after the first emits nothing; finalize_sorted latches the error.
DrainAgain(k) ==
    /\ phase = "done"
    /\ buf' = IF k = "final" /\ buf.status = "ok" THEN [buf EXCEPT !.status = "internal"] ELSE buf
    /\ UNCHANGED <<phase, kind, pos, out, ret, fed>>

\* The destructor returns what is still reported and removes the tracked runs.
Destroy ==
    /\ phase \in {"fill", "done"}
    /\ buf' = [buf EXCEPT !.current = @ - buf.reported, !.reported = 0,
                          !.files = @ - Len(buf.runs), !.runs = <<>>]
    /\ phase' = "gone"
    /\ UNCHANGED <<kind, pos, out, ret, fed>>

Next ==
    \/ \E t \in Terms, d \in Docs, grow \in {0, 1}, f \in SpillFaults : AddToken(t, d, grow, f)
    \/ RejectToken
    \/ \E k \in {"each", "final"} :
          DrainInMemory(k) \/ DrainAgain(k) \/ \E f \in SpillFaults : StartMerge(k, f)
    \/ MergeOpenFails
    \/ MergeStep \/ MergePositionsFail \/ MergePumpFails \/ MergeAdvanceFails \/ MergeEnds
    \/ Destroy

Spec == Init /\ [][Next]_vars

\* MergeRuns is one synchronous call: once started it runs on.
FairSpec == Spec /\ WF_vars(MergeStep \/ MergeEnds)

----------------------------------------------------------------------------
(* Properties. *)

Statuses == {"ok", "io", "invalid", "internal"}

\* Every variable has the shape of the members it models, and the reporter's
\* total never goes negative.
TypeOK ==
    /\ buf.current \in Nat /\ buf.reported \in Nat /\ buf.arena \in Nat
    /\ buf.status \in Statuses /\ buf.drained \in BOOLEAN
    /\ buf.files \in Nat /\ buf.cap \in Caps
    /\ buf.touched \subseteq 1..Len(buf.vocab)
    /\ \A id \in DOMAIN buf.slot_of : buf.slot_of[id] \in 0..Len(buf.slots)
    /\ phase \in {"fill", "merge", "done", "gone"} /\ kind \in {"each", "final"}
    /\ ret \in Statuses \cup {"none"}

\* The feed add_token expects: per term, docids do not go back.  Without a run
\* any order will do, to_postings sorts; buf.runs is empty again when destroyed.
OrderedFeed ==
    \/ \A i, j \in DOMAIN fed :
          i < j /\ fed[i].term = fed[j].term => fed[i].doc <= fed[j].doc
    \/ buf.runs = <<>> /\ phase # "gone"

\* The tokens fed for a term, by their rank in the feed.
TokensOf(feed, t) == {n \in DOMAIN feed : feed[n].term = t}

\* The place of token n among the tokens of I: by document, then as fed.
Place(feed, I, n) ==
    Cardinality({k \in I : \/ feed[k].doc < feed[n].doc
                           \/ feed[k].doc = feed[n].doc /\ k <= n})

\* The postings list the documents of the tokens of I once, in ascending order,
\* each with the number of its tokens.
DocsExact(p, feed, I) ==
    /\ \A i, j \in DOMAIN p.docids : i < j => p.docids[i] < p.docids[j]
    /\ Range(p.docids) = {feed[n].doc : n \in I}
    /\ DOMAIN p.freqs = DOMAIN p.docids
    /\ \A i \in DOMAIN p.docids :
          p.freqs[i] = Cardinality({n \in I : feed[n].doc = p.docids[i]})

\* The position of every token of I stands at the token's place.
PositionsExact(p, feed, I) ==
    /\ Len(p.flat) = IF HasPositions THEN Cardinality(I) ELSE 0
    /\ HasPositions => \A n \in I : p.flat[Place(feed, I, n)] = feed[n].pos

\* The postings of exactly the tokens of I, defined without chains, slots or runs.
PostingsExact(p, feed, I) == DocsExact(p, feed, I) /\ PositionsExact(p, feed, I)

FedTerms == {fed[i].term : i \in DOMAIN fed}
Emitted(o) == {o[i].term : i \in DOMAIN o}

\* The terms of an output ascend and are the least of those fed.
LeastOf(o, fedTerms) ==
    /\ \A i, j \in DOMAIN o : i < j => o[i].term < o[j].term
    /\ Emitted(o) \subseteq fedTerms
    /\ \A t \in fedTerms, e \in Emitted(o) : t <= e => t \in Emitted(o)

\* Whatever the order of the documents, the caller gets the least of the terms
\* fed, each once and in string order, and all of them when the drain returns OK:
\* no spill, recycled slot or failed read loses, repeats or skips one.
TermsEmitted == LeastOf(out, FedTerms) /\ (ret = "ok" => Emitted(out) = FedTerms)

\* A drain that returns OK has emitted exactly the postings of the tokens fed,
\* each term once and in string order, wherever the spills fell (also between
\* two tokens of one document) and whichever path the positions took.
DrainExact ==
    ret = "ok" /\ OrderedFeed =>
        /\ \A i, j \in DOMAIN out : i < j => out[i].term < out[j].term
        /\ Emitted(out) = FedTerms
        /\ \A i \in DOMAIN out : PostingsExact(out[i], fed, TokensOf(fed, out[i].term))

\* The i-th term of an output is exact, or it is the last one, its positions cut
\* short by zeros because its pump failed.
ExactAt(o, i, status, feed) ==
    LET I == TokensOf(feed, o[i].term)
    IN  \/ PostingsExact(o[i], feed, I)
        \/ i = Len(o) /\ o[i].pump /\ status = "io" /\ DocsExact(o[i], feed, I)

\* Also a drain that fails midway has emitted a prefix of the right answer; only
\* the positions of the last, pumped term may be cut short by zeros.
OutputIsPrefix ==
    /\ TermsEmitted
    /\ OrderedFeed => \A i \in DOMAIN out : ExactAt(out, i, ret, fed)

\* An error latched while filling -- a rejected token, or a spill that lost the
\* terms it had already moved out of the arena -- is returned by the drain,
\* which then emits nothing.
ErrorEmitsNothing ==
    [][buf.status # "ok" =>
          /\ out' = out
          /\ phase' \in {phase, "gone"} \/ (phase' = "done" /\ ret' = buf.status)]_vars

\* No two live ids share a slot, and a recycled slot is nobody's.
SlotsExclusive ==
    LET live == {id \in DOMAIN buf.slot_of : buf.slot_of[id] # 0} IN
    /\ \A x, y \in live : buf.slot_of[x] = buf.slot_of[y] => x = y
    /\ \A x \in live : buf.slot_of[x] \notin Range(buf.free)
    /\ phase = "fill" => live = buf.touched

\* The reporter's total is the memory really held after every call, nothing is
\* left after a successful drain, and nothing after the destructor on any path.
ReporterBalanced ==
    /\ phase # "gone" => buf.current = Resident(buf)
    /\ phase = "gone" \/ ret = "ok" => buf.current = 0

\* Spilling re-arms: while no error is latched, a call never returns with the
\* total at the cap and something left in the arena that a spill would free.
SpillKeepsCap ==
    phase = "fill" /\ buf.status = "ok" =>
        /\ OverCap(buf) => buf.arena = 0
        /\ buf.arena < ArenaSpillCap

\* Every run file on disk is tracked, half-written ones included, so the
\* destructor leaves none behind.
RunFilesTracked == buf.files = Len(buf.runs)

\* Positions are pumped only for terms the writer sends down its windowed path;
\* build_slim_entry reads positions_flat and would find it empty.
PumpOnlyWindowed == \A i \in DOMAIN out : out[i].pump => Len(out[i].docids) >= SlimDf

\* What the writer requires of every term it is handed: strictly ascending
\* docids, one entry per document, whatever the order of the feed.
EachDocOnce ==
    \A i \in DOMAIN out : \A j \in 1..(Len(out[i].docids) - 1) :
        out[i].docids[j] < out[i].docids[j + 1]

\* The merge loop ends: every run is consumed or an error is returned.
MergeTerminates == phase = "merge" ~> phase = "done"

============================================================================
