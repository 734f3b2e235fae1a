----------------------------- MODULE IndexQuery -----------------------------
(***************************************************************************)
(* Queries over a stored index: a reader opens the container, resolves     *)
(* terms, plans ranges, fetches them in rounds and decodes what it got     *)
(* (core/src/query/term_query.cpp, boolean_query.cpp, prefix_query.cpp,    *)
(* wildcard_query.cpp, regexp_query.cpp, phrase_query.cpp,                 *)
(* term_expansion.cpp, docid_union.cpp, docid_posting_reader.cpp,          *)
(* core/src/reader/windowed_posting.cpp), composed with the build of the   *)
(* index and with the fetching of ranges.                                  *)
(***************************************************************************)
EXTENDS IndexBuild, RangeFetch, QueryOps

CONSTANTS Queries,       \* [kind, terms] a caller may ask
          CodecInputs,   \* lists of numbers the codecs are tried on
          RotQueries,    \* the ones asked of a container that may rot
          RawFetches,    \* sequences of ranges a caller may fetch
          SameTermGap    \* kSameTermCoalesceGap (16 KiB)

VARIABLES idx,           \* the opened LogicalIndexReader, or Err
          damage,        \* the byte the storage changed: [at, was], at 0 if none
          q              \* the query in progress

vars == <<corpus, cfg, phase, next, out, block, dict, reported, blocks, dict_off, object,
          faults, io, meter, idx, damage, q>>

NoQuery ==
  [kind |-> "none", terms |-> <<>>, stage |-> "idle", status |-> "", result |-> <<>>,
   todo |-> <<>>, posts |-> <<>>, plan |-> <<>>, order |-> <<>>, k |-> 0, sel |-> <<>>,
   cand |-> <<>>, srcs |-> <<>>, tails |-> <<>>, tail |-> 0, expected |-> <<>>, acc |-> <<>>,
   looked |-> 0]

NoDamage == [at |-> 0, was |-> 0]

Init == BuildInit /\ io = NoFetch /\ meter = ColdMeter /\ idx = Err /\ damage = NoDamage
        /\ q = NoQuery

(***************************************************************************)
(* The container between its writer and its readers.                       *)
(***************************************************************************)
Build == BuildNext /\ UNCHANGED <<io, meter, idx, damage, q>>

\* The storage changes one byte of the stored object.
Rot ==
  /\ phase = "closed" /\ cfg.rot /\ faults < MaxFaults
  /\ \E i \in 1..Len(object) :
       /\ object' = [object EXCEPT ![i] = (@ + 1) % 256]
       /\ damage' = [at |-> i, was |-> object[i]]
  /\ faults' = faults + 1
  /\ UNCHANGED <<corpus, cfg, phase, next, out, block, dict, reported, blocks, dict_off, io,
                 meter, idx, q>>

\* SniiSegmentReader::open, open_index.  A failed read leaves the caller free
\* to try again.
Open ==
  /\ phase = "closed"
  /\ \E ok \in BOOLEAN :
       /\ Charge(ok)
       /\ idx' = IF ok THEN OpenIndex(object, Writer.id, Writer.suffix, cfg.resident_max) ELSE idx
       /\ phase' = IF ~ok THEN "closed" ELSE IF idx' = Err THEN "unreadable" ELSE "serving"
  /\ UNCHANGED <<corpus, cfg, next, out, block, dict, reported, blocks, dict_off, object, io,
                 meter, damage, q>>

\* The caller replaces a container it cannot open.
Replace ==
  /\ phase = "unreadable"
  /\ FreshWriter /\ object' = <<>> /\ damage' = NoDamage
  /\ UNCHANGED <<corpus, cfg, faults, io, meter, idx, q>>

serving == <<corpus, cfg, phase, next, out, block, dict, reported, blocks, dict_off, object,
             idx, damage>>

(***************************************************************************)
(* A step of a query has an outcome: the query after it, the read_at calls *)
(* it made, and the ranges of the round of reads it starts, if any.        *)
(***************************************************************************)
Outcome(query, reads, ranges, gap) ==
  [q |-> query, reads |-> reads, ranges |-> ranges, gap |-> gap]
Moves(query) == Outcome(query, <<>>, <<>>, 0)
Reads(query, ranges, gap) == Outcome(query, <<>>, ranges, gap)
Finished(status, result) ==
  [NoQuery EXCEPT !.kind = q.kind, !.terms = q.terms, !.looked = q.looked,
                  !.stage = "done", !.status = status, !.result = result]
Corrupt == Moves(Finished("corruption", <<>>))

MeterReads(reads) == Fold(LAMBDA m, r : MeterReadAt(m, r, Len(object)), meter, reads)

\* The reader after outcome o.
ReaderAfter(o) ==
  IF o.ranges = <<>> THEN [io |-> NoFetch, meter |-> MeterReads(o.reads)]
  ELSE StartFetch(o.ranges, o.gap, cfg.reader, object, MeterReads(o.reads))

Takes(outcome) ==
  \E o \in {outcome} : \E r \in {ReaderAfter(o)} :
    q' = o.q /\ io' = r.io /\ meter' = r.meter /\ UNCHANGED <<serving, faults>>

Fetched == io.state \in {"none", "ok"}

\* A step goes on with what it decoded, or the query ends as corrupt.
OrCorrupt(v, Do(_)) == IF v = Err THEN Corrupt ELSE Do(v)
AllOk(s) == \A i \in 1..Len(s) : s[i] # Err
AllOrCorrupt(s, Do(_)) == IF AllOk(s) THEN Do(s) ELSE Corrupt

IsInline(p) == p.entry.kind = "inline"
IsWindowed(p) == p.entry.kind = "pod_ref" /\ p.entry.enc = "windowed"
PostingKind(p) == IF IsInline(p) THEN "inline" ELSE IF IsWindowed(p) THEN "windowed" ELSE "flat"
Conjunctive == q.kind \in {"and", "phrase", "phrase_prefix"}
NeedPositions == q.kind # "and"

\* The indexes of the postings of one kind.
Which(posts, kind) == SelectSeq(Count(Len(posts)), LAMBDA i : PostingKind(posts[i]) = kind)

(***************************************************************************)
(* The start of a query, its lookups and its expansion.                    *)
(***************************************************************************)
UniqueTerms(terms) == SetToSortSeq(ToSet(terms), TermLess)

\* A query as it starts, after the checks made before any lookup.
Started(query) ==
  LET n     == [NoQuery EXCEPT !.kind = query.kind, !.terms = query.terms]
      Ends(status) == [n EXCEPT !.stage = "done", !.status = status]
      Resolves(terms) == [n EXCEPT !.stage = "resolve", !.todo = terms]
      kind  == query.kind
      terms == query.terms
  IN  CASE kind \in {"or", "and", "phrase", "phrase_prefix"} /\ terms = <<>> -> Ends("ok")
        [] kind = "phrase" /\ ~idx.has_positions -> Ends("unsupported")
        [] kind = "phrase_prefix" /\ Len(terms) > 1 ->
             IF idx.has_positions THEN Resolves(Front(terms)) ELSE Ends("unsupported")
        [] kind = "regexp" /\ ~RegexValid(terms[1]) -> Ends("invalid")
        [] kind \in {"prefix", "wildcard", "regexp", "phrase_prefix"} /\ Len(terms) = 1 ->
             [n EXCEPT !.stage = "expand"]
        [] kind = "or" /\ terms # <<>> -> Resolves(UniqueTerms(terms))
        [] OTHER -> Resolves(terms)

Begin ==
  /\ phase = "serving" /\ q.stage = "idle"
  /\ \E query \in IF cfg.rot THEN RotQueries ELSE Queries :
       /\ query.kind = "posting" => Cardinality(DocsOf(query.terms[1])) >= SlimDfThreshold
       /\ q' = Started(query)
  /\ UNCHANGED <<serving, faults, io, meter>>

\* The documents of a slim posting, as far as they are recorded.
FlatDocsRange(p) ==
  Then(ResolveFrqWindow(idx, p), LAMBDA w :
    IF p.entry.frq_docs_len > w.len THEN Err
    ELSE [w EXCEPT !.len = IF p.entry.frq_docs_len > 0 THEN p.entry.frq_docs_len ELSE @])

\* The ranges of a conjunction's first round for posting p: the prelude of a
\* windowed one, the documents and the positions of a slim one.
ConfigureTermPlan(p) ==
  IF IsInline(p) THEN <<>>
  ELSE IF IsWindowed(p) THEN <<[offset |-> PreludeAbs(idx, p), len |-> p.entry.prelude_len]>>
  ELSE <<FlatDocsRange(p)>> \o (IF NeedPositions THEN <<ResolvePrxWindow(idx, p)>> ELSE <<>>)

\* An absent term ends every query but a disjunction.
EndsQuery(hits) == hits = <<>> /\ q.kind # "or"

\* One lookup.
LookedUp ==
  LET then == CASE q.kind \in {"term", "or"} -> "union"
                [] q.kind = "posting" -> "posting"
                [] q.kind = "phrase_prefix" -> "expand"
                [] OTHER -> "plan"
  IN  OrCorrupt(Lookup(object, idx, Head(q.todo)), LAMBDA r :
        IF Conjunctive /\ \E i \in 1..Len(r.hits) : ~AllOk(ConfigureTermPlan(r.hits[i]))
        THEN Corrupt
        ELSE Outcome(IF EndsQuery(r.hits) THEN Finished("ok", <<>>)
                     ELSE [q EXCEPT !.todo = Tail(@), !.posts = @ \o r.hits,
                                    !.looked = MeterReads(r.reads).rounds,
                                    !.stage = IF Len(q.todo) = 1 THEN then ELSE @],
                     r.reads, <<>>, 0))

EnumPrefix ==
  CASE q.kind = "wildcard" -> LiteralPrefixForWildcard(q.terms[1])
    [] q.kind = "regexp" -> LiteralPrefixForRegex(q.terms[1])
    [] OTHER -> Last(q.terms)

TermMatches(term) ==
  CASE q.kind = "wildcard" -> WildcardMatch(q.terms[1], term)
    [] q.kind = "regexp" -> RegexMatch(q.terms[1], term)
    [] OTHER -> TRUE

\* prefix_terms and the matcher: the postings of a union, or the tails of a
\* phrase whose exact terms are resolved.
Expanded ==
  OrCorrupt(PrefixTerms(object, idx, EnumPrefix), LAMBDA r :
  With(SelectSeq(r.hits, LAMBDA h : TermMatches(h.entry.term)), LAMBDA hits :
    Outcome(IF q.posts = <<>>
            THEN [q EXCEPT !.posts = hits, !.stage = "union",
                           !.looked = MeterReads(r.reads).rounds]
            ELSE IF hits = <<>> THEN Finished("ok", <<>>)
            ELSE [q EXCEPT !.tails = hits, !.stage = "plan"],
            r.reads, <<>>, 0)))

ResolveTerm == q.stage = "resolve" /\ Takes(LookedUp)
Expand == q.stage = "expand" /\ Takes(Expanded)

\* A read of a lookup or of an expansion fails; the ones before it, and the
\* blocks of the failed one, are accounted for.
LookupFails ==
  /\ q.stage \in {"resolve", "expand"} /\ faults < MaxFaults
  /\ \E o \in {IF q.stage = "resolve" THEN LookedUp ELSE Expanded} :
       \E n \in 1..Len(o.reads) : meter' = MeterReads(SubSeq(o.reads, 1, n))
  /\ q' = Finished("io_error", <<>>)
  /\ faults' = faults + 1 /\ UNCHANGED <<serving, io>>

(***************************************************************************)
(* read_docid_postings_batched: preludes, then documents, then the union.  *)
(***************************************************************************)
InlineDocs(p) ==
  IF p.entry.dd_meta.disk_len > Len(p.entry.frq_bytes) THEN Err
  ELSE DecodeDdRegion(SubSeq(p.entry.frq_bytes, 1, p.entry.dd_meta.disk_len), p.entry.dd_meta, 0)

PlannedPreludes ==
  LET w == Which(q.posts, "windowed")
  IN  IF q.posts = <<>> THEN Moves(Finished("ok", <<>>))
      ELSE IF \E i \in 1..Len(q.posts) : IsInline(q.posts[i]) /\ InlineDocs(q.posts[i]) = Err
      THEN Corrupt
      ELSE AllOrCorrupt(Eager([j \in 1..Len(w) |-> PreludeRange(idx, q.posts[w[j]])]), LAMBDA rs :
             Reads([q EXCEPT !.stage = "union_docs"], rs, 0))

\* The windows of posting i, whose prelude is pre: [post, pre, meta].
WindowPlans(i, pre) ==
  [m \in 1..Len(pre.windows) |-> [post |-> i, pre |-> pre, meta |-> pre.windows[m]]]

PlannedDocs ==
  LET w == Which(q.posts, "windowed")
      f == Which(q.posts, "flat")
  IN  AllOrCorrupt(Eager([j \in 1..Len(w) |-> OpenFrqPrelude(Got(j))]), LAMBDA pres :
      With(Concat([j \in 1..Len(w) |-> WindowPlans(w[j], pres[j])]), LAMBDA wins :
      AllOrCorrupt(Eager([j \in 1..Len(f) |-> FlatDocsRange(q.posts[f[j]])]), LAMBDA flat :
      AllOrCorrupt(Eager([j \in 1..Len(wins) |->
        WindowedWindowRange(idx, q.posts[wins[j].post], wins[j].pre, wins[j].meta, FALSE)]),
        LAMBDA dds :
          Reads([q EXCEPT !.stage = "union_decode", !.plan = wins], flat \o Concat(dds), 0)))))

DecodedDocs ==
  LET f   == Which(q.posts, "flat")
      inl == Which(q.posts, "inline")
      w   == Which(q.posts, "windowed")
      \* The windows of a posting follow each other in the plan.
      Of(i, wins) ==
        Concat(Eager([j \in 1..Len(wins) |-> IF q.plan[j].post = i THEN wins[j] ELSE <<>>]))
  IN  AllOrCorrupt(
        Eager([j \in 1..Len(inl) |-> InlineDocs(q.posts[inl[j]])])
        \o Eager([j \in 1..Len(f) |-> DecodeDdRegion(Got(j), q.posts[f[j]].entry.dd_meta, 0)]),
        LAMBDA flat :
      AllOrCorrupt(
        Eager([j \in 1..Len(q.plan) |-> DecodeWindowDocs(q.plan[j].meta, Got(Len(f) + j))]),
        LAMBDA wins :
          Moves(Finished("ok", UnionSortedMany(
                  flat \o Eager([j \in 1..Len(w) |-> Of(w[j], wins)]))))))

UnionPreludes == q.stage = "union" /\ Takes(PlannedPreludes)
UnionDocs == q.stage = "union_docs" /\ Fetched /\ Takes(PlannedDocs)
UnionDecode == q.stage = "union_decode" /\ Fetched /\ Takes(DecodedDocs)

(***************************************************************************)
(* read_windowed_posting: a whole windowed posting, all its blocks.        *)
(***************************************************************************)
PlannedBlocks ==
  LET p == q.posts[1]
  IN  OrCorrupt(OpenFrqPrelude(Got(1)), LAMBDA pre :
      OrCorrupt(IF idx.has_positions /\ ~pre.has_prx THEN Err ELSE ResolveBlocks(idx, p, pre),
        LAMBDA g :
          Reads([q EXCEPT !.stage = "posting_decode", !.plan = <<pre>>],
                <<g.dd>> \o (IF HasFreq(idx.tier) THEN <<g.freq>> ELSE <<>>)
                         \o (IF idx.has_positions THEN <<PrxRegion(idx, p)>> ELSE <<>>), 0)))

\* A slice of a fetched block.
Carve(bytes, off, len) ==
  IF off > Len(bytes) \/ len > Len(bytes) - off THEN Err ELSE Take(bytes, off, len)

\* Window m as [doc, freq, positions] rows; freqs are 0 and positions empty
\* where the index has none.
DecodeWindow(m, dd, freq, prx) ==
  Then(Then(dd, LAMBDA bytes : DecodeWindowDocs(m, bytes)), LAMBDA docs :
  Then(IF ~HasFreq(idx.tier) THEN <<>>
       ELSE Then(freq, LAMBDA bytes : DecodeFreqRegion(bytes, m.freq.meta, m.doc_count)),
    LAMBDA freqs :
  Then(IF ~idx.has_positions THEN <<>> ELSE Then(prx, ReadPrxWindow), LAMBDA lists :
    IF idx.has_positions /\ Len(lists) # Len(docs) THEN Err
    ELSE [i \in 1..Len(docs) |->
           [doc |-> docs[i], freq |-> IF freqs = <<>> THEN 0 ELSE freqs[i],
            positions |-> IF lists = <<>> THEN <<>> ELSE lists[i]]])))

DecodedPosting ==
  LET ms == q.plan[1].windows
  IN  AllOrCorrupt(Eager([w \in 1..Len(ms) |->
        DecodeWindow(ms[w], Carve(Got(1), ms[w].dd.off, ms[w].dd.meta.disk_len),
          IF HasFreq(idx.tier)
          THEN Carve(Got(2), ms[w].freq.off, ms[w].freq.meta.disk_len) ELSE Err,
          IF idx.has_positions THEN Carve(Got(3), ms[w].prx_off, ms[w].prx_len) ELSE Err)]),
        LAMBDA rows : Moves(Finished("ok", Concat(rows))))

PlannedPosting ==
  OrCorrupt(PreludeRange(idx, q.posts[1]), LAMBDA r :
    Reads([q EXCEPT !.stage = "posting_blocks"], <<r>>, 0))

PostingPrelude == q.stage = "posting" /\ Takes(PlannedPosting)
PostingBlocks == q.stage = "posting_blocks" /\ Fetched /\ Takes(PlannedBlocks)
PostingDecode == q.stage = "posting_decode" /\ Fetched /\ Takes(DecodedPosting)

(***************************************************************************)
(* The conjunction: a first round for all terms, then term by term in the  *)
(* order of their document frequencies, each later term reading only the   *)
(* windows that cover the candidates left.                                 *)
(***************************************************************************)
FirstRound ==
  AllOrCorrupt(Concat([i \in 1..Len(q.posts) |-> ConfigureTermPlan(q.posts[i])]), LAMBDA rs :
    Reads([q EXCEPT !.stage = "preludes"], rs, 0))

\* The orders std::sort may leave: ascending frequencies, ties in any order.
AscendingDfOrders(posts) ==
  {o \in [1..Len(posts) -> 1..Len(posts)] :
     \A i, j \in 1..Len(posts) :
       i < j => o[i] # o[j] /\ posts[o[i]].entry.df <= posts[o[j]].entry.df}

\* What the first round brought for posting i, whose ranges start at handle h.
TermPlan(i, h) ==
  LET p == q.posts[i]
  IN  IF IsWindowed(p) THEN OpenFrqPrelude(Got(h))
      ELSE IF IsInline(p)
      THEN [dd |-> Carve(p.entry.frq_bytes, 0, p.entry.dd_meta.disk_len), prx |-> p.entry.prx_bytes]
      ELSE [dd |-> Got(h), prx |-> IF NeedPositions THEN Got(h + 1) ELSE <<>>]

OpenedPreludes(order) ==
  LET n == Len(q.posts)
      Handle(i) == 1 + SeqSum(Eager([j \in 1..(i - 1) |-> Len(ConfigureTermPlan(q.posts[j]))]))
  IN  AllOrCorrupt(Eager([i \in 1..n |-> TermPlan(i, Handle(i))]), LAMBDA plans :
        IF NeedPositions /\ \E i \in 1..n : IsWindowed(q.posts[i]) /\ ~plans[i].has_prx
        THEN Corrupt
        ELSE Moves([q EXCEPT !.stage = "term", !.plan = plans, !.order = order, !.k = 1,
                             !.cand = <<>>, !.srcs = Eager([i \in 1..n |-> <<>>])]))

CoveringWindows(pre, cand) ==
  Sorted({LocateWindow(pre, cand[i]) : i \in 1..Len(cand)} \ {0})

\* The term's chunks [docids, prx] are in; the candidates shrink.
Narrowed(chunks) ==
  LET docs == Concat([c \in 1..Len(chunks) |-> chunks[c].docids])
  IN  With(IF q.k = 1 THEN docs ELSE IntersectSorted(q.cand, docs), LAMBDA cand :
      With(cand = <<>> \/ q.k = Len(q.posts), LAMBDA over :
        Moves([q EXCEPT !.srcs[q.order[q.k]] = chunks, !.cand = cand, !.sel = <<>>,
                        !.k = IF over THEN @ ELSE @ + 1,
                        !.stage = IF over THEN "matched" ELSE "term"])))

DecodeFlatDocids(p, plan) ==
  OrCorrupt(Then(plan.dd, LAMBDA dd : DecodeDdRegion(dd, p.entry.dd_meta, 0)), LAMBDA docs :
    Narrowed(<<[docids |-> docs, prx |-> plan.prx]>>))

PlannedWindows(p, pre) ==
  With(IF q.k = 1 THEN Count(Len(pre.windows)) ELSE CoveringWindows(pre, q.cand), LAMBDA sel :
  AllOrCorrupt(Eager([j \in 1..Len(sel) |->
    WindowedWindowRange(idx, p, pre, pre.windows[sel[j]], NeedPositions)]), LAMBDA rs :
      Reads([q EXCEPT !.stage = "windows", !.sel = sel], Concat(rs), SameTermGap)))

NextTerm ==
  LET i == q.order[q.k]
  IN  IF IsWindowed(q.posts[i]) THEN PlannedWindows(q.posts[i], q.plan[i])
      ELSE DecodeFlatDocids(q.posts[i], q.plan[i])

DecodedWindows ==
  LET pre == q.plan[q.order[q.k]]
      per == IF NeedPositions THEN 2 ELSE 1
  IN  AllOrCorrupt(Eager([j \in 1..Len(q.sel) |->
        DecodeWindowDocs(pre.windows[q.sel[j]], Got(per * (j - 1) + 1))]), LAMBDA docs :
          Narrowed(Eager([j \in 1..Len(q.sel) |->
            [docids |-> docs[j], prx |-> IF NeedPositions THEN Got(2 * j) ELSE <<>>]])))

PlanTerms == q.stage = "plan" /\ Takes(FirstRound)
OpenPreludes == q.stage = "preludes" /\ Fetched
                /\ \E o \in AscendingDfOrders(q.posts) : Takes(OpenedPreludes(o))
ConjunctionTerm == q.stage = "term" /\ Takes(NextTerm)
ConjunctionWindows == q.stage = "windows" /\ Fetched /\ Takes(DecodedWindows)

(***************************************************************************)
(* Positions of the candidates.                                            *)
(***************************************************************************)
\* PostingCursor: seek to document d, then its positions.
CursorPositions(chunks, d) ==
  LET ahead == {c \in 1..Len(chunks) : chunks[c].docids # <<>> /\ Last(chunks[c].docids) >= d}
      At(docids) == Min({i \in 1..Len(docids) : docids[i] >= d})
      Of(csr, li) == {csr.flat[i] : i \in (csr.off[li] + 1)..csr.off[li + 1]}
  IN  IF ahead = {} THEN Err
      ELSE With(chunks[Min(ahead)], LAMBDA chunk :
           Then(ReadPrxWindowCsr(chunk.prx), LAMBDA csr :
             IF Len(csr.off) # Len(chunk.docids) + 1 THEN Err ELSE Of(csr, At(chunk.docids))))

\* The positions of every candidate for every term, in phrase order.
CandidateSpans ==
  Eager([i \in 1..Len(q.cand) |->
    Eager([t \in 1..Len(q.srcs) |-> CursorPositions(q.srcs[t], q.cand[i])])])

\* The candidates with the phrase, and the starts of it: [docid, starts].
PhraseMatches(spans) ==
  SelectSeq(Eager([i \in 1..Len(q.cand) |->
              [docid |-> q.cand[i], starts |-> PhraseStarts(spans[i])]]),
            LAMBDA m : m.starts # {})

\* Where the last term of a phrase prefix has to be: [docid, positions].
ExpectedTails(matches) ==
  SelectSeq(Eager([i \in 1..Len(matches) |->
              [docid |-> matches[i].docid,
               positions |-> {AddPositionOffset(s, Len(q.posts)) : s \in matches[i].starts} \ {Err}]]),
            LAMBDA e : e.positions # {})

\* The next tail of a phrase prefix, or the end.
NextTail(expected, acc, tail) ==
  Moves(IF expected = <<>> \/ tail > Len(q.tails) THEN Finished("ok", acc)
        ELSE [q EXCEPT !.stage = "plan", !.posts = <<q.tails[tail]>>, !.tail = tail,
                       !.expected = expected, !.acc = acc])

PhraseChecked ==
  LET Emit(ms) == IF q.kind = "phrase"
                  THEN Moves(Finished("ok", Eager([i \in 1..Len(ms) |-> ms[i].docid])))
                  ELSE NextTail(ExpectedTails(ms), <<>>, 1)
  IN  With(CandidateSpans, LAMBDA spans :
        IF \E i \in 1..Len(spans) : ~AllOk(spans[i]) THEN Corrupt ELSE Emit(PhraseMatches(spans)))

\* Fault: the tail is matched again and again.
BadTailChecked ==
  LET both  == SelectSeq(q.expected, LAMBDA e : e.docid \in ToSet(q.cand))
      docs  == Eager([i \in 1..Len(both) |-> both[i].docid])
  IN  NextTail(q.expected, UnionSortedMany(<<q.acc, docs>>), q.tail)
\* The documents in which the tail is at an expected position; the positions
\* of the others are not read.
TailChecked ==
  With(SelectSeq(q.expected, LAMBDA e : e.docid \in ToSet(q.cand)), LAMBDA both :
  AllOrCorrupt(Eager([i \in 1..Len(both) |-> CursorPositions(q.srcs[1], both[i].docid)]),
    LAMBDA spans :
  With(SelectSeq(Count(Len(both)), LAMBDA i : both[i].positions \cap spans[i] # {}), LAMBDA hits :
    NextTail(q.expected,
             UnionSortedMany(<<q.acc, Eager([i \in 1..Len(hits) |-> both[hits[i]].docid])>>),
             q.tail + 1))))

Conjoined == q.stage = "matched" /\ q.kind = "and" /\ Takes(Moves(Finished("ok", q.cand)))
EmitPhrase == q.stage = "matched" /\ q.kind # "and" /\ q.tail = 0 /\ Takes(PhraseChecked)
MatchTail == q.stage = "matched" /\ q.tail > 0 /\ Takes(TailChecked)

(***************************************************************************)
(* The rest: a fetch of a caller's own, the backend, errors, the return.   *)
(***************************************************************************)
BeginRaw ==
  /\ phase = "serving" /\ q.stage = "idle" /\ ~cfg.rot
  /\ \E ranges \in RawFetches, gap \in {0, SameTermGap} :
       Takes(Reads([NoQuery EXCEPT !.kind = "fetch", !.stage = "fetching"], ranges, gap))

FetchDone == q.stage = "fetching" /\ io.state = "ok" /\ Takes(Moves(Finished("ok", <<>>)))

\* Fault: the first failed GET of a wave ends the batch; the others fly on.
BadGetReturns ==
  /\ io.state = "reading"
  /\ \E i \in io.flying, ok \in BOOLEAN :
       /\ Charge(ok)
       /\ io' = IF ok THEN AfterReturn(io, i, ok, object)
                ELSE [io EXCEPT !.state = "error", !.flying = {}, !.errs = {i}]
  /\ UNCHANGED <<serving, meter, q>>
GetReturns ==
  /\ io.state = "reading"
  /\ \E i \in io.flying, ok \in BOOLEAN : Charge(ok) /\ io' = AfterReturn(io, i, ok, object)
  /\ UNCHANGED <<serving, meter, q>>

FetchFails ==
  /\ io.state = "error"
  /\ Takes(IF io.errs = {} THEN Corrupt ELSE Moves(Finished("io_error", <<>>)))

Return ==
  /\ q.stage = "done"
  /\ q' = NoQuery /\ meter' = ColdMeter
  /\ UNCHANGED <<serving, faults, io>>

QueryStep ==
  \/ ResolveTerm \/ Expand \/ LookupFails
  \/ UnionPreludes \/ UnionDocs \/ UnionDecode
  \/ PostingPrelude \/ PostingBlocks \/ PostingDecode
  \/ PlanTerms \/ OpenPreludes \/ ConjunctionTerm \/ ConjunctionWindows
  \/ Conjoined \/ EmitPhrase \/ MatchTail
  \/ FetchDone \/ GetReturns \/ FetchFails

Next == Build \/ Rot \/ Open \/ Replace \/ Begin \/ BeginRaw \/ QueryStep \/ Return

\* Weak fairness of QueryStep \/ Return, one of which is enabled exactly while
\* a query is in progress and which change q or io: the thread of a query runs
\* on, and every GET returns, one way or the other.
QueryRuns == []<>(q.stage = "idle") \/ []<><<TRUE>>_<<q, io>>

Spec == Init /\ [][Next]_vars /\ QueryRuns

(***************************************************************************)
(* What the queries mean, by the documents of the corpus.                  *)
(***************************************************************************)
RECURSIVE Like(_, _)
Like(pattern, text) ==
  IF pattern = <<>> THEN text = <<>>
  ELSE IF Head(pattern) = Star
  THEN \E n \in 0..Len(text) : Like(Tail(pattern), SubSeq(text, n + 1, Len(text)))
  ELSE text # <<>> /\ Head(pattern) \in {Question, Head(text)} /\ Like(Tail(pattern), Tail(text))

Means(kind, pattern, term) ==
  CASE kind = "wildcard" -> Like(pattern, term)
    [] kind = "regexp" -> RegexMatch(pattern, term)
    [] OTHER -> HasPrefix(term, pattern)

\* Document d has the terms at consecutive positions, the last of them a
\* member of Tails.
PhraseAt(d, terms, Tails) ==
  \E s \in 0..MaxPosition :
    /\ \A i \in 1..(Len(terms) - 1) : s + (i - 1) \in Places(d, terms[i])
    /\ \E t \in Tails : s + Len(terms) - 1 \in Places(d, t)

Answer(kind, terms) ==
  IF terms = <<>> THEN {}
  ELSE CASE kind \in {"term", "or"} -> UNION {DocsOf(terms[i]) : i \in 1..Len(terms)}
         [] kind = "and" -> {d \in DOMAIN corpus : \A i \in 1..Len(terms) : d \in DocsOf(terms[i])}
         [] kind = "phrase" -> {d \in DOMAIN corpus : PhraseAt(d, terms, {Last(terms)})}
         [] kind = "phrase_prefix" ->
              {d \in DOMAIN corpus :
                 PhraseAt(d, terms, {t \in TermSet : HasPrefix(t, Last(terms))})}
         [] OTHER -> UNION {DocsOf(t) : t \in {u \in TermSet : Means(kind, terms[1], u)}}

Answered(kinds) == q.stage = "done" /\ q.kind \in kinds /\ q.status = "ok"
Exact == q.result = Sorted(Answer(q.kind, q.terms))

(***************************************************************************)
(* Properties.                                                             *)
(***************************************************************************)
\* A term, OR, AND, prefix, wildcard or regexp query that succeeds returns
\* exactly the documents it asks for, each once and ascending, whatever block,
\* window or inline entry the postings ended up in, in whatever order ties were
\* sorted and although the later terms of a conjunction read only some of their
\* windows (emit_docid_union, BuildConjunction).
DocidsExact ==
  damage = NoDamage /\ Answered({"term", "or", "and", "prefix", "wildcard", "regexp"}) => Exact

\* A phrase or phrase-prefix query that succeeds returns exactly the documents
\* with the terms side by side, also at the end of the position range
\* (EmitPhraseStreaming, CollectExpectedTailPositions).
PhraseExact == damage = NoDamage /\ Answered({"phrase", "phrase_prefix"}) => Exact

\* regexp_query returns exactly the documents with a term that std::regex_match
\* accepts.
RegexpExact == damage = NoDamage /\ Answered({"regexp"}) => Exact

\* read_windowed_posting returns the documents, frequencies and positions that
\* were indexed.
PostingExact ==
  damage = NoDamage /\ Answered({"posting"}) =>
    LET tp == TermPostings(q.terms[1])
    IN  /\ Len(q.result) = Len(tp.docids)
        /\ \A i \in 1..Len(q.result) :
             /\ q.result[i].doc = tp.docids[i]
             /\ q.result[i].freq = IF HasFreq(cfg.tier) THEN tp.freqs[i] ELSE 0
             /\ idx.has_positions => ToSet(q.result[i].positions) = Places(tp.docids[i], q.terms[1])


\* A container that was stored opens, and says of itself what was indexed:
\* statistics, tier and norms (SniiSegmentReader::open_index).
OpenedFaithful ==
  /\ phase = "unreadable" => damage # NoDamage
  /\ phase = "serving" /\ q.stage = "idle" /\ damage = NoDamage =>
       /\ \A f \in DOMAIN Stats : idx.stats[f] = Stats[f]
       /\ idx.tier = cfg.tier /\ idx.has_positions = HasPrx(cfg.tier)
       /\ cfg.tier = 3 => NormsOpen(Take(object, idx.refs.norms.offset, idx.refs.norms.length)) = Norms

\* The places no checksum covers: the bits of a filter that is probed in place,
\* and the prelude of a windowed posting (its crc leaves the window rows out).
Unchecked ==
  LET Span(r) == (r.offset + 1)..(r.offset + r.len)
  IN  With([object EXCEPT ![damage.at] = damage.was], LAMBDA whole :
      With(OpenIndex(whole, Writer.id, Writer.suffix, cfg.resident_max), LAMBDA was :
        UNION {Span(PreludeRange(was, p)) :
                 p \in {h \in ToSet(PrefixTerms(whole, was, <<>>).hits) : IsWindowed(h)}}
        \cup (IF was.bsbf.resident THEN {}
              ELSE Span([offset |-> was.refs.bsbf.offset, len |-> was.refs.bsbf.length]))))

\* A query over a container in which one checksummed byte changed gives the
\* right answer or an error, never a wrong answer.
DamageSeen ==
  damage # NoDamage /\ q.stage = "done" /\ q.status = "ok" => Exact \/ damage.at \in Unchecked

\* A batch that succeeds gave every request the bytes of its own range, however
\* the ranges overlap, are merged and return (BatchRangeFetcher::get).
FetchExact ==
  /\ BatchComplete(object)
  /\ io.state = "ok" => \A h \in 1..Len(io.reqs) : Got(h) = Bytes(object, io.reqs[h])

\* The fetching of the queries is the batch reader of ReadBatch: a batch starts
\* when none is being read, ends when every GET of its last wave is back, and
\* reads a container that stays as it is (S3FileReader::read_batch, FileReader).
Batch == INSTANCE BatchReader WITH file <- object
FetchRefines == Batch!Spec

\* The meter counts what a cold reader moved: every block a fetch touched is
\* resident, its bytes counted once, and no GET fetched nothing.
MeterTruthful ==
  /\ meter.bytes = MapThenSumSet(LAMBDA b : BlockBytes(b, Len(object)), meter.resident)
  /\ meter.gets <= Cardinality(meter.resident) /\ meter.rounds <= meter.gets
  /\ io.state \in {"reading", "ok"} =>
       \A i \in 1..Len(io.segs) : BlockRange(io.segs[i]) \subseteq meter.resident

\* After its lookups a docid union takes at most two rounds of reads, one for
\* preludes and one for documents (docid_posting_reader.h:26).
TwoRounds ==
  Answered({"term", "or", "prefix", "wildcard", "regexp"}) /\ q.result # <<>> =>
    meter.rounds <= q.looked + 2

\* A query that was started returns: no round of reads, no tail of a phrase
\* prefix and no term of a conjunction keeps it for ever.
QueryReturns == q.stage # "idle" ~> q.stage = "idle"

\* Every codec gives back what it was given, whichever width, exception list,
\* run boundary or compression the level and the numbers lead to: regions of
\* frequencies and documents, windows of positions, the null bitmap.
CodecRoundTrip ==
  phase = "terms" /\ next = 1 /\ faults = 0 =>
    \A v \in CodecInputs, level \in {-1, 0, 3} :
      LET docs == Accumulate(v, 5)
          dd   == BuildDdRegion(docs, 5, level)
          freq == BuildFreqRegion(v, level)
          prx  == BuildPrxWindow(<<docs, <<>>, v>>, level)
          bits == NullBitmapFinish(ToSet(v), 9)
      IN  /\ DecodeDdRegion(dd.bytes, dd.meta, 5) = docs
          /\ DecodeFreqRegion(freq.bytes, freq.meta, Len(v)) = v
          /\ Ascending(v) <=> prx # Err
          /\ Ascending(v) => ReadPrxWindow(prx) = <<docs, <<>>, v>>
          /\ NullBitmapOpen(bits) = [doc_count |-> 9, nulls |-> ToSet(v)]

\* The memory the writer reports is the memory its dictionary buffer holds,
\* through spills and failed spills, and nothing once it is gone.
ReporterBalanced == reported = RamBytes(dict)

\* What is streamed into the container as the dictionary is every block at the
\* place its directory record gives, whether or not the buffer spilled.
BlocksInPlace ==
  phase = "finish" =>
    /\ Len(out) - dict_off = SeqSum([i \in 1..Len(blocks) |-> blocks[i].length])
    /\ \A i \in 1..Len(blocks) :
         LET disk  == Take(out, dict_off + blocks[i].rel_offset, blocks[i].length)
             plain == IF blocks[i].flags = 0 THEN disk ELSE ZstdDecompress(disk, blocks[i].uncomp_len)
         IN  plain # Err /\ Crc32c(plain) = blocks[i].checksum

=============================================================================
