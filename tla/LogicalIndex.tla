---------------------------- MODULE LogicalIndex ----------------------------
(***************************************************************************)
(* What one logical index writes for a term, and how a reader opens the    *)
(* container, opens the index and resolves a term or a prefix              *)
(* (core/src/writer/logical_index_writer.cpp,                              *)
(* core/src/reader/snii_segment_reader.cpp, logical_index_reader.cpp,      *)
(* windowed_posting.cpp).                                                  *)
(*                                                                         *)
(* A reader's result carries "reads", the ranges it read_at, in order.     *)
(***************************************************************************)
EXTENDS Sections

CONSTANTS SlimDfThreshold,     \* doc frequency from which a posting is windowed (512)
          InlineThreshold      \* .frq bytes up to which a posting is inline (256)

(***************************************************************************)
(* The writer.  w = [tier, norms, target], norms <<>> below tier 3;        *)
(* tp = [term, docids, freqs, positions].                                  *)
(***************************************************************************)
HasFreq(tier) == tier >= 2
HasPrx(tier) == tier >= 2

ValidateTerm(tp, tier) ==
  /\ Len(tp.freqs) = Len(tp.docids)
  /\ HasPrx(tier) => SeqSum(tp.freqs) = Len(tp.positions)
  /\ \A i \in 2..Len(tp.docids) : tp.docids[i - 1] < tp.docids[i]

\* [out, entry]: the bytes a term appends to the posting region, which has
\* size bytes, and its dictionary entry; base is where its block began.
BuildWindowedEntry(tp, w, size, base) ==
  LET Entry(wp, prelude, frq) ==
        [out   |-> wp.prx \o frq,
         entry |-> [DictEntryDefault EXCEPT
                      !.enc = "windowed", !.has_sb = TRUE, !.prelude_len = Len(prelude),
                      !.frq_docs_len = Len(prelude) + Len(wp.dd_block),
                      !.frq_off_delta = (size + Len(wp.prx)) - base, !.frq_len = Len(frq),
                      !.prx_off_delta = IF HasPrx(w.tier) THEN size - base ELSE 0,
                      !.prx_len = Len(wp.prx)]]
  IN  With(BuildWindowedPosting(tp, HasFreq(w.tier), HasPrx(w.tier), w.norms), LAMBDA wp :
      With(BuildFrqPrelude(wp.windows, HasFreq(w.tier), HasPrx(w.tier)), LAMBDA prelude :
        Entry(wp, prelude, prelude \o wp.dd_block \o wp.freq_block)))

BuildSlimEntry(tp, w, size, base) ==
  LET Entry(reg, frq, prx, e) ==
        IF Len(frq) <= InlineThreshold
        THEN [out   |-> <<>>,
              entry |-> [e EXCEPT !.kind = "inline",
                                  !.inline_dd_disk_len = reg.dd.meta.disk_len,
                                  !.frq_bytes = frq, !.prx_bytes = prx]]
        ELSE [out   |-> prx \o frq,
              entry |-> [e EXCEPT !.frq_docs_len = reg.dd.meta.disk_len,
                                  !.prx_off_delta = IF HasPrx(w.tier) THEN size - base ELSE 0,
                                  !.prx_len = Len(prx),
                                  !.frq_off_delta = (size + Len(prx)) - base,
                                  !.frq_len = Len(frq)]]
  IN  With(EncodeRegions(tp.docids, tp.freqs, 0, HasFreq(w.tier)), LAMBDA reg :
        Entry(reg, reg.dd.bytes \o reg.freq.bytes,
              IF HasPrx(w.tier) THEN MakePrxWindow(tp.positions, tp.freqs) ELSE <<>>,
              [DictEntryDefault EXCEPT !.dd_meta = reg.dd.meta, !.freq_meta = reg.freq.meta]))

BuildEntry(tp, w, size, base) ==
  With(IF Len(tp.docids) >= SlimDfThreshold
       THEN BuildWindowedEntry(tp, w, size, base) ELSE BuildSlimEntry(tp, w, size, base),
    LAMBDA b :
      [b EXCEPT !.entry.term = tp.term, !.entry.df = Len(tp.docids),
                !.entry.ttf_delta = SeqSum(tp.freqs), !.entry.max_freq = SeqMax(tp.freqs)])

\* [bytes, rec]: a finished block as it is stored, and its directory record.
FlushBlock(block, tier, offset) ==
  LET Stored(plain, zstd, bytes) ==
        [bytes |-> bytes,
         rec   |-> [rel_offset |-> offset, length |-> Len(bytes),
                    n_entries |-> Len(block.entries), checksum |-> Crc32c(plain),
                    flags |-> Flag(zstd, 1), uncomp_len |-> Flag(zstd, Len(plain)),
                    first_term |-> block.entries[1].term]]
  IN  With(DictBlockFinish(block, tier, HasPrx(tier)), LAMBDA plain :
      With(ZstdCompress(plain), LAMBDA comp :
        IF Len(comp) < Len(plain) THEN Stored(plain, TRUE, comp)
        ELSE Stored(plain, FALSE, plain)))

\* The index's metadata block, once the places of its sections are known.
FinishMeta(w, stats, blocks, refs) ==
  PerIndexMetaFinish(
    [id |-> w.id, suffix |-> w.suffix, stats |-> stats, refs |-> refs,
     flags |-> Flag(refs.bsbf.length > 0, kHasBsbf) + Flag(HasPrx(w.tier), kHasPositions),
     sti |-> StiFinish([i \in 1..Len(blocks) |-> blocks[i].first_term]),
     dbd |-> DbdFinish([i \in 1..Len(blocks) |->
               ("offset" :> refs.dict_region.offset + blocks[i].rel_offset) @@ blocks[i]])])

\* finish(): norms, filter, tail meta region and tail pointer after out, which
\* ends with the posting region [post, dict) and the dictionary from dict on.
FinishContainer(out, w, stats, blocks, hashes, post, dict) ==
  LET Region(off, len) == [offset |-> IF len = 0 THEN 0 ELSE off, length |-> len]
      Refs(norms, bsbf) ==
        [dict_region    |-> [offset |-> dict, length |-> Len(out) - dict],
         posting_region |-> [offset |-> post, length |-> dict - post],
         norms          |-> Region(Len(out), Len(norms)),
         null_bitmap    |-> Region(0, 0),
         bsbf           |-> Region(Len(out) + Len(norms), Len(bsbf))]
      Close(bytes, region) ==
        bytes \o region \o EncodeTailPointer([offset |-> Len(bytes), length |-> Len(region),
                                              checksum |-> Crc32c(region)])
  IN  With(IF w.norms = <<>> THEN <<>> ELSE NormsFinish(w.norms), LAMBDA norms :
      With(IF hashes = <<>> THEN <<>> ELSE BsbfBuild(hashes), LAMBDA bsbf :
        Close(out \o norms \o bsbf,
              TailMetaRegionFinish(
                <<[id |-> w.id, suffix |-> w.suffix,
                   bytes |-> FinishMeta(w, stats, blocks, Refs(norms, bsbf))]>>))))

(***************************************************************************)
(* Opening: bootstrap header, tail pointer, tail meta region, the index.   *)
(***************************************************************************)
ReadAt(file, off, len) ==
  IF off > Len(file) \/ len > Len(file) - off THEN Err ELSE Take(file, off, len)

ReadBootstrap(file) ==
  Then(ReadAt(file, 0, kBootstrapHeaderSize), DecodeBootstrapHeader)

ReadTailPointer(file) ==
  IF Len(file) < TailPointerSize THEN Err
  ELSE DecodeTailPointer(ReadAt(file, Len(file) - TailPointerSize, TailPointerSize))

\* [region, dir]: the tail meta region and its directory.
SegmentOpen(file) ==
  Then(ReadBootstrap(file), LAMBDA bootstrap :
  Then(ReadTailPointer(file), LAMBDA tp :
  Then(IF tp.length = 0 THEN Err ELSE ReadAt(file, tp.offset, tp.length), LAMBDA reg :
  Then(IF Crc32c(reg) # tp.checksum THEN Err ELSE TailMetaRegionOpen(reg), LAMBDA dir :
    [region |-> reg, dir |-> dir]))))

NoFilter == [has |-> FALSE]

\* The filter: its header, and all of its bits when it fits resident_max.
OpenBsbf(file, bsbf, resident_max) ==
  LET resident == bsbf.length <= resident_max
      Filter(h, bits) ==
        IF h.num_bytes # bsbf.length - kBsbfHeaderSize THEN Err
        ELSE IF resident /\ Crc32c(bits) # h.bitset_crc THEN Err
        ELSE [has |-> TRUE, resident |-> resident, header |-> h,
              bits |-> IF resident THEN bits ELSE <<>>]
  IN  IF bsbf.length = 0 THEN NoFilter
      ELSE IF bsbf.length <= kBsbfHeaderSize THEN Err
      ELSE Then(ReadAt(file, bsbf.offset, IF resident THEN bsbf.length ELSE kBsbfHeaderSize),
             LAMBDA head :
           Then(BsbfParse(SubSeq(head, 1, kBsbfHeaderSize), bsbf.offset), LAMBDA h :
             Filter(h, SubSeq(head, kBsbfHeaderSize + 1, Len(head)))))

LogicalIndexOpen(file, tier, has_positions, meta_bytes, resident_max) ==
  Then(PerIndexMetaOpen(meta_bytes), LAMBDA m :
  Then(StiOpen(m.sti), LAMBDA sti :
  Then(DbdOpen(m.dbd), LAMBDA dbd :
  Then(OpenBsbf(file, m.refs.bsbf, resident_max), LAMBDA f :
    [tier |-> tier, has_positions |-> has_positions, stats |-> m.stats,
     refs |-> m.refs, sti |-> sti, dbd |-> dbd, bsbf |-> f]))))

\* open_index: the tier and the positions capability come from the metadata.
OpenIndex(file, id, suffix, resident_max) ==
  LET HasNorms(m) == m.refs.norms.length > 0
      HasPositions(m) == m.flags % 2 = kHasPositions \/ HasNorms(m)
  IN  Then(SegmentOpen(file), LAMBDA seg :
      Then(TailMetaFind(seg.region, seg.dir, id, suffix), LAMBDA bytes :
      Then(PerIndexMetaOpen(bytes), LAMBDA m :
        LogicalIndexOpen(file, IF HasNorms(m) THEN 3 ELSE IF HasPositions(m) THEN 2 ELSE 1,
                         HasPositions(m), bytes, resident_max))))

(***************************************************************************)
(* Resolving a term or a prefix.                                           *)
(***************************************************************************)
\* bsbf_probe or the resident bits: [maybe, reads].
ProbeFilter(file, idx, term) ==
  LET Resident(hash, first) ==
        [maybe |-> BsbfBlockContains(hash, SubSeq(idx.bsbf.bits, first + 1, first + BsbfLanes)),
         reads |-> <<>>]
      OnDisk(hash, at) ==
        Then(ReadAt(file, at, BsbfLanes), LAMBDA block :
          [maybe |-> BsbfBlockContains(hash, block),
           reads |-> <<[offset |-> at, len |-> BsbfLanes]>>])
      Probe(hash, first) ==
        IF idx.bsbf.resident THEN Resident(hash, first)
        ELSE OnDisk(hash, idx.bsbf.header.bitset_base + first)
  IN  IF ~idx.bsbf.has THEN [maybe |-> TRUE, reads |-> <<>>]
      ELSE With(BsbfHash(term), LAMBDA hash :
             Probe(hash, BsbfBlockIndex(hash, idx.bsbf.header.num_blocks) * BsbfLanes))

BlockRead(idx, ord) == [offset |-> idx.dbd[ord].offset, len |-> idx.dbd[ord].length]

\* A dictionary block, inflated and opened.
LoadBlock(file, idx, ord) ==
  LET ref == idx.dbd[ord]
  IN  Then(ReadAt(file, ref.offset, ref.length), LAMBDA disk :
      Then(IF ref.flags % 2 = 0 THEN disk
           ELSE IF ref.uncomp_len \notin 1..kHuge THEN Err
           ELSE ZstdDecompress(disk, ref.uncomp_len), LAMBDA plain :
        DictBlockOpen(plain, idx.tier, idx.has_positions)))

Resolved(entry, br) == [entry |-> entry, frq_base |-> br.frq_base, prx_base |-> br.prx_base]

\* [hits, reads]: hits is <<>> or the one resolved posting of the term.
Lookup(file, idx, term) ==
  LET InBlock(ord, reads) ==
        Then(IF ord > Len(idx.dbd) THEN Err ELSE LoadBlock(file, idx, ord), LAMBDA br :
        Then(FindTerm(br, term, idx.tier), LAMBDA hit :
          [hits  |-> IF hit.found THEN <<Resolved(hit.entry, br)>> ELSE <<>>,
           reads |-> Append(reads, BlockRead(idx, ord))]))
  IN  Then(ProbeFilter(file, idx, term), LAMBDA probe :
      With(StiLocate(idx.sti, term), LAMBDA ord :
        IF ~probe.maybe \/ ord = 0 THEN [hits |-> <<>>, reads |-> probe.reads]
        ELSE InBlock(ord, probe.reads)))

\* From block ord on, until the first term past the prefix range.
RECURSIVE ScanBlocks(_, _, _, _, _)
ScanBlocks(file, idx, ord, prefix, acc) ==
  LET Past(entries) == {i \in 1..Len(entries) : ~TermLess(entries[i].term, prefix)
                                                /\ ~HasPrefix(entries[i].term, prefix)}
      Kept(entries, past) ==
        SelectSeq(SubSeq(entries, 1, IF past = {} THEN Len(entries) ELSE Min(past) - 1),
                  LAMBDA e : ~TermLess(e.term, prefix))
      Added(br, kept) ==
        [hits  |-> acc.hits \o [i \in 1..Len(kept) |-> Resolved(kept[i], br)],
         reads |-> Append(acc.reads, BlockRead(idx, ord))]
  IN  IF ord > Len(idx.dbd) THEN acc
      ELSE Then(LoadBlock(file, idx, ord), LAMBDA br :
           Then(DecodeAll(br, idx.tier), LAMBDA entries :
           With(Past(entries), LAMBDA past :
           With(Added(br, Kept(entries, past)), LAMBDA next :
             IF past # {} THEN next ELSE ScanBlocks(file, idx, ord + 1, prefix, next)))))

PrefixTerms(file, idx, prefix) ==
  With(StiLocate(idx.sti, prefix), LAMBDA at :
    ScanBlocks(file, idx, IF prefix = <<>> \/ at = 0 THEN 1 ELSE at, prefix,
               [hits |-> <<>>, reads |-> <<>>]))

(***************************************************************************)
(* Where the bytes of a resolved posting p = [entry, frq_base, prx_base]   *)
(* are: ranges [offset, len] of the file.                                  *)
(***************************************************************************)
ResolveWindow(section, base, off_delta, total_len, prelude_len) ==
  LET in_region == base + off_delta
  IN  IF prelude_len > total_len THEN Err
      ELSE IF in_region > section.length \/ total_len > section.length - in_region THEN Err
      ELSE [offset |-> section.offset + in_region + prelude_len, len |-> total_len - prelude_len]

ResolveFrqWindow(idx, p) ==
  ResolveWindow(idx.refs.posting_region, p.frq_base, p.entry.frq_off_delta, p.entry.frq_len,
                p.entry.prelude_len)

ResolvePrxWindow(idx, p) ==
  ResolveWindow(idx.refs.posting_region, p.prx_base, p.entry.prx_off_delta, p.entry.prx_len, 0)

PreludeAbs(idx, p) == idx.refs.posting_region.offset + p.frq_base + p.entry.frq_off_delta

PreludeRange(idx, p) ==
  IF p.entry.prelude_len \notin 1..p.entry.frq_len THEN Err
  ELSE [offset |-> PreludeAbs(idx, p), len |-> p.entry.prelude_len]

\* The dd-block and the freq-block after the prelude.
ResolveBlocks(idx, p, pre) ==
  LET start == PreludeAbs(idx, p) + p.entry.prelude_len
      total == p.entry.frq_len - p.entry.prelude_len
  IN  IF total < 0 THEN Err
      ELSE IF pre.dd_block_len > total \/ pre.freq_block_len > total - pre.dd_block_len THEN Err
      ELSE [dd   |-> [offset |-> start, len |-> pre.dd_block_len],
            freq |-> [offset |-> start + pre.dd_block_len, len |-> pre.freq_block_len]]

PrxRegion(idx, p) ==
  [offset |-> idx.refs.posting_region.offset + p.prx_base + p.entry.prx_off_delta,
   len |-> p.entry.prx_len]

\* A sub-range of a range that must lie within it.
Within(range, off, len) ==
  IF off > range.len \/ len > range.len - off THEN Err
  ELSE [offset |-> range.offset + off, len |-> len]

\* <<dd>> or <<dd, prx>>: the ranges of window m.
WindowedWindowRange(idx, p, pre, m, want_positions) ==
  Then(ResolveBlocks(idx, p, pre), LAMBDA g :
  Then(Within(g.dd, m.dd.off, m.dd.meta.disk_len), LAMBDA dd :
    IF ~want_positions THEN <<dd>>
    ELSE Then(IF ~pre.has_prx THEN Err ELSE Within(PrxRegion(idx, p), m.prx_off, m.prx_len),
              LAMBDA px : <<dd, px>>)))

\* The documents of window m from its dd region.
DecodeWindowDocs(m, dd) ==
  Then(DecodeDdRegion(dd, m.dd.meta, m.win_base), LAMBDA docs :
    IF Len(docs) # m.doc_count THEN Err ELSE docs)

=============================================================================
