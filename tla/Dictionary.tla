----------------------------- MODULE Dictionary -----------------------------
(***************************************************************************)
(* The term dictionary of a logical index: entries (inline postings or a   *)
(* reference into the posting region), front-coded blocks with anchors,    *)
(* the sampled index of the blocks' first terms, the block directory and   *)
(* the split-block bloom filter in front of them                           *)
(* (core/src/format/dict_entry.cpp, dict_block.cpp, sampled_term_index.cpp,*)
(* dict_block_directory.cpp, bsbf.cpp).                                    *)
(*                                                                         *)
(* A term is a sequence of bytes.                                          *)
(***************************************************************************)
EXTENDS Postings

CONSTANTS AnchorInterval,      \* entries between two anchors of a block (16)
          BsbfLanes,           \* words of a bloom block, one byte each here (8 of 32 bits)
          BsbfBitsPerTerm,     \* filter bits per term, before rounding up
          BsbfMaxBytes         \* the largest filter (128 MiB)

TermLess(a, b) ==
  With({i \in 1..MinOf(Len(a), Len(b)) : a[i] # b[i]}, LAMBDA diff :
    IF diff = {} THEN Len(a) < Len(b) ELSE a[Min(diff)] < b[Min(diff)])

HasPrefix(t, p) == Len(t) >= Len(p) /\ SubSeq(t, 1, Len(p)) = p

CommonPrefixLen(t, prev) ==
  Max({n \in 0..MinOf(Len(t), Len(prev)) : SubSeq(t, 1, n) = SubSeq(prev, 1, n)})

WriteTermKey(t, prev) ==
  With(CommonPrefixLen(t, prev), LAMBDA n : Varint(n) \o Blob(SubSeq(t, n + 1, Len(t))))

\* <<term, next position>>
ReadTermKey(b, p, prev) ==
  Then(GetFields(b, p, <<<<"prefix", "varint">>, <<"suffix", "blob">>>>), LAMBDA k :
    IF k.prefix > Len(prev) THEN Err
    ELSE <<SubSeq(prev, 1, k.prefix) \o k.suffix, k.pos>>)

(***************************************************************************)
(* Entries.  Statistics, frequencies and positions exist from tier 2 on.   *)
(***************************************************************************)
TierHasStats(tier) == tier >= 2

DictEntryDefault ==
  [term |-> <<>>, kind |-> "pod_ref", enc |-> "slim", has_sb |-> FALSE,
   df |-> 0, ttf_delta |-> 0, max_freq |-> 0,
   frq_off_delta |-> 0, frq_len |-> 0, prelude_len |-> 0, frq_docs_len |-> 0,
   prx_off_delta |-> 0, prx_len |-> 0, dd_meta |-> NoRegion.meta, freq_meta |-> NoRegion.meta,
   inline_dd_disk_len |-> 0, frq_bytes |-> <<>>, prx_bytes |-> <<>>]

PackFlags(e) == Flag(e.kind = "inline", 1) + Flag(e.enc = "windowed", 2) + Flag(e.has_sb, 4)

PackWinMode(e) == Flag(e.dd_meta.zstd, 1) + Flag(e.freq_meta.zstd, 2)

WriteRegionMeta(e, tier, store_crc) ==
  LET Put(m) == Varint(m.uncomp_len) \o (IF store_crc THEN PutFixed(m.crc, 4) ELSE <<>>)
  IN  <<PackWinMode(e)>> \o Put(e.dd_meta)
      \o (IF TierHasStats(tier) THEN Put(e.freq_meta) ELSE <<>>)

WritePodRef(e, tier) ==
  Varint(e.frq_off_delta) \o Varint(e.frq_len)
  \o (IF e.enc = "windowed" THEN Varint(e.prelude_len)
      ELSE Varint(e.frq_docs_len) \o WriteRegionMeta(e, tier, TRUE))
  \o (IF TierHasStats(tier) THEN Varint(e.prx_off_delta) \o Varint(e.prx_len) ELSE <<>>)

WriteInline(e, tier) ==
  Blob(e.frq_bytes) \o Varint(e.inline_dd_disk_len) \o WriteRegionMeta(e, tier, FALSE)
  \o (IF TierHasStats(tier) THEN Blob(e.prx_bytes) ELSE <<>>)

WriteStats(e, tier) ==
  Varint(e.df) \o (IF TierHasStats(tier) THEN Varint(e.ttf_delta) \o Varint(e.max_freq)
                   ELSE <<>>)

WriteBody(e, prev, tier) ==
  WriteTermKey(e.term, prev) \o <<PackFlags(e)>> \o WriteStats(e, tier)
  \o (IF e.kind = "inline" THEN WriteInline(e, tier) ELSE WritePodRef(e, tier))

EncodeDictEntry(e, prev, tier) == Blob(WriteBody(e, prev, tier))

\* The fields that follow the flags byte of an entry.
BodyFields(inline, windowed, tier) ==
  LET Stats(fs) == IF TierHasStats(tier) THEN fs ELSE <<>>
      Meta(crcs) == <<<<"mode", "u8">>, <<"dd_unc", "varint">>>>
                    \o (IF crcs THEN <<<<"dd_crc", "u32">>>> ELSE <<>>)
                    \o Stats(<<<<"freq_unc", "varint">>>>
                             \o (IF crcs THEN <<<<"freq_crc", "u32">>>> ELSE <<>>))
  IN  <<<<"df", "varint">>>> \o Stats(<<<<"ttf_delta", "varint">>, <<"max_freq", "varint">>>>)
      \o (IF inline
          THEN <<<<"frq_bytes", "blob">>, <<"inline_dd_disk_len", "varint">>>> \o Meta(FALSE)
               \o Stats(<<<<"prx_bytes", "blob">>>>)
          ELSE <<<<"frq_off_delta", "varint">>, <<"frq_len", "varint">>>>
               \o (IF windowed THEN <<<<"prelude_len", "varint">>>>
                   ELSE <<<<"frq_docs_len", "varint">>>> \o Meta(TRUE))
               \o Stats(<<<<"prx_off_delta", "varint">>, <<"prx_len", "varint">>>>))

\* The region metadata of a slim or inline entry: lengths follow from the split
\* of its bytes, and inline regions carry no checksum of their own.
ReadRegionMeta(f, tier, has_crc, dd_len, freq_len) ==
  LET Meta(zstd, unc, len, crc) == [zstd |-> zstd, uncomp_len |-> unc, disk_len |-> len,
                                    crc |-> crc, verify_crc |-> has_crc]
  IN  IF f.mode > 3 \/ dd_len < 0 \/ freq_len < 0 \/ (~TierHasStats(tier) /\ f.mode > 1)
      THEN Err
      ELSE [dd |-> Meta(f.mode % 2 = 1, f.dd_unc, dd_len, IF has_crc THEN f.dd_crc ELSE 0),
            freq |-> IF TierHasStats(tier)
                     THEN Meta(f.mode \div 2 = 1, f.freq_unc, freq_len,
                               IF has_crc THEN f.freq_crc ELSE 0)
                     ELSE NoRegion.meta]

\* The entry at p and the position after it; it must fill its declared length.
DecodeDictEntry(b, p, prev, tier) ==
  LET Inline(flags) == flags % 2 = 1
      Windowed(flags) == (flags \div 2) % 2 = 1
      Metas(flags, f) ==
        IF Inline(flags) THEN ReadRegionMeta(f, tier, FALSE, f.inline_dd_disk_len,
                                             Len(f.frq_bytes) - f.inline_dd_disk_len)
        ELSE IF Windowed(flags) THEN [dd |-> NoRegion.meta, freq |-> NoRegion.meta]
        ELSE ReadRegionMeta(f, tier, TRUE, f.frq_docs_len, f.frq_len - f.frq_docs_len)
      Entry(term, flags, f, metas) ==
        [k \in DOMAIN DictEntryDefault |->
          CASE k = "term" -> term
            [] k = "kind" -> IF Inline(flags) THEN "inline" ELSE "pod_ref"
            [] k = "enc" -> IF Windowed(flags) THEN "windowed" ELSE "slim"
            [] k = "has_sb" -> (flags \div 4) % 2 = 1
            [] k = "dd_meta" -> metas.dd
            [] k = "freq_meta" -> metas.freq
            [] k \in DOMAIN f -> f[k]
            [] OTHER -> DictEntryDefault[k]]
  IN  Then(DecodeVarint(b, p, 0), LAMBDA len :
      Then(IF len[1] > Len(b) - len[2] THEN Err ELSE ReadTermKey(b, len[2], prev), LAMBDA key :
      Then(GetFixed(b, key[2], 1), LAMBDA flags :
      Then(GetFields(b, flags[2], BodyFields(Inline(flags[1]), Windowed(flags[1]), tier)),
           LAMBDA f :
      Then(Metas(flags[1], f), LAMBDA metas :
        IF f.pos # len[2] + len[1] THEN Err
        ELSE [pos |-> f.pos, entry |-> Entry(key[1], flags[1], f, metas)])))))

(***************************************************************************)
(* Blocks.  block = [frq_base, prx_base, entries].                         *)
(***************************************************************************)
kDictBlockFormatVer == 1
IsAnchor(i) == (i - 1) % (IF AnchorInterval = 0 THEN 1 ELSE AnchorInterval) = 0

EstimateEntryBytes(e) ==
  LET body == 2 * VarintLen(Len(e.term)) + Len(e.term) + 1 + 30
              + (IF e.kind = "inline" THEN 20 + Len(e.frq_bytes) + Len(e.prx_bytes) ELSE 50)
  IN  VarintLen(body) + body

EstimatedBytes(block, has_pos) ==
  LET n == Len(block.entries)
  IN  VarintLen(n) + 2 + VarintLen(block.frq_base)
      + (IF has_pos THEN VarintLen(block.prx_base) ELSE 0)
      + SeqSum([i \in 1..n |-> EstimateEntryBytes(block.entries[i])])
      + 4 * Cardinality({i \in 1..n : IsAnchor(i)}) + 4 + 4

DictBlockFinish(block, tier, has_pos) ==
  LET n == Len(block.entries)
      anchors == SelectSeq(Count(n), IsAnchor)
  IN  With(Varint(n) \o <<kDictBlockFormatVer, Flag(has_pos, 1)>>
           \o Varint(block.frq_base) \o (IF has_pos THEN Varint(block.prx_base) ELSE <<>>),
        LAMBDA header :
      With(Eager([i \in 1..n |->
             EncodeDictEntry(block.entries[i],
                             IF IsAnchor(i) THEN <<>> ELSE block.entries[i - 1].term, tier)]),
        LAMBDA bytes :
      With(Accumulate([i \in 1..n |-> Len(bytes[i])], Len(header)), LAMBDA ends :
        WithCrc(header \o Concat(bytes)
                \o Concat([k \in 1..Len(anchors) |->
                     PutFixed(ends[anchors[k]] - Len(bytes[anchors[k]]), 4)])
                \o PutFixed(Len(anchors), 4)))))

\* [frq_base, prx_base, n_entries, segments]: the block's entries, cut at the
\* anchors; a segment is [term, bytes] with the term of its anchor entry.
DictBlockOpen(b, tier, has_pos) ==
  LET Covered == SubSeq(b, 1, Len(b) - 4)
      Segments(covered, offs, table) ==
        With(Eager([k \in 1..Len(offs) |->
               DecodeDictEntry(Take(covered, offs[k], table - offs[k]), 0, <<>>, tier)]),
          LAMBDA probes :
            IF \E k \in 1..Len(offs) : probes[k] = Err THEN Err
            ELSE Eager([k \in 1..Len(offs) |->
                   [term  |-> probes[k].entry.term,
                    bytes |-> Take(covered, offs[k],
                                   (IF k = Len(offs) THEN table ELSE offs[k + 1]) - offs[k])]]))
      Open(covered, h, table, offs) ==
        IF h.ver # kDictBlockFormatVer \/ (h.flags % 2 = 1) # has_pos THEN Err
        ELSE IF h.pos > table THEN Err
        ELSE IF offs # <<>> /\ (offs[1] # h.pos \/ \E k \in DOMAIN offs : offs[k] >= table)
        THEN Err
        ELSE IF \E k \in 2..Len(offs) : offs[k] <= offs[k - 1] THEN Err
        ELSE Then(Segments(covered, offs, table), LAMBDA segs :
               [frq_base |-> h.frq_base, prx_base |-> IF has_pos THEN h.prx_base ELSE 0,
                n_entries |-> h.n_entries, segments |-> segs])
  IN  IF Len(b) < 8 THEN Err
      ELSE IF Crc32c(Covered) # LittleEndian(SubSeq(b, Len(b) - 3, Len(b))) THEN Err
      ELSE With(Covered, LAMBDA covered :
           Then(GetFields(covered, 0,
                  <<<<"n_entries", "varint">>, <<"ver", "u8">>, <<"flags", "u8">>,
                    <<"frq_base", "varint">>>>
                  \o (IF has_pos THEN <<<<"prx_base", "varint">>>> ELSE <<>>)), LAMBDA h :
           With(LittleEndian(SubSeq(covered, Len(covered) - 3, Len(covered))), LAMBDA na :
           With(Len(covered) - 4 - 4 * na, LAMBDA table :
             Open(covered, h, table,
                  Eager([k \in 1..na |-> LittleEndian(Take(covered, table + 4 * (k - 1), 4))]))))))

RECURSIVE DecodeSegment(_, _, _, _)
DecodeSegment(bytes, p, prev, tier) ==
  IF p = Len(bytes) THEN <<>>
  ELSE Then(DecodeDictEntry(bytes, p, prev, tier), LAMBDA e :
       Then(DecodeSegment(bytes, e.pos, e.entry.term, tier), LAMBDA rest : <<e.entry>> \o rest))

DecodeAll(br, tier) ==
  With(Eager([k \in 1..Len(br.segments) |->
                DecodeSegment(br.segments[k].bytes, 0, <<>>, tier)]), LAMBDA segs :
    IF \E k \in DOMAIN segs : segs[k] = Err THEN Err
    ELSE IF Len(Concat(segs)) # br.n_entries THEN Err ELSE Concat(segs))

NotFound == [found |-> FALSE]

\* From an anchor on: the entry whose term is target, unless a greater one
\* comes first; nothing after that entry is decoded.
RECURSIVE ScanFrom(_, _, _, _, _)
ScanFrom(bytes, p, prev, target, tier) ==
  IF p = Len(bytes) THEN NotFound
  ELSE Then(DecodeDictEntry(bytes, p, prev, tier), LAMBDA e :
         IF e.entry.term = target THEN [found |-> TRUE, entry |-> e.entry]
         ELSE IF TermLess(target, e.entry.term) THEN NotFound
         ELSE ScanFrom(bytes, e.pos, e.entry.term, target, tier))

\* The last anchor whose term is not past target; 0 if there is none.
LocateAnchor(br, target) ==
  Max({0} \cup {k \in 1..Len(br.segments) : ~TermLess(target, br.segments[k].term)})

FindTerm(br, target, tier) ==
  With(LocateAnchor(br, target), LAMBDA a :
    IF a = 0 THEN NotFound ELSE ScanFrom(br.segments[a].bytes, 0, <<>>, target, tier))

(***************************************************************************)
(* The sampled term index: every block's first term, front coded.          *)
(***************************************************************************)
kSampledTermIndex == 2
kDictBlockDirectory == 3

StiFinish(firsts) ==
  LET n == Len(firsts)
      keys == Concat([i \in 1..n |-> WriteTermKey(firsts[i], IF i = 1 THEN <<>> ELSE firsts[i - 1])])
  IN  FrameWrite(kSampledTermIndex,
        Varint(n) \o (IF n = 0 THEN <<>>
                      ELSE WriteTermKey(firsts[1], <<>>) \o WriteTermKey(firsts[n], <<>>) \o keys))

StiParsePayload(b) ==
  LET Key(before, p) == ReadTermKey(b, p, IF before = <<>> THEN <<>> ELSE Last(before))
  IN  Then(DecodeVarint(b, 0, 0), LAMBDA n :
      IF n[1] = 0 THEN (IF n[2] = Len(b) THEN <<>> ELSE Err)
      ELSE Then(ReadTermKey(b, n[2], <<>>), LAMBDA min :
           Then(ReadTermKey(b, min[2], <<>>), LAMBDA max :
           Then(GetMany(n[1], max[2], Key), LAMBDA all :
             IF all[2] # Len(b) \/ all[1][1] # min[1] \/ Last(all[1]) # max[1] THEN Err
             ELSE all[1]))))

\* A framed section of the expected type: its payload.
OpenSection(b, type) ==
  Then(FrameRead(b, 0), LAMBDA s : IF s.type # type THEN Err ELSE s.payload)

StiOpen(b) == Then(OpenSection(b, kSampledTermIndex), StiParsePayload)

\* The block that may hold target, the last one whose first term is not after
\* it; 0 when target sorts before every block.
StiLocate(sti, target) ==
  LET le == {i \in 1..Len(sti) : ~TermLess(target, sti[i])}
  IN  IF le = {} THEN 0 ELSE Max(le)

(***************************************************************************)
(* The block directory.                                                    *)
(***************************************************************************)
EncodeRef(r) ==
  Varint(r.offset) \o Varint(r.length) \o Varint(r.n_entries) \o <<r.flags>>
  \o PutFixed(r.checksum, 4) \o (IF r.flags = 1 THEN Varint(r.uncomp_len) ELSE <<>>)

DbdFinish(refs) ==
  FrameWrite(kDictBlockDirectory,
             Varint(Len(refs)) \o Concat([i \in 1..Len(refs) |-> EncodeRef(refs[i])]))

DecodeRef(b, p) ==
  Then(GetFields(b, p, <<<<"offset", "varint">>, <<"length", "varint">>,
                         <<"n_entries", "varint">>, <<"flags", "u8">>, <<"checksum", "u32">>>>),
    LAMBDA r :
      IF r.flags % 2 = 0 THEN ("uncomp_len" :> 0) @@ r
      ELSE Then(DecodeVarint(b, r.pos, 0), LAMBDA u :
             ("uncomp_len" :> u[1]) @@ ("pos" :> u[2]) @@ r))

kMinRefBytes == 8

\* A counted list of rows of at least min_bytes that fills the payload b.
GetRows(b, min_bytes, Row(_, _)) ==
  LET Item(before, p) == Then(Row(b, p), LAMBDA r : <<r, r.pos>>)
  IN  Then(DecodeVarint(b, 0, 0), LAMBDA n :
      Then(IF n[1] > (Len(b) - n[2]) \div min_bytes THEN Err ELSE GetMany(n[1], n[2], Item),
           LAMBDA all : IF all[2] # Len(b) THEN Err ELSE all[1]))

DbdOpen(b) ==
  Then(OpenSection(b, kDictBlockDirectory), LAMBDA p : GetRows(p, kMinRefBytes, DecodeRef))

(***************************************************************************)
(* The split-block bloom filter.  A hash is <<high half, low half>>: the   *)
(* high half picks the block (fastrange), the low half one bit per lane.   *)
(* Halves and lanes are 8 bits wide here (32 in the code).                 *)
(***************************************************************************)
BsbfHash(t) == LET h == (12345 * Crc32c(t)) % 65536 IN <<h \div 256, h % 256>>
BsbfSalt == <<123, 145, 91, 157, 199, 75, 71, 49>>
kBsbfHeaderSize == 28

BsbfBlockIndex(hash, num_blocks) == (hash[1] * num_blocks) \div 256

\* Bit of lane i: the top bits of key * salt.
MaskBit(key, i) == ((key * BsbfSalt[i]) % 256) \div 32

RECURSIVE NextPowerOf2(_, _)
NextPowerOf2(p, n) == IF p >= n THEN p ELSE NextPowerOf2(2 * p, n)

BsbfOptimalNumBytes(ndv) ==
  LET least == MinOf(BsbfBitsPerTerm * ndv, 8 * BsbfMaxBytes)
      bits  == IF least < 8 * BsbfLanes THEN 8 * BsbfLanes ELSE least
  IN  MinOf(NextPowerOf2(1, bits), 8 * BsbfMaxBytes) \div 8

SetBit(byte, i) == IF (byte \div 2^i) % 2 = 1 THEN byte ELSE byte + 2^i

\* Fault: a term sets its bits in the first block, whichever its hash selects.
BadBsbfInsert(bits, hash) ==
  Eager([i \in 1..Len(bits) |->
    IF i \in 1..BsbfLanes THEN SetBit(bits[i], MaskBit(hash[2], i)) ELSE bits[i]])
BsbfInsert(bits, hash) ==
  LET first == BsbfBlockIndex(hash, Len(bits) \div BsbfLanes) * BsbfLanes
  IN  Eager([i \in 1..Len(bits) |->
        IF i \in (first + 1)..(first + BsbfLanes)
        THEN SetBit(bits[i], MaskBit(hash[2], i - first)) ELSE bits[i]])

BsbfBlockContains(hash, block) ==
  \A i \in 1..BsbfLanes : (block[i] \div 2^MaskBit(hash[2], i)) % 2 = 1

BsbfCreate(ndv) == Eager([i \in 1..BsbfOptimalNumBytes(ndv) |-> 0])

BsbfSerialize(bits, ndv) ==
  WithCrc(<<66, 83, 66, 70, 1, 0, 0, 0>> \o PutFixed(Len(bits), 4)
          \o PutFixed(Len(bits) \div BsbfLanes, 4) \o PutFixed(ndv, 4))
  \o PutFixed(Crc32c(bits), 4) \o bits

\* create, one insert per term, serialize.
BsbfBuild(hashes) ==
  LET n == IF hashes = <<>> THEN 1 ELSE Len(hashes)
  IN  BsbfSerialize(Fold(BsbfInsert, BsbfCreate(n), hashes), n)

BsbfParse(b, base) ==
  Then(GetFields(b, 0, <<<<"magic", "u32">>, <<"version", "u8">>, <<"hash", "u8">>,
                         <<"index", "u8">>, <<"pad", "u8">>, <<"num_bytes", "u32">>,
                         <<"num_blocks", "u32">>, <<"ndv", "u32">>, <<"crc", "u32">>,
                         <<"bitset_crc", "u32">>>>), LAMBDA h :
      IF h.magic # LittleEndian(<<66, 83, 66, 70>>) \/ h.version # 1 THEN Err
      ELSE IF h.hash # 0 \/ h.index # 0 \/ h.crc # Crc32c(SubSeq(b, 1, 20)) THEN Err
      ELSE IF h.num_bytes \notin BsbfLanes..BsbfMaxBytes THEN Err
      ELSE IF NextPowerOf2(1, h.num_bytes) # h.num_bytes THEN Err
      ELSE IF h.num_blocks # h.num_bytes \div BsbfLanes THEN Err
      ELSE [num_bytes |-> h.num_bytes, num_blocks |-> h.num_blocks,
            bitset_crc |-> h.bitset_crc, bitset_base |-> base + kBsbfHeaderSize])

=============================================================================
