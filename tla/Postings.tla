------------------------------ MODULE Postings ------------------------------
(***************************************************************************)
(* The posting formats: doc-id and frequency regions (.frq), position      *)
(* windows (.prx), the two-level window directory (the .frq prelude), and  *)
(* how the writer cuts a long posting into windows                         *)
(* (core/src/format/frq_pod.cpp, prx_pod.cpp, frq_prelude.cpp,             *)
(* core/src/writer/logical_index_writer.cpp).                              *)
(***************************************************************************)
EXTENDS Encoding

CONSTANTS BaseUnit,            \* docs of a base window and of a PFOR run (256)
          AdaptiveDf,          \* doc frequency from which windows are wider (8192)
          AdaptiveDocs,        \* docs of a wide window (1024)
          GroupSize,           \* windows of a super-block (64)
          AutoZstdMinBytes     \* plain bytes from which "auto" compresses (512)

CeilDiv(a, b) == (a + b - 1) \div b
MinOf(a, b) == IF a < b THEN a ELSE b
RECURSIVE SumRange(_, _, _)
SumRange(s, i, j) ==
  IF i > j THEN 0 ELSE IF i = j THEN s[i]
  ELSE SumRange(s, i, (i + j) \div 2) + SumRange(s, (i + j) \div 2 + 1, j)
SeqSum(s) == SumRange(s, 1, Len(s))
SeqMax(s) == Fold(LAMBDA a, x : IF x > a THEN x ELSE a, 0, s)
Ascending(s) == \A i \in 2..Len(s) : s[i - 1] <= s[i]
Chunks(s, n) ==
  Eager([k \in 1..CeilDiv(Len(s), n) |-> SubSeq(s, (k - 1) * n + 1, MinOf(k * n, Len(s)))])
Deltas(s, base) == Eager([i \in 1..Len(s) |-> s[i] - (IF i = 1 THEN base ELSE s[i - 1])])
Accumulate(s, base) ==
  Fold(LAMBDA a, x : Append(a, x + (IF a = <<>> THEN base ELSE Last(a))), <<>>, s)
\* s cut into consecutive pieces of the given lengths.
Partition(s, lens) ==
  LET upto == Accumulate(lens, 0)
  IN  Eager([d \in 1..Len(lens) |-> SubSeq(s, upto[d] - lens[d] + 1, upto[d])])

(***************************************************************************)
(* PFOR runs: the run count is derived from the number of values.          *)
(***************************************************************************)
EncodePforRuns(v) == Fold(LAMBDA a, run : a \o PforEncode(run), <<>>, Chunks(v, BaseUnit))

DecodePforRuns(b, p, n) ==
  LET Run(acc, k) ==
        Then(acc, LAMBDA a :
        Then(PforDecode(b, a[2], MinOf(BaseUnit, n - (k - 1) * BaseUnit)), LAMBDA r :
          <<a[1] \o r[1], r[2]>>))
  IN  Fold(Run, <<<<>>, p>>, Count(CeilDiv(n, BaseUnit)))

(***************************************************************************)
(* .frq regions.  level = 0 stores raw, > 0 compresses, < 0 decides.       *)
(***************************************************************************)
ShouldCompress(level, len) == level > 0 \/ (level < 0 /\ len >= AutoZstdMinBytes)

EmitRegion(plain, level) ==
  With(IF ShouldCompress(level, Len(plain)) THEN ZstdCompress(plain) ELSE plain, LAMBDA disk :
    [bytes |-> disk,
     meta  |-> [zstd |-> ShouldCompress(level, Len(plain)), uncomp_len |-> Len(plain),
                disk_len |-> Len(disk), crc |-> Crc32c(disk), verify_crc |-> TRUE]])

\* Fault: the checksum of a region is not verified.
BadOpenRegion(disk, meta) ==
  IF Len(disk) # meta.disk_len THEN Err
  ELSE IF meta.zstd THEN ZstdDecompress(disk, meta.uncomp_len)
  ELSE IF meta.uncomp_len # meta.disk_len THEN Err ELSE disk
\* The plain bytes of a region; Err where its bytes contradict its metadata.
OpenRegion(disk, meta) ==
  IF Len(disk) # meta.disk_len \/ (meta.verify_crc /\ Crc32c(disk) # meta.crc) THEN Err
  ELSE IF meta.zstd THEN ZstdDecompress(disk, meta.uncomp_len)
  ELSE IF meta.uncomp_len # meta.disk_len THEN Err ELSE disk

BuildDdRegion(docs, base, level) ==
  IF ~Ascending(<<base>> \o docs) THEN Err
  ELSE EmitRegion(Varint(Len(docs)) \o EncodePforRuns(Deltas(docs, base)), level)

BuildFreqRegion(freqs, level) == EmitRegion(EncodePforRuns(freqs), level)

DecodeDdRegion(disk, meta, base) ==
  Then(OpenRegion(disk, meta), LAMBDA plain :
  Then(DecodeVarint(plain, 0, 0), LAMBDA n :
  Then(DecodePforRuns(plain, n[2], n[1]), LAMBDA dd :
    IF dd[2] # Len(plain) THEN Err ELSE Accumulate(dd[1], base))))

DecodeFreqRegion(disk, meta, doc_count) ==
  Then(OpenRegion(disk, meta), LAMBDA plain :
  Then(DecodePforRuns(plain, 0, doc_count), LAMBDA f :
    IF f[2] # Len(plain) THEN Err ELSE f[1]))

(***************************************************************************)
(* .prx windows.  A position list is absolute first, then deltas; a        *)
(* window's lists go through one of three codecs.                          *)
(***************************************************************************)
kRaw == 0
kZstd == 1
kPfor == 2

EncodePayload(docs) ==
  LET Put(a, v) == a \o Varint(v)
      Doc(a, d) == Fold(Put, Put(a, Len(d)), Deltas(d, 0))
  IN  Fold(Doc, Varint(Len(docs)), docs)

EncodePforPayload(docs) ==
  Varint(Len(docs)) \o Varint(SeqSum([d \in DOMAIN docs |-> Len(docs[d])]))
  \o EncodePforRuns([d \in 1..Len(docs) |-> Len(docs[d])])
  \o EncodePforRuns(Concat([d \in 1..Len(docs) |-> Deltas(docs[d], 0)]))

WithCrc(framed) == framed \o PutFixed(Crc32c(framed), 4)

WritePfor(plain) == WithCrc(<<kPfor>> \o Blob(plain))
WriteRaw(plain) == WithCrc(<<kRaw>> \o Blob(plain))
WriteZstd(plain) == WithCrc(<<kZstd>> \o Varint(Len(plain)) \o Blob(ZstdCompress(plain)))

BuildPrxWindow(docs, level) ==
  IF \E d \in DOMAIN docs : ~Ascending(docs[d]) THEN Err
  ELSE IF level < 0 THEN WritePfor(EncodePforPayload(docs))
  ELSE With(EncodePayload(docs), LAMBDA plain :
         IF ShouldCompress(level, Len(plain)) THEN WriteZstd(plain) ELSE WriteRaw(plain))

\* The flat form: the frequencies must account for every position.
BuildPrxWindowFlat(flat, freqs, level) ==
  IF SeqSum(freqs) # Len(flat) THEN Err ELSE BuildPrxWindow(Partition(flat, freqs), level)

DecodePayload(plain) ==
  LET Val(before, p) == DecodeVarint(plain, p, 0)
      Doc(before, p) ==
        Then(DecodeVarint(plain, p, 0), LAMBDA c :
        Then(GetMany(c[1], c[2], Val), LAMBDA vals : <<Accumulate(vals[1], 0), vals[2]>>))
  IN  Then(DecodeVarint(plain, 0, 0), LAMBDA n :
      Then(GetMany(n[1], n[2], Doc), LAMBDA all :
        IF all[2] # Len(plain) THEN Err ELSE all[1]))

DecodePforPayload(plain) ==
  Then(GetFields(plain, 0, <<<<"docs", "varint">>, <<"total", "varint">>>>), LAMBDA h :
  Then(DecodePforRuns(plain, h.pos, h.docs), LAMBDA counts :
  Then(IF SeqSum(counts[1]) # h.total THEN Err
       ELSE DecodePforRuns(plain, counts[2], h.total), LAMBDA deltas :
    IF deltas[2] # Len(plain) THEN Err
    ELSE With(Partition(deltas[1], counts[1]), LAMBDA lists :
           Eager([d \in 1..h.docs |-> Accumulate(lists[d], 0)])))))

\* [codec, uncomp_len, payload] of the window at the start of b.
ReadFramed(b) ==
  Then(GetFields(b, 0, <<<<"codec", "u8">>, <<"uncomp_len", "varint">>>>), LAMBDA h :
  Then(IF h.codec \notin {kRaw, kZstd, kPfor} THEN Err
       ELSE IF h.codec = kZstd THEN GetBlob(b, h.pos)
       ELSE GetBytes(b, h.pos, h.uncomp_len), LAMBDA c :
  Then(GetFixed(b, c[2], 4), LAMBDA crc :
    IF Crc32c(SubSeq(b, 1, c[2])) # crc[1] THEN Err ELSE ("payload" :> c[1]) @@ h)))

ReadPrxWindow(b) ==
  Then(ReadFramed(b), LAMBDA f :
    IF f.codec = kPfor THEN DecodePforPayload(f.payload)
    ELSE Then(IF f.codec = kRaw THEN f.payload ELSE ZstdDecompress(f.payload, f.uncomp_len),
              DecodePayload))

\* The same lists in one buffer, with the offset where each document's start.
Csr(docs) ==
  [flat |-> Concat(docs),
   off  |-> <<0>> \o Accumulate([d \in 1..Len(docs) |-> Len(docs[d])], 0)]

ReadPrxWindowCsr(b) == Then(ReadPrxWindow(b), Csr)

(***************************************************************************)
(* The .frq prelude: window rows grouped in super-blocks, and a directory  *)
(* of the super-blocks.  dd and freq are region locators within the        *)
(* posting's dd-block and freq-block.                                      *)
(***************************************************************************)
Flag(b, bit) == IF b THEN bit ELSE 0

EncodeRegionRow(r) ==
  Varint(r.off) \o Varint(r.meta.disk_len) \o Varint(r.meta.uncomp_len)
  \o PutFixed(r.meta.crc, 4)

EncodeWindowRow(m, has_freq, has_prx, prev_last) ==
  Varint(m.last_docid - prev_last) \o Varint(m.doc_count)
  \o <<Flag(m.dd.meta.zstd, 1) + Flag(has_freq /\ m.freq.meta.zstd, 2)>>
  \o EncodeRegionRow(m.dd)
  \o (IF has_freq THEN EncodeRegionRow(m.freq) ELSE <<>>)
  \o (IF has_prx THEN Varint(m.prx_off) \o Varint(m.prx_len) ELSE <<>>)
  \o Varint(m.max_freq) \o <<m.max_norm>>

LastBefore(wins, w) == IF w = 1 THEN 0 ELSE wins[w - 1].last_docid

EncodeSuperBlocks(wins, has_freq, has_prx) ==
  With([w \in 1..Len(wins) |->
          EncodeWindowRow(wins[w], has_freq, has_prx, LastBefore(wins, w))], LAMBDA rows :
    Eager([s \in 1..CeilDiv(Len(wins), GroupSize) |->
      [block |-> Concat(Chunks(rows, GroupSize)[s]),
       last_docid |-> wins[MinOf(s * GroupSize, Len(wins))].last_docid]]))

EncodeSuperBlockDir(sbs) ==
  With(Accumulate([s \in 1..Len(sbs) |-> Len(sbs[s].block)], 0), LAMBDA ends :
    Concat([s \in 1..Len(sbs) |->
      Varint(sbs[s].last_docid - LastBefore(sbs, s))
      \o Varint(ends[s] - Len(sbs[s].block)) \o Varint(Len(sbs[s].block))]))

BuildFrqPrelude(wins, has_freq, has_prx) ==
  IF GroupSize = 0 \/ ~Ascending([w \in 1..Len(wins) |-> wins[w].last_docid]) THEN Err
  ELSE With(EncodeSuperBlocks(wins, has_freq, has_prx), LAMBDA sbs :
         WithCrc(<<Flag(has_freq, 1) + Flag(has_prx, 2)>> \o Varint(Len(wins))
                 \o Varint(GroupSize) \o Varint(Len(sbs)) \o Blob(EncodeSuperBlockDir(sbs)))
         \o Concat([s \in 1..Len(sbs) |-> sbs[s].block]))

ParseHeader(b) ==
  Then(GetFields(b, 0, <<<<"flags", "u8">>, <<"n", "varint">>, <<"g", "varint">>,
                         <<"n_super", "varint">>, <<"sbdir_len", "varint">>>>), LAMBDA h :
    IF h.g = 0 THEN Err
    ELSE IF h.n_super # CeilDiv(h.n, h.g) THEN Err
    ELSE ("has_freq" :> (h.flags % 2 = 1)) @@ ("has_prx" :> ((h.flags \div 2) % 2 = 1)) @@ h)

DecodeSuperBlockDir(dir, n_super) ==
  LET Row(acc, s) ==
        Then(acc, LAMBDA a :
        Then(GetFields(dir, a.pos, <<<<"ldd", "varint">>, <<"off", "varint">>,
                                     <<"len", "varint">>>>), LAMBDA r :
          IF r.off # a.expect THEN Err
          ELSE [pos |-> r.pos, last |-> a.last + r.ldd, expect |-> a.expect + r.len,
                rows |-> Append(a.rows, [last_docid |-> a.last + r.ldd,
                                         off |-> r.off, len |-> r.len])]))
  IN  Then(Fold(Row, [pos |-> 0, last |-> 0, expect |-> 0, rows |-> <<>>], Count(n_super)),
           LAMBDA all : IF all.pos # Len(dir) THEN Err ELSE all)

\* The row of a window whose predecessor ends at prev_last: <<window, next>>.
DecodeWindowRow(b, p, h, prev_last) ==
  LET fields ==
        <<<<"ldd", "varint">>, <<"doc_count", "varint">>, <<"mode", "u8">>,
          <<"dd_off", "varint">>, <<"dd_disk", "varint">>, <<"dd_unc", "varint">>,
          <<"dd_crc", "u32">>>>
        \o (IF h.has_freq
            THEN <<<<"freq_off", "varint">>, <<"freq_disk", "varint">>,
                   <<"freq_unc", "varint">>, <<"freq_crc", "u32">>>> ELSE <<>>)
        \o (IF h.has_prx THEN <<<<"prx_off", "varint">>, <<"prx_len", "varint">>>> ELSE <<>>)
        \o <<<<"max_freq", "varint">>, <<"max_norm", "u8">>>>
      Region(zstd, off, disk, unc, crc) ==
        [off |-> off, meta |-> [zstd |-> zstd, uncomp_len |-> unc, disk_len |-> disk,
                                crc |-> crc, verify_crc |-> TRUE]]
  IN  Then(GetFields(b, p, fields), LAMBDA r :
      IF r.mode > 3 \/ (~h.has_freq /\ r.mode > 1) THEN Err
      ELSE <<[last_docid |-> prev_last + r.ldd, win_base |-> prev_last,
              doc_count |-> r.doc_count,
              dd |-> Region(r.mode % 2 = 1, r.dd_off, r.dd_disk, r.dd_unc, r.dd_crc),
              freq |-> IF h.has_freq
                       THEN Region(r.mode \div 2 = 1, r.freq_off, r.freq_disk, r.freq_unc,
                                   r.freq_crc)
                       ELSE Region(FALSE, 0, 0, 0, 0),
              prx_off |-> IF h.has_prx THEN r.prx_off ELSE 0,
              prx_len |-> IF h.has_prx THEN r.prx_len ELSE 0,
              max_freq |-> r.max_freq, max_norm |-> r.max_norm], r.pos>>)

\* Appends the rows of one super-block to acc; they must fill the block and
\* end at the last document its directory row promises.
DecodeOneBlock(acc, block, h, row, n_rows) ==
  LET Row(before, p) ==
        With(acc \o before, LAMBDA wins :
          DecodeWindowRow(block, p, h, LastBefore(wins, Len(wins) + 1)))
  IN  Then(GetMany(n_rows, 0, Row), LAMBDA all :
      IF all[2] # Len(block) THEN Err
      ELSE IF Last(acc \o all[1]).last_docid # row.last_docid THEN Err
      ELSE acc \o all[1])

DecodeAllBlocks(region, h, rows) ==
  LET Block(acc, r) ==
        Then(acc, LAMBDA a :
          IF r.off + r.len > Len(region) THEN Err
          ELSE DecodeOneBlock(a, Take(region, r.off, r.len), h, r, MinOf(h.g, h.n - Len(a))))
  IN  Then(Fold(Block, <<>>, rows), LAMBDA wins : IF Len(wins) # h.n THEN Err ELSE wins)

\* The regions of one kind tile their block: each starts where the last ended.
Tiles(regions) ==
  With(Accumulate([w \in DOMAIN regions |-> regions[w].meta.disk_len], 0), LAMBDA ends :
    \A w \in DOMAIN regions : regions[w].off = ends[w] - regions[w].meta.disk_len)

ValidateRegionLayout(h, wins) ==
  /\ Tiles([w \in 1..Len(wins) |-> wins[w].dd])
  /\ \A w \in 1..Len(wins) :
       wins[w].dd.meta.zstd \/ wins[w].dd.meta.disk_len <= wins[w].dd.meta.uncomp_len
  /\ h.has_freq => Tiles([w \in 1..Len(wins) |-> wins[w].freq])

BlockLen(regions) == SeqSum([w \in 1..Len(regions) |-> regions[w].meta.disk_len])

OpenFrqPrelude(b) ==
  Then(ParseHeader(b), LAMBDA h :
  Then(GetBytes(b, h.pos, h.sbdir_len), LAMBDA dirb :
  Then(GetFixed(b, dirb[2], 4), LAMBDA crc :
  Then(IF Crc32c(Take(b, 0, dirb[2])) # crc[1] THEN Err
       ELSE DecodeSuperBlockDir(dirb[1], h.n_super), LAMBDA dir :
  Then(Take(b, crc[2], dir.expect), LAMBDA region :
  Then(DecodeAllBlocks(region, h, dir.rows), LAMBDA wins :
    IF ~ValidateRegionLayout(h, wins) THEN Err
    ELSE [has_freq |-> h.has_freq, has_prx |-> h.has_prx, g |-> h.g,
          sb_last |-> [s \in 1..h.n_super |-> dir.rows[s].last_docid],
          windows |-> wins,
          dd_block_len |-> BlockLen([w \in 1..Len(wins) |-> wins[w].dd]),
          freq_block_len |-> BlockLen([w \in 1..Len(wins) |-> wins[w].freq])]))))))

\* The window that may hold docid: first super-block, then first window of its
\* group, whose last document is not before docid; 0 when there is none.
LocateWindow(pre, docid) ==
  LET n == Len(pre.windows)
      sbs == {s \in 1..Len(pre.sb_last) : pre.sb_last[s] >= docid}
      lo  == (Min(sbs) - 1) * pre.g
      group == {w \in (lo + 1)..MinOf(lo + pre.g, n) : docid <= pre.windows[w].last_docid}
  IN  IF n = 0 THEN 0
      ELSE IF docid > pre.windows[n].last_docid THEN 0
      ELSE IF group = {} THEN 0 ELSE Min(group)

(***************************************************************************)
(* The writer's windows.  tp = [docids, freqs, positions (flat)].          *)
(***************************************************************************)
kRawFrqRegion == 0
kAutoZstd == -1

AdaptiveWindowDocs(df) == IF df >= AdaptiveDf THEN AdaptiveDocs ELSE BaseUnit

\* The smallest norm byte of the window's documents; 0 without norms.
WindowMaxNorm(norms, docs) ==
  LET best == Min({255} \cup {norms[d + 1] : d \in {e \in Range(docs) : e < Len(norms)}})
  IN  IF norms = <<>> \/ docs = <<>> \/ best = 255 THEN 0 ELSE best

MakePrxWindow(flat, freqs) == BuildPrxWindowFlat(flat, freqs, kAutoZstd)

NoRegion == [bytes |-> <<>>, meta |-> [zstd |-> FALSE, uncomp_len |-> 0, disk_len |-> 0,
                                       crc |-> 0, verify_crc |-> TRUE]]

\* Fault: the frequency region is given the documents.
BadEncodeRegions(docs, freqs, base, has_freq) ==
  [dd   |-> BuildDdRegion(docs, base, kRawFrqRegion),
   freq |-> IF has_freq THEN BuildFreqRegion(docs, kRawFrqRegion) ELSE NoRegion]
EncodeRegions(docs, freqs, base, has_freq) ==
  [dd   |-> BuildDdRegion(docs, base, kRawFrqRegion),
   freq |-> IF has_freq THEN BuildFreqRegion(freqs, kRawFrqRegion) ELSE NoRegion]

\* Pass 1: the position windows, streamed to the output; a window of documents
\* takes as many positions as its frequencies say.
PrxWindows(docs, freqs, positions) ==
  With(Partition(positions, [w \in 1..Len(freqs) |-> SeqSum(freqs[w])]), LAMBDA lists :
    Eager([w \in 1..Len(docs) |-> MakePrxWindow(lists[w], freqs[w])]))

LayoutWindowRegions(regions, w) ==
  [off |-> SeqSum([v \in 1..(w - 1) |-> Len(regions[v].bytes)]), meta |-> regions[w].meta]

BuildWindowedPosting(tp, has_freq, has_prx, norms) ==
  LET WinBase(docs, w) == IF w = 1 THEN 0 ELSE Last(docs[w - 1])
  IN  With(Chunks(tp.docids, AdaptiveWindowDocs(Len(tp.docids))), LAMBDA docs :
      With(Partition(tp.freqs, [w \in 1..Len(docs) |-> Len(docs[w])]), LAMBDA freqs :
      With(IF has_prx THEN PrxWindows(docs, freqs, tp.positions)
           ELSE Eager([w \in 1..Len(docs) |-> <<>>]), LAMBDA prx :
      With(Eager([w \in 1..Len(docs) |->
             EncodeRegions(docs[w], freqs[w], WinBase(docs, w), has_freq)]), LAMBDA regs :
        LET n   == Len(docs)
            dds == [w \in 1..n |-> regs[w].dd]
            frs == [w \in 1..n |-> regs[w].freq]
        IN  [prx        |-> Concat(prx),
             dd_block   |-> Concat([w \in 1..n |-> dds[w].bytes]),
             freq_block |-> Concat([w \in 1..n |-> frs[w].bytes]),
             windows    |-> Eager([w \in 1..n |->
               [last_docid |-> Last(docs[w]), win_base |-> WinBase(docs, w),
                doc_count |-> Len(docs[w]),
                dd |-> LayoutWindowRegions(dds, w), freq |-> LayoutWindowRegions(frs, w),
                prx_off |-> SeqSum([v \in 1..(w - 1) |-> Len(prx[v])]), prx_len |-> Len(prx[w]),
                max_freq |-> SeqMax(freqs[w]),
                max_norm |-> WindowMaxNorm(norms, docs[w])]])]))))

=============================================================================
