------------------------------ MODULE Sections ------------------------------
(***************************************************************************)
(* The metadata of a container: statistics, norms and null sections, the   *)
(* per-index metadata, the logical index directory, the tail meta region,  *)
(* the tail pointer and the bootstrap header                               *)
(* (core/src/format/stats_block.cpp, norms_pod.cpp, null_bitmap.cpp,       *)
(* per_index_meta.cpp, logical_index_directory.cpp, tail_meta_region.cpp,  *)
(* tail_pointer.cpp, bootstrap_header.cpp).                                *)
(***************************************************************************)
EXTENDS Dictionary

kStatsBlock == 1
kSectionRefs == 5
kLogicalIndexDirectory == 7
kNullBitmapSectionType == 32
kFormatVersion == 1
kMetaFormatVersion == 1
ContainerMagic == <<83, 78, 73, 73>>
TailMagic == <<84, 65, 73, 76>>

\* Reads a payload that must consist of exactly these fields.
GetExactly(b, fields) ==
  Then(GetFields(b, 0, fields), LAMBDA r : IF r.pos # Len(b) THEN Err ELSE r)

(***************************************************************************)
(* Statistics, norms, nulls.                                               *)
(***************************************************************************)
\* Fault: two counters change places.
BadEncodeStatsBlock(sb) ==
  FrameWrite(kStatsBlock,
    Varint(sb.doc_count) \o Varint(sb.indexed_doc_count) \o Varint(sb.term_count)
    \o Varint(sb.null_count) \o Varint(sb.sum_total_term_freq))
EncodeStatsBlock(sb) ==
  FrameWrite(kStatsBlock,
    Varint(sb.doc_count) \o Varint(sb.indexed_doc_count) \o Varint(sb.term_count)
    \o Varint(sb.sum_total_term_freq) \o Varint(sb.null_count))

DecodeStatsBlock(b) ==
  Then(OpenSection(b, kStatsBlock), LAMBDA p :
    GetExactly(p, <<<<"doc_count", "varint">>, <<"indexed_doc_count", "varint">>,
                    <<"term_count", "varint">>, <<"sum_total_term_freq", "varint">>,
                    <<"null_count", "varint">>>>))

NormsFinish(norms) == FrameWrite(kStatsBlock, Blob(norms))

NormsOpen(b) ==
  Then(FrameRead(b, 0), LAMBDA s :
  Then(GetExactly(s.payload, <<<<"norms", "blob">>>>), LAMBDA p : p.norms))

\* External: a roaring bitmap as its sorted members, preceded by their number.
RoaringWrite(set) ==
  With(Sorted(set), LAMBDA ids :
    Varint(Len(ids)) \o Concat([i \in 1..Len(ids) |-> Varint(ids[i])]))
RoaringRead(b) ==
  LET Id(before, p) == DecodeVarint(b, p, 0)
  IN  Then(DecodeVarint(b, 0, 0), LAMBDA n :
      Then(GetMany(n[1], n[2], Id), LAMBDA all :
        IF all[2] # Len(b) THEN Err ELSE Range(all[1])))

NullBitmapFinish(nulls, doc_count) ==
  FrameWrite(kNullBitmapSectionType, Varint(doc_count) \o Blob(RoaringWrite(nulls)))

NullBitmapOpen(b) ==
  Then(FrameRead(b, 0), LAMBDA s :
  Then(GetFields(s.payload, 0, <<<<"doc_count", "varint">>, <<"roaring", "blob">>>>), LAMBDA p :
  Then(RoaringRead(p.roaring), LAMBDA set : [doc_count |-> p.doc_count, nulls |-> set])))

(***************************************************************************)
(* Per-index metadata.                                                     *)
(***************************************************************************)
SectionNames == <<"dict_region", "posting_region", "norms", "null_bitmap", "bsbf">>

EncodeSectionRefs(refs) ==
  FrameWrite(kSectionRefs,
    Concat([i \in 1..Len(SectionNames) |->
      Varint(refs[SectionNames[i]].offset) \o Varint(refs[SectionNames[i]].length)]))

DecodeSectionRefs(b) ==
  LET Region(o, l) == [offset |-> o, length |-> l]
  IN  Then(GetExactly(b, <<<<"o1", "varint">>, <<"l1", "varint">>, <<"o2", "varint">>,
                           <<"l2", "varint">>, <<"o3", "varint">>, <<"l3", "varint">>,
                           <<"o4", "varint">>, <<"l4", "varint">>, <<"o5", "varint">>,
                           <<"l5", "varint">>>>), LAMBDA r :
           [dict_region |-> Region(r.o1, r.l1), posting_region |-> Region(r.o2, r.l2),
            norms |-> Region(r.o3, r.l3), null_bitmap |-> Region(r.o4, r.l4),
            bsbf |-> Region(r.o5, r.l5)])

kHasPositions == 1
kHasBsbf == 2

\* m = [id, suffix, flags, stats, sti, dbd, refs]; sti and dbd are frames.
EncodeHeader(m) ==
  WithCrc(PutFixed(kMetaFormatVersion, 2) \o Varint(m.id) \o Blob(m.suffix)
          \o PutFixed(m.flags, 4))

PerIndexMetaFinish(m) ==
  EncodeHeader(m) \o EncodeStatsBlock(m.stats) \o m.sti \o m.dbd \o EncodeSectionRefs(m.refs)

DecodeHeader(b) ==
  Then(GetFields(b, 0, <<<<"version", "u16">>, <<"id", "varint">>, <<"suffix", "blob">>,
                         <<"flags", "u32">>>>), LAMBDA h :
  Then(GetFixed(b, h.pos, 4), LAMBDA c :
    IF h.version # kMetaFormatVersion \/ Crc32c(SubSeq(b, 1, h.pos)) # c[1] THEN Err
    ELSE [h EXCEPT !.pos = c[2]]))

\* One sub-section after the other to the end; a known type fills its slot of
\* acc, an unknown one is skipped.
RECURSIVE ReadFrames(_, _, _)
ReadFrames(b, p, acc) ==
  LET Slot(type) == CASE type = kStatsBlock -> "stats"
                      [] type = kSectionRefs -> "refs"
                      [] type = kSampledTermIndex -> "sti"
                      [] type = kDictBlockDirectory -> "dbd"
                      [] OTHER -> "skipped"
      Value(s) == CASE s.type = kStatsBlock  -> DecodeStatsBlock(SubSeq(b, p + 1, s.pos))
                    [] s.type = kSectionRefs -> DecodeSectionRefs(s.payload)
                    [] OTHER -> SubSeq(b, p + 1, s.pos)
  IN  IF p = Len(b) THEN acc
      ELSE Then(FrameRead(b, p), LAMBDA s :
           Then(Value(s), LAMBDA v : ReadFrames(b, s.pos, (Slot(s.type) :> v) @@ acc)))

PerIndexMetaOpen(b) ==
  Then(DecodeHeader(b), LAMBDA h :
  Then(ReadFrames(b, h.pos, h @@ ("sti" :> <<>>) @@ ("dbd" :> <<>>)), LAMBDA m :
    IF {"stats", "refs"} \subseteq DOMAIN m THEN m ELSE Err))

(***************************************************************************)
(* The directory of logical indexes and the tail meta region around it.    *)
(***************************************************************************)
DirectoryFinish(refs) ==
  FrameWrite(kLogicalIndexDirectory,
    Varint(Len(refs)) \o Concat([i \in 1..Len(refs) |->
      Varint(refs[i].id) \o Blob(refs[i].suffix) \o Varint(refs[i].meta_off)
      \o Varint(refs[i].meta_len)]))

kMinEntryBytes == 4

DirectoryOpen(b) ==
  LET Entry(p, at) == GetFields(p, at, <<<<"id", "varint">>, <<"suffix", "blob">>,
                                         <<"meta_off", "varint">>, <<"meta_len", "varint">>>>)
  IN  Then(OpenSection(b, kLogicalIndexDirectory), LAMBDA p : GetRows(p, kMinEntryBytes, Entry))

kHeaderFields == 36

\* entries: [id, suffix, bytes] in the order they were added.
TailMetaRegionFinish(entries) ==
  LET n == Len(entries)
      Fields(off, dir_len) ==
        PutFixed(kMetaFormatVersion, 4) \o PutFixed(0, 4) \o PutFixed(off + dir_len + 4, 8)
        \o PutFixed(n, 4) \o PutFixed(off, 8) \o PutFixed(dir_len, 8)
  IN  With(Accumulate([i \in 1..n |-> Len(entries[i].bytes)], kHeaderFields + 4), LAMBDA ends :
      With(DirectoryFinish(Eager([i \in 1..n |->
             [id |-> entries[i].id, suffix |-> entries[i].suffix,
              meta_off |-> ends[i] - Len(entries[i].bytes),
              meta_len |-> Len(entries[i].bytes)]])), LAMBDA dir :
        WithCrc(WithCrc(Fields(IF n = 0 THEN kHeaderFields + 4 ELSE ends[n], Len(dir)))
                \o Concat([i \in 1..n |-> entries[i].bytes]) \o dir)))

\* The directory rows, each with the metadata block it points at.
TailMetaRegionOpen(b) ==
  LET covered == Len(b) - 4
  IN  IF covered < kHeaderFields + 4 THEN Err
      ELSE IF Crc32c(SubSeq(b, 1, covered)) # LittleEndian(SubSeq(b, covered + 1, covered + 4))
      THEN Err
      ELSE Then(GetFields(b, 0, <<<<"ver", "u32">>, <<"flags", "u32">>, <<"len", "u64">>,
                                  <<"n", "u32">>, <<"dir_off", "u64">>, <<"dir_len", "u64">>,
                                  <<"crc", "u32">>>>), LAMBDA h :
           Then(IF h.crc # Crc32c(SubSeq(b, 1, kHeaderFields)) \/ h.ver # kMetaFormatVersion
                   \/ h.len # Len(b) \/ h.dir_off < kHeaderFields + 4
                   \/ h.dir_off + h.dir_len > Len(b) THEN Err
                ELSE DirectoryOpen(Take(b, h.dir_off, h.dir_len)), LAMBDA dir :
             IF Len(dir) # h.n THEN Err ELSE dir))

\* The metadata bytes of the first row with this id and suffix; <<>> if none.
TailMetaFind(b, dir, id, suffix) ==
  LET hits == {i \in 1..Len(dir) : dir[i].id = id /\ dir[i].suffix = suffix}
  IN  IF hits = {} THEN <<>> ELSE Take(b, dir[Min(hits)].meta_off, dir[Min(hits)].meta_len)

(***************************************************************************)
(* The two fixed-size ends of the file.                                    *)
(***************************************************************************)
TailPointerSize == 43

EncodeTailPointer(tp) ==
  WithCrc(TailMagic \o PutFixed(kFormatVersion, 2) \o PutFixed(tp.offset, 8)
          \o PutFixed(tp.length, 8) \o PutFixed(0, 8) \o PutFixed(tp.checksum, 4)
          \o PutFixed(0, 4) \o <<TailPointerSize>>)

DecodeTailPointer(b) ==
  IF Len(b) # TailPointerSize THEN Err
  ELSE Then(GetFields(b, 0, <<<<"magic", "u32">>, <<"version", "u16">>, <<"offset", "u64">>,
                              <<"length", "u64">>, <<"hot_off", "u64">>, <<"checksum", "u32">>,
                              <<"bootstrap", "u32">>, <<"size", "u8">>, <<"crc", "u32">>>>),
    LAMBDA t :
      IF t.magic # LittleEndian(TailMagic) \/ t.size # TailPointerSize THEN Err
      ELSE IF t.crc # Crc32c(SubSeq(b, 1, TailPointerSize - 4)) THEN Err ELSE t)

kBootstrapHeaderSize == 21
kMinReaderVersion == 1

EncodeBootstrapHeader ==
  WithCrc(ContainerMagic \o PutFixed(65536 * kMinReaderVersion + kFormatVersion, 4)
          \o PutFixed(0, 4) \o PutFixed(kBootstrapHeaderSize, 4) \o <<TailPointerSize>>)

DecodeBootstrapHeader(b) ==
  IF Len(b) # kBootstrapHeaderSize THEN Err
  ELSE Then(GetFields(b, 0, <<<<"magic", "u32">>, <<"versions", "u32">>, <<"flags", "u32">>,
                              <<"length", "u32">>, <<"tp_size", "u8">>, <<"crc", "u32">>>>),
    LAMBDA h :
      IF h.magic # LittleEndian(ContainerMagic) THEN Err
      ELSE IF h.crc # Crc32c(SubSeq(b, 1, kBootstrapHeaderSize - 4)) THEN Err
      ELSE IF h.versions \div 65536 > kFormatVersion THEN Err ELSE h)

=============================================================================
