--------------------------- MODULE CompoundWriter ---------------------------
(***************************************************************************)
(* SniiCompoundWriter on a LocalFileWriter, and SniiSegmentReader on the   *)
(* file it leaves.  Every append of the container goes through the write   *)
(* buffer; write(2) may fail after part of a buffer reached the file; the  *)
(* process may crash between any two steps.  A failed call returns to the  *)
(* caller, who may go on with other calls.                                 *)
(*                                                                         *)
(* A file is a sequence of cells.  A cell names the section it belongs to  *)
(* and, for the tail sections, what they say; a checksum is the content it *)
(* covers, so it matches nothing else.                                     *)
(***************************************************************************)
EXTENDS Integers, Sequences, FiniteSets, Functions

CONSTANTS
    Indexes,      \* logical indexes, numbers
    PostEnds,     \* per index, where each append to its posting region ends
    HasNorms,     \* the indexes with a norms POD
    HasBsbf,      \* the indexes with a bloom section (those with a term)
    BufCapacity,  \* kBufCapacity
    MaxAdds,      \* bound on add_logical_index calls
    MaxFaults     \* bound on failing write(2) calls

ASSUME CompoundAssumption ==
    /\ Indexes \subseteq Nat \ {0} /\ BufCapacity \in Nat \ {0}
    /\ MaxAdds \in Nat /\ MaxFaults \in Nat
    /\ \A i \in Indexes : PostEnds[i] \in Seq(Nat)
    /\ \A i \in Indexes : \A c \in 2..Len(PostEnds[i]) : PostEnds[i][c - 1] <= PostEnds[i][c]

VARIABLES
    file,       \* the LocalFileWriter and the bytes on disk
    pc,         \* where the running call is; "idle" between calls
    cur,        \* the index being added, with the chunks left and its placement
    indexes,    \* indexes_ in add order
    place,      \* placements_
    k,          \* loop counter of write_norms
    boot,       \* bootstrap_written_
    finished,   \* finished_
    ret,        \* status of finish(): "none", "ok", "io"
    adds,       \* add calls made, bounded
    faults,     \* failed writes so far, bounded
    crashed

vars == <<file, pc, cur, indexes, place, k, boot, finished, ret, adds, faults, crashed>>

NoPlace == [post_off |-> 0, post_len |-> 0, dict_off |-> 0, dict_len |-> 0,
            norms_off |-> 0, norms_len |-> 0, bsbf_off |-> 0, bsbf_len |-> 0]
NoCur == [index |-> 0, chunk |-> 0, place |-> NoPlace]

----------------------------------------------------------------------------
(* LocalFileWriter. *)

\* write_all: everything, or after an error some proper prefix.
WriteAll(f, data) ==
    {[f |-> [f EXCEPT !.disk = @ \o data], ok |-> TRUE]} \cup
    (IF faults = MaxFaults THEN {}
     ELSE {[f |-> [f EXCEPT !.disk = @ \o SubSeq(data, 1, n)], ok |-> FALSE] :
              n \in 0..(Len(data) - 1)})

\* flush_buffer: the buffer is cleared only when all of it was written.
FlushBuffer(f) ==
    IF f.buf = <<>> THEN {[f |-> f, ok |-> TRUE]}
    ELSE {[o EXCEPT !.f.buf = IF o.ok THEN <<>> ELSE @] : o \in WriteAll(f, f.buf)}

Failed(S) == {o \in S : ~o.ok}
Done(S) == {o.f : o \in {x \in S : x.ok}}
Counted(f, n) == [f EXCEPT !.bytes_written = @ + n]

\* Fault: a direct write overtakes the bytes still in the buffer.
BadFileAppend(f, data) ==
    LET n == Len(data) IN
    IF n >= BufCapacity
    THEN {IF o.ok THEN [o EXCEPT !.f = Counted(o.f, n)] ELSE o : o \in WriteAll(f, data)}
    ELSE LET room == IF Len(f.buf) + n > BufCapacity THEN FlushBuffer(f)
                     ELSE {[f |-> f, ok |-> TRUE]}
         IN  Failed(room) \cup
             {[f |-> Counted([g EXCEPT !.buf = @ \o data], n), ok |-> TRUE] : g \in Done(room)}

\* append: a span of the buffer's size or more is written directly, a smaller
\* one is buffered, after a flush when it does not fit.
FileAppend(f, data) ==
    LET n == Len(data)
        flushed == FlushBuffer(f)
    IN  IF n = 0 THEN {[f |-> f, ok |-> TRUE]}
        ELSE IF n >= BufCapacity
        THEN Failed(flushed) \cup
             UNION {{IF o.ok THEN [o EXCEPT !.f = Counted(o.f, n)] ELSE o :
                        o \in WriteAll(g, data)} : g \in Done(flushed)}
        ELSE LET room == IF Len(f.buf) + n > BufCapacity THEN flushed
                         ELSE {[f |-> f, ok |-> TRUE]}
             IN  Failed(room) \cup
                 {[f |-> Counted([g EXCEPT !.buf = @ \o data], n), ok |-> TRUE] :
                     g \in Done(room)}

----------------------------------------------------------------------------
(* The sections, as cells. *)

Cells(sec, i, n) == [j \in 1..n |-> [sec |-> sec, index |-> i, part |-> j, says |-> <<>>]]
BootCells == Cells("boot", 0, 1)
PostStart(i, c) == IF c = 1 THEN 0 ELSE PostEnds[i][c - 1]
PostCells(i, c) ==
    [j \in 1..(PostEnds[i][c] - PostStart(i, c)) |->
        [sec |-> "post", index |-> i, part |-> PostStart(i, c) + j, says |-> <<>>]]
DictCells(i) == Cells("dict", i, 1)
NormsCells(i) == IF i \in HasNorms THEN Cells("norms", i, 1) ELSE <<>>
BsbfCells(i) == IF i \in HasBsbf THEN Cells("bsbf", i, 1) ELSE <<>>

\* Fault: the last index is left out.
BadMetaCells ==
    [j \in 1..2 |-> [sec |-> "meta", index |-> 0, part |-> j,
                     says |-> [i \in 1..(Len(indexes) - 1) |->
                                 [index |-> indexes[i], refs |-> place[i]]]]]

\* The tail meta region: one per_index_meta, with its section refs, per index.
MetaCells ==
    [j \in 1..2 |-> [sec |-> "meta", index |-> 0, part |-> j,
                     says |-> [i \in DOMAIN indexes |-> [index |-> indexes[i], refs |-> place[i]]]]]

\* The tail pointer: where the meta region is and its checksum.
TailCells(off, len, checksum) ==
    [j \in 1..2 |-> [sec |-> "tail", index |-> 0, part |-> j,
                     says |-> [off |-> off, len |-> len, checksum |-> checksum]]]

----------------------------------------------------------------------------
(* Appends made by the running call. *)

Written == file.bytes_written

\* The append succeeds.
Appends(data) ==
    /\ \E o \in FileAppend(file, data) : o.ok /\ file' = o.f
    /\ UNCHANGED faults

\* The append fails and the call returns the error to its caller.
AppendFails(data) ==
    /\ \E o \in FileAppend(file, data) : ~o.ok /\ file' = o.f
    /\ faults' = faults + 1
    /\ pc' = "idle"
    /\ ret' = IF finished THEN "io" ELSE ret
    /\ UNCHANGED <<cur, indexes, place, k, finished, adds, crashed>>

Init ==
    /\ file = [disk |-> <<>>, buf |-> <<>>, bytes_written |-> 0]
    /\ pc = "idle" /\ cur = NoCur /\ indexes = <<>> /\ place = <<>> /\ k = 1
    /\ boot = FALSE /\ finished = FALSE /\ ret = "none"
    /\ adds = 0 /\ faults = 0 /\ crashed = FALSE

----------------------------------------------------------------------------
(* add_logical_index. *)

\* ensure_bootstrap latches and writes the header once.  It goes into the empty
\* write buffer, which is larger, so this append does not fail.
BootData == IF boot THEN <<>> ELSE BootCells

\* The posting region starts at bytes_written(), after the header.
BeginAdd(i) ==
    /\ pc = "idle" /\ ~finished /\ ~crashed
    /\ adds < MaxAdds /\ i \notin Range(indexes)
    /\ boot' = TRUE /\ Appends(BootData)
    /\ cur' = [index |-> i, chunk |-> 1,
               place |-> [NoPlace EXCEPT !.post_off = file'.bytes_written]]
    /\ pc' = "post" /\ adds' = adds + 1
    /\ UNCHANGED <<indexes, place, k, finished, ret, crashed>>

\* build() streams the posting region straight into the container.
AddPosting ==
    /\ pc = "post" /\ cur.chunk <= Len(PostEnds[cur.index])
    /\ \/ /\ Appends(PostCells(cur.index, cur.chunk))
          /\ cur' = [cur EXCEPT !.chunk = @ + 1]
          /\ UNCHANGED <<pc, indexes, place, k, finished, ret, adds, crashed>>
       \/ AppendFails(PostCells(cur.index, cur.chunk))
    /\ UNCHANGED boot

\* build() rejects a term (or the drain of its term source fails): the call
\* returns, and what it has streamed stays in the file.
AddRejected ==
    /\ pc = "post"
    /\ pc' = "idle"
    /\ UNCHANGED <<file, cur, indexes, place, k, boot, finished, ret, adds, faults, crashed>>

\* The dict region follows; only then is the index kept.
AddDict ==
    /\ pc = "post" /\ cur.chunk > Len(PostEnds[cur.index])
    /\ \/ /\ Appends(DictCells(cur.index))
          /\ pc' = "idle"
          /\ indexes' = Append(indexes, cur.index)
          /\ place' = Append(place, [cur.place EXCEPT
                !.post_len = Written - cur.place.post_off,
                !.dict_off = Written, !.dict_len = file'.bytes_written - Written])
          /\ UNCHANGED <<cur, k, finished, ret, adds, crashed>>
       \/ AppendFails(DictCells(cur.index))
    /\ UNCHANGED boot

----------------------------------------------------------------------------
(* finish. *)

BeginFinish ==
    /\ pc = "idle" /\ ~finished /\ ~crashed
    /\ finished' = TRUE /\ boot' = TRUE /\ Appends(BootData)
    /\ pc' = "sections" /\ k' = 1
    /\ UNCHANGED <<cur, indexes, place, ret, adds, crashed>>

\* write_norms: first every norms POD, then every bsbf section, in add order.
N == Len(indexes)
SectionData == IF k <= N THEN NormsCells(indexes[k]) ELSE BsbfCells(indexes[k - N])

\* Fault: offsets are taken after the append.
BadPlaced(p) ==
    LET len == file'.bytes_written - Written IN
    IF SectionData = <<>> THEN p
    ELSE IF k <= N THEN [p EXCEPT ![k].norms_off = file'.bytes_written, ![k].norms_len = len]
    ELSE [p EXCEPT ![k - N].bsbf_off = file'.bytes_written, ![k - N].bsbf_len = len]

Placed(p) ==
    LET len == file'.bytes_written - Written IN
    IF SectionData = <<>> THEN p
    ELSE IF k <= N THEN [p EXCEPT ![k].norms_off = Written, ![k].norms_len = len]
    ELSE [p EXCEPT ![k - N].bsbf_off = Written, ![k - N].bsbf_len = len]

FinishSection ==
    /\ pc = "sections" /\ k <= 2 * N
    /\ \/ /\ Appends(SectionData)
          /\ place' = Placed(place)
          /\ k' = k + 1
          /\ UNCHANGED <<pc, cur, indexes, finished, ret, adds, crashed>>
       \/ AppendFails(SectionData)
    /\ UNCHANGED boot

\* write_tail: the meta region, then the pointer to it.
FinishMeta ==
    /\ pc = "sections" /\ k > 2 * N
    /\ \/ /\ Appends(MetaCells)
          /\ pc' = "tail"
          /\ UNCHANGED <<cur, indexes, place, k, finished, ret, adds, crashed>>
       \/ AppendFails(MetaCells)
    /\ UNCHANGED boot

TailData == TailCells(Written - Len(MetaCells), Len(MetaCells), MetaCells)

FinishTail ==
    /\ pc = "tail"
    /\ \/ /\ Appends(TailData)
          /\ pc' = "finalize"
          /\ UNCHANGED <<cur, indexes, place, k, finished, ret, adds, crashed>>
       \/ AppendFails(TailData)
    /\ UNCHANGED boot

\* finalize: flush, then fsync and close.
FinalizeFlush ==
    /\ pc = "finalize"
    /\ \E o \in FlushBuffer(file) :
          /\ file' = o.f
          /\ pc' = IF o.ok THEN "sync" ELSE "idle"
          /\ ret' = IF o.ok THEN ret ELSE "io"
          /\ faults' = IF o.ok THEN faults ELSE faults + 1
    /\ UNCHANGED <<cur, indexes, place, k, boot, finished, adds, crashed>>

FinalizeSync ==
    /\ pc = "sync"
    /\ pc' = "idle"
    /\ \/ ret' = "ok" /\ UNCHANGED faults
       \/ faults < MaxFaults /\ ret' = "io" /\ faults' = faults + 1
    /\ UNCHANGED <<file, cur, indexes, place, k, boot, finished, adds, crashed>>

\* The process dies, or drops the writer unfinished: the buffer is lost and, of
\* what was not synced, some prefix is on the disk.
Crash ==
    /\ ~crashed
    /\ crashed' = TRUE /\ pc' = "idle"
    /\ \E n \in 0..Len(file.disk) :
          /\ ret = "ok" => n = Len(file.disk)
          /\ file' = [file EXCEPT !.disk = SubSeq(@, 1, n), !.buf = <<>>]
    /\ UNCHANGED <<cur, indexes, place, k, boot, finished, ret, adds, faults>>

Next ==
    \/ \E i \in Indexes : BeginAdd(i)
    \/ AddPosting \/ AddRejected \/ AddDict
    \/ BeginFinish \/ FinishSection \/ FinishMeta \/ FinishTail
    \/ FinalizeFlush \/ FinalizeSync
    \/ Crash

Spec == Init /\ [][Next]_vars

----------------------------------------------------------------------------
(* The reader: SniiSegmentReader::open. *)

\* The last bytes are a whole tail pointer (its own checksum holds).
HasTail(d) ==
    LET n == Len(d) IN
    /\ n >= 2 /\ d[n - 1].sec = "tail" /\ d[n].sec = "tail"
    /\ d[n - 1].part = 1 /\ d[n].part = 2 /\ d[n - 1].says = d[n].says

\* The meta region lies in the file and matches the checksum of the pointer.
MetaMatches(d) ==
    LET tp == d[Len(d)].says IN
    /\ tp.len # 0 /\ tp.off + tp.len <= Len(d)
    /\ SubSeq(d, tp.off + 1, tp.off + tp.len) = tp.checksum

Opens(d) == Len(d) > 0 /\ d[1].sec = "boot" /\ HasTail(d) /\ MetaMatches(d)

\* The directory of an opened segment: the indexes with their section refs.
Directory(d) == LET tp == d[Len(d)].says IN d[tp.off + 1].says

Region(d, off, len) == SubSeq(d, off + 1, off + len)

\* The whole posting region of an index, however it was cut into appends.
PostRegion(i) == Cells("post", i, PostStart(i, Len(PostEnds[i]) + 1))

----------------------------------------------------------------------------
(* Properties. *)

\* Whatever was written, failed, repeated or cut off before: when the reader
\* opens the file, the refs of every index it lists name exactly the bytes of
\* that index's posting, dict, norms and bsbf sections.
ReaderNeverWrong ==
    Opens(file.disk) =>
        \A e \in Range(Directory(file.disk)) :
            LET r == e.refs IN
            /\ Region(file.disk, r.post_off, r.post_len) = PostRegion(e.index)
            /\ Region(file.disk, r.dict_off, r.dict_len) = DictCells(e.index)
            /\ Region(file.disk, r.norms_off, r.norms_len) = NormsCells(e.index)
            /\ Region(file.disk, r.bsbf_off, r.bsbf_len) = BsbfCells(e.index)

\* finish() that returns OK has left a readable container of the added indexes,
\* also after rejected adds and after writes that failed without a byte written.
FinishReadable ==
    ret = "ok" /\ file.bytes_written = Len(file.disk) =>
        /\ Opens(file.disk)
        /\ LET dir == Directory(file.disk)
           IN  [i \in DOMAIN dir |-> dir[i].index] = indexes

\* finish() that returns OK has left a container the reader opens, in every case.
FinishOkReadable == ret = "ok" => Opens(file.disk)

Unreadable == {0}   \* no index has the number 0

Visible == IF Opens(file.disk)
           THEN {e.index : e \in Range(Directory(file.disk))} ELSE Unreadable

\* The writer implements the container its readers see: published in one step,
\* complete, and final once finish() has returned OK.
Abstract == INSTANCE Container WITH added <- Range(indexes), visible <- Visible,
                                    durable <- (ret = "ok")
PublishedAtomically == Abstract!CSpec

============================================================================
