------------------------ MODULE CompoundWriterProofs ------------------------
(***************************************************************************)
(* For every buffer size, every cut of the posting regions, any number of  *)
(* indexes, failing writes and crash points: a container the reader opens  *)
(* is the right one, finish() that loses no byte leaves a readable one,    *)
(* and the writer implements Container.                                    *)
(*                                                                         *)
(* The argument follows the image of the file: what is on disk and, behind *)
(* it, what is still buffered.  A call that succeeds extends the image by  *)
(* what it counts; one that fails after part of a write leaves the image   *)
(* longer than the count.  From then on every offset the writer records is *)
(* short, the checksum of the tail pointer no longer meets the meta region *)
(* and the reader refuses the file.                                        *)
(***************************************************************************)
EXTENDS CompoundWriter, TLAPS

Place == [post_off : Nat, post_len : Nat, dict_off : Nat, dict_len : Nat,
          norms_off : Nat, norms_len : Nat, bsbf_off : Nat, bsbf_len : Nat]
Sections == {"boot", "post", "dict", "norms", "bsbf", "meta", "tail"}
DirEntry == [index : Indexes, refs : Place]
MetaCell == [sec : Sections, index : Nat, part : Nat, says : Seq(DirEntry)]
TailSays == [off : Nat, len : Nat, checksum : Seq(MetaCell)]
Cell == [sec : Sections, index : Nat, part : Nat,
         says : {<<>>} \cup Seq(DirEntry) \cup TailSays]
File == [disk : Seq(Cell), buf : Seq(Cell), bytes_written : Nat]

\* The file as it will be once the buffer is written.
Image(f) == f.disk \o f.buf

----------------------------------------------------------------------------
(* What one append does to the image. *)

\* The image is a sequence, the disk a prefix of it.
LEMMA ImageFacts ==
    ASSUME NEW f \in File
    PROVE  /\ Image(f) \in Seq(Cell) /\ Len(Image(f)) = Len(f.disk) + Len(f.buf)
           /\ Len(f.disk) \in Nat /\ Len(f.buf) \in Nat
           /\ \A j \in 1..Len(f.disk) : Image(f)[j] = f.disk[j]
           /\ \A j \in 1..Len(f.buf) : Image(f)[Len(f.disk) + j] = f.buf[j]
  BY DEF Image, File

\* write_all puts everything on disk or, failing, a proper prefix.
LEMMA WriteAllOutcome ==
    ASSUME NEW f \in File, NEW data \in Seq(Cell), NEW o \in WriteAll(f, data)
    PROVE  /\ o = [f |-> o.f, ok |-> o.ok] /\ o.ok \in BOOLEAN /\ o.f \in File
           /\ o.f.buf = f.buf /\ o.f.bytes_written = f.bytes_written
           /\ o.ok => o.f.disk = f.disk \o data
           /\ ~o.ok => \E n \in 0..(Len(data) - 1) : o.f.disk = f.disk \o SubSeq(data, 1, n)
  <1>1. ASSUME NEW s \in Seq(Cell)
        PROVE  [f EXCEPT !.disk = f.disk \o s] \in File
    <2>1. f.disk \o s \in Seq(Cell)
      BY DEF File
    <2> QED
      BY <2>1, Zenon DEF File
  <1>2. CASE o = [f |-> [f EXCEPT !.disk = f.disk \o data], ok |-> TRUE]
    BY <1>1, <1>2, Zenon DEF File
  <1>3. ASSUME NEW n \in 0..(Len(data) - 1),
               o = [f |-> [f EXCEPT !.disk = f.disk \o SubSeq(data, 1, n)], ok |-> FALSE]
        PROVE  /\ o = [f |-> o.f, ok |-> o.ok] /\ o.ok = FALSE /\ o.f \in File
               /\ o.f.buf = f.buf /\ o.f.bytes_written = f.bytes_written
               /\ o.f.disk = f.disk \o SubSeq(data, 1, n)
    <2>1. SubSeq(data, 1, n) \in Seq(Cell)
      OBVIOUS
    <2> QED
      BY <1>1, <1>3, <2>1, Zenon DEF File
  <1>4. \/ o = [f |-> [f EXCEPT !.disk = f.disk \o data], ok |-> TRUE]
        \/ \E n \in 0..(Len(data) - 1) :
              o = [f |-> [f EXCEPT !.disk = f.disk \o SubSeq(data, 1, n)], ok |-> FALSE]
    BY Zenon DEF WriteAll
  <1> QED
    BY <1>2, <1>3, <1>4, Zenon

PrefixOf(d, e) == Len(d) <= Len(e) /\ \A j \in 1..Len(d) : d[j] = e[j]

\* g is the file after an append of data to f that succeeded.
Grows(f, g, data) ==
    /\ g \in File /\ g.bytes_written = f.bytes_written + Len(data)
    /\ Image(g) = Image(f) \o data

\* g is the file after an append of data to f that failed.
Breaks(f, g, data) ==
    /\ g \in File /\ g.bytes_written = f.bytes_written
    /\ g.buf = f.buf \/ g.buf = <<>>
    /\ PrefixOf(g.disk, Image(f) \o data) /\ Len(g.disk) < Len(Image(f)) + Len(data)
    /\ Len(Image(g)) >= Len(Image(f))
    /\ Len(Image(g)) = Len(Image(f)) => Image(g) = Image(f)

\* Concatenation, by elements.
LEMMA ConcatFacts ==
    ASSUME NEW S, NEW s \in Seq(S), NEW t \in Seq(S)
    PROVE  /\ s \o t \in Seq(S) /\ Len(s \o t) = Len(s) + Len(t)
           /\ Len(s) \in Nat /\ Len(t) \in Nat
           /\ \A j \in 1..Len(s) : (s \o t)[j] = s[j]
           /\ \A j \in 1..Len(t) : (s \o t)[Len(s) + j] = t[j]
           /\ \A j \in 1..Len(s \o t) : j > Len(s) =>
                 j - Len(s) \in 1..Len(t) /\ (s \o t)[j] = t[j - Len(s)]
  OBVIOUS

\* Concatenation is associative.
LEMMA ConcatAssoc ==
    ASSUME NEW S, NEW s \in Seq(S), NEW t \in Seq(S), NEW u \in Seq(S)
    PROVE  s \o (t \o u) = (s \o t) \o u
  OBVIOUS

\* A proper part of t behind s is a prefix of s and t.
LEMMA PartialConcat ==
    ASSUME NEW S, NEW s \in Seq(S), NEW t \in Seq(S), NEW n \in 0..(Len(t) - 1)
    PROVE  /\ s \o SubSeq(t, 1, n) \in Seq(S)
           /\ Len(s \o SubSeq(t, 1, n)) = Len(s) + n
           /\ PrefixOf(s \o SubSeq(t, 1, n), s \o t)
           /\ n = 0 => s \o SubSeq(t, 1, n) = s
  <1> DEFINE u == SubSeq(t, 1, n)
  <1>1. u \in Seq(S) /\ Len(u) = n /\ n \in Nat /\ n < Len(t) /\ \A j \in 1..n : u[j] = t[j]
    OBVIOUS
  <1>2. n = 0 => u = <<>>
    BY <1>1
  <1> HIDE DEF u
  <1>3. ASSUME NEW j \in 1..Len(s \o u)
        PROVE  (s \o u)[j] = (s \o t)[j]
    <2>1. CASE j <= Len(s)
      BY <1>1, <2>1, ConcatFacts
    <2>2. CASE j > Len(s)
      <3>1. j - Len(s) \in 1..n /\ (s \o u)[j] = u[j - Len(s)]
        BY <1>1, <2>2, ConcatFacts
      <3>2. j - Len(s) \in 1..Len(t) /\ Len(s) + (j - Len(s)) = j
        BY <1>1, <3>1, ConcatFacts
      <3> QED
        BY <1>1, <3>1, <3>2, ConcatFacts
    <2> QED
      BY <1>1, <2>1, <2>2, ConcatFacts
  <1>4. PrefixOf(s \o u, s \o t) /\ s \o u \in Seq(S) /\ Len(s \o u) = Len(s) + n
    <2>1. /\ s \o u \in Seq(S) /\ Len(s \o u) = Len(s) + n /\ Len(s \o t) = Len(s) + Len(t)
          /\ Len(s) \in Nat /\ Len(t) \in Nat
      BY <1>1, ConcatFacts, Zenon
    <2>2. Len(s \o u) <= Len(s \o t)
      BY <1>1, <2>1
    <2> QED
      BY <1>3, <2>1, <2>2 DEF PrefixOf
  <1>5. n = 0 => s \o u = s
    BY <1>2
  <1> QED
    BY <1>4, <1>5 DEF u

\* A prefix of s is a prefix of s and t.
LEMMA PrefixExtend ==
    ASSUME NEW S, NEW r \in Seq(S), NEW s \in Seq(S), NEW t \in Seq(S), PrefixOf(r, s)
    PROVE  PrefixOf(r, s \o t)
  BY ConcatFacts DEF PrefixOf

\* A flush that fails.
LEMMA BrokenFlush ==
    ASSUME NEW f \in File, NEW g \in File, NEW data \in Seq(Cell),
           NEW n \in 0..(Len(f.buf) - 1), g.disk = f.disk \o SubSeq(f.buf, 1, n),
           g.buf = f.buf, g.bytes_written = f.bytes_written
    PROVE  Breaks(f, g, data)
  <1>1. f.buf \in Seq(Cell) /\ f.disk \in Seq(Cell) /\ g.disk \in Seq(Cell)
    BY DEF File
  <1>2. /\ Len(g.disk) = Len(f.disk) + n /\ PrefixOf(g.disk, Image(f))
        /\ n = 0 => g.disk = f.disk
    <2>1. PICK d \in Seq(Cell), b \in Seq(Cell) : d = f.disk /\ b = f.buf
      BY <1>1
    <2>2. /\ Len(d \o SubSeq(b, 1, n)) = Len(d) + n
          /\ PrefixOf(d \o SubSeq(b, 1, n), d \o b)
          /\ n = 0 => d \o SubSeq(b, 1, n) = d
      <3>1. n \in 0..(Len(b) - 1)
        BY <2>1
      <3>2. Len(d \o SubSeq(b, 1, n)) = Len(d) + n
        BY <3>1, PartialConcat, Zenon
      <3>3. PrefixOf(d \o SubSeq(b, 1, n), d \o b)
        BY <3>1, PartialConcat, Zenon
      <3>4. n = 0 => d \o SubSeq(b, 1, n) = d
        BY <3>1, PartialConcat, Zenon
      <3> QED
        BY <3>2, <3>3, <3>4
    <2> QED
      BY <2>1, <2>2, Zenon DEF Image
  <1>3. PrefixOf(g.disk, Image(f) \o data)
    BY <1>1, <1>2, ImageFacts, PrefixExtend, Zenon
  <1>4. /\ Len(Image(f)) = Len(f.disk) + Len(f.buf) /\ Len(Image(g)) = Len(g.disk) + Len(f.buf)
        /\ Len(f.disk) \in Nat /\ Len(f.buf) \in Nat /\ Len(data) \in Nat /\ n \in Nat
        /\ n < Len(f.buf)
    <2>1. /\ Len(Image(f)) = Len(f.disk) + Len(f.buf) /\ Len(Image(g)) = Len(g.disk) + Len(g.buf)
          /\ Len(f.disk) \in Nat /\ Len(f.buf) \in Nat
      BY ImageFacts, Zenon
    <2>2. Len(data) \in Nat /\ n \in Nat /\ n < Len(f.buf)
      BY <2>1
    <2> QED
      BY <2>1, <2>2, Zenon
  <1>5. n = 0 => Image(g) = Image(f)
    BY <1>2, Zenon DEF Image
  <1>6. /\ Len(g.disk) < Len(Image(f)) + Len(data) /\ Len(Image(g)) >= Len(Image(f))
        /\ Len(Image(g)) = Len(Image(f)) => n = 0
    <2>1. PICK a \in Nat, b \in Nat, d \in Nat :
             a = Len(f.disk) /\ b = Len(f.buf) /\ d = Len(data)
      BY <1>4
    <2>2. /\ Len(f.disk) + n < (Len(f.disk) + Len(f.buf)) + Len(data)
          /\ (Len(f.disk) + n) + Len(f.buf) >= Len(f.disk) + Len(f.buf)
          /\ (Len(f.disk) + n) + Len(f.buf) = Len(f.disk) + Len(f.buf) => n = 0
      <3>1. n \in Nat /\ n < b
        BY <1>4, <2>1, Zenon
      <3>2. a + n < (a + b) + d /\ (a + n) + b >= a + b /\ ((a + n) + b = a + b => n = 0)
        BY <3>1
      <3> QED
        BY <2>1, <3>2, Zenon
    <2> QED
      BY <1>2, <1>4, <2>2, Zenon
  <1> QED
    BY <1>3, <1>5, <1>6, Zenon DEF Breaks

\* A direct write that fails, behind a flush that did not.
LEMMA BrokenWrite ==
    ASSUME NEW f \in File, NEW g \in File, NEW data \in Seq(Cell),
           NEW n \in 0..(Len(data) - 1), g.disk = Image(f) \o SubSeq(data, 1, n),
           g.buf = <<>>, g.bytes_written = f.bytes_written
    PROVE  Breaks(f, g, data)
  <1>1. Image(f) \in Seq(Cell) /\ g.disk \in Seq(Cell)
    BY ImageFacts, Zenon DEF File
  <1>2. /\ Len(g.disk) = Len(Image(f)) + n /\ PrefixOf(g.disk, Image(f) \o data)
        /\ n = 0 => g.disk = Image(f)
    BY <1>1, PartialConcat
  <1>3. Image(g) = g.disk
    BY <1>1 DEF Image
  <1>4. Len(Image(f)) \in Nat /\ Len(data) \in Nat /\ n \in Nat /\ n < Len(data)
    BY <1>1
  <1>5. /\ Len(g.disk) < Len(Image(f)) + Len(data) /\ Len(Image(g)) >= Len(Image(f))
        /\ Len(Image(g)) = Len(Image(f)) => Image(g) = Image(f)
    BY <1>2, <1>3, <1>4
  <1> QED
    BY <1>2, <1>5 DEF Breaks

\* flush_buffer moves the buffer to the disk or, failing, part of it, and then
\* keeps the buffer whole.
LEMMA FlushOutcome ==
    ASSUME NEW f \in File, NEW o \in FlushBuffer(f)
    PROVE  /\ o.ok \in BOOLEAN /\ o.f \in File /\ o.f.bytes_written = f.bytes_written
           /\ o.ok => o.f.buf = <<>> /\ o.f.disk = Image(f) /\ Image(o.f) = Image(f)
           /\ ~o.ok => \A data \in Seq(Cell) : Breaks(f, o.f, data)
  <1>1. f.buf \in Seq(Cell) /\ f.disk \in Seq(Cell) /\ f.bytes_written \in Nat
    BY DEF File
  <1>2. CASE f.buf = <<>>
    <2>1. o.f = f /\ o.ok = TRUE
      BY <1>2 DEF FlushBuffer
    <2>2. Image(f) = f.disk
      BY <1>1, <1>2 DEF Image
    <2> QED
      BY <1>2, <2>1, <2>2, Zenon
  <1>3. CASE f.buf # <<>>
    <2>1. PICK p \in WriteAll(f, f.buf) : o = [p EXCEPT !.f.buf = IF p.ok THEN <<>> ELSE @]
      BY <1>3 DEF FlushBuffer
    <2>2. /\ p = [f |-> p.f, ok |-> p.ok] /\ p.ok \in BOOLEAN /\ p.f \in File
          /\ p.f.buf = f.buf /\ p.f.bytes_written = f.bytes_written
          /\ p.ok => p.f.disk = f.disk \o f.buf
          /\ ~p.ok => \E n \in 0..(Len(f.buf) - 1) : p.f.disk = f.disk \o SubSeq(f.buf, 1, n)
      BY <1>1, WriteAllOutcome, Zenon
    <2>3. o.ok = p.ok /\ o.f = [p.f EXCEPT !.buf = IF p.ok THEN <<>> ELSE @]
      BY <2>1, <2>2
    <2>4. PICK g : g = o.f
      OBVIOUS
    <2>5. PICK h \in File : h = p.f
      BY <2>2
    <2>6. /\ g = [h EXCEPT !.buf = IF p.ok THEN <<>> ELSE @]
          /\ h.buf = f.buf /\ h.bytes_written = f.bytes_written
      BY <2>2, <2>3, <2>4, <2>5
    <2>7. CASE p.ok
      <3>1. h.disk = Image(f)
        BY <2>2, <2>5, <2>7, Zenon DEF Image
      <3>2. g.disk = h.disk /\ g.buf = <<>> /\ g.bytes_written = f.bytes_written /\ g \in File
        <4>1. g = [h EXCEPT !.buf = <<>>]
          BY <2>6, <2>7
        <4>2. <<>> \in Seq(Cell)
          OBVIOUS
        <4> QED
          BY <2>6, <4>1, <4>2, Zenon DEF File
      <3>3. Image(g) = Image(f)
        BY <3>1, <3>2, ImageFacts DEF Image
      <3> QED
        BY <2>2, <2>3, <2>4, <2>7, <3>1, <3>2, <3>3
    <2>8. CASE ~p.ok
      <3>1. g = h
        BY <2>6, <2>8 DEF File
      <3>2. PICK n \in 0..(Len(f.buf) - 1) : h.disk = f.disk \o SubSeq(f.buf, 1, n)
        BY <2>2, <2>5, <2>8, Zenon
      <3>3. \A data \in Seq(Cell) : Breaks(f, h, data)
        BY <2>6, <3>2, BrokenFlush, Zenon
      <3> QED
        BY <2>2, <2>3, <2>4, <2>6, <2>8, <3>1, <3>3, Zenon
    <2> QED
      BY <2>2, <2>7, <2>8
  <1> QED
    BY <1>2, <1>3

\* A file whose count is raised by what its image gained.
LEMMA CountedGrows ==
    ASSUME NEW f \in File, NEW g \in File, NEW data \in Seq(Cell),
           g.bytes_written = f.bytes_written, Image(g) = Image(f) \o data
    PROVE  Grows(f, Counted(g, Len(data)), data)
  <1>1. PICK h : h = Counted(g, Len(data))
    OBVIOUS
  <1>2. f.bytes_written + Len(data) \in Nat
    BY DEF File
  <1>3. h = [g EXCEPT !.bytes_written = g.bytes_written + Len(data)]
    BY <1>1 DEF Counted
  <1>4. h \in File /\ h.disk = g.disk /\ h.buf = g.buf
        /\ h.bytes_written = f.bytes_written + Len(data)
    <2>1. PICK m \in Nat : m = f.bytes_written + Len(data)
      BY <1>2
    <2>2. h = [g EXCEPT !.bytes_written = m]
      BY <1>3, <2>1
    <2> QED
      BY <2>1, <2>2, Zenon DEF File
  <1>5. Image(h) = Image(g)
    BY <1>4, Zenon DEF Image
  <1> QED
    BY <1>1, <1>4, <1>5, Zenon DEF Grows

\* LocalFileWriter::append: it counts exactly what it adds to the image, or fails
\* with the disk a proper prefix of what was to be written.
LEMMA AppendOutcome ==
    ASSUME NEW f \in File, NEW data \in Seq(Cell), NEW o \in FileAppend(f, data)
    PROVE  /\ o.ok \in BOOLEAN
           /\ o.ok => Grows(f, o.f, data)
           /\ ~o.ok => Breaks(f, o.f, data)
  <1> DEFINE n == Len(data)
             room == IF Len(f.buf) + n > BufCapacity THEN FlushBuffer(f)
                     ELSE {[f |-> f, ok |-> TRUE]}
  <1>1. CASE n = 0
    <2>1. o.f = f /\ o.ok = TRUE
      BY <1>1 DEF FileAppend
    <2>2. data = <<>>
      BY <1>1
    <2>3. Image(f) \o <<>> = Image(f) /\ f.bytes_written + Len(<<>>) = f.bytes_written
      BY ImageFacts DEF File
    <2> QED
      BY <2>1, <2>2, <2>3, Zenon DEF Grows
  <1>2. CASE n # 0 /\ n >= BufCapacity
    <2>1. \/ o \in Failed(FlushBuffer(f))
          \/ \E g \in Done(FlushBuffer(f)) : \E p \in WriteAll(g, data) :
                o = IF p.ok THEN [p EXCEPT !.f = Counted(p.f, n)] ELSE p
      BY <1>2 DEF FileAppend
    <2>2. CASE o \in Failed(FlushBuffer(f))
      BY <2>2, FlushOutcome DEF Failed
    <2>3. ASSUME NEW g \in Done(FlushBuffer(f)), NEW p \in WriteAll(g, data),
                 o = IF p.ok THEN [p EXCEPT !.f = Counted(p.f, n)] ELSE p
          PROVE  /\ o.ok \in BOOLEAN
                 /\ o.ok => Grows(f, o.f, data)
                 /\ ~o.ok => Breaks(f, o.f, data)
      <3>1. /\ g \in File /\ g.bytes_written = f.bytes_written
            /\ g.buf = <<>> /\ g.disk = Image(f)
        BY FlushOutcome DEF Done
      <3>2. /\ p = [f |-> p.f, ok |-> p.ok] /\ p.ok \in BOOLEAN /\ p.f \in File
            /\ p.f.buf = g.buf /\ p.f.bytes_written = g.bytes_written
            /\ p.ok => p.f.disk = g.disk \o data
            /\ ~p.ok => \E m \in 0..(Len(data) - 1) : p.f.disk = g.disk \o SubSeq(data, 1, m)
        BY <3>1, WriteAllOutcome, Zenon
      <3>3. PICK h \in File : h = p.f
        BY <3>2
      <3>4. h.buf = <<>> /\ h.bytes_written = f.bytes_written
        BY <3>1, <3>2, <3>3
      <3>5. CASE p.ok
        <4>1. o.ok = TRUE /\ o.f = Counted(h, n)
          BY <2>3, <3>2, <3>3, <3>5
        <4>2. Image(h) = Image(f) \o data
          <5>1. h.disk = Image(f) \o data
            BY <3>1, <3>2, <3>3, <3>5
          <5>2. Image(f) \o data \in Seq(Cell)
            BY ImageFacts, ConcatFacts, Zenon
          <5> QED
            BY <3>4, <5>1, <5>2 DEF Image
        <4> QED
          BY <3>4, <4>1, <4>2, CountedGrows, Zenon
      <3>6. CASE ~p.ok
        <4>1. o = p
          BY <2>3, <3>6
        <4>2. PICK m \in 0..(Len(data) - 1) : h.disk = Image(f) \o SubSeq(data, 1, m)
          BY <3>1, <3>2, <3>3, <3>6, Zenon
        <4>3. Breaks(f, h, data)
          BY <3>4, <4>2, BrokenWrite
        <4> QED
          BY <3>2, <3>3, <3>6, <4>1, <4>3
      <3> QED
        BY <3>2, <3>5, <3>6
    <2> QED
      BY <2>1, <2>2, <2>3
  <1>3. CASE n # 0 /\ ~(n >= BufCapacity)
    <2>1. \/ o \in Failed(room)
          \/ \E g \in Done(room) : o = [f |-> Counted([g EXCEPT !.buf = @ \o data], n), ok |-> TRUE]
      BY <1>3, Zenon DEF FileAppend
    <2>2. CASE o \in Failed(room)
      <3>1. o \in FlushBuffer(f) /\ ~o.ok
        BY <2>2 DEF Failed
      <3> QED
        BY <3>1, FlushOutcome
    <2>3. ASSUME NEW g \in Done(room),
                 o = [f |-> Counted([g EXCEPT !.buf = @ \o data], n), ok |-> TRUE]
          PROVE  o.ok = TRUE /\ Grows(f, o.f, data)
      <3>1. g \in File /\ g.bytes_written = f.bytes_written /\ Image(g) = Image(f)
        <4>1. CASE room = FlushBuffer(f)
          BY <4>1, FlushOutcome DEF Done
        <4>2. CASE room = {[f |-> f, ok |-> TRUE]}
          BY <4>2 DEF Done
        <4> QED
          BY <4>1, <4>2
      <3>2. PICK h : h = [g EXCEPT !.buf = g.buf \o data]
        BY Zenon
      <3>3. g.buf \o data \in Seq(Cell) /\ g.buf \in Seq(Cell) /\ g.disk \in Seq(Cell)
        BY <3>1 DEF File
      <3>4. h \in File /\ h.bytes_written = f.bytes_written /\ h.disk = g.disk
            /\ h.buf = g.buf \o data
        BY <3>1, <3>2, <3>3, Zenon DEF File
      <3>5. Image(h) = Image(f) \o data
        <4>1. g.disk \o (g.buf \o data) = (g.disk \o g.buf) \o data
          <5>1. PICK a \in Seq(Cell), b \in Seq(Cell) : a = g.disk /\ b = g.buf
            BY <3>3
          <5>2. a \o (b \o data) = (a \o b) \o data
            BY ConcatAssoc
          <5> QED
            BY <5>1, <5>2
        <4> QED
          BY <3>1, <3>4, <4>1, Zenon DEF Image
      <3> QED
        BY <2>3, <3>2, <3>4, <3>5, CountedGrows, Zenon
    <2> QED
      BY <2>1, <2>2, <2>3, Zenon
  <1> QED
    BY <1>1, <1>2, <1>3

----------------------------------------------------------------------------
(* The inductive invariant. *)

Pcs == {"idle", "post", "sections", "tail", "finalize", "sync"}

Types ==
    /\ file \in File /\ pc \in Pcs
    /\ cur \in [index : Nat, chunk : Nat, place : Place]
    /\ indexes \in Seq(Indexes) /\ place \in Seq(Place) /\ Len(place) = Len(indexes)
    /\ k \in Nat \ {0}
    /\ boot \in BOOLEAN /\ finished \in BOOLEAN /\ crashed \in BOOLEAN
    /\ ret \in {"none", "ok", "io"}

\* Where finish() stands, and what an add call that runs has promised.
Control ==
    /\ ~finished => k = 1 /\ ret = "none" /\ pc \in {"idle", "post"}
    /\ finished => pc # "post"
    /\ ret # "none" => pc = "idle"
    /\ crashed => pc = "idle"
    /\ pc \in {"tail", "finalize", "sync"} => k > 2 * N
    /\ pc = "post" => cur.index \in Indexes /\ cur.index \notin Range(indexes)
    /\ pc = "post" => cur.chunk \in 1..(Len(PostEnds[cur.index]) + 1)
    /\ pc = "post" => cur.place = [NoPlace EXCEPT !.post_off = cur.place.post_off]
    /\ pc = "post" => cur.place.post_off <= file.bytes_written
    /\ pc # "idle" => boot

\* The cells lie at off in d and are len many.
Stored(d, off, len, cells) ==
    /\ len = Len(cells) /\ off + len <= Len(d)
    /\ \A j \in 1..len : d[off + j] = cells[j]

\* The refs p name the sections of index x in d, as far as they are written.
RefsRight(d, p, x, norms, bsbf) ==
    /\ Stored(d, p.post_off, p.post_len, PostRegion(x))
    /\ Stored(d, p.dict_off, p.dict_len, DictCells(x))
    /\ IF norms THEN Stored(d, p.norms_off, p.norms_len, NormsCells(x))
       ELSE p.norms_off = 0 /\ p.norms_len = 0
    /\ IF bsbf THEN Stored(d, p.bsbf_off, p.bsbf_len, BsbfCells(x))
       ELSE p.bsbf_off = 0 /\ p.bsbf_len = 0

\* The refs ps of the indexes xs are right; write_norms has passed the norms of the
\* first n - 1 indexes, then their bsbf.
PlacesRight(d, xs, ps, n) ==
    \A i \in 1..Len(xs) : RefsRight(d, ps[i], xs[i], n > i, n > Len(xs) + i)

\* What the running add has streamed of the posting region ends d.
StreamRight(d, c) ==
    /\ c.place.post_off <= Len(d)
    /\ Stored(d, c.place.post_off, Len(d) - c.place.post_off,
              Cells("post", c.index, PostStart(c.index, c.chunk)))

Headed(d) == Len(d) >= 1 /\ d[1].sec = "boot"

Plain(d) == \A j \in 1..Len(d) : d[j].sec \notin {"meta", "tail"}

\* The meta region ends d, and nothing before it is part of one.
EndsInMeta(d, meta) ==
    /\ Len(d) >= 2
    /\ \A j \in 1..(Len(d) - 2) : d[j].sec \notin {"meta", "tail"}
    /\ d[Len(d) - 1] = meta[1] /\ d[Len(d)] = meta[2]

\* A tail pointer ends d, right behind the meta region; its offset is by the count.
EndsInTail(d, meta, count) ==
    /\ Len(d) >= 4 /\ count >= 4
    /\ \A j \in 1..(Len(d) - 4) : d[j].sec \notin {"meta", "tail"}
    /\ d[Len(d) - 3] = meta[1] /\ d[Len(d) - 2] = meta[2]
    /\ d[Len(d) - 1] = TailCells(count - 4, 2, meta)[1]
    /\ d[Len(d)] = TailCells(count - 4, 2, meta)[2]

\* The writer can still append.
Writing == ~crashed /\ (finished => pc # "idle")

\* The image holds no byte the writer has not counted: then every ref is right.
CleanInv ==
    LET d == Image(file) IN
    Len(d) = file.bytes_written =>
        /\ boot => Headed(d)
        /\ PlacesRight(d, indexes, place, k)
        /\ pc = "post" => StreamRight(d, cur)

WritingInv ==
    LET d == Image(file) IN
    /\ Len(d) >= file.bytes_written /\ CleanInv
    /\ ~boot => d = <<>>
    /\ pc \in {"idle", "post", "sections"} => Plain(d)
    /\ pc = "tail" => EndsInMeta(d, MetaCells) /\ file.bytes_written >= 2
    /\ pc \in {"finalize", "sync"} => EndsInTail(d, MetaCells, file.bytes_written)
    /\ pc = "sync" => file.buf = <<>>

\* A file that ends in a whole tail pointer.
Sealed ==
    LET d == file.disk IN
    /\ EndsInTail(d, MetaCells, file.bytes_written)
    /\ k > 2 * N
    /\ Len(d) = file.bytes_written => Headed(d) /\ PlacesRight(d, indexes, place, k)

\* d holds no end of a tail pointer.
NoTailEnd(d) == \A j \in 1..Len(d) : ~(d[j].sec = "tail" /\ d[j].part = 2)

\* The writer is done: the end of a tail pointer is on disk only in a sealed file.
DoneInv ==
    /\ NoTailEnd(file.disk) \/ Sealed
    /\ ret = "ok" => Sealed

ContainerInv ==
    /\ Types /\ Control
    /\ Writing => WritingInv
    /\ ~Writing => DoneInv

----------------------------------------------------------------------------
(* Cells of a file that grows. *)

\* What is stored stays stored when the file grows.
LEMMA StoredExtends ==
    ASSUME NEW d \in Seq(Cell), NEW e \in Seq(Cell), NEW off \in Nat, NEW len \in Nat,
           NEW c, Stored(d, off, len, c)
    PROVE  Stored(d \o e, off, len, c)
  <1>1. len = Len(c) /\ off + len <= Len(d) /\ \A j \in 1..len : d[off + j] = c[j]
    BY DEF Stored
  <1>2. off + len <= Len(d \o e)
    BY <1>1, ConcatFacts
  <1>3. ASSUME NEW j \in 1..len
        PROVE  (d \o e)[off + j] = c[j]
    <2>1. off + j \in 1..Len(d)
      BY <1>1, ConcatFacts
    <2> QED
      BY <1>1, <2>1, ConcatFacts
  <1> QED
    BY <1>1, <1>2, <1>3 DEF Stored

\* What is appended is stored at the end.
LEMMA StoredAtEnd ==
    ASSUME NEW d \in Seq(Cell), NEW e \in Seq(Cell)
    PROVE  Stored(d \o e, Len(d), Len(e), e)
  BY ConcatFacts DEF Stored

\* Refs that are right stay right when the file grows.
LEMMA RefsExtend ==
    ASSUME NEW d \in Seq(Cell), NEW e \in Seq(Cell), NEW p \in Place, NEW x,
           NEW norms, NEW bsbf, RefsRight(d, p, x, norms, bsbf)
    PROVE  RefsRight(d \o e, p, x, norms, bsbf)
  <1>1. /\ p.post_off \in Nat /\ p.post_len \in Nat /\ p.dict_off \in Nat /\ p.dict_len \in Nat
        /\ p.norms_off \in Nat /\ p.norms_len \in Nat /\ p.bsbf_off \in Nat /\ p.bsbf_len \in Nat
    BY Zenon DEF Place
  <1> QED
    BY <1>1, StoredExtends, Zenon DEF RefsRight

\* No meta or tail cell comes from a concatenation of parts without one.
LEMMA PlainConcat ==
    ASSUME NEW d \in Seq(Cell), NEW e \in Seq(Cell), Plain(d), Plain(e)
    PROVE  Plain(d \o e)
  <1>1. ASSUME NEW j \in 1..Len(d \o e)
        PROVE  (d \o e)[j].sec \notin {"meta", "tail"}
    <2>1. CASE j <= Len(d)
      <3>1. j \in 1..Len(d)
        BY <2>1
      <3>2. (d \o e)[j] = d[j]
        BY <3>1, ConcatFacts, Zenon
      <3> QED
        BY <3>1, <3>2, Zenon DEF Plain
    <2>2. CASE j > Len(d)
      <3>1. j - Len(d) \in 1..Len(e) /\ (d \o e)[j] = e[j - Len(d)]
        BY <2>2, ConcatFacts, Zenon
      <3> QED
        BY <3>1, Zenon DEF Plain
    <2>3. j \in Int /\ Len(d) \in Int
      BY ConcatFacts
    <2> QED
      BY <2>1, <2>2, <2>3
  <1> QED
    BY <1>1, Zenon DEF Plain

\* A prefix of a plain file is plain.
LEMMA PlainPrefix ==
    ASSUME NEW d \in Seq(Cell), NEW e \in Seq(Cell), PrefixOf(d, e), Plain(e)
    PROVE  Plain(d)
  <1>1. ASSUME NEW j \in 1..Len(d)
        PROVE  d[j].sec \notin {"meta", "tail"}
    <2>1. j \in 1..Len(e) /\ d[j] = e[j]
      BY DEF PrefixOf
    <2> QED
      BY <2>1, Zenon DEF Plain
  <1> QED
    BY <1>1, Zenon DEF Plain

\* A function on 1..n is a sequence of length n.
LEMMA FunctionIsSeq ==
    ASSUME NEW S, NEW n \in Nat, NEW s \in [1..n -> S]
    PROVE  s \in Seq(S) /\ Len(s) = n
  OBVIOUS

\* The section of a cell.
LEMMA CellSec ==
    ASSUME NEW x, NEW i, NEW p, NEW y
    PROVE  [sec |-> x, index |-> i, part |-> p, says |-> y].sec = x
  OBVIOUS

\* Indexes are numbers other than 0.
LEMMA IndexFacts == 0 \notin Indexes /\ \A i \in Indexes : i \in Nat
  BY CompoundAssumption

\* The cells of a section other than meta and tail.
LEMMA CellsFacts ==
    ASSUME NEW sec \in Sections, NEW i \in Nat, NEW n \in Nat
    PROVE  /\ Cells(sec, i, n) \in Seq(Cell) /\ Len(Cells(sec, i, n)) = n
           /\ \A j \in 1..n : Cells(sec, i, n)[j] = [sec |-> sec, index |-> i, part |-> j, says |-> <<>>]
           /\ sec \notin {"meta", "tail"} => Plain(Cells(sec, i, n))
  <1>1. ASSUME NEW j \in 1..n
        PROVE  [sec |-> sec, index |-> i, part |-> j, says |-> <<>>] \in Cell
    <2>1. j \in Nat
      OBVIOUS
    <2> QED
      BY <2>1, Zenon DEF Cell
  <1>2. Cells(sec, i, n) \in [1..n -> Cell]
    BY <1>1, Zenon DEF Cells
  <1>3. Cells(sec, i, n) \in Seq(Cell) /\ Len(Cells(sec, i, n)) = n
    BY <1>2, FunctionIsSeq, Zenon
  <1>4. \A j \in 1..n : Cells(sec, i, n)[j] = [sec |-> sec, index |-> i, part |-> j, says |-> <<>>]
    BY Zenon DEF Cells
  <1>5. ASSUME NEW j \in 1..n
        PROVE  Cells(sec, i, n)[j].sec = sec
    <2>1. Cells(sec, i, n)[j] = [sec |-> sec, index |-> i, part |-> j, says |-> <<>>]
      BY <1>4, Zenon
    <2> QED
      BY <2>1
  <1> QED
    BY <1>3, <1>4, <1>5, Zenon DEF Plain

\* Where the appends of a posting region start and end.
LEMMA PostStartFacts ==
    ASSUME NEW i \in Indexes, NEW c \in 1..Len(PostEnds[i])
    PROVE  /\ PostStart(i, c) \in Nat /\ PostStart(i, c + 1) \in Nat
           /\ PostEnds[i][c] = PostStart(i, c + 1) /\ PostStart(i, c) <= PostStart(i, c + 1)
  <1>1. PICK s \in Seq(Nat) : s = PostEnds[i]
    BY CompoundAssumption
  <1>2. \A m \in 2..Len(s) : s[m - 1] <= s[m]
    BY <1>1, CompoundAssumption
  <1>3. c \in 1..Len(s) /\ c \in Nat /\ s[c] \in Nat /\ (c + 1) - 1 = c /\ c + 1 # 1
    BY <1>1
  <1>4. PostStart(i, c + 1) = s[c]
    BY <1>1, <1>3 DEF PostStart
  <1>5. PostStart(i, c) \in Nat /\ PostStart(i, c) <= s[c]
    <2>1. CASE c = 1
      BY <1>3, <2>1 DEF PostStart
    <2>2. CASE c # 1
      <3>1. c \in 2..Len(s) /\ c - 1 \in 1..Len(s)
        BY <1>3, <2>2
      <3>2. s[c - 1] \in Nat /\ s[c - 1] <= s[c]
        BY <1>2, <3>1
      <3> QED
        BY <1>1, <2>2, <3>2 DEF PostStart
    <2> QED
      BY <2>1, <2>2
  <1> QED
    BY <1>1, <1>3, <1>4, <1>5

\* The bounds of a posting region that is being streamed.
LEMMA PostStartNat ==
    ASSUME NEW i \in Indexes, NEW c \in 1..(Len(PostEnds[i]) + 1)
    PROVE  PostStart(i, c) \in Nat /\ Len(PostEnds[i]) \in Nat
  <1>1. Len(PostEnds[i]) \in Nat
    BY CompoundAssumption
  <1>2. PICK n \in Nat : n = Len(PostEnds[i])
    BY <1>1
  <1>3. CASE c = 1
    BY <1>1, <1>3 DEF PostStart
  <1>4. CASE c # 1
    <2>1. c - 1 \in 1..n /\ (c - 1) + 1 = c
      BY <1>2, <1>4
    <2>2. PostStart(i, (c - 1) + 1) \in Nat
      BY <1>2, <2>1, PostStartFacts
    <2> QED
      BY <1>1, <2>1, <2>2
  <1> QED
    BY <1>3, <1>4

\* One append of the posting region.
LEMMA PostCellsFacts ==
    ASSUME NEW i \in Indexes, NEW c \in 1..Len(PostEnds[i])
    PROVE  /\ PostCells(i, c) \in Seq(Cell) /\ Plain(PostCells(i, c))
           /\ Len(PostCells(i, c)) = PostStart(i, c + 1) - PostStart(i, c)
           /\ \A j \in 1..Len(PostCells(i, c)) :
                 PostCells(i, c)[j] = [sec |-> "post", index |-> i, part |-> PostStart(i, c) + j,
                                       says |-> <<>>]
  <1>1. PICK a \in Nat, n \in Nat : a = PostStart(i, c) /\ n = PostStart(i, c + 1) - PostStart(i, c)
    BY PostStartFacts
  <1>2. PICK s : s = PostCells(i, c)
    OBVIOUS
  <1>3. s = [j \in 1..n |-> [sec |-> "post", index |-> i, part |-> a + j, says |-> <<>>]]
    <2>1. PostEnds[i][c] - PostStart(i, c) = n
      BY <1>1, PostStartFacts, Zenon
    <2> QED
      BY <1>1, <1>2, <2>1, Zenon DEF PostCells
  <1>4. ASSUME NEW j \in 1..n
        PROVE  [sec |-> "post", index |-> i, part |-> a + j, says |-> <<>>] \in Cell
    <2>1. a + j \in Nat
      OBVIOUS
    <2>2. i \in Nat
      BY IndexFacts, Zenon
    <2>3. "post" \in Sections
      BY DEF Sections
    <2> QED
      BY <2>1, <2>2, <2>3, Zenon DEF Cell
  <1>5. s \in [1..n -> Cell]
    BY <1>3, <1>4, Zenon
  <1>6. s \in Seq(Cell) /\ Len(s) = n
    BY <1>5, FunctionIsSeq, Zenon
  <1>7. \A j \in 1..n : s[j] = [sec |-> "post", index |-> i, part |-> a + j, says |-> <<>>]
    BY <1>3, Zenon
  <1>8. ASSUME NEW j \in 1..n
        PROVE  s[j].sec = "post"
    <2>1. s[j] = [sec |-> "post", index |-> i, part |-> a + j, says |-> <<>>]
      BY <1>7, Zenon
    <2> QED
      BY <2>1
  <1>9. Plain(s)
    BY <1>6, <1>8, Zenon DEF Plain
  <1> QED
    BY <1>1, <1>2, <1>6, <1>7, <1>9, Zenon

\* Streaming one more append: the region so far lies at the end of the file.
LEMMA StreamExtends ==
    ASSUME NEW i \in Indexes, NEW c \in 1..Len(PostEnds[i]), NEW d \in Seq(Cell),
           NEW off \in Nat, off <= Len(d),
           Stored(d, off, Len(d) - off, Cells("post", i, PostStart(i, c)))
    PROVE  LET e == d \o PostCells(i, c)
           IN  off <= Len(e) /\ Stored(e, off, Len(e) - off, Cells("post", i, PostStart(i, c + 1)))
  <1>1. PICK a \in Nat, b \in Nat : a = PostStart(i, c) /\ b = PostStart(i, c + 1) /\ a <= b
    BY PostStartFacts
  <1>2. PICK s \in Seq(Cell) : s = PostCells(i, c)
    BY PostCellsFacts
  <1>3. /\ Len(s) = b - a
        /\ \A j \in 1..Len(s) : s[j] = [sec |-> "post", index |-> i, part |-> a + j, says |-> <<>>]
    BY <1>1, <1>2, PostCellsFacts, Zenon
  <1>4. PICK l \in Nat : l = Len(d)
    BY ConcatFacts
  <1>5. PICK e \in Seq(Cell) : e = d \o s
    BY ConcatFacts, Zenon
  <1>6. /\ Len(e) = l + (b - a) /\ \A j \in 1..l : e[j] = d[j]
        /\ \A j \in 1..Len(s) : e[l + j] = s[j]
    <2>1. /\ Len(d \o s) = Len(d) + Len(s) /\ \A j \in 1..Len(d) : (d \o s)[j] = d[j]
          /\ \A j \in 1..Len(s) : (d \o s)[Len(d) + j] = s[j]
      BY ConcatFacts
    <2> QED
      BY <1>3, <1>4, <1>5, <2>1, Zenon
  <1>7. i \in Nat /\ "post" \in Sections
    <2>1. i \in Nat
      BY IndexFacts, Zenon
    <2>2. "post" \in Sections
      BY DEF Sections
    <2> QED
      BY <2>1, <2>2
  <1>8. /\ l - off = a /\ off <= l
        /\ \A j \in 1..a : d[off + j] = [sec |-> "post", index |-> i, part |-> j, says |-> <<>>]
    <2>1. Len(Cells("post", i, a)) = a /\
          \A j \in 1..a : Cells("post", i, a)[j] = [sec |-> "post", index |-> i, part |-> j, says |-> <<>>]
      BY <1>7, CellsFacts, Zenon
    <2> QED
      BY <1>1, <1>4, <2>1, Zenon DEF Stored
  <1>9. ASSUME NEW j \in 1..b
        PROVE  e[off + j] = [sec |-> "post", index |-> i, part |-> j, says |-> <<>>]
    <2>1. CASE j <= a
      <3>1. j \in 1..a /\ off + j \in 1..l
        BY <1>8, <2>1
      <3> QED
        BY <1>6, <1>8, <3>1, Zenon
    <2>2. CASE j > a
      <3>1. j - a \in 1..(b - a) /\ l + (j - a) = off + j /\ a + (j - a) = j
        BY <1>8, <2>2
      <3>2. e[l + (j - a)] = [sec |-> "post", index |-> i, part |-> a + (j - a), says |-> <<>>]
        BY <1>3, <1>6, <3>1, Zenon
      <3> QED
        BY <3>1, <3>2, Zenon
    <2> QED
      BY <2>1, <2>2
  <1>10. /\ Len(Cells("post", i, b)) = b
         /\ \A j \in 1..b : Cells("post", i, b)[j] = [sec |-> "post", index |-> i, part |-> j, says |-> <<>>]
    BY <1>7, CellsFacts, Zenon
  <1>11. Len(e) - off = b /\ off <= Len(e) /\ off + b <= Len(e)
    <2>1. (l + (b - a)) - off = b /\ off <= l + (b - a) /\ off + b <= l + (b - a)
      <3>1. a <= b /\ l - off = a /\ off <= l
        BY <1>1, <1>8, Zenon
      <3> QED
        BY <3>1, SMT
    <2> QED
      BY <1>6, <2>1, Zenon
  <1>12. Stored(e, off, b, Cells("post", i, b))
    BY <1>9, <1>10, <1>11, Zenon DEF Stored
  <1> QED
    BY <1>1, <1>2, <1>5, <1>11, <1>12, Zenon

\* The bootstrap header is one cell.
LEMMA BootFacts ==
    /\ BootCells \in Seq(Cell) /\ Len(BootCells) = 1 /\ Plain(BootCells)
    /\ BootCells[1].sec = "boot"
  <1>1. "boot" \in Sections /\ "boot" \notin {"meta", "tail"} /\ 0 \in Nat /\ 1 \in Nat /\ 1 \in 1..1
    BY DEF Sections
  <1>2. BootCells[1] = [sec |-> "boot", index |-> 0, part |-> 1, says |-> <<>>]
    BY <1>1, CellsFacts, Zenon DEF BootCells
  <1>3. BootCells[1].sec = "boot"
    BY <1>2
  <1> QED
    BY <1>1, <1>3, CellsFacts, Zenon DEF BootCells

\* The sections of an index.
LEMMA SectionFacts ==
    ASSUME NEW i \in Indexes
    PROVE  /\ DictCells(i) \in Seq(Cell) /\ Plain(DictCells(i)) /\ Len(DictCells(i)) = 1
           /\ NormsCells(i) \in Seq(Cell) /\ Plain(NormsCells(i))
           /\ BsbfCells(i) \in Seq(Cell) /\ Plain(BsbfCells(i))
  <1>1. i \in Nat /\ 1 \in Nat
    BY IndexFacts
  <1>2. \A s \in {"dict", "norms", "bsbf"} : s \in Sections /\ s \notin {"meta", "tail"}
    BY DEF Sections
  <1>3. ASSUME NEW s \in {"dict", "norms", "bsbf"}
        PROVE  Cells(s, i, 1) \in Seq(Cell) /\ Len(Cells(s, i, 1)) = 1 /\ Plain(Cells(s, i, 1))
    <2>1. s \in Sections /\ s \notin {"meta", "tail"}
      BY <1>2, Zenon
    <2> QED
      BY <1>1, <2>1, CellsFacts, Zenon
  <1>4. <<>> \in Seq(Cell) /\ Plain(<<>>)
    BY DEF Plain
  <1> QED
    BY <1>3, <1>4, Zenon DEF DictCells, NormsCells, BsbfCells

\* A meta region: two cells, which say the directory.
IsMeta(m) ==
    /\ m \in Seq(MetaCell) /\ m \in Seq(Cell) /\ Len(m) = 2
    /\ m[1].sec = "meta" /\ m[2].sec = "meta"

\* encode_meta_region: what the tail meta region says.
LEMMA MetaFacts ==
    ASSUME Types
    PROVE  /\ IsMeta(MetaCells)
           /\ MetaCells[1].says = [i \in DOMAIN indexes |-> [index |-> indexes[i], refs |-> place[i]]]
  <1> DEFINE dir == [i \in DOMAIN indexes |-> [index |-> indexes[i], refs |-> place[i]]]
             cell(j) == [sec |-> "meta", index |-> 0, part |-> j, says |-> dir]
  <1>1. /\ N \in Nat /\ DOMAIN indexes = 1..N
        /\ \A i \in 1..N : indexes[i] \in Indexes /\ place[i] \in Place
    BY DEF Types, N
  <1>2. dir \in [1..N -> DirEntry]
    BY <1>1, Zenon DEF DirEntry
  <1>3. dir \in Seq(DirEntry)
    BY <1>1, <1>2, FunctionIsSeq, Zenon
  <1>4. MetaCells = [j \in 1..2 |-> cell(j)]
    BY DEF MetaCells
  <1> HIDE DEF dir
  <1>5. "meta" \in Sections /\ 0 \in Nat /\ (\A j \in 1..2 : j \in Nat) /\ 1 \in 1..2 /\ 2 \in 1..2 /\ 2 \in Nat
    BY DEF Sections
  <1>6. \A j \in 1..2 : cell(j) \in MetaCell /\ cell(j) \in Cell
    BY <1>3, <1>5, Zenon DEF MetaCell, Cell
  <1>7. MetaCells \in [1..2 -> MetaCell] /\ MetaCells \in [1..2 -> Cell]
    BY <1>4, <1>6, Zenon
  <1>8. MetaCells \in Seq(MetaCell) /\ MetaCells \in Seq(Cell) /\ Len(MetaCells) = 2
    BY <1>5, <1>7, FunctionIsSeq, Zenon
  <1>9. MetaCells[1] = cell(1) /\ MetaCells[2] = cell(2)
    BY <1>4, <1>5, Zenon
  <1>10. cell(1).sec = "meta" /\ cell(2).sec = "meta" /\ cell(1).says = dir
    OBVIOUS
  <1> QED
    BY <1>8, <1>9, <1>10, Zenon DEF IsMeta, dir

\* TailPointer: two cells that say where the meta region is, with its checksum.
LEMMA TailFacts ==
    ASSUME NEW m, IsMeta(m), NEW off \in Nat
    PROVE  LET t == TailCells(off, 2, m)
           IN  /\ t \in Seq(Cell) /\ Len(t) = 2
               /\ t[1].sec = "tail" /\ t[1].part = 1 /\ t[1].says = [off |-> off, len |-> 2, checksum |-> m]
               /\ t[2].sec = "tail" /\ t[2].part = 2 /\ t[2].says = [off |-> off, len |-> 2, checksum |-> m]
  <1> DEFINE t == TailCells(off, 2, m)
  <1>1. PICK y : y = [off |-> off, len |-> 2, checksum |-> m]
    BY Zenon
  <1> DEFINE cell(j) == [sec |-> "tail", index |-> 0, part |-> j, says |-> y]
  <1>2. 2 \in Nat /\ m \in Seq(MetaCell)
    BY DEF IsMeta
  <1>3. y \in TailSays
    BY <1>1, <1>2, Zenon DEF TailSays
  <1>4. t = [j \in 1..2 |-> cell(j)]
    BY <1>1 DEF TailCells
  <1>5. "tail" \in Sections /\ 0 \in Nat /\ (\A j \in 1..2 : j \in Nat) /\ 1 \in 1..2 /\ 2 \in 1..2
    BY DEF Sections
  <1>6. \A j \in 1..2 : cell(j) \in Cell
    BY <1>3, <1>5, Zenon DEF Cell
  <1> HIDE DEF t
  <1>7. t \in [1..2 -> Cell]
    BY <1>4, <1>6, Zenon
  <1>8. t \in Seq(Cell) /\ Len(t) = 2
    BY <1>2, <1>7, FunctionIsSeq, Zenon
  <1>9. t[1] = cell(1) /\ t[2] = cell(2)
    BY <1>4, <1>5, Zenon
  <1>10. /\ cell(1).sec = "tail" /\ cell(1).part = 1 /\ cell(1).says = y
         /\ cell(2).sec = "tail" /\ cell(2).part = 2 /\ cell(2).says = y
    OBVIOUS
  <1> QED
    BY <1>1, <1>8, <1>9, <1>10, Zenon DEF t

\* The tail pointer takes two cells.
LEMMA TailSeq ==
    ASSUME NEW m, IsMeta(m), NEW off \in Nat
    PROVE  TailCells(off, 2, m) \in Seq(Cell) /\ Len(TailCells(off, 2, m)) = 2
  BY TailFacts, Zenon

\* write_tail, first half: the meta region ends the file.
LEMMA MetaAppended ==
    ASSUME NEW m \in Seq(Cell), IsMeta(m), NEW d \in Seq(Cell), Plain(d)
    PROVE  EndsInMeta(d \o m, m)
  <1>1. PICK e \in Seq(Cell), l \in Nat : e = d \o m /\ l = Len(d)
    BY ConcatFacts, Zenon DEF IsMeta
  <1>2. Len(m) = 2 /\ m \in Seq(Cell)
    BY DEF IsMeta
  <1>3. Len(e) = l + 2 /\ (\A j \in 1..l : e[j] = d[j]) /\ e[l + 1] = m[1] /\ e[l + 2] = m[2]
    <2>1. /\ Len(d \o m) = Len(d) + Len(m) /\ \A j \in 1..Len(d) : (d \o m)[j] = d[j]
          /\ \A j \in 1..Len(m) : (d \o m)[Len(d) + j] = m[j]
      BY ConcatFacts
    <2>2. 1 \in 1..2 /\ 2 \in 1..2
      OBVIOUS
    <2> QED
      BY <1>1, <1>2, <2>1, <2>2, Zenon
  <1>4. (l + 2) - 2 = l /\ (l + 2) - 1 = l + 1 /\ l + 2 >= 2
    OBVIOUS
  <1>5. \A j \in 1..l : e[j].sec \notin {"meta", "tail"}
    BY <1>1, <1>3, Zenon DEF Plain
  <1> QED
    BY <1>1, <1>3, <1>4, <1>5, Zenon DEF EndsInMeta

\* write_tail, second half: the tail pointer ends the file.
LEMMA TailAppended ==
    ASSUME NEW m, IsMeta(m), NEW d \in Seq(Cell), EndsInMeta(d, m),
           NEW count \in Nat, count >= 2
    PROVE  EndsInTail(d \o TailCells(count - 2, 2, m), m, count + 2)
  <1>1. count - 2 \in Nat /\ (count + 2) - 4 = count - 2 /\ count + 2 >= 4
    OBVIOUS
  <1>2. PICK t \in Seq(Cell) : t = TailCells(count - 2, 2, m) /\ Len(t) = 2
    BY <1>1, TailSeq, Zenon
  <1>3. PICK e \in Seq(Cell), l \in Nat : e = d \o t /\ l = Len(d)
    BY ConcatFacts, Zenon
  <1>4. Len(e) = l + 2 /\ (\A j \in 1..l : e[j] = d[j]) /\ e[l + 1] = t[1] /\ e[l + 2] = t[2]
    <2>1. /\ Len(d \o t) = Len(d) + Len(t) /\ \A j \in 1..Len(d) : (d \o t)[j] = d[j]
          /\ \A j \in 1..Len(t) : (d \o t)[Len(d) + j] = t[j]
      BY ConcatFacts
    <2>2. 1 \in 1..2 /\ 2 \in 1..2
      OBVIOUS
    <2> QED
      BY <1>2, <1>3, <2>1, <2>2, Zenon
  <1>5. /\ l >= 2 /\ \A j \in 1..(l - 2) : d[j].sec \notin {"meta", "tail"}
        /\ d[l - 1] = m[1] /\ d[l] = m[2]
    BY <1>3, Zenon DEF EndsInMeta
  <1>6. /\ (l + 2) - 4 = l - 2 /\ (l + 2) - 3 = l - 1 /\ (l + 2) - 2 = l /\ (l + 2) - 1 = l + 1
        /\ l + 2 >= 4 /\ l - 1 \in 1..l /\ l \in 1..l /\ \A j \in 1..(l - 2) : j \in 1..l
    BY <1>5
  <1>7. \A j \in 1..(l - 2) : e[j].sec \notin {"meta", "tail"}
    BY <1>4, <1>5, <1>6, Zenon
  <1>8. e[l - 1] = m[1] /\ e[l] = m[2]
    BY <1>4, <1>5, <1>6, Zenon
  <1> QED
    BY <1>1, <1>2, <1>3, <1>4, <1>6, <1>7, <1>8, Zenon DEF EndsInTail

\* No end of a tail pointer before the tail pointer is appended.
LEMMA MetaNoTailEnd ==
    ASSUME NEW m, IsMeta(m), NEW d \in Seq(Cell), EndsInMeta(d, m)
    PROVE  NoTailEnd(d)
  <1>1. PICK l \in Nat : l = Len(d)
    BY ConcatFacts
  <1>2. /\ l >= 2 /\ \A j \in 1..(l - 2) : d[j].sec \notin {"meta", "tail"}
        /\ d[l - 1].sec = "meta" /\ d[l].sec = "meta"
    BY <1>1, Zenon DEF EndsInMeta, IsMeta
  <1>3. ASSUME NEW j \in 1..l
        PROVE  d[j].sec # "tail"
    <2>1. j \in 1..(l - 2) \/ j = l - 1 \/ j = l
      BY <1>2
    <2> QED
      BY <1>2, <2>1
  <1> QED
    BY <1>1, <1>3, Zenon DEF NoTailEnd

\* A file cut anywhere before the end of its tail pointer holds none.
LEMMA CutNoTailEnd ==
    ASSUME NEW m, IsMeta(m), NEW count \in Nat, NEW d \in Seq(Cell), EndsInTail(d, m, count),
           NEW e \in Seq(Cell), PrefixOf(e, d), Len(e) < Len(d)
    PROVE  NoTailEnd(e)
  <1>1. PICK l \in Nat, n \in Nat : l = Len(d) /\ n = Len(e) /\ n < l
    BY ConcatFacts
  <1>2. \A j \in 1..n : e[j] = d[j]
    BY <1>1, Zenon DEF PrefixOf
  <1>3. count - 4 \in Nat
    BY DEF EndsInTail
  <1>4. /\ l >= 4 /\ \A j \in 1..(l - 4) : d[j].sec \notin {"meta", "tail"}
        /\ d[l - 3].sec = "meta" /\ d[l - 2].sec = "meta" /\ d[l - 1].part = 1
    <2>1. TailCells(count - 4, 2, m)[1].part = 1
      BY <1>3, TailFacts, Zenon
    <2> QED
      BY <1>1, <2>1, Zenon DEF EndsInTail, IsMeta
  <1>5. ASSUME NEW j \in 1..n
        PROVE  ~(d[j].sec = "tail" /\ d[j].part = 2)
    <2>1. j \in 1..(l - 4) \/ j = l - 3 \/ j = l - 2 \/ j = l - 1
      BY <1>1, <1>4
    <2>2. CASE j \in 1..(l - 4)
      BY <1>4, <2>2, Zenon
    <2>3. CASE j = l - 3 \/ j = l - 2
      BY <1>4, <2>3
    <2>4. CASE j = l - 1
      BY <1>4, <2>4
    <2> QED
      BY <2>1, <2>2, <2>3, <2>4
  <1> QED
    BY <1>1, <1>2, <1>5, Zenon DEF NoTailEnd

\* Neither a plain file nor a prefix of a file without one holds such an end.
LEMMA NoTailEndFacts ==
    ASSUME NEW d \in Seq(Cell), NEW e \in Seq(Cell)
    PROVE  /\ Plain(d) => NoTailEnd(d)
           /\ PrefixOf(e, d) /\ NoTailEnd(d) => NoTailEnd(e)
  <1>1. Plain(d) => NoTailEnd(d)
    BY Zenon DEF Plain, NoTailEnd
  <1>2. ASSUME PrefixOf(e, d), NoTailEnd(d)
        PROVE  NoTailEnd(e)
    <2>1. ASSUME NEW j \in 1..Len(e)
          PROVE  ~(e[j].sec = "tail" /\ e[j].part = 2)
      <3>1. j \in 1..Len(d) /\ e[j] = d[j]
        BY <1>2 DEF PrefixOf
      <3> QED
        BY <1>2, <3>1, Zenon DEF NoTailEnd
    <2> QED
      BY <2>1, Zenon DEF NoTailEnd
  <1> QED
    BY <1>1, <1>2

----------------------------------------------------------------------------
(* The invariant is inductive. *)

\* An append that succeeds: image and count grow alike.
LEMMA GrowthFacts ==
    ASSUME NEW f \in File, NEW g, NEW data \in Seq(Cell), Grows(f, g, data)
    PROVE  /\ g \in File /\ Image(g) = Image(f) \o data
           /\ Image(f) \in Seq(Cell) /\ Image(g) \in Seq(Cell)
           /\ Len(Image(f)) \in Nat /\ Len(data) \in Nat /\ f.bytes_written \in Nat
           /\ Len(Image(g)) = Len(Image(f)) + Len(data)
           /\ g.bytes_written = f.bytes_written + Len(data)
           /\ Len(Image(g)) = g.bytes_written => Len(Image(f)) = f.bytes_written
           /\ Len(Image(f)) >= f.bytes_written => Len(Image(g)) >= g.bytes_written
  <1>1. /\ g \in File /\ Image(g) = Image(f) \o data
        /\ g.bytes_written = f.bytes_written + Len(data)
    BY Zenon DEF Grows
  <1>2. Image(f) \in Seq(Cell) /\ Image(g) \in Seq(Cell)
    BY <1>1, ImageFacts, Zenon
  <1>3. f.bytes_written \in Nat
    BY DEF File
  <1>4. Len(Image(f)) \in Nat /\ Len(data) \in Nat /\ Len(Image(g)) = Len(Image(f)) + Len(data)
    BY <1>1, <1>2, ConcatFacts
  <1>5. PICK a \in Nat, b \in Nat, c \in Nat :
           a = Len(Image(f)) /\ b = Len(data) /\ c = f.bytes_written
    BY <1>3, <1>4
  <1>6. (a + b = c + b => a = c) /\ (a >= c => a + b >= c + b)
    OBVIOUS
  <1> QED
    BY <1>1, <1>2, <1>3, <1>4, <1>5, <1>6, Zenon

\* An append that fails: the count stays, the image is the same or longer.
LEMMA BreakFacts ==
    ASSUME NEW f \in File, NEW g, NEW data \in Seq(Cell), Breaks(f, g, data),
           Len(Image(f)) >= f.bytes_written
    PROVE  /\ g \in File /\ g.bytes_written = f.bytes_written
           /\ Image(f) \in Seq(Cell) /\ Image(g) \in Seq(Cell) /\ g.disk \in Seq(Cell)
           /\ PrefixOf(g.disk, Image(f) \o data) /\ Len(g.disk) < Len(Image(f) \o data)
           /\ Len(Image(g)) >= g.bytes_written
           /\ Len(Image(g)) = g.bytes_written =>
                 Len(Image(f)) = f.bytes_written /\ Image(g) = Image(f)
           /\ Plain(Image(f)) /\ Plain(data) => Plain(Image(g))
  <1>1. /\ g \in File /\ g.bytes_written = f.bytes_written
        /\ g.buf = f.buf \/ g.buf = <<>>
        /\ PrefixOf(g.disk, Image(f) \o data) /\ Len(g.disk) < Len(Image(f)) + Len(data)
        /\ Len(Image(g)) >= Len(Image(f))
        /\ Len(Image(g)) = Len(Image(f)) => Image(g) = Image(f)
    BY Zenon DEF Breaks
  <1>2. /\ Image(f) \in Seq(Cell) /\ Image(g) \in Seq(Cell)
        /\ g.disk \in Seq(Cell) /\ g.buf \in Seq(Cell) /\ f.buf \in Seq(Cell) /\ f.disk \in Seq(Cell)
    BY <1>1, ImageFacts, Zenon DEF File
  <1>3. PICK a \in Nat, b \in Nat, c \in Nat :
           a = Len(Image(f)) /\ b = Len(Image(g)) /\ c = f.bytes_written
    BY <1>2 DEF File
  <1>4. b >= c /\ (b = c => a = c /\ a = b)
    <2>1. a >= c /\ b >= a
      BY <1>1, <1>3, Zenon
    <2> QED
      BY <2>1
  <1>5. Image(f) \o data \in Seq(Cell) /\ Len(Image(f) \o data) = Len(Image(f)) + Len(data)
    BY <1>2, ConcatFacts
  <1>6. ASSUME Plain(Image(f)), Plain(data)
        PROVE  Plain(Image(g))
    <2>1. Plain(Image(f) \o data)
      BY <1>2, <1>6, PlainConcat, Zenon
    <2>2. Plain(g.disk)
      BY <1>1, <1>2, <1>5, <2>1, PlainPrefix, Zenon
    <2>3. Plain(f.buf)
      <3>1. ASSUME NEW j \in 1..Len(f.buf)
            PROVE  f.buf[j].sec \notin {"meta", "tail"}
        <4>1. Len(f.disk) + j \in 1..Len(Image(f)) /\ Image(f)[Len(f.disk) + j] = f.buf[j]
          <5>1. /\ Len(f.disk) \in Nat /\ Len(f.buf) \in Nat
                /\ Len(Image(f)) = Len(f.disk) + Len(f.buf)
                /\ Image(f)[Len(f.disk) + j] = f.buf[j]
            BY ImageFacts, Zenon
          <5>2. PICK x \in Nat, y \in Nat : x = Len(f.disk) /\ y = Len(f.buf)
            BY <5>1
          <5>3. j \in 1..y
            BY <5>2
          <5>4. x + j \in 1..(x + y)
            BY <5>3
          <5> QED
            BY <5>1, <5>2, <5>4, Zenon
        <4> QED
          BY <1>6, <4>1, Zenon DEF Plain
      <3> QED
        BY <3>1, Zenon DEF Plain
    <2>4. Plain(<<>>)
      BY DEF Plain
    <2>5. Plain(g.buf)
      BY <1>1, <2>3, <2>4, Zenon
    <2> QED
      BY <1>2, <2>2, <2>5, PlainConcat, Zenon DEF Image
  <1> QED
    BY <1>1, <1>2, <1>3, <1>4, <1>5, <1>6, Zenon

\* The refs of all indexes stay right when the file grows.
LEMMA PlacesExtend ==
    ASSUME NEW d \in Seq(Cell), NEW e \in Seq(Cell), NEW xs \in Seq(Indexes),
           NEW ps \in Seq(Place), Len(ps) = Len(xs), NEW n, PlacesRight(d, xs, ps, n)
    PROVE  PlacesRight(d \o e, xs, ps, n)
  <1>1. \A i \in 1..Len(xs) : ps[i] \in Place
    OBVIOUS
  <1> QED
    BY <1>1, RefsExtend, Zenon DEF PlacesRight

\* The header stays first when the file grows.
LEMMA HeadedExtend ==
    ASSUME NEW d \in Seq(Cell), NEW e \in Seq(Cell), Headed(d)
    PROVE  Headed(d \o e)
  <1>1. Len(d) >= 1 /\ 1 \in 1..Len(d)
    BY DEF Headed
  <1>2. (d \o e)[1] = d[1] /\ Len(d \o e) >= 1
    BY <1>1, ConcatFacts
  <1> QED
    BY <1>2, Zenon DEF Headed

\* Appends and AppendFails, in the terms above.
LEMMA AppendSteps ==
    ASSUME Types, NEW data \in Seq(Cell)
    PROVE  /\ Appends(data) => Grows(file, file', data)
           /\ AppendFails(data) => Breaks(file, file', data)
  BY AppendOutcome, Zenon DEF Types, Appends, AppendFails

\* A fresh writer satisfies the invariant.
LEMMA InvInit == Init => ContainerInv
  <1> SUFFICES ASSUME Init PROVE ContainerInv
    OBVIOUS
  <1> USE DEF Init
  <1>1. file \in File /\ Image(file) = <<>> /\ file.bytes_written = 0
    BY DEF File, Image
  <1>2. cur \in [index : Nat, chunk : Nat, place : Place]
    BY DEF NoCur, NoPlace, Place
  <1>3. indexes \in Seq(Indexes) /\ place \in Seq(Place) /\ Len(place) = Len(indexes)
        /\ Len(indexes) = 0
    OBVIOUS
  <1>4. Types
    <2>1. pc \in Pcs /\ k \in Nat \ {0} /\ ret \in {"none", "ok", "io"}
      BY DEF Pcs
    <2>2. boot \in BOOLEAN /\ finished \in BOOLEAN /\ crashed \in BOOLEAN
      BY Zenon
    <2> QED
      BY <1>1, <1>2, <1>3, <2>1, <2>2, Zenon DEF Types
  <1>5. Control
    BY DEF Control
  <1>6. PlacesRight(Image(file), indexes, place, k) /\ Plain(Image(file))
    BY <1>1, <1>3 DEF PlacesRight, Plain
  <1>7. Len(Image(file)) >= file.bytes_written
    BY <1>1
  <1>8. WritingInv
    BY <1>1, <1>6, <1>7 DEF WritingInv, CleanInv
  <1> QED
    BY <1>4, <1>5, <1>8 DEF ContainerInv, Writing

\* The state a failed append may leave behind for each call, before the next one.
LEMMA InvAppendFails ==
    ASSUME ContainerInv, pc # "idle", NEW data \in Seq(Cell), AppendFails(data), boot' = boot,
           pc = "post" => Plain(data),
           pc # "post" => \A e \in Seq(Cell) :
              PrefixOf(e, Image(file) \o data) /\ Len(e) < Len(Image(file) \o data) => NoTailEnd(e)
    PROVE  ContainerInv'
  <1>1. Types /\ Control /\ Writing /\ WritingInv
    BY DEF ContainerInv, Control, Writing
  <1>2. file \in File /\ Len(Image(file)) >= file.bytes_written /\ Breaks(file, file', data)
    BY <1>1, AppendSteps, Zenon DEF Types, WritingInv
  <1>3. /\ file' \in File /\ file'.bytes_written = file.bytes_written
        /\ file'.disk \in Seq(Cell)
        /\ PrefixOf(file'.disk, Image(file) \o data) /\ Len(file'.disk) < Len(Image(file) \o data)
        /\ Len(Image(file')) >= file'.bytes_written
        /\ Len(Image(file')) = file'.bytes_written =>
              Len(Image(file)) = file.bytes_written /\ Image(file') = Image(file)
        /\ Plain(Image(file)) /\ Plain(data) => Plain(Image(file'))
    BY <1>2, BreakFacts, Zenon
  <1>4. /\ pc' = "idle" /\ ret' = (IF finished THEN "io" ELSE ret) /\ cur' = cur /\ indexes' = indexes
        /\ place' = place /\ k' = k /\ finished' = finished /\ crashed' = crashed
    BY Zenon DEF AppendFails
  <1>5. Types'
    BY <1>1, <1>3, <1>4 DEF Types, Pcs
  <1>6. Control'
    BY <1>1, <1>4 DEF Control
  <1>7. CASE pc = "post"
    <2>1. ~finished /\ boot /\ Plain(Image(file)) /\ ~crashed
      BY <1>1, <1>7 DEF Control, WritingInv
    <2>2. Plain(Image(file'))
      BY <1>3, <1>7, <2>1
    <2>3. CleanInv'
      BY <1>1, <1>3, <1>4, Zenon DEF CleanInv, WritingInv
    <2>4. WritingInv'
      BY <1>3, <1>4, <2>1, <2>2, <2>3 DEF WritingInv
    <2>5. Writing'
      BY <1>4, <2>1 DEF Writing
    <2> QED
      BY <1>5, <1>6, <2>4, <2>5 DEF ContainerInv
  <1>8. CASE pc # "post"
    <2>1. finished
      BY <1>1, <1>8 DEF Control
    <2>2. ~Writing' /\ ret' = "io"
      BY <1>4, <2>1 DEF Writing
    <2>3. NoTailEnd(file'.disk)
      BY <1>3, <1>8, Zenon
    <2>4. DoneInv'
      BY <2>2, <2>3 DEF DoneInv
    <2> QED
      BY <1>5, <1>6, <2>2, <2>4 DEF ContainerInv
  <1> QED
    BY <1>7, <1>8

\* ensure_bootstrap: the header goes first.
LEMMA BootAppended ==
    ASSUME Types, WritingInv, Plain(Image(file)), Appends(BootData)
    PROVE  /\ file' \in File /\ Len(Image(file')) >= file'.bytes_written
           /\ Plain(Image(file')) /\ file'.bytes_written \in Nat
           /\ Len(Image(file')) = file'.bytes_written =>
                 Headed(Image(file')) /\ PlacesRight(Image(file'), indexes, place, k)
  <1>1. BootData \in Seq(Cell) /\ Plain(BootData)
    <2>1. <<>> \in Seq(Cell) /\ Plain(<<>>)
      BY DEF Plain
    <2> QED
      BY <2>1, BootFacts, Zenon DEF BootData
  <1>2. file \in File /\ Grows(file, file', BootData) /\ Len(Image(file)) >= file.bytes_written
    BY <1>1, AppendSteps, Zenon DEF Types, WritingInv
  <1>3. /\ file' \in File /\ Image(file') = Image(file) \o BootData /\ Image(file) \in Seq(Cell)
        /\ Len(Image(file')) = file'.bytes_written => Len(Image(file)) = file.bytes_written
        /\ Len(Image(file')) >= file'.bytes_written
    BY <1>1, <1>2, GrowthFacts, Zenon
  <1>4. Plain(Image(file'))
    BY <1>1, <1>3, PlainConcat, Zenon
  <1>5. ASSUME Len(Image(file)) = file.bytes_written
        PROVE  PlacesRight(Image(file'), indexes, place, k)
    <2>1. PlacesRight(Image(file), indexes, place, k)
      BY <1>5, Zenon DEF WritingInv, CleanInv
    <2>2. indexes \in Seq(Indexes) /\ place \in Seq(Place) /\ Len(place) = Len(indexes)
      BY Zenon DEF Types
    <2>3. PlacesRight(Image(file) \o BootData, indexes, place, k)
      BY <1>1, <1>3, <2>1, <2>2, PlacesExtend, Zenon
    <2> QED
      BY <1>3, <2>3, Zenon
  <1>6. ASSUME Len(Image(file)) = file.bytes_written
        PROVE  Headed(Image(file'))
    <2>1. CASE boot
      <3>1. Headed(Image(file))
        BY <1>6, <2>1, Zenon DEF WritingInv, CleanInv
      <3> QED
        BY <1>1, <1>3, <3>1, HeadedExtend, Zenon
    <2>2. CASE ~boot
      <3>1. Image(file) = <<>> /\ BootData = BootCells
        BY <2>2, Zenon DEF WritingInv, BootData
      <3>2. Image(file') = BootCells
        BY <1>3, <3>1, BootFacts
      <3> QED
        BY <3>2, BootFacts DEF Headed
    <2> QED
      BY <2>1, <2>2
  <1>7. file'.bytes_written \in Nat
    BY <1>3 DEF File
  <1> QED
    BY <1>3, <1>4, <1>5, <1>6, <1>7, Zenon

\* add_logical_index starts behind the header.
LEMMA InvBeginAdd ==
    ASSUME ContainerInv, NEW i \in Indexes, BeginAdd(i)
    PROVE  ContainerInv'
  <1>1. Types /\ Control /\ Writing /\ WritingInv /\ ~finished /\ ~crashed /\ pc = "idle"
    BY DEF ContainerInv, Writing, BeginAdd
  <1>2. /\ boot' = TRUE /\ pc' = "post" /\ i \notin Range(indexes) /\ Appends(BootData)
        /\ cur' = [index |-> i, chunk |-> 1,
                   place |-> [NoPlace EXCEPT !.post_off = file'.bytes_written]]
        /\ indexes' = indexes /\ place' = place /\ k' = k /\ finished' = finished
        /\ ret' = ret /\ crashed' = crashed
    BY Zenon DEF BeginAdd
  <1>3. Plain(Image(file))
    BY <1>1 DEF WritingInv
  <1>4. /\ file' \in File /\ Len(Image(file')) >= file'.bytes_written
        /\ Plain(Image(file')) /\ file'.bytes_written \in Nat
        /\ Len(Image(file')) = file'.bytes_written =>
              Headed(Image(file')) /\ PlacesRight(Image(file'), indexes, place, k)
    BY <1>1, <1>2, <1>3, BootAppended, Zenon
  <1>5. PICK p : p = [NoPlace EXCEPT !.post_off = file'.bytes_written]
    BY Zenon
  <1>6. p \in Place /\ p.post_off = file'.bytes_written /\ p = [NoPlace EXCEPT !.post_off = p.post_off]
    BY <1>4, <1>5 DEF Place, NoPlace
  <1>7. /\ cur' \in [index : Nat, chunk : Nat, place : Place]
        /\ cur'.index = i /\ cur'.chunk = 1 /\ cur'.place = p
    <2>1. i \in Nat /\ 1 \in Nat
      BY IndexFacts
    <2> QED
      BY <1>2, <1>5, <1>6, <2>1
  <1>8. Types'
    BY <1>1, <1>2, <1>4, <1>7 DEF Types, Pcs
  <1>9. 1 \in 1..(Len(PostEnds[i]) + 1) /\ PostStart(i, 1) = 0
    <2>1. Len(PostEnds[i]) \in Nat
      BY CompoundAssumption
    <2> QED
      BY <2>1 DEF PostStart
  <1>10. Control'
    BY <1>1, <1>2, <1>4, <1>6, <1>7, <1>9 DEF Control
  <1>11. ASSUME Len(Image(file')) = file'.bytes_written
         PROVE  StreamRight(Image(file'), cur')
    <2>1. Len(Cells("post", i, 0)) = 0
      <3>1. "post" \in Sections /\ i \in Nat /\ 0 \in Nat
        BY IndexFacts DEF Sections
      <3> QED
        BY <3>1, CellsFacts, Zenon
    <2>2. PICK l \in Nat : l = file'.bytes_written
      BY <1>4
    <2>3. l <= l /\ l - l = 0 /\ l + 0 <= l /\ 1..0 = {}
      OBVIOUS
    <2>4. Stored(Image(file'), l, l - l, Cells("post", i, 0))
      BY <1>11, <2>1, <2>2, <2>3 DEF Stored
    <2> QED
      BY <1>6, <1>7, <1>9, <1>11, <2>2, <2>3, <2>4, Zenon DEF StreamRight
  <1>12. CleanInv'
    BY <1>2, <1>4, <1>11, Zenon DEF CleanInv
  <1>13. WritingInv'
    BY <1>2, <1>4, <1>12 DEF WritingInv
  <1>14. Writing'
    BY <1>1, <1>2 DEF Writing
  <1> QED
    BY <1>8, <1>10, <1>13, <1>14 DEF ContainerInv

\* The posting region is streamed in order.
LEMMA InvAddPosting ==
    ASSUME ContainerInv, AddPosting
    PROVE  ContainerInv'
  <1>1. Types /\ Control /\ Writing /\ WritingInv /\ pc = "post" /\ ~finished /\ boot' = boot /\ boot
    BY DEF ContainerInv, Writing, AddPosting, Control
  <1>2. PICK i \in Indexes : i = cur.index
    BY <1>1 DEF Control
  <1>3. PICK c \in 1..Len(PostEnds[i]) : c = cur.chunk
    <2>1. cur.chunk \in 1..(Len(PostEnds[i]) + 1) /\ cur.chunk <= Len(PostEnds[i])
      BY <1>1, <1>2 DEF Control, AddPosting
    <2>2. Len(PostEnds[i]) \in Nat
      BY CompoundAssumption
    <2> QED
      BY <2>1, <2>2
  <1>4. PICK data \in Seq(Cell) : data = PostCells(cur.index, cur.chunk)
    BY <1>2, <1>3, PostCellsFacts, Zenon
  <1>5. Plain(data) /\ data = PostCells(i, c)
    BY <1>2, <1>3, <1>4, PostCellsFacts, Zenon
  <1>6. CASE AppendFails(data)
    BY <1>1, <1>5, <1>6, InvAppendFails, Zenon
  <1>7. CASE /\ Appends(data) /\ cur' = [cur EXCEPT !.chunk = @ + 1]
             /\ UNCHANGED <<pc, indexes, place, k, finished, ret, adds, crashed>>
    <2>1. file \in File /\ Grows(file, file', data) /\ Len(Image(file)) >= file.bytes_written
      BY <1>1, <1>7, AppendSteps, Zenon DEF Types, WritingInv
    <2>2. /\ file' \in File /\ Image(file') = Image(file) \o data /\ Image(file) \in Seq(Cell)
          /\ Len(data) \in Nat /\ file.bytes_written \in Nat
          /\ file'.bytes_written = file.bytes_written + Len(data)
          /\ Len(Image(file')) = file'.bytes_written => Len(Image(file)) = file.bytes_written
          /\ Len(Image(file')) >= file'.bytes_written
      BY <2>1, GrowthFacts, Zenon
    <2>3. /\ cur' \in [index : Nat, chunk : Nat, place : Place]
          /\ cur'.index = i /\ cur'.chunk = c + 1 /\ cur'.place = cur.place
      <3>1. cur \in [index : Nat, chunk : Nat, place : Place] /\ c + 1 \in Nat
        BY <1>1 DEF Types
      <3> QED
        BY <1>2, <1>3, <1>7, <3>1
    <2>4. /\ pc' = "post" /\ indexes' = indexes /\ place' = place /\ k' = k /\ finished' = finished
          /\ ret' = ret /\ crashed' = crashed
      BY <1>1, <1>7
    <2>5. Types'
      BY <1>1, <2>2, <2>3, <2>4 DEF Types, Pcs
    <2>6. cur.place.post_off \in Nat /\ cur.place.post_off <= file.bytes_written
      BY <1>1 DEF Types, Control, Place
    <2>7. cur'.place.post_off <= file'.bytes_written
      <3>1. PICK x \in Nat, y \in Nat, z \in Nat :
               x = cur.place.post_off /\ y = file.bytes_written /\ z = Len(data)
        BY <2>2, <2>6
      <3>2. x <= y + z
        BY <2>6, <3>1
      <3> QED
        BY <2>2, <2>3, <3>1, <3>2
    <2>8. c + 1 \in 1..(Len(PostEnds[i]) + 1)
      <3>1. Len(PostEnds[i]) \in Nat
        BY CompoundAssumption
      <3> QED
        BY <3>1
    <2>9. Control'
      BY <1>1, <1>2, <2>3, <2>4, <2>7, <2>8 DEF Control
    <2>10. Plain(Image(file'))
      <3>1. Plain(Image(file))
        BY <1>1 DEF WritingInv
      <3> QED
        BY <1>5, <2>2, <3>1, PlainConcat, Zenon
    <2>11. ASSUME Len(Image(file)) = file.bytes_written
           PROVE  /\ Headed(Image(file')) /\ PlacesRight(Image(file'), indexes, place, k)
                  /\ StreamRight(Image(file'), cur')
      <3>1. /\ Headed(Image(file)) /\ PlacesRight(Image(file), indexes, place, k)
            /\ StreamRight(Image(file), cur)
        BY <1>1, <2>11, Zenon DEF WritingInv, CleanInv
      <3>2. Headed(Image(file) \o data)
        BY <2>2, <3>1, HeadedExtend, Zenon
      <3>3. PlacesRight(Image(file) \o data, indexes, place, k)
        <4>1. indexes \in Seq(Indexes) /\ place \in Seq(Place) /\ Len(place) = Len(indexes)
          BY <1>1, Zenon DEF Types
        <4> QED
          BY <2>2, <3>1, <4>1, PlacesExtend, Zenon
      <3>4. PICK off \in Nat, d \in Seq(Cell) : off = cur.place.post_off /\ d = Image(file)
        BY <2>2, <2>6
      <3>5. off <= Len(d) /\ Stored(d, off, Len(d) - off, Cells("post", i, PostStart(i, c)))
        BY <1>2, <1>3, <3>1, <3>4, Zenon DEF StreamRight
      <3>6. LET e == d \o PostCells(i, c)
            IN  off <= Len(e) /\ Stored(e, off, Len(e) - off, Cells("post", i, PostStart(i, c + 1)))
        BY <3>5, StreamExtends, Zenon
      <3>7. StreamRight(d \o data, cur')
        BY <1>5, <2>3, <3>4, <3>6, Zenon DEF StreamRight
      <3> QED
        BY <2>2, <3>2, <3>3, <3>4, <3>7, Zenon
    <2>12. CleanInv'
      BY <1>1, <2>2, <2>4, <2>11, Zenon DEF CleanInv
    <2>13. WritingInv'
      BY <1>1, <2>2, <2>4, <2>10, <2>12 DEF WritingInv
    <2>14. Writing'
      BY <1>1, <2>4 DEF Writing
    <2> QED
      BY <2>5, <2>9, <2>13, <2>14 DEF ContainerInv
  <1> QED
    BY <1>4, <1>6, <1>7, Zenon DEF AddPosting

\* A rejected add leaves what it streamed; nothing refers to it.
LEMMA InvAddRejected ==
    ASSUME ContainerInv, AddRejected
    PROVE  ContainerInv'
  <1>1. Types /\ Control /\ Writing /\ WritingInv /\ pc = "post" /\ ~finished
    BY DEF ContainerInv, Writing, AddRejected, Control
  <1>2. /\ pc' = "idle" /\ file' = file /\ cur' = cur /\ indexes' = indexes /\ place' = place
        /\ k' = k /\ boot' = boot /\ finished' = finished /\ ret' = ret /\ crashed' = crashed
    BY DEF AddRejected
  <1>3. Types'
    BY <1>1, <1>2 DEF Types, Pcs
  <1>4. Control'
    BY <1>1, <1>2 DEF Control
  <1>5. CleanInv'
    BY <1>1, <1>2, Zenon DEF CleanInv, WritingInv
  <1>6. WritingInv'
    BY <1>1, <1>2, <1>5 DEF WritingInv
  <1>7. Writing'
    BY <1>1, <1>2 DEF Writing
  <1> QED
    BY <1>3, <1>4, <1>6, <1>7 DEF ContainerInv

\* An index kept at the end of the list, with the refs of its own sections.
LEMMA PlacesAppend ==
    ASSUME NEW d \in Seq(Cell), NEW xs \in Seq(Indexes), NEW ps \in Seq(Place),
           Len(ps) = Len(xs), PlacesRight(d, xs, ps, 1),
           NEW x \in Indexes, NEW p \in Place, RefsRight(d, p, x, FALSE, FALSE)
    PROVE  PlacesRight(d, Append(xs, x), Append(ps, p), 1)
  <1>1. PICK n \in Nat : n = Len(xs)
    OBVIOUS
  <1>2. /\ Len(Append(xs, x)) = n + 1
        /\ \A i \in 1..n : Append(xs, x)[i] = xs[i] /\ Append(ps, p)[i] = ps[i]
        /\ Append(xs, x)[n + 1] = x /\ Append(ps, p)[n + 1] = p
    BY <1>1
  <1>3. ASSUME NEW i \in 1..(n + 1)
        PROVE  RefsRight(d, Append(ps, p)[i], Append(xs, x)[i], 1 > i, 1 > (n + 1) + i)
    <2>1. (1 > i) = FALSE /\ (1 > (n + 1) + i) = FALSE /\ (1 > n + i) = FALSE
      OBVIOUS
    <2>2. CASE i \in 1..n
      <3>1. RefsRight(d, ps[i], xs[i], 1 > i, 1 > n + i)
        BY <1>1, <2>2, Zenon DEF PlacesRight
      <3> QED
        BY <1>2, <2>1, <2>2, <3>1
    <2>3. CASE i = n + 1
      BY <1>2, <2>1, <2>3, Zenon
    <2>4. i \in 1..n \/ i = n + 1
      OBVIOUS
    <2> QED
      BY <2>2, <2>3, <2>4, Zenon
  <1> QED
    BY <1>2, <1>3, Zenon DEF PlacesRight

\* The dict region follows the posting region, and the index is kept.
LEMMA InvAddDict ==
    ASSUME ContainerInv, AddDict
    PROVE  ContainerInv'
  <1>1. /\ Types /\ Control /\ Writing /\ WritingInv /\ pc = "post" /\ ~finished
        /\ boot' = boot /\ boot /\ k = 1
    BY DEF ContainerInv, Writing, AddDict, Control
  <1>2. PICK i \in Indexes : i = cur.index
    BY <1>1 DEF Control
  <1>3. cur.chunk = Len(PostEnds[i]) + 1
    <2>1. cur.chunk \in 1..(Len(PostEnds[i]) + 1) /\ cur.chunk > Len(PostEnds[i])
      BY <1>1, <1>2 DEF Control, AddDict
    <2>2. Len(PostEnds[i]) \in Nat
      BY CompoundAssumption
    <2> QED
      BY <2>1, <2>2
  <1>4. PICK data \in Seq(Cell) : data = DictCells(cur.index)
    BY <1>2, SectionFacts, Zenon
  <1>5. Plain(data) /\ data = DictCells(i) /\ Len(data) = 1
    BY <1>2, <1>4, SectionFacts, Zenon
  <1>6. CASE AppendFails(data)
    BY <1>1, <1>5, <1>6, InvAppendFails, Zenon
  <1>7. CASE /\ Appends(data) /\ pc' = "idle" /\ indexes' = Append(indexes, cur.index)
             /\ place' = Append(place, [cur.place EXCEPT
                   !.post_len = Written - cur.place.post_off,
                   !.dict_off = Written, !.dict_len = file'.bytes_written - Written])
             /\ UNCHANGED <<cur, k, finished, ret, adds, crashed>>
    <2>1. file \in File /\ Grows(file, file', data) /\ Len(Image(file)) >= file.bytes_written
      BY <1>1, <1>7, AppendSteps, Zenon DEF Types, WritingInv
    <2>2. /\ file' \in File /\ Image(file') = Image(file) \o data /\ Image(file) \in Seq(Cell)
          /\ Image(file') \in Seq(Cell)
          /\ file.bytes_written \in Nat
          /\ file'.bytes_written = file.bytes_written + Len(data)
          /\ Len(Image(file')) = file'.bytes_written => Len(Image(file)) = file.bytes_written
          /\ Len(Image(file')) >= file'.bytes_written
      BY <2>1, GrowthFacts, Zenon
    <2>3. /\ cur' = cur /\ k' = k /\ finished' = finished /\ ret' = ret /\ crashed' = crashed
      BY <1>7
    <2>4. PICK b \in Nat, off \in Nat : b = file.bytes_written /\ off = cur.place.post_off /\ off <= b
      BY <1>1, <2>2 DEF Types, Control, Place
    <2>5. PICK p : p = [post_off |-> off, post_len |-> b - off, dict_off |-> b, dict_len |-> 1,
                        norms_off |-> 0, norms_len |-> 0, bsbf_off |-> 0, bsbf_len |-> 0]
      BY Zenon
    <2>6. p \in Place
      <3>1. b - off \in Nat /\ 0 \in Nat /\ 1 \in Nat
        BY <2>4
      <3> QED
        BY <2>5, <3>1, Zenon DEF Place
    <2>7. place' = Append(place, p) /\ indexes' = Append(indexes, i)
      <3>1. file'.bytes_written - Written = 1 /\ Written = b
        BY <1>5, <2>2, <2>4 DEF Written
      <3>2. cur.place = [post_off |-> off, post_len |-> 0, dict_off |-> 0, dict_len |-> 0,
                         norms_off |-> 0, norms_len |-> 0, bsbf_off |-> 0, bsbf_len |-> 0]
        <4>1. cur.place = [NoPlace EXCEPT !.post_off = off]
          BY <1>1, <2>4 DEF Control
        <4> QED
          BY <4>1 DEF NoPlace
      <3>3. [cur.place EXCEPT !.post_len = b - off, !.dict_off = b, !.dict_len = 1] = p
        <4>1. PICK m, q : m = b - off /\ q = cur.place
          OBVIOUS
        <4>2. /\ q = [post_off |-> off, post_len |-> 0, dict_off |-> 0, dict_len |-> 0,
                      norms_off |-> 0, norms_len |-> 0, bsbf_off |-> 0, bsbf_len |-> 0]
              /\ p = [post_off |-> off, post_len |-> m, dict_off |-> b, dict_len |-> 1,
                      norms_off |-> 0, norms_len |-> 0, bsbf_off |-> 0, bsbf_len |-> 0]
          BY <2>5, <3>2, <4>1, Zenon
        <4>3. PICK r : r = [q EXCEPT !.post_len = m]
          BY Zenon
        <4>4. PICK s : s = [r EXCEPT !.dict_off = b]
          BY Zenon
        <4>5. r = [post_off |-> off, post_len |-> m, dict_off |-> 0, dict_len |-> 0,
                   norms_off |-> 0, norms_len |-> 0, bsbf_off |-> 0, bsbf_len |-> 0]
          BY <4>2, <4>3
        <4>6. s = [post_off |-> off, post_len |-> m, dict_off |-> b, dict_len |-> 0,
                   norms_off |-> 0, norms_len |-> 0, bsbf_off |-> 0, bsbf_len |-> 0]
          BY <4>4, <4>5
        <4>7. [s EXCEPT !.dict_len = 1] = p
          BY <4>2, <4>6
        <4> QED
          BY <4>1, <4>3, <4>4, <4>7, Zenon
      <3> QED
        BY <1>2, <1>7, <2>4, <3>1, <3>3, Zenon
    <2>8. /\ indexes \in Seq(Indexes) /\ place \in Seq(Place) /\ Len(place) = Len(indexes)
          /\ indexes' \in Seq(Indexes) /\ place' \in Seq(Place) /\ Len(place') = Len(indexes')
      <3>1. indexes \in Seq(Indexes) /\ place \in Seq(Place) /\ Len(place) = Len(indexes)
        BY <1>1, Zenon DEF Types
      <3> QED
        BY <2>6, <2>7, <3>1
    <2>9. Types'
      BY <1>1, <1>7, <2>2, <2>3, <2>8 DEF Types, Pcs
    <2>10. Control'
      BY <1>1, <1>7, <2>3 DEF Control
    <2>11. Plain(Image(file'))
      <3>1. Plain(Image(file))
        BY <1>1 DEF WritingInv
      <3> QED
        BY <1>5, <2>2, <3>1, PlainConcat, Zenon
    <2>12. ASSUME Len(Image(file)) = file.bytes_written
           PROVE  Headed(Image(file')) /\ PlacesRight(Image(file'), indexes', place', k')
      <3>1. /\ Headed(Image(file)) /\ PlacesRight(Image(file), indexes, place, 1)
            /\ StreamRight(Image(file), cur)
        BY <1>1, <2>12 DEF WritingInv, CleanInv
      <3>2. PICK d \in Seq(Cell) : d = Image(file) /\ Len(d) = b
        BY <2>2, <2>4, <2>12
      <3>3. Headed(d \o data) /\ PlacesRight(d \o data, indexes, place, 1)
        BY <2>8, <3>1, <3>2, HeadedExtend, PlacesExtend, Zenon
      <3>4. Stored(d, off, b - off, PostRegion(i))
        BY <1>2, <1>3, <2>4, <3>1, <3>2, Zenon DEF StreamRight, PostRegion
      <3>5. Stored(d \o data, off, b - off, PostRegion(i))
        <4>1. b - off \in Nat
          BY <2>4
        <4> QED
          BY <3>4, <4>1, StoredExtends, Zenon
      <3>6. Stored(d \o data, b, 1, DictCells(i))
        BY <1>5, <3>2, StoredAtEnd, Zenon
      <3>7. /\ p.post_off = off /\ p.post_len = b - off /\ p.dict_off = b /\ p.dict_len = 1
            /\ p.norms_off = 0 /\ p.norms_len = 0 /\ p.bsbf_off = 0 /\ p.bsbf_len = 0
        BY <2>5
      <3>8. RefsRight(d \o data, p, i, FALSE, FALSE)
        BY <3>5, <3>6, <3>7, Zenon DEF RefsRight
      <3>9. PlacesRight(d \o data, Append(indexes, i), Append(place, p), 1)
        <4>1. d \o data \in Seq(Cell)
          BY <2>2, <3>2
        <4> QED
          BY <2>6, <2>8, <3>3, <3>8, <4>1, PlacesAppend, Zenon
      <3> QED
        BY <1>1, <2>2, <2>3, <2>7, <3>2, <3>3, <3>9, Zenon
    <2>13. CleanInv'
      BY <1>7, <2>2, <2>12 DEF CleanInv
    <2>14. WritingInv'
      BY <1>1, <1>7, <2>2, <2>11, <2>13 DEF WritingInv
    <2>15. Writing'
      BY <1>1, <2>3 DEF Writing
    <2> QED
      BY <2>9, <2>10, <2>14, <2>15 DEF ContainerInv
  <1> QED
    BY <1>4, <1>6, <1>7, Zenon DEF AddDict

\* finish() starts behind the header.
LEMMA InvBeginFinish ==
    ASSUME ContainerInv, BeginFinish
    PROVE  ContainerInv'
  <1>1. /\ Types /\ Control /\ Writing /\ WritingInv /\ pc = "idle" /\ ~finished /\ ~crashed
        /\ k = 1 /\ ret = "none"
    BY DEF ContainerInv, Writing, BeginFinish, Control
  <1>2. /\ finished' = TRUE /\ boot' = TRUE /\ Appends(BootData) /\ pc' = "sections" /\ k' = 1
        /\ cur' = cur /\ indexes' = indexes /\ place' = place /\ ret' = ret /\ crashed' = crashed
    BY DEF BeginFinish
  <1>3. Plain(Image(file))
    BY <1>1 DEF WritingInv
  <1>4. /\ file' \in File /\ Len(Image(file')) >= file'.bytes_written
        /\ Plain(Image(file'))
        /\ Len(Image(file')) = file'.bytes_written =>
              Headed(Image(file')) /\ PlacesRight(Image(file'), indexes, place, k)
    BY <1>1, <1>2, <1>3, BootAppended, Zenon
  <1>5. Types'
    BY <1>1, <1>2, <1>4 DEF Types, Pcs
  <1>6. Control'
    BY <1>1, <1>2 DEF Control
  <1>7. CleanInv'
    BY <1>1, <1>2, <1>4 DEF CleanInv
  <1>8. WritingInv'
    BY <1>1, <1>2, <1>4, <1>7 DEF WritingInv
  <1>9. Writing'
    BY <1>1, <1>2 DEF Writing
  <1> QED
    BY <1>5, <1>6, <1>8, <1>9 DEF ContainerInv

SetAt(s, n, v) == [s EXCEPT ![n] = v]

\* One of the placements is replaced.
LEMMA PlaceUpdate ==
    ASSUME NEW ps \in Seq(Place), NEW n \in 1..Len(ps), NEW p \in Place
    PROVE  /\ SetAt(ps, n, p) \in Seq(Place) /\ Len(SetAt(ps, n, p)) = Len(ps)
           /\ SetAt(ps, n, p)[n] = p
           /\ \A i \in 1..Len(ps) : i # n => SetAt(ps, n, p)[i] = ps[i]
  BY DEF SetAt

NormsAt(ps, n, a, l) == [ps EXCEPT ![n].norms_off = a, ![n].norms_len = l]

\* In qs the n-th placement has this norms ref; all else is as in ps.
NormsRecorded(ps, n, a, l, qs) ==
    /\ qs \in Seq(Place) /\ Len(qs) = Len(ps)
    /\ \A i \in 1..Len(ps) : i # n => qs[i] = ps[i]
    /\ qs[n].norms_off = a /\ qs[n].norms_len = l
    /\ qs[n].post_off = ps[n].post_off /\ qs[n].post_len = ps[n].post_len
    /\ qs[n].dict_off = ps[n].dict_off /\ qs[n].dict_len = ps[n].dict_len
    /\ qs[n].bsbf_off = ps[n].bsbf_off /\ qs[n].bsbf_len = ps[n].bsbf_len

\* write_norms records the norms ref of one index.
LEMMA NormsPlaced ==
    ASSUME NEW ps \in Seq(Place), NEW n \in 1..Len(ps), NEW a \in Nat, NEW l \in Nat
    PROVE  NormsRecorded(ps, n, a, l, NormsAt(ps, n, a, l))
  <1>1. PICK p \in Place : p = ps[n]
    OBVIOUS
  <1>2. PICK q : q = [p EXCEPT !.norms_off = a]
    BY Zenon
  <1>3. PICK r : r = [q EXCEPT !.norms_len = l]
    BY Zenon
  <1>4. /\ q \in Place /\ q.norms_off = a
        /\ q.post_off = p.post_off /\ q.post_len = p.post_len
        /\ q.dict_off = p.dict_off /\ q.dict_len = p.dict_len
        /\ q.bsbf_off = p.bsbf_off /\ q.bsbf_len = p.bsbf_len
    BY <1>2, Zenon DEF Place
  <1>5. /\ r \in Place /\ r.norms_off = a /\ r.norms_len = l
        /\ r.post_off = p.post_off /\ r.post_len = p.post_len
        /\ r.dict_off = p.dict_off /\ r.dict_len = p.dict_len
        /\ r.bsbf_off = p.bsbf_off /\ r.bsbf_len = p.bsbf_len
    BY <1>3, <1>4, Zenon DEF Place
  <1>6. PICK ms \in Seq(Place) :
           /\ ms = SetAt(ps, n, q) /\ Len(ms) = Len(ps) /\ ms[n] = q
           /\ \A i \in 1..Len(ps) : i # n => ms[i] = ps[i]
    <2>1. PICK ms : ms = SetAt(ps, n, q)
      OBVIOUS
    <2> q \in Place
      BY <1>4, Zenon
    <2>2. /\ ms \in Seq(Place) /\ Len(ms) = Len(ps) /\ ms[n] = q
          /\ \A i \in 1..Len(ps) : i # n => ms[i] = ps[i]
      BY <2>1, PlaceUpdate, Zenon
    <2> QED
      BY <2>1, <2>2, Zenon
  <1>7. PICK qs \in Seq(Place) :
           /\ qs = SetAt(ms, n, r) /\ Len(qs) = Len(ms) /\ qs[n] = r
           /\ \A i \in 1..Len(ms) : i # n => qs[i] = ms[i]
    <2>1. n \in 1..Len(ms)
      BY <1>6, Zenon
    <2>2. PICK qs : qs = SetAt(ms, n, r)
      OBVIOUS
    <2> r \in Place
      BY <1>5, Zenon
    <2>3. /\ qs \in Seq(Place) /\ Len(qs) = Len(ms) /\ qs[n] = r
          /\ \A i \in 1..Len(ms) : i # n => qs[i] = ms[i]
      BY <2>1, <2>2, PlaceUpdate, Zenon
    <2> QED
      BY <2>2, <2>3, Zenon
  <1>8. qs = NormsAt(ps, n, a, l)
    <2>1. ms = [ps EXCEPT ![n].norms_off = a]
      BY <1>1, <1>2, <1>6, Zenon DEF SetAt
    <2>2. qs = [ms EXCEPT ![n].norms_len = l]
      BY <1>3, <1>6, <1>7, Zenon DEF SetAt
    <2> QED
      BY <2>1, <2>2, Zenon DEF NormsAt
  <1>9. /\ Len(qs) = Len(ps) /\ qs[n] = r /\ p = ps[n]
        /\ \A i \in 1..Len(ps) : i # n => qs[i] = ps[i]
    BY <1>1, <1>6, <1>7, Zenon
  <1> QED
    BY <1>5, <1>8, <1>9, Zenon DEF NormsRecorded

BsbfAt(ps, n, a, l) == [ps EXCEPT ![n].bsbf_off = a, ![n].bsbf_len = l]

\* In qs the n-th placement has this bsbf ref; all else is as in ps.
BsbfRecorded(ps, n, a, l, qs) ==
    /\ qs \in Seq(Place) /\ Len(qs) = Len(ps)
    /\ \A i \in 1..Len(ps) : i # n => qs[i] = ps[i]
    /\ qs[n].bsbf_off = a /\ qs[n].bsbf_len = l
    /\ qs[n].post_off = ps[n].post_off /\ qs[n].post_len = ps[n].post_len
    /\ qs[n].dict_off = ps[n].dict_off /\ qs[n].dict_len = ps[n].dict_len
    /\ qs[n].norms_off = ps[n].norms_off /\ qs[n].norms_len = ps[n].norms_len

\* write_norms records the bsbf ref of one index.
LEMMA BsbfPlaced ==
    ASSUME NEW ps \in Seq(Place), NEW n \in 1..Len(ps), NEW a \in Nat, NEW l \in Nat
    PROVE  BsbfRecorded(ps, n, a, l, BsbfAt(ps, n, a, l))
  <1>1. PICK p \in Place : p = ps[n]
    OBVIOUS
  <1>2. PICK q : q = [p EXCEPT !.bsbf_off = a]
    BY Zenon
  <1>3. PICK r : r = [q EXCEPT !.bsbf_len = l]
    BY Zenon
  <1>4. /\ q \in Place /\ q.bsbf_off = a
        /\ q.post_off = p.post_off /\ q.post_len = p.post_len
        /\ q.dict_off = p.dict_off /\ q.dict_len = p.dict_len
        /\ q.norms_off = p.norms_off /\ q.norms_len = p.norms_len
    BY <1>2, Zenon DEF Place
  <1>5. /\ r \in Place /\ r.bsbf_off = a /\ r.bsbf_len = l
        /\ r.post_off = p.post_off /\ r.post_len = p.post_len
        /\ r.dict_off = p.dict_off /\ r.dict_len = p.dict_len
        /\ r.norms_off = p.norms_off /\ r.norms_len = p.norms_len
    BY <1>3, <1>4, Zenon DEF Place
  <1>6. PICK ms \in Seq(Place) :
           /\ ms = SetAt(ps, n, q) /\ Len(ms) = Len(ps) /\ ms[n] = q
           /\ \A i \in 1..Len(ps) : i # n => ms[i] = ps[i]
    <2>1. PICK ms : ms = SetAt(ps, n, q)
      OBVIOUS
    <2> q \in Place
      BY <1>4, Zenon
    <2>2. /\ ms \in Seq(Place) /\ Len(ms) = Len(ps) /\ ms[n] = q
          /\ \A i \in 1..Len(ps) : i # n => ms[i] = ps[i]
      BY <2>1, PlaceUpdate, Zenon
    <2> QED
      BY <2>1, <2>2, Zenon
  <1>7. PICK qs \in Seq(Place) :
           /\ qs = SetAt(ms, n, r) /\ Len(qs) = Len(ms) /\ qs[n] = r
           /\ \A i \in 1..Len(ms) : i # n => qs[i] = ms[i]
    <2>1. n \in 1..Len(ms)
      BY <1>6, Zenon
    <2>2. PICK qs : qs = SetAt(ms, n, r)
      OBVIOUS
    <2> r \in Place
      BY <1>5, Zenon
    <2>3. /\ qs \in Seq(Place) /\ Len(qs) = Len(ms) /\ qs[n] = r
          /\ \A i \in 1..Len(ms) : i # n => qs[i] = ms[i]
      BY <2>1, <2>2, PlaceUpdate, Zenon
    <2> QED
      BY <2>2, <2>3, Zenon
  <1>8. qs = BsbfAt(ps, n, a, l)
    <2>1. ms = [ps EXCEPT ![n].bsbf_off = a]
      BY <1>1, <1>2, <1>6, Zenon DEF SetAt
    <2>2. qs = [ms EXCEPT ![n].bsbf_len = l]
      BY <1>3, <1>6, <1>7, Zenon DEF SetAt
    <2> QED
      BY <2>1, <2>2, Zenon DEF BsbfAt
  <1>9. /\ Len(qs) = Len(ps) /\ qs[n] = r /\ p = ps[n]
        /\ \A i \in 1..Len(ps) : i # n => qs[i] = ps[i]
    BY <1>1, <1>6, <1>7, Zenon
  <1> QED
    BY <1>5, <1>8, <1>9, Zenon DEF BsbfRecorded

\* The norms section of the n-th index is appended and its ref recorded.
LEMMA PlacesNorms ==
    ASSUME NEW d \in Seq(Cell), NEW xs \in Seq(Indexes), NEW ps \in Seq(Place),
           Len(ps) = Len(xs), NEW n \in 1..Len(xs), PlacesRight(d, xs, ps, n),
           NEW data \in Seq(Cell), data = NormsCells(xs[n]), NEW qs,
           qs = IF data = <<>> THEN ps
                ELSE NormsAt(ps, n, Len(d), Len(data))
    PROVE  PlacesRight(d \o data, xs, qs, n + 1)
  <1>1. PICK m \in Nat : m = Len(xs)
    OBVIOUS
  <1>2. PlacesRight(d \o data, xs, ps, n)
    BY PlacesExtend, Zenon
  <1>3. PICK e : e = d \o data
    BY Zenon
  <1>4. \A i \in 1..m : RefsRight(e, ps[i], xs[i], n > i, n > m + i)
    BY <1>1, <1>2, <1>3, Zenon DEF PlacesRight
  <1>5. n \in 1..m /\ Len(d) \in Nat /\ Len(data) \in Nat
    BY <1>1
  <1>6. /\ (n > n) = FALSE /\ (n > m + n) = FALSE /\ (n + 1 > n) = TRUE
        /\ (n + 1 > m + n) = FALSE
        /\ \A i \in 1..m : i # n => /\ (n + 1 > i) = (n > i)
                                    /\ (n + 1 > m + i) = (n > m + i)
    <2>1. m >= 1 /\ n \in Nat /\ n <= m
      BY <1>5
    <2>2. /\ ~(n > n) /\ ~(n > m + n) /\ n + 1 > n /\ ~(n + 1 > m + n)
          /\ \A i \in 1..m : i # n => (n + 1 > i <=> n > i) /\ ~(n + 1 > m + i) /\ ~(n > m + i)
      BY <2>1
    <2> QED
      BY <2>2
  <1>7. RefsRight(e, ps[n], xs[n], FALSE, FALSE)
    <2>1. RefsRight(e, ps[n], xs[n], n > n, n > m + n)
      BY <1>4, <1>5, Zenon
    <2> QED
      BY <1>6, <2>1, Zenon
  <1>8. CASE data = <<>>
    <2>1. qs = ps
      BY <1>8
    <2>2. Stored(e, 0, 0, NormsCells(xs[n]))
      <3>1. Len(<<>>) = 0 /\ 1..0 = {} /\ e \in Seq(Cell)
        BY <1>3
      <3>2. Len(e) \in Nat
        BY <3>1
      <3>3. 0 + 0 <= Len(e)
        BY <3>2
      <3> QED
        BY <1>8, <3>1, <3>3 DEF Stored
    <2>3. RefsRight(e, ps[n], xs[n], TRUE, FALSE)
      BY <1>7, <2>2, Zenon DEF RefsRight
    <2>4. \A i \in 1..m : RefsRight(e, ps[i], xs[i], n + 1 > i, n + 1 > m + i)
      <3> TAKE i \in 1..m
      <3>1. CASE i = n
        BY <1>6, <2>3, <3>1, Zenon
      <3>2. CASE i # n
        <4>1. RefsRight(e, ps[i], xs[i], n > i, n > m + i)
          BY <1>4, Zenon
        <4> QED
          BY <1>6, <3>2, <4>1, Zenon
      <3> QED
        BY <3>1, <3>2
    <2> QED
      BY <1>1, <1>3, <2>1, <2>4, Zenon DEF PlacesRight
  <1>9. CASE data # <<>>
    <2>1. n \in 1..Len(ps)
      BY <1>5, <1>1
    <2>2. PICK rs : rs = NormsAt(ps, n, Len(d), Len(data))
      OBVIOUS
    <2>3. NormsRecorded(ps, n, Len(d), Len(data), rs)
      BY <1>5, <2>1, <2>2, NormsPlaced, Zenon
    <2>4. qs = rs
      BY <1>9, <2>2, Zenon
    <2>5. Stored(e, Len(d), Len(data), NormsCells(xs[n]))
      BY <1>3, StoredAtEnd, Zenon
    <2>6. RefsRight(e, rs[n], xs[n], TRUE, FALSE)
      BY <1>7, <2>3, <2>5, Zenon DEF RefsRight, NormsRecorded
    <2>7. \A i \in 1..m : RefsRight(e, rs[i], xs[i], n + 1 > i, n + 1 > m + i)
      <3> TAKE i \in 1..m
      <3>1. CASE i = n
        BY <1>6, <2>6, <3>1, Zenon
      <3>2. CASE i # n
        <4>1. RefsRight(e, ps[i], xs[i], n > i, n > m + i)
          BY <1>4, Zenon
        <4>2. rs[i] = ps[i]
          BY <1>1, <2>3, <3>2, Zenon DEF NormsRecorded
        <4> QED
          BY <1>6, <3>2, <4>1, <4>2, Zenon
      <3> QED
        BY <3>1, <3>2
    <2> QED
      BY <1>1, <1>3, <2>4, <2>7, Zenon DEF PlacesRight
  <1> QED
    BY <1>8, <1>9

\* The bsbf section of the n-th index is appended and its ref recorded.
LEMMA PlacesBsbf ==
    ASSUME NEW d \in Seq(Cell), NEW xs \in Seq(Indexes), NEW ps \in Seq(Place),
           Len(ps) = Len(xs), NEW n \in 1..Len(xs), PlacesRight(d, xs, ps, (Len(xs) + n)),
           NEW data \in Seq(Cell), data = BsbfCells(xs[n]), NEW qs,
           qs = IF data = <<>> THEN ps
                ELSE BsbfAt(ps, n, Len(d), Len(data))
    PROVE  PlacesRight(d \o data, xs, qs, (Len(xs) + n) + 1)
  <1>1. PICK m \in Nat : m = Len(xs)
    OBVIOUS
  <1>2. PlacesRight(d \o data, xs, ps, (Len(xs) + n))
    BY PlacesExtend, Zenon
  <1>3. PICK e : e = d \o data
    BY Zenon
  <1>4. \A i \in 1..m : RefsRight(e, ps[i], xs[i], (m + n) > i, (m + n) > m + i)
    BY <1>1, <1>2, <1>3, Zenon DEF PlacesRight
  <1>5. n \in 1..m /\ Len(d) \in Nat /\ Len(data) \in Nat
    BY <1>1
  <1>6. /\ ((m + n) > n) = TRUE /\ ((m + n) > m + n) = FALSE /\ ((m + n) + 1 > n) = TRUE
        /\ ((m + n) + 1 > m + n) = TRUE
        /\ \A i \in 1..m : i # n => /\ ((m + n) + 1 > i) = ((m + n) > i)
                                    /\ ((m + n) + 1 > m + i) = ((m + n) > m + i)
    BY <1>5
  <1>7. RefsRight(e, ps[n], xs[n], TRUE, FALSE)
    <2>1. RefsRight(e, ps[n], xs[n], (m + n) > n, (m + n) > m + n)
      BY <1>4, <1>5, Zenon
    <2> QED
      BY <1>6, <2>1, Zenon
  <1>8. CASE data = <<>>
    <2>1. qs = ps
      BY <1>8
    <2>2. Stored(e, 0, 0, BsbfCells(xs[n]))
      <3>1. Len(<<>>) = 0 /\ 1..0 = {} /\ e \in Seq(Cell)
        BY <1>3
      <3>2. Len(e) \in Nat
        BY <3>1
      <3>3. 0 + 0 <= Len(e)
        BY <3>2
      <3> QED
        BY <1>8, <3>1, <3>3 DEF Stored
    <2>3. RefsRight(e, ps[n], xs[n], TRUE, TRUE)
      BY <1>7, <2>2, Zenon DEF RefsRight
    <2>4. \A i \in 1..m : RefsRight(e, ps[i], xs[i], (m + n) + 1 > i, (m + n) + 1 > m + i)
      <3> TAKE i \in 1..m
      <3>1. CASE i = n
        BY <1>6, <2>3, <3>1, Zenon
      <3>2. CASE i # n
        <4>1. RefsRight(e, ps[i], xs[i], (m + n) > i, (m + n) > m + i)
          BY <1>4, Zenon
        <4> QED
          BY <1>6, <3>2, <4>1
      <3> QED
        BY <3>1, <3>2
    <2> QED
      BY <1>1, <1>3, <2>1, <2>4, Zenon DEF PlacesRight
  <1>9. CASE data # <<>>
    <2>1. n \in 1..Len(ps)
      BY <1>5, <1>1
    <2>2. PICK rs : rs = BsbfAt(ps, n, Len(d), Len(data))
      OBVIOUS
    <2>3. BsbfRecorded(ps, n, Len(d), Len(data), rs)
      BY <1>5, <2>1, <2>2, BsbfPlaced, Zenon
    <2>4. qs = rs
      BY <1>9, <2>2, Zenon
    <2>5. Stored(e, Len(d), Len(data), BsbfCells(xs[n]))
      BY <1>3, StoredAtEnd, Zenon
    <2>6. RefsRight(e, rs[n], xs[n], TRUE, TRUE)
      BY <1>7, <2>3, <2>5, Zenon DEF RefsRight, BsbfRecorded
    <2>7. \A i \in 1..m : RefsRight(e, rs[i], xs[i], (m + n) + 1 > i, (m + n) + 1 > m + i)
      <3> TAKE i \in 1..m
      <3>1. CASE i = n
        BY <1>6, <2>6, <3>1, Zenon
      <3>2. CASE i # n
        <4>1. RefsRight(e, ps[i], xs[i], (m + n) > i, (m + n) > m + i)
          BY <1>4, Zenon
        <4>2. rs[i] = ps[i]
          BY <1>1, <2>3, <3>2, Zenon DEF BsbfRecorded
        <4> QED
          BY <1>6, <3>2, <4>1, <4>2
      <3> QED
        BY <3>1, <3>2
    <2> QED
      BY <1>1, <1>3, <2>4, <2>7, Zenon DEF PlacesRight
  <1> QED
    BY <1>8, <1>9

\* Cut anywhere, a plain file holds no end of a tail pointer.
LEMMA PlainCut ==
    ASSUME NEW d \in Seq(Cell), NEW data \in Seq(Cell), Plain(d), Plain(data)
    PROVE  \A e \in Seq(Cell) : PrefixOf(e, d \o data) /\ Len(e) < Len(d \o data) => NoTailEnd(e)
  <1>1. Plain(d \o data) /\ d \o data \in Seq(Cell)
    BY PlainConcat, ConcatFacts
  <1> QED
    BY <1>1, NoTailEndFacts, Zenon

\* The section write_norms writes next, and the placements once it is written.
LEMMA SectionPlaced ==
    ASSUME Types, pc = "sections", k <= 2 * N
    PROVE  /\ SectionData \in Seq(Cell) /\ Plain(SectionData)
           /\ file'.bytes_written = file.bytes_written + Len(SectionData) =>
                /\ Placed(place) \in Seq(Place) /\ Len(Placed(place)) = N
                /\ \A d \in Seq(Cell) :
                     Len(d) = file.bytes_written /\ PlacesRight(d, indexes, place, k) =>
                        PlacesRight(d \o SectionData, indexes, Placed(place), k + 1)
  <1>1. /\ indexes \in Seq(Indexes) /\ place \in Seq(Place) /\ Len(place) = Len(indexes)
        /\ N = Len(indexes) /\ N \in Nat /\ k \in Nat \ {0} /\ file.bytes_written \in Nat
    BY DEF Types, N, File
  <1>2. PICK b \in Nat, n \in Nat : b = file.bytes_written /\ n = N
    BY <1>1
  <1>3. CASE k <= N
    <2>1. k \in 1..Len(indexes) /\ k \in 1..Len(place) /\ indexes[k] \in Indexes
      BY <1>1, <1>3
    <2>2. PICK data \in Seq(Cell) :
             data = SectionData /\ Plain(data) /\ data = NormsCells(indexes[k])
      BY <1>3, <2>1, SectionFacts, Zenon DEF SectionData
    <2>3. Len(data) \in Nat
      OBVIOUS
    <2>4. ASSUME file'.bytes_written = file.bytes_written + Len(data)
          PROVE  /\ Placed(place) \in Seq(Place) /\ Len(Placed(place)) = N
                 /\ \A d \in Seq(Cell) :
                      Len(d) = file.bytes_written /\ PlacesRight(d, indexes, place, k) =>
                         PlacesRight(d \o data, indexes, Placed(place), k + 1)
      <3>1. file'.bytes_written - Written = Len(data)
        BY <1>1, <2>3, <2>4 DEF Written
      <3>2. Placed(place) = IF data = <<>> THEN place ELSE NormsAt(place, k, b, Len(data))
        BY <1>2, <1>3, <2>2, <3>1, Zenon DEF Placed, NormsAt, Written
      <3>3. NormsRecorded(place, k, b, Len(data), NormsAt(place, k, b, Len(data)))
        BY <1>1, <2>1, <2>3, NormsPlaced, Zenon
      <3>4. Placed(place) \in Seq(Place) /\ Len(Placed(place)) = N
        BY <1>1, <3>2, <3>3, Zenon DEF NormsRecorded
      <3>5. ASSUME NEW d \in Seq(Cell), Len(d) = file.bytes_written, PlacesRight(d, indexes, place, k)
            PROVE  PlacesRight(d \o data, indexes, Placed(place), k + 1)
        <4>1. Placed(place) = IF data = <<>> THEN place ELSE NormsAt(place, k, Len(d), Len(data))
          BY <1>2, <3>2, <3>5, Zenon
        <4> QED
          BY <1>1, <2>1, <2>2, <3>5, <4>1, PlacesNorms, Zenon
      <3> QED
        BY <3>4, <3>5, Zenon
    <2> QED
      BY <2>2, <2>4, Zenon
  <1>4. CASE ~(k <= N)
    <2>1. PICK m \in Nat : m = k - N
      BY <1>1, <1>4
    <2>2. m \in 1..Len(indexes) /\ m \in 1..Len(place) /\ indexes[m] \in Indexes
      <3>1. m \in 1..n /\ n = Len(indexes)
        BY <1>1, <1>2, <1>4, <2>1
      <3> QED
        BY <1>1, <3>1
    <2>3. PICK data \in Seq(Cell) :
             data = SectionData /\ Plain(data) /\ data = BsbfCells(indexes[m])
      BY <1>4, <2>1, <2>2, SectionFacts, Zenon DEF SectionData
    <2>4. Len(data) \in Nat
      OBVIOUS
    <2>5. Len(indexes) + m = k
      BY <1>1, <2>1
    <2>6. ASSUME file'.bytes_written = file.bytes_written + Len(data)
          PROVE  /\ Placed(place) \in Seq(Place) /\ Len(Placed(place)) = N
                 /\ \A d \in Seq(Cell) :
                      Len(d) = file.bytes_written /\ PlacesRight(d, indexes, place, k) =>
                         PlacesRight(d \o data, indexes, Placed(place), k + 1)
      <3>1. file'.bytes_written - Written = Len(data)
        BY <1>1, <2>4, <2>6 DEF Written
      <3>2. Placed(place) = IF data = <<>> THEN place ELSE BsbfAt(place, m, b, Len(data))
        BY <1>2, <1>4, <2>1, <2>3, <3>1, Zenon DEF Placed, BsbfAt, Written
      <3>3. BsbfRecorded(place, m, b, Len(data), BsbfAt(place, m, b, Len(data)))
        BY <1>1, <2>2, <2>4, BsbfPlaced, Zenon
      <3>4. Placed(place) \in Seq(Place) /\ Len(Placed(place)) = N
        BY <1>1, <3>2, <3>3, Zenon DEF BsbfRecorded
      <3>5. ASSUME NEW d \in Seq(Cell), Len(d) = file.bytes_written, PlacesRight(d, indexes, place, k)
            PROVE  PlacesRight(d \o data, indexes, Placed(place), k + 1)
        <4>1. Placed(place) = IF data = <<>> THEN place ELSE BsbfAt(place, m, Len(d), Len(data))
          BY <1>2, <3>2, <3>5, Zenon
        <4>2. PlacesRight(d, indexes, place, Len(indexes) + m)
          BY <2>5, <3>5, Zenon
        <4>3. PlacesRight(d \o data, indexes, Placed(place), (Len(indexes) + m) + 1)
          BY <1>1, <2>2, <2>3, <4>1, <4>2, PlacesBsbf, Zenon
        <4> QED
          BY <2>5, <4>3, Zenon
      <3> QED
        BY <3>4, <3>5, Zenon
    <2> QED
      BY <2>3, <2>6, Zenon
  <1> QED
    BY <1>3, <1>4

\* write_norms: one section is written, or fails.
LEMMA InvFinishSection ==
    ASSUME ContainerInv, FinishSection
    PROVE  ContainerInv'
  <1>1. /\ Types /\ Control /\ Writing /\ WritingInv /\ pc = "sections" /\ finished
        /\ boot' = boot /\ boot /\ k <= 2 * N /\ ret = "none" /\ ~crashed
    BY DEF ContainerInv, Writing, FinishSection, Control, Types
  <1>2. PICK data \in Seq(Cell) : data = SectionData /\ Plain(data)
    BY <1>1, SectionPlaced, Zenon
  <1>3. file \in File /\ Image(file) \in Seq(Cell) /\ Plain(Image(file))
    BY <1>1, ImageFacts, Zenon DEF Types, WritingInv
  <1>4. CASE AppendFails(data)
    <2>1. \A e \in Seq(Cell) :
             PrefixOf(e, Image(file) \o data) /\ Len(e) < Len(Image(file) \o data) => NoTailEnd(e)
      BY <1>2, <1>3, PlainCut, Zenon
    <2>2. pc # "post" /\ pc # "idle"
      BY <1>1
    <2> QED
      BY <1>1, <1>4, <2>1, <2>2, InvAppendFails, Zenon
  <1>5. CASE /\ Appends(data) /\ place' = Placed(place) /\ k' = k + 1
             /\ UNCHANGED <<pc, cur, indexes, finished, ret, adds, crashed>>
    <2>1. Grows(file, file', data) /\ Len(Image(file)) >= file.bytes_written
      BY <1>1, <1>5, AppendSteps, Zenon DEF WritingInv
    <2>2. /\ file' \in File /\ Image(file') = Image(file) \o data
          /\ file'.bytes_written = file.bytes_written + Len(data)
          /\ Len(Image(file')) = file'.bytes_written => Len(Image(file)) = file.bytes_written
          /\ Len(Image(file')) >= file'.bytes_written
      BY <1>3, <2>1, GrowthFacts, Zenon
    <2>3. /\ pc' = "sections" /\ cur' = cur /\ indexes' = indexes /\ finished' = finished
          /\ ret' = ret /\ crashed' = crashed
      BY <1>1, <1>5
    <2>4. /\ place' \in Seq(Place) /\ Len(place') = N
          /\ \A d \in Seq(Cell) :
                Len(d) = file.bytes_written /\ PlacesRight(d, indexes, place, k) =>
                   PlacesRight(d \o data, indexes, place', k + 1)
      BY <1>1, <1>2, <1>5, <2>2, SectionPlaced, Zenon
    <2>5. Types'
      <3>1. k' \in Nat \ {0}
        BY <1>1, <1>5 DEF Types
      <3> QED
        BY <1>1, <2>2, <2>3, <2>4, <3>1 DEF Types, Pcs, N
    <2>6. Control'
      BY <1>1, <2>3 DEF Control
    <2>7. Plain(Image(file'))
      BY <1>2, <1>3, <2>2, PlainConcat, Zenon
    <2>8. ASSUME Len(Image(file)) = file.bytes_written
          PROVE  Headed(Image(file')) /\ PlacesRight(Image(file'), indexes, place', k')
      <3>1. Headed(Image(file)) /\ PlacesRight(Image(file), indexes, place, k)
        BY <1>1, <2>8, Zenon DEF WritingInv, CleanInv
      <3>2. Headed(Image(file) \o data)
        BY <1>3, <3>1, HeadedExtend, Zenon
      <3>3. PlacesRight(Image(file) \o data, indexes, place', k')
        BY <1>3, <1>5, <2>4, <2>8, <3>1, Zenon
      <3> QED
        BY <2>2, <3>2, <3>3, Zenon
    <2>9. CleanInv'
      BY <2>2, <2>3, <2>8 DEF CleanInv
    <2>10. WritingInv'
      BY <1>1, <2>2, <2>3, <2>7, <2>9 DEF WritingInv
    <2>11. Writing'
      BY <1>1, <2>3 DEF Writing
    <2> QED
      BY <2>5, <2>6, <2>10, <2>11 DEF ContainerInv
  <1> QED
    BY <1>2, <1>4, <1>5, Zenon DEF FinishSection

\* A successful append of finish() once the sections are written: the refs stay.
LEMMA TailStep ==
    ASSUME ContainerInv, pc \in {"sections", "tail"}, k > 2 * N, NEW data \in Seq(Cell), Appends(data),
           pc' \in {"tail", "finalize"}, boot' = boot,
           UNCHANGED <<cur, indexes, place, k, finished, ret, adds, crashed>>
    PROVE  /\ Types' /\ Control' /\ Writing' /\ CleanInv' /\ MetaCells' = MetaCells
           /\ Image(file') = Image(file) \o data /\ Len(Image(file')) >= file'.bytes_written
           /\ file'.bytes_written = file.bytes_written + Len(data) /\ boot'
  <1>1. /\ Types /\ Control /\ Writing /\ WritingInv /\ finished /\ boot /\ ret = "none" /\ ~crashed
    BY DEF ContainerInv, Writing, Control, Types
  <1>2. file \in File /\ Image(file) \in Seq(Cell)
    BY <1>1, ImageFacts, Zenon DEF Types
  <1>3. Grows(file, file', data) /\ Len(Image(file)) >= file.bytes_written
    BY <1>1, AppendSteps, Zenon DEF WritingInv
  <1>4. /\ file' \in File /\ Image(file') = Image(file) \o data
        /\ file'.bytes_written = file.bytes_written + Len(data)
        /\ Len(Image(file')) = file'.bytes_written => Len(Image(file)) = file.bytes_written
        /\ Len(Image(file')) >= file'.bytes_written
    BY <1>2, <1>3, GrowthFacts, Zenon
  <1>5. Types'
    BY <1>1, <1>4 DEF Types, Pcs
  <1>6. Control'
    BY <1>1 DEF Control, N
  <1>7. ASSUME Len(Image(file)) = file.bytes_written
        PROVE  Headed(Image(file')) /\ PlacesRight(Image(file'), indexes, place, k)
    <2>1. Headed(Image(file)) /\ PlacesRight(Image(file), indexes, place, k)
      BY <1>1, <1>7, Zenon DEF WritingInv, CleanInv
    <2>2. Headed(Image(file) \o data)
      BY <1>2, <2>1, HeadedExtend, Zenon
    <2>3. PlacesRight(Image(file) \o data, indexes, place, k)
      <3>1. indexes \in Seq(Indexes) /\ place \in Seq(Place) /\ Len(place) = Len(indexes)
        BY <1>1, Zenon DEF Types
      <3> QED
        BY <1>2, <2>1, <3>1, PlacesExtend, Zenon
    <2> QED
      BY <1>4, <2>2, <2>3, Zenon
  <1>8. CleanInv'
    BY <1>4, <1>7 DEF CleanInv
  <1>9. Writing'
    BY <1>1 DEF Writing
  <1>10. MetaCells' = MetaCells
    BY DEF MetaCells
  <1> QED
    BY <1>1, <1>4, <1>5, <1>6, <1>8, <1>9, <1>10

\* write_tail: the meta region is written, or fails.
LEMMA InvFinishMeta ==
    ASSUME ContainerInv, FinishMeta
    PROVE  ContainerInv'
  <1>1. /\ Types /\ Control /\ Writing /\ WritingInv /\ pc = "sections" /\ finished
        /\ boot' = boot /\ boot /\ k > 2 * N
    BY DEF ContainerInv, Writing, FinishMeta, Control, Types
  <1>2. PICK data \in Seq(Cell) : data = MetaCells /\ IsMeta(data)
    BY <1>1, MetaFacts, Zenon DEF IsMeta
  <1>3. file \in File /\ Image(file) \in Seq(Cell) /\ Plain(Image(file)) /\ file.bytes_written \in Nat
    BY <1>1, ImageFacts, Zenon DEF Types, WritingInv, File
  <1>4. EndsInMeta(Image(file) \o data, data)
    BY <1>2, <1>3, MetaAppended, Zenon
  <1>5. CASE AppendFails(data)
    <2>1. NoTailEnd(Image(file) \o data) /\ Image(file) \o data \in Seq(Cell)
      <3>1. Image(file) \o data \in Seq(Cell)
        BY <1>3
      <3> QED
        BY <1>2, <1>4, <3>1, MetaNoTailEnd, Zenon
    <2>2. \A e \in Seq(Cell) :
             PrefixOf(e, Image(file) \o data) /\ Len(e) < Len(Image(file) \o data) => NoTailEnd(e)
      BY <2>1, NoTailEndFacts, Zenon
    <2>3. pc # "post" /\ pc # "idle"
      BY <1>1
    <2> QED
      BY <1>1, <1>5, <2>2, <2>3, InvAppendFails, Zenon
  <1>6. CASE /\ Appends(data) /\ pc' = "tail"
             /\ UNCHANGED <<cur, indexes, place, k, finished, ret, adds, crashed>>
    <2>1. /\ Types' /\ Control' /\ Writing' /\ CleanInv' /\ MetaCells' = MetaCells
          /\ Image(file') = Image(file) \o data /\ Len(Image(file')) >= file'.bytes_written
          /\ file'.bytes_written = file.bytes_written + Len(data) /\ boot'
      BY <1>1, <1>6, TailStep
    <2>2. EndsInMeta(Image(file'), MetaCells')
      BY <1>2, <1>4, <2>1, Zenon
    <2>3. file'.bytes_written >= 2
      BY <1>2, <1>3, <2>1 DEF IsMeta
    <2>4. WritingInv'
      BY <1>6, <2>1, <2>2, <2>3 DEF WritingInv
    <2> QED
      BY <2>1, <2>4 DEF ContainerInv
  <1> QED
    BY <1>2, <1>5, <1>6, Zenon DEF FinishMeta

\* write_tail: the tail pointer is written, or fails.
LEMMA InvFinishTail ==
    ASSUME ContainerInv, FinishTail
    PROVE  ContainerInv'
  <1>1. /\ Types /\ Control /\ Writing /\ WritingInv /\ pc = "tail" /\ finished
        /\ boot' = boot /\ boot /\ k > 2 * N
    BY DEF ContainerInv, Writing, FinishTail, Control, Types
  <1>2. PICK m : m = MetaCells /\ IsMeta(m)
    BY <1>1, MetaFacts, Zenon
  <1>3. /\ file \in File /\ Image(file) \in Seq(Cell) /\ file.bytes_written \in Nat
        /\ file.bytes_written >= 2 /\ EndsInMeta(Image(file), m)
    BY <1>1, <1>2, ImageFacts, Zenon DEF Types, WritingInv, File
  <1>4. PICK b \in Nat : b = file.bytes_written /\ b >= 2
    BY <1>3
  <1>5. TailData = TailCells(b - 2, 2, m)
    BY <1>2, <1>4 DEF TailData, Written, IsMeta
  <1>6. PICK data \in Seq(Cell) : data = TailData /\ Len(data) = 2
    <2>1. b - 2 \in Nat
      BY <1>4
    <2> QED
      BY <1>2, <1>5, <2>1, TailSeq, Zenon
  <1>7. EndsInTail(Image(file) \o data, m, b + 2)
    BY <1>2, <1>3, <1>4, <1>5, <1>6, TailAppended, Zenon
  <1>8. CASE AppendFails(data)
    <2>1. Image(file) \o data \in Seq(Cell) /\ b + 2 \in Nat
      BY <1>3
    <2>2. \A e \in Seq(Cell) :
             PrefixOf(e, Image(file) \o data) /\ Len(e) < Len(Image(file) \o data) => NoTailEnd(e)
      BY <1>2, <1>7, <2>1, CutNoTailEnd, Zenon
    <2>3. pc # "post" /\ pc # "idle"
      BY <1>1
    <2> QED
      BY <1>1, <1>8, <2>2, <2>3, InvAppendFails, Zenon
  <1>9. CASE /\ Appends(data) /\ pc' = "finalize"
             /\ UNCHANGED <<cur, indexes, place, k, finished, ret, adds, crashed>>
    <2>1. /\ Types' /\ Control' /\ Writing' /\ CleanInv' /\ MetaCells' = MetaCells
          /\ Image(file') = Image(file) \o data /\ Len(Image(file')) >= file'.bytes_written
          /\ file'.bytes_written = file.bytes_written + Len(data) /\ boot'
      BY <1>1, <1>9, TailStep
    <2>2. file'.bytes_written = b + 2
      BY <1>4, <1>6, <2>1, Zenon
    <2>3. EndsInTail(Image(file'), MetaCells', file'.bytes_written)
      BY <1>2, <1>7, <2>1, <2>2, Zenon
    <2>4. WritingInv'
      BY <1>9, <2>1, <2>3 DEF WritingInv
    <2> QED
      BY <2>1, <2>4 DEF ContainerInv
  <1> QED
    BY <1>6, <1>8, <1>9, Zenon DEF FinishTail

\* finalize: the buffer is flushed, or fails.
LEMMA InvFinalizeFlush ==
    ASSUME ContainerInv, FinalizeFlush
    PROVE  ContainerInv'
  <1>1. /\ Types /\ Control /\ Writing /\ WritingInv /\ pc = "finalize" /\ finished
        /\ boot /\ k > 2 * N /\ ret = "none" /\ ~crashed
    BY DEF ContainerInv, Writing, FinalizeFlush, Control, Types
  <1>2. PICK o \in FlushBuffer(file) :
           /\ file' = o.f /\ pc' = (IF o.ok THEN "sync" ELSE "idle")
           /\ ret' = (IF o.ok THEN ret ELSE "io")
    BY DEF FinalizeFlush
  <1>3. /\ cur' = cur /\ indexes' = indexes /\ place' = place /\ k' = k /\ boot' = boot
        /\ finished' = finished /\ crashed' = crashed /\ MetaCells' = MetaCells
    BY DEF FinalizeFlush, MetaCells
  <1>4. file \in File /\ Image(file) \in Seq(Cell) /\ file.bytes_written \in Nat
    BY <1>1, ImageFacts, Zenon DEF Types, File
  <1>5. /\ o.ok \in BOOLEAN /\ file' \in File /\ file'.bytes_written = file.bytes_written
        /\ o.ok => file'.buf = <<>> /\ Image(file') = Image(file)
        /\ ~o.ok => \A data \in Seq(Cell) : Breaks(file, file', data)
    BY <1>2, <1>4, FlushOutcome, Zenon
  <1>6. /\ Len(Image(file)) >= file.bytes_written /\ CleanInv
        /\ EndsInTail(Image(file), MetaCells, file.bytes_written)
    BY <1>1 DEF WritingInv
  <1>7. CASE o.ok
    <2>1. pc' = "sync" /\ ret' = ret
      BY <1>2, <1>7
    <2>2. Types'
      BY <1>1, <1>3, <1>5, <2>1 DEF Types, Pcs
    <2>3. Control'
      BY <1>1, <1>3, <2>1 DEF Control, N
    <2>4. CleanInv'
      BY <1>3, <1>5, <1>6, <1>7, <2>1 DEF CleanInv
    <2>5. WritingInv'
      BY <1>1, <1>3, <1>5, <1>6, <1>7, <2>1, <2>4 DEF WritingInv
    <2>6. Writing'
      BY <1>1, <1>3, <2>1 DEF Writing
    <2> QED
      BY <2>2, <2>3, <2>5, <2>6 DEF ContainerInv
  <1>8. CASE ~o.ok
    <2>1. pc' = "idle" /\ ret' = "io"
      BY <1>2, <1>8
    <2>2. Types'
      BY <1>1, <1>3, <1>5, <2>1 DEF Types, Pcs
    <2>3. Control'
      BY <1>1, <1>3, <2>1 DEF Control, N
    <2>4. <<>> \in Seq(Cell) /\ Image(file) \o <<>> = Image(file)
      BY <1>4
    <2>5. /\ PrefixOf(file'.disk, Image(file)) /\ Len(file'.disk) < Len(Image(file))
          /\ file'.disk \in Seq(Cell)
      <3>1. Breaks(file, file', <<>>)
        BY <1>5, <1>8, <2>4, Zenon
      <3>2. /\ PrefixOf(file'.disk, Image(file) \o <<>>) /\ Len(file'.disk) < Len(Image(file) \o <<>>)
            /\ file'.disk \in Seq(Cell)
        BY <1>4, <1>6, <2>4, <3>1, BreakFacts, Zenon
      <3> QED
        BY <2>4, <3>2, Zenon
    <2>6. NoTailEnd(file'.disk)
      <3>1. IsMeta(MetaCells)
        BY <1>1, MetaFacts, Zenon
      <3> QED
        BY <1>4, <1>6, <2>5, <3>1, CutNoTailEnd, Zenon
    <2>7. DoneInv' /\ ~Writing'
      BY <1>1, <1>3, <2>1, <2>6 DEF DoneInv, Writing
    <2> QED
      BY <2>2, <2>3, <2>7 DEF ContainerInv
  <1> QED
    BY <1>5, <1>7, <1>8

\* finalize: fsync and close, whatever they return, leave the sealed file.
LEMMA InvFinalizeSync ==
    ASSUME ContainerInv, FinalizeSync
    PROVE  ContainerInv'
  <1>1. /\ Types /\ Control /\ Writing /\ WritingInv /\ pc = "sync" /\ finished
        /\ boot /\ k > 2 * N
    BY DEF ContainerInv, Writing, FinalizeSync, Control, Types
  <1>2. /\ pc' = "idle" /\ ret' \in {"ok", "io"} /\ file' = file
        /\ cur' = cur /\ indexes' = indexes /\ place' = place /\ k' = k /\ boot' = boot
        /\ finished' = finished /\ crashed' = crashed /\ MetaCells' = MetaCells
    BY DEF FinalizeSync, MetaCells
  <1>3. Image(file) = file.disk
    BY <1>1 DEF WritingInv, Image, Types, File
  <1>4. Sealed
    BY <1>1, <1>3 DEF WritingInv, CleanInv, Sealed
  <1>5. Sealed'
    BY <1>2, <1>4 DEF Sealed, N
  <1>6. Types'
    BY <1>1, <1>2 DEF Types, Pcs
  <1>7. Control'
    BY <1>1, <1>2 DEF Control, N
  <1>8. DoneInv' /\ ~Writing'
    BY <1>1, <1>2, <1>5 DEF DoneInv, Writing
  <1> QED
    BY <1>6, <1>7, <1>8 DEF ContainerInv

\* A part of the disk is a prefix of it, and of the image.
LEMMA DiskCut ==
    ASSUME NEW f \in File, NEW n \in 0..Len(f.disk)
    PROVE  LET e == SubSeq(f.disk, 1, n)
           IN  /\ e \in Seq(Cell) /\ Len(e) = n
               /\ PrefixOf(e, f.disk) /\ PrefixOf(e, Image(f))
               /\ n = Len(f.disk) => e = f.disk
               /\ n = Len(Image(f)) => e = Image(f)
               /\ n <= Len(Image(f)) /\ Len(f.disk) \in Nat /\ Len(Image(f)) \in Nat
  <1>1. PICK d \in Seq(Cell) : d = f.disk
    BY DEF File
  <1>2. PICK e : e = SubSeq(d, 1, n)
    BY Zenon
  <1>3. n \in 0..Len(d)
    BY <1>1
  <1>4. /\ e \in Seq(Cell) /\ Len(e) = n /\ \A j \in 1..n : e[j] = d[j]
        /\ n = Len(d) => e = d
    BY <1>2, <1>3
  <1>5. PICK m \in Seq(Cell), a \in Nat, b \in Nat :
           m = Image(f) /\ a = Len(d) /\ b = Len(f.buf) /\ Len(m) = a + b /\ \A j \in 1..a : m[j] = d[j]
    BY <1>1, ImageFacts, Zenon
  <1>6. n \in Nat /\ n <= a /\ n <= a + b
    BY <1>3, <1>5
  <1>7. PrefixOf(e, d)
    BY <1>4, <1>5, <1>6, Zenon DEF PrefixOf
  <1>8. \A j \in 1..n : e[j] = m[j]
    <2>1. \A j \in 1..n : j \in 1..a
      BY <1>6
    <2> QED
      BY <1>4, <1>5, <2>1, Zenon
  <1>9. PrefixOf(e, m)
    BY <1>4, <1>5, <1>6, <1>8, Zenon DEF PrefixOf
  <1>10. n = Len(m) => e = m
    BY <1>4, <1>8
  <1>11. n <= Len(m) /\ Len(d) \in Nat /\ Len(m) \in Nat
    BY <1>5, <1>6
  <1> QED
    BY <1>1, <1>2, <1>4, <1>5, <1>7, <1>9, <1>10, <1>11, Zenon

\* A crash keeps a prefix of the disk; a sealed file stays whole or holds no tail.
LEMMA InvCrash ==
    ASSUME ContainerInv, Crash
    PROVE  ContainerInv'
  <1>1. Types /\ Control /\ ~crashed
    BY DEF ContainerInv, Crash
  <1>2. PICK n \in 0..Len(file.disk) :
           /\ ret = "ok" => n = Len(file.disk)
           /\ file' = [file EXCEPT !.disk = SubSeq(@, 1, n), !.buf = <<>>]
    BY Zenon DEF Crash
  <1>3. /\ crashed' = TRUE /\ pc' = "idle" /\ cur' = cur /\ indexes' = indexes /\ place' = place
        /\ k' = k /\ boot' = boot /\ finished' = finished /\ ret' = ret /\ MetaCells' = MetaCells
    BY DEF Crash, MetaCells
  <1>4. file \in File /\ file.disk \in Seq(Cell) /\ Image(file) \in Seq(Cell) /\ file.bytes_written \in Nat
    BY <1>1, ImageFacts, Zenon DEF Types, File
  <1>5. PICK e : e = SubSeq(file.disk, 1, n)
    BY Zenon
  <1>6. /\ e \in Seq(Cell) /\ Len(e) = n /\ PrefixOf(e, file.disk) /\ PrefixOf(e, Image(file))
        /\ n = Len(file.disk) => e = file.disk
        /\ n = Len(Image(file)) => e = Image(file)
        /\ n <= Len(Image(file)) /\ Len(file.disk) \in Nat /\ Len(Image(file)) \in Nat
    BY <1>4, <1>5, DiskCut, Zenon
  <1>7. file' \in File /\ file'.disk = e /\ file'.bytes_written = file.bytes_written
    <2>1. PICK g : g = [file EXCEPT !.disk = e]
      BY Zenon
    <2>2. g \in File /\ g.disk = e /\ g.bytes_written = file.bytes_written
      BY <1>4, <1>6, <2>1, Zenon DEF File
    <2>3. file' = [g EXCEPT !.buf = <<>>]
      BY <1>2, <1>5, <2>1, Zenon
    <2>4. <<>> \in Seq(Cell)
      OBVIOUS
    <2> QED
      BY <2>2, <2>3, <2>4, Zenon DEF File
  <1>8. Types'
    BY <1>1, <1>3, <1>7 DEF Types, Pcs
  <1>9. Control'
    BY <1>1, <1>3, <1>7 DEF Control, N
  <1>10. ~Writing' /\ IsMeta(MetaCells)
    BY <1>1, <1>3, MetaFacts DEF Writing
  <1> SUFFICES DoneInv'
    BY <1>8, <1>9, <1>10 DEF ContainerInv
  <1>11. CASE Writing
    <2>1. WritingInv /\ ret # "ok"
      BY <1>1, <1>11 DEF ContainerInv, Control, Writing
    <2>2. CASE pc \in {"idle", "post", "sections"}
      <3>1. NoTailEnd(Image(file))
        BY <1>4, <2>1, <2>2, NoTailEndFacts DEF WritingInv
      <3>2. NoTailEnd(e)
        BY <1>4, <1>6, <3>1, NoTailEndFacts, Zenon
      <3> QED
        BY <1>3, <1>7, <2>1, <3>2 DEF DoneInv
    <2>3. CASE pc = "tail"
      <3>1. NoTailEnd(Image(file))
        BY <1>4, <1>10, <2>1, <2>3, MetaNoTailEnd, Zenon DEF WritingInv
      <3>2. NoTailEnd(e)
        BY <1>4, <1>6, <3>1, NoTailEndFacts, Zenon
      <3> QED
        BY <1>3, <1>7, <2>1, <3>2 DEF DoneInv
    <2>4. CASE pc \in {"finalize", "sync"}
      <3>1. EndsInTail(Image(file), MetaCells, file.bytes_written) /\ CleanInv /\ k > 2 * N /\ boot
        BY <1>1, <2>1, <2>4 DEF WritingInv, Control
      <3>2. CASE n = Len(Image(file))
        <4>1. file'.disk = Image(file)
          BY <1>6, <1>7, <3>2
        <4>2. Sealed'
          BY <1>3, <1>7, <3>1, <4>1 DEF Sealed, CleanInv, N
        <4> QED
          BY <1>3, <2>1, <4>2 DEF DoneInv
      <3>3. CASE n # Len(Image(file))
        <4>1. Len(e) < Len(Image(file))
          BY <1>6, <3>3
        <4>2. NoTailEnd(e)
          BY <1>4, <1>6, <1>10, <3>1, <4>1, CutNoTailEnd, Zenon
        <4> QED
          BY <1>3, <1>7, <2>1, <4>2 DEF DoneInv
      <3> QED
        BY <3>2, <3>3
    <2> QED
      BY <1>1, <2>2, <2>3, <2>4 DEF Types, Pcs
  <1>12. CASE ~Writing
    <2>1. DoneInv
      BY <1>12 DEF ContainerInv
    <2>2. CASE n = Len(file.disk)
      <3>1. file'.disk = file.disk
        BY <1>6, <1>7, <2>2
      <3>2. Sealed => Sealed'
        BY <1>3, <1>7, <3>1 DEF Sealed, N
      <3> QED
        BY <1>3, <2>1, <3>1, <3>2 DEF DoneInv
    <2>3. CASE n # Len(file.disk)
      <3>1. ret # "ok" /\ Len(e) < Len(file.disk)
        BY <1>2, <1>6, <2>3
      <3>2. NoTailEnd(e)
        <4>1. CASE NoTailEnd(file.disk)
          BY <1>4, <1>6, <4>1, NoTailEndFacts, Zenon
        <4>2. CASE Sealed
          BY <1>4, <1>6, <1>10, <3>1, <4>2, CutNoTailEnd, Zenon DEF Sealed
        <4> QED
          BY <2>1, <4>1, <4>2 DEF DoneInv
      <3> QED
        BY <1>3, <1>7, <3>1, <3>2 DEF DoneInv
    <2> QED
      BY <2>2, <2>3
  <1> QED
    BY <1>11, <1>12

\* The invariant holds in every reachable state.
THEOREM ContainerInvariant == Spec => []ContainerInv
  <1>1. ContainerInv /\ [Next]_vars => ContainerInv'
    <2> SUFFICES ASSUME ContainerInv, [Next]_vars PROVE ContainerInv'
      OBVIOUS
    <2>1. ASSUME NEW i \in Indexes, BeginAdd(i)
          PROVE  ContainerInv'
      BY <2>1, InvBeginAdd
    <2>2. CASE AddPosting
      BY <2>2, InvAddPosting
    <2>3. CASE AddRejected
      BY <2>3, InvAddRejected
    <2>4. CASE AddDict
      BY <2>4, InvAddDict
    <2>5. CASE BeginFinish
      BY <2>5, InvBeginFinish
    <2>6. CASE FinishSection
      BY <2>6, InvFinishSection
    <2>7. CASE FinishMeta
      BY <2>7, InvFinishMeta
    <2>8. CASE FinishTail
      BY <2>8, InvFinishTail
    <2>9. CASE FinalizeFlush
      BY <2>9, InvFinalizeFlush
    <2>10. CASE FinalizeSync
      BY <2>10, InvFinalizeSync
    <2>11. CASE Crash
      BY <2>11, InvCrash
    <2>12. CASE UNCHANGED vars
      BY <2>12 DEF ContainerInv, Types, Control, Writing, WritingInv, CleanInv, DoneInv, Sealed,
                   MetaCells, N, vars
    <2> QED
      BY <2>1, <2>2, <2>3, <2>4, <2>5, <2>6, <2>7, <2>8, <2>9, <2>10, <2>11, <2>12 DEF Next
  <1> QED
    BY <1>1, InvInit, PTL DEF Spec

----------------------------------------------------------------------------
(* What the reader finds. *)

\* A tail pointer on disk ends a sealed file, whether the writer is done or not.
LEMMA TailMeansSealed ==
    ASSUME ContainerInv, ~NoTailEnd(file.disk)
    PROVE  Sealed
  <1>1. CASE ~Writing
    BY <1>1 DEF ContainerInv, DoneInv
  <1>2. CASE Writing
    <2>1. Types /\ Control /\ WritingInv
      BY <1>2 DEF ContainerInv
    <2>2. /\ file \in File /\ file.disk \in Seq(Cell) /\ Image(file) \in Seq(Cell)
          /\ file.bytes_written \in Nat /\ Len(file.disk) \in Nat /\ Len(file.disk) \in 0..Len(file.disk)
      <3>1. file \in File
        BY <2>1 DEF Types
      <3>2. file.disk \in Seq(Cell) /\ file.bytes_written \in Nat /\ Image(file) \in Seq(Cell)
            /\ Len(file.disk) \in Nat
        BY <3>1, ImageFacts, Zenon DEF File
      <3>3. Len(file.disk) \in 0..Len(file.disk)
        BY <3>2
      <3> QED
        BY <3>1, <3>2, <3>3
    <2>3. PICK e : e = SubSeq(file.disk, 1, Len(file.disk))
      BY Zenon
    <2>4. /\ e = file.disk /\ PrefixOf(e, Image(file)) /\ Len(Image(file)) \in Nat
          /\ Len(e) <= Len(Image(file))
          /\ Len(e) = Len(Image(file)) => e = Image(file)
      BY <2>2, <2>3, DiskCut, Zenon
    <2>5. CASE NoTailEnd(Image(file))
      BY <2>2, <2>4, <2>5, NoTailEndFacts, Zenon
    <2>6. CASE pc \in {"idle", "post", "sections"}
      <3>1. NoTailEnd(Image(file))
        BY <2>1, <2>2, <2>6, NoTailEndFacts DEF WritingInv
      <3> QED
        BY <2>5, <3>1
    <2>7. IsMeta(MetaCells)
      BY <2>1, MetaFacts, Zenon
    <2>8. CASE pc = "tail"
      <3>1. NoTailEnd(Image(file))
        BY <2>1, <2>2, <2>7, <2>8, MetaNoTailEnd, Zenon DEF WritingInv
      <3> QED
        BY <2>5, <3>1
    <2>9. CASE pc \in {"finalize", "sync"}
      <3>1. EndsInTail(Image(file), MetaCells, file.bytes_written) /\ CleanInv /\ k > 2 * N /\ boot
        BY <2>1, <2>9 DEF WritingInv, Control
      <3>2. ~(Len(e) < Len(Image(file)))
        BY <2>2, <2>4, <2>7, <3>1, CutNoTailEnd, Zenon
      <3>3. file.disk = Image(file)
        BY <2>2, <2>4, <3>2
      <3> QED
        BY <3>1, <3>3 DEF Sealed, CleanInv
    <2> QED
      BY <2>1, <2>6, <2>8, <2>9 DEF Types, Pcs
  <1> QED
    BY <1>1, <1>2

\* The last cell of a sealed file, and where its meta region is.
LEMMA SealedFacts ==
    ASSUME Types, Sealed, NEW n, n = Len(file.disk)
    PROVE  LET d == file.disk
               tp == [off |-> file.bytes_written - 4, len |-> 2, checksum |-> MetaCells]
           IN  /\ n \in Nat /\ n >= 4 /\ file.bytes_written \in Nat /\ file.bytes_written >= 4
               /\ d[n].sec = "tail" /\ d[n].part = 2 /\ d[n].says = tp
               /\ d[n - 1].sec = "tail" /\ d[n - 1].part = 1 /\ d[n - 1].says = tp
               /\ d[n - 3] = MetaCells[1] /\ d[n - 2] = MetaCells[2]
               /\ \A j \in 1..n : d[j].sec = "meta" => j = n - 3 \/ j = n - 2
  <1>1. PICK d \in Seq(Cell), b \in Nat, m \in {MetaCells} : d = file.disk /\ b = file.bytes_written /\ m = MetaCells
    BY DEF Types, File
  <1>2. /\ n >= 4 /\ b >= 4
        /\ \A j \in 1..(n - 4) : d[j].sec \notin {"meta", "tail"}
        /\ d[n - 3] = m[1] /\ d[n - 2] = m[2]
        /\ d[n - 1] = TailCells(b - 4, 2, m)[1] /\ d[n] = TailCells(b - 4, 2, m)[2]
    BY <1>1, Zenon DEF Sealed, EndsInTail
  <1>3. n \in Nat /\ b - 4 \in Nat /\ IsMeta(m)
    <2>1. IsMeta(m)
      BY <1>1, MetaFacts, Zenon
    <2>2. n \in Nat /\ b - 4 \in Nat
      BY <1>1, <1>2
    <2> QED
      BY <2>1, <2>2
  <1>4. PICK tp : tp = [off |-> b - 4, len |-> 2, checksum |-> m]
    BY Zenon
  <1>5. /\ d[n].sec = "tail" /\ d[n].part = 2 /\ d[n].says = tp
        /\ d[n - 1].sec = "tail" /\ d[n - 1].part = 1 /\ d[n - 1].says = tp
    <2>1. PICK t : t = TailCells(b - 4, 2, m)
      OBVIOUS
    <2>2. /\ t[1].sec = "tail" /\ t[1].part = 1 /\ t[1].says = tp
          /\ t[2].sec = "tail" /\ t[2].part = 2 /\ t[2].says = tp
      BY <1>3, <1>4, <2>1, TailFacts, Zenon
    <2>3. d[n - 1] = t[1] /\ d[n] = t[2]
      BY <1>2, <2>1, Zenon
    <2> QED
      BY <2>2, <2>3, Zenon
  <1>6. ASSUME NEW j \in 1..n, d[j].sec = "meta"
        PROVE  j = n - 3 \/ j = n - 2
    <2>1. j \in 1..(n - 4) \/ j = n - 3 \/ j = n - 2 \/ j = n - 1 \/ j = n
      <3>1. PICK l \in Nat : l = n /\ l >= 4
        BY <1>2, <1>3
      <3>2. \A i \in 1..l : i \in 1..(l - 4) \/ i = l - 3 \/ i = l - 2 \/ i = l - 1 \/ i = l
        BY <3>1
      <3> QED
        BY <3>1, <3>2, Zenon
    <2>2. j \notin 1..(n - 4)
      BY <1>2, <1>6
    <2>3. j # n - 1 /\ j # n
      BY <1>5, <1>6
    <2> QED
      BY <2>1, <2>2, <2>3
  <1> QED
    BY <1>1, <1>2, <1>3, <1>4, <1>5, <1>6, Zenon

Listing == [i \in DOMAIN indexes |-> [index |-> indexes[i], refs |-> place[i]]]

\* Two cells read from a file.
LEMMA CellPair ==
    ASSUME NEW d \in Seq(Cell), NEW o \in Nat, o + 2 <= Len(d)
    PROVE  LET r == SubSeq(d, o + 1, o + 2)
           IN  r \in Seq(Cell) /\ Len(r) = 2 /\ r[1] = d[o + 1] /\ r[2] = d[o + 2]
  <1> PICK n \in Nat : n = Len(d)
    OBVIOUS
  <1>1. PICK r : r = SubSeq(d, o + 1, o + 2)
    BY Zenon
  <1>2. (o + 2) - (o + 1) + 1 = 2 /\ o + 1 \in 1..(n + 1) /\ o + 2 \in o..n
    OBVIOUS
  <1>3. r \in Seq(Cell) /\ Len(r) = 2 /\ \A j \in 1..2 : r[j] = d[(o + 1) + j - 1]
    BY <1>1, <1>2
  <1>4. r[1] = d[(o + 1) + 1 - 1] /\ r[2] = d[(o + 1) + 2 - 1]
    BY <1>3
  <1> QED
    BY <1>1, <1>3, <1>4

\* A file the reader opens is sealed, every byte of it is counted, and its directory
\* is the one finish() wrote: only there does the checksum meet meta cells.
LEMMA OpensFacts ==
    ASSUME ContainerInv, Opens(file.disk)
    PROVE  /\ Types /\ Sealed /\ Len(file.disk) = file.bytes_written
           /\ Directory(file.disk) = Listing
  <1>1. Types
    BY DEF ContainerInv
  <1>2. PICK d \in Seq(Cell), b \in Nat, n \in Nat, m \in {MetaCells} :
           d = file.disk /\ b = file.bytes_written /\ n = Len(d) /\ m = MetaCells
    BY <1>1 DEF Types, File
  <1>3. HasTail(d) /\ MetaMatches(d)
    BY <1>2, Zenon DEF Opens
  <1>4. n >= 2 /\ d[n].sec = "tail" /\ d[n].part = 2
    BY <1>2, <1>3, Zenon DEF HasTail
  <1>5. ~NoTailEnd(d)
    <2>1. n \in 1..n
      BY <1>4
    <2> QED
      BY <1>2, <1>4, <2>1, Zenon DEF NoTailEnd
  <1>6. Sealed
    BY <1>2, <1>5, TailMeansSealed, Zenon
  <1>7. PICK tp : tp = [off |-> b - 4, len |-> 2, checksum |-> m]
    BY Zenon
  <1>8. /\ n >= 4 /\ b >= 4 /\ d[n].says = tp
        /\ \A j \in 1..n : d[j].sec = "meta" => j = n - 3 \/ j = n - 2
    BY <1>1, <1>2, <1>6, <1>7, SealedFacts, Zenon
  <1>9. tp.off = b - 4 /\ tp.len = 2 /\ tp.checksum = m
    BY <1>7
  <1>10. IsMeta(m) /\ m[1].says = Listing
    BY <1>1, <1>2, MetaFacts, Zenon DEF Listing
  <1>11. (b - 4) + 2 <= n /\ SubSeq(d, (b - 4) + 1, (b - 4) + 2) = m
    BY <1>2, <1>3, <1>8, <1>9, Zenon DEF MetaMatches
  <1>12. d[(b - 4) + 1] = m[1] /\ d[(b - 4) + 2] = m[2]
    <2>1. PICK o \in Nat : o = b - 4
      BY <1>8
    <2>2. /\ SubSeq(d, o + 1, o + 2)[1] = d[o + 1]
          /\ SubSeq(d, o + 1, o + 2)[2] = d[o + 2]
      <3>1. o + 2 <= Len(d)
        BY <1>2, <1>11, <2>1, Zenon
      <3> QED
        BY <3>1, CellPair, Zenon
    <2> QED
      BY <1>11, <2>1, <2>2, Zenon
  <1>13. (b - 4) + 1 \in 1..n /\ (b - 4) + 2 \in 1..n
    BY <1>8, <1>11
  <1>14. b = n
    <2>1. d[(b - 4) + 1].sec = "meta" /\ d[(b - 4) + 2].sec = "meta"
      BY <1>10, <1>12, Zenon DEF IsMeta
    <2>2. /\ (b - 4) + 1 = n - 3 \/ (b - 4) + 1 = n - 2
          /\ (b - 4) + 2 = n - 3 \/ (b - 4) + 2 = n - 2
      BY <1>8, <1>13, <2>1, Zenon
    <2> QED
      BY <2>2
  <1>15. Directory(d) = Listing
    BY <1>2, <1>8, <1>9, <1>10, <1>12, Zenon DEF Directory
  <1> QED
    BY <1>1, <1>2, <1>6, <1>14, <1>15, Zenon

\* Stored cells are what the reader's region holds.
LEMMA StoredRegion ==
    ASSUME NEW d \in Seq(Cell), NEW off \in Nat, NEW len \in Nat, NEW c \in Seq(Cell),
           Stored(d, off, len, c)
    PROVE  Region(d, off, len) = c
  <1>1. len = Len(c) /\ off + len <= Len(d) /\ \A j \in 1..len : d[off + j] = c[j]
    BY DEF Stored
  <1>2. PICK r : r = SubSeq(d, off + 1, off + len)
    BY Zenon
  <1>3. r \in Seq(Cell) /\ Len(r) = len /\ \A j \in 1..len : r[j] = d[off + j]
    <2>1. PICK l \in Nat : l = Len(d) /\ off + len <= l
      BY <1>1
    <2> QED
      BY <1>2, <2>1
  <1>4. r = c
    BY <1>1, <1>3
  <1> QED
    BY <1>2, <1>4, Zenon DEF Region

\* Whatever was written, failed, repeated or cut off before: the refs of a container
\* the reader opens name exactly the sections of the indexes it lists.
THEOREM ReaderRight == Spec => []ReaderNeverWrong
  <1>1. ContainerInv => ReaderNeverWrong
    <2> SUFFICES ASSUME ContainerInv, Opens(file.disk), NEW e \in Range(Directory(file.disk))
                 PROVE  /\ Region(file.disk, e.refs.post_off, e.refs.post_len) = PostRegion(e.index)
                        /\ Region(file.disk, e.refs.dict_off, e.refs.dict_len) = DictCells(e.index)
                        /\ Region(file.disk, e.refs.norms_off, e.refs.norms_len) = NormsCells(e.index)
                        /\ Region(file.disk, e.refs.bsbf_off, e.refs.bsbf_len) = BsbfCells(e.index)
      BY Zenon DEF ReaderNeverWrong
    <2>1. /\ Types /\ Sealed /\ Len(file.disk) = file.bytes_written
          /\ Directory(file.disk) = Listing
      BY OpensFacts, Zenon
    <2>2. N \in Nat /\ DOMAIN indexes = 1..N /\ N = Len(indexes) /\ k \in Nat
      BY <2>1 DEF Types, N
    <2>3. PICK i \in 1..N : e = [index |-> indexes[i], refs |-> place[i]]
      BY <2>1, <2>2 DEF Range, Listing
    <2>4. PICK x \in Indexes, p \in Place : x = indexes[i] /\ p = place[i]
      BY <2>1, <2>2 DEF Types
    <2>5. e.index = x /\ e.refs = p
      BY <2>3, <2>4
    <2>6. PICK d \in Seq(Cell) : d = file.disk
      BY <2>1 DEF Types, File
    <2>7. RefsRight(d, p, x, k > i, k > N + i)
      BY <2>1, <2>2, <2>4, <2>6, Zenon DEF Sealed, PlacesRight
    <2>8. (k > i) = TRUE /\ (k > N + i) = TRUE
      <3>1. k > 2 * N
        BY <2>1 DEF Sealed
      <3> QED
        BY <2>2, <3>1
    <2>9. RefsRight(d, p, x, TRUE, TRUE)
      BY <2>7, <2>8, Zenon
    <2>10. /\ Stored(d, p.post_off, p.post_len, PostRegion(x))
           /\ Stored(d, p.dict_off, p.dict_len, DictCells(x))
           /\ Stored(d, p.norms_off, p.norms_len, NormsCells(x))
           /\ Stored(d, p.bsbf_off, p.bsbf_len, BsbfCells(x))
      BY <2>9, Zenon DEF RefsRight
    <2>11. /\ p.post_off \in Nat /\ p.post_len \in Nat /\ p.dict_off \in Nat /\ p.dict_len \in Nat
           /\ p.norms_off \in Nat /\ p.norms_len \in Nat /\ p.bsbf_off \in Nat /\ p.bsbf_len \in Nat
      BY Zenon DEF Place
    <2>12. PostRegion(x) \in Seq(Cell)
      <3>1. Len(PostEnds[x]) \in Nat
        BY CompoundAssumption
      <3>2. Len(PostEnds[x]) + 1 \in 1..(Len(PostEnds[x]) + 1)
        BY <3>1
      <3>3. PostStart(x, Len(PostEnds[x]) + 1) \in Nat
        BY <3>2, PostStartNat, Zenon
      <3>4. "post" \in Sections /\ x \in Nat
        BY IndexFacts DEF Sections
      <3> QED
        BY <3>3, <3>4, CellsFacts, Zenon DEF PostRegion
    <2>13. DictCells(x) \in Seq(Cell) /\ NormsCells(x) \in Seq(Cell) /\ BsbfCells(x) \in Seq(Cell)
      BY SectionFacts, Zenon
    <2>14. /\ Region(d, p.post_off, p.post_len) = PostRegion(x)
           /\ Region(d, p.dict_off, p.dict_len) = DictCells(x)
           /\ Region(d, p.norms_off, p.norms_len) = NormsCells(x)
           /\ Region(d, p.bsbf_off, p.bsbf_len) = BsbfCells(x)
      BY <2>10, <2>11, <2>12, <2>13, StoredRegion, Zenon
    <2> QED
      BY <2>5, <2>6, <2>14, Zenon
  <1> QED
    BY <1>1, ContainerInvariant, PTL

\* finish() that returns OK, with no byte on disk that it did not count, has left a
\* container the reader opens and that lists the added indexes in order.
THEOREM FinishLeavesReadable == Spec => []FinishReadable
  <1>1. ContainerInv => FinishReadable
    <2> SUFFICES ASSUME ContainerInv, ret = "ok", file.bytes_written = Len(file.disk)
                 PROVE  /\ Opens(file.disk)
                        /\ [i \in DOMAIN Directory(file.disk) |-> Directory(file.disk)[i].index] = indexes
      BY Zenon DEF FinishReadable
    <2>1. Types /\ Sealed
      BY DEF ContainerInv, Control, Writing, DoneInv, Types
    <2>2. PICK d \in Seq(Cell), n \in Nat, m \in {MetaCells} : d = file.disk /\ n = Len(d) /\ m = MetaCells
      BY <2>1 DEF Types, File
    <2>3. PICK tp : tp = [off |-> n - 4, len |-> 2, checksum |-> m]
      BY Zenon
    <2>4. /\ n >= 4 /\ d[n].sec = "tail" /\ d[n].part = 2 /\ d[n].says = tp
          /\ d[n - 1].sec = "tail" /\ d[n - 1].part = 1 /\ d[n - 1].says = tp
          /\ d[n - 3] = m[1] /\ d[n - 2] = m[2]
      BY <2>1, <2>2, <2>3, SealedFacts, Zenon
    <2>5. tp.off = n - 4 /\ tp.len = 2 /\ tp.checksum = m
      BY <2>3
    <2>6. IsMeta(m)
      BY <2>1, <2>2, MetaFacts, Zenon
    <2>7. /\ n - 4 \in Nat /\ (n - 4) + 2 <= n /\ (n - 4) + 1 = n - 3 /\ (n - 4) + 2 = n - 2
          /\ n >= 2 /\ n > 0 /\ 2 # 0
      BY <2>4
    <2>8. SubSeq(d, (n - 4) + 1, (n - 4) + 2) = m
      <3>1. PICK r : r = SubSeq(d, (n - 4) + 1, (n - 4) + 2)
        BY Zenon
      <3>2. r \in Seq(Cell) /\ Len(r) = 2 /\ r[1] = d[(n - 4) + 1] /\ r[2] = d[(n - 4) + 2]
        BY <2>2, <2>7, <3>1, CellPair, Zenon
      <3>3. m \in Seq(Cell) /\ Len(m) = 2 /\ r[1] = m[1] /\ r[2] = m[2]
        BY <2>4, <2>6, <2>7, <3>2, Zenon DEF IsMeta
      <3>4. \A j \in 1..2 : r[j] = m[j]
        BY <3>3
      <3>5. r = m
        BY <3>2, <3>3, <3>4
      <3> QED
        BY <3>1, <3>5, Zenon
    <2>9. MetaMatches(d)
      BY <2>2, <2>4, <2>5, <2>7, <2>8, Zenon DEF MetaMatches
    <2>10. HasTail(d)
      BY <2>2, <2>4, <2>7, Zenon DEF HasTail
    <2>11. Len(d) > 0 /\ d[1].sec = "boot"
      BY <2>1, <2>2, <2>7, Zenon DEF Sealed, Headed
    <2>12. Opens(file.disk)
      BY <2>2, <2>9, <2>10, <2>11, Zenon DEF Opens
    <2>13. Directory(file.disk) = Listing
      BY <2>12, OpensFacts, Zenon
    <2>14. [i \in DOMAIN Listing |-> Listing[i].index] = indexes
      BY <2>1 DEF Listing, Types
    <2> QED
      BY <2>12, <2>13, <2>14, Zenon
  <1> QED
    BY <1>1, ContainerInvariant, PTL

----------------------------------------------------------------------------
(* The writer implements Container. *)

\* A reader finds nothing, or exactly the indexes whose add succeeded.
LEMMA VisibleFacts ==
    ContainerInv => /\ Opens(file.disk) => Visible = Range(indexes)
                    /\ ~Opens(file.disk) => Visible = Unreadable
  <1> SUFFICES ASSUME ContainerInv, Opens(file.disk)
               PROVE  Visible = Range(indexes)
    BY DEF Visible
  <1>1. Directory(file.disk) = Listing
    BY OpensFacts, Zenon
  <1>2. {e.index : e \in Range(Listing)} = Range(indexes)
    <2>1. \A i \in DOMAIN indexes : Listing[i].index = indexes[i]
      BY DEF Listing
    <2>2. DOMAIN Listing = DOMAIN indexes
      BY DEF Listing
    <2> QED
      BY <2>1, <2>2 DEF Range
  <1> QED
    BY <1>1, <1>2 DEF Visible

\* Once finish() has returned OK only a crash is left, and it takes nothing.
LEMMA DurableStep ==
    ASSUME ContainerInv, ret = "ok", Next
    PROVE  file'.disk = file.disk /\ indexes' = indexes /\ ret' = ret
  <1>1. Types /\ Control
    BY DEF ContainerInv
  <1>2. pc = "idle" /\ finished
    BY <1>1 DEF Control, Types
  <1>3. Crash
    BY <1>2 DEF Next, BeginAdd, AddPosting, AddRejected, AddDict, BeginFinish, FinishSection,
                FinishMeta, FinishTail, FinalizeFlush, FinalizeSync
  <1>4. PICK n \in 0..Len(file.disk) :
           /\ n = Len(file.disk)
           /\ file' = [file EXCEPT !.disk = SubSeq(@, 1, n), !.buf = <<>>]
    BY <1>3, Zenon DEF Crash
  <1>5. file \in File /\ file.disk \in Seq(Cell)
    BY <1>1 DEF Types, File
  <1>6. SubSeq(file.disk, 1, n) = file.disk
    BY <1>4, <1>5
  <1>7. file'.disk = SubSeq(file.disk, 1, n)
    BY <1>4, <1>5, Zenon DEF File
  <1> QED
    BY <1>3, <1>6, <1>7 DEF Crash

\* Only a successful add, or the end of finish(), is seen from outside.
LEMMA OtherSteps ==
    ASSUME ContainerInv, Next, ret # "ok"
    PROVE  \/ indexes' = indexes /\ (ret' = "ok" => FinalizeSync)
           \/ AddDict /\ indexes' = Append(indexes, cur.index) /\ ret' = ret
  BY Zenon DEF Next, BeginAdd, AddPosting, AddRejected, AddDict, BeginFinish, FinishSection,
         FinishMeta, FinishTail, FinalizeFlush, FinalizeSync, Crash, AppendFails

\* No add call runs on a file that can be read.
LEMMA AddUnreadable == ContainerInv /\ ~finished /\ ~crashed => ~Opens(file.disk)
  <1> SUFFICES ASSUME ContainerInv, ~finished, ~crashed, Opens(file.disk)
               PROVE  FALSE
    OBVIOUS
  <1>1. Types /\ Sealed
    BY OpensFacts, Zenon
  <1>2. WritingInv /\ Control
    BY DEF ContainerInv, Writing
  <1>3. Plain(Image(file)) /\ file \in File
    BY <1>1, <1>2 DEF Control, WritingInv, Types
  <1>4. PICK n \in Nat : n = Len(file.disk) /\ n >= 4 /\ file.disk[n].sec = "tail"
    BY <1>1, SealedFacts, Zenon
  <1>5. n \in 1..Len(file.disk) /\ n \in 1..Len(Image(file)) /\ Image(file)[n] = file.disk[n]
    <2>1. /\ Len(Image(file)) = Len(file.disk) + Len(file.buf) /\ Len(file.buf) \in Nat
          /\ \A j \in 1..Len(file.disk) : Image(file)[j] = file.disk[j]
      BY <1>3, ImageFacts, Zenon
    <2>2. PICK b \in Nat : b = Len(file.buf)
      BY <2>1
    <2>3. n \in 1..n /\ n \in 1..(n + b)
      BY <1>4
    <2> QED
      BY <1>4, <2>1, <2>2, <2>3, Zenon
  <1> QED
    BY <1>3, <1>4, <1>5 DEF Plain

\* What a reader finds is a matter of the disk alone.
LEMMA VisibleSame ==
    ASSUME file'.disk = file.disk
    PROVE  Visible' = Visible
  BY DEF Visible, Opens, HasTail, MetaMatches, Directory

\* Every step of the writer is a step of Container, or none.
LEMMA RefinesStep ==
    ASSUME ContainerInv, ContainerInv', [Next]_vars
    PROVE  [Abstract!CNext]_(Abstract!cvars)
  <1>1. CASE UNCHANGED vars
    <2>1. file'.disk = file.disk /\ indexes' = indexes /\ ret' = ret
      BY <1>1 DEF vars
    <2> QED
      BY <2>1, VisibleSame DEF Abstract!cvars
  <1>2. CASE Next /\ ret = "ok"
    <2>1. file'.disk = file.disk /\ indexes' = indexes /\ ret' = ret
      BY <1>2, DurableStep
    <2> QED
      BY <2>1, VisibleSame DEF Abstract!cvars
  <1>3. CASE AddDict /\ indexes' = Append(indexes, cur.index) /\ ret' = ret
    <2>1. Types /\ Control /\ pc = "post" /\ ~finished /\ ~crashed
      BY <1>3 DEF ContainerInv, AddDict, Control
    <2>2. ~finished' /\ ~crashed'
      BY <1>3, <2>1 DEF AddDict, AppendFails
    <2>3. ~Opens(file.disk)
      BY <2>1, AddUnreadable
    <2>4. ~Opens(file'.disk)
      <3>1. (ContainerInv /\ ~finished /\ ~crashed => ~Opens(file.disk))'
        BY AddUnreadable, PTL
      <3> QED
        BY <2>2, <3>1
    <2>5. Visible = Unreadable /\ Visible' = Unreadable
      BY <2>3, <2>4 DEF Visible, Unreadable
    <2>6. cur.index \in Indexes \ Range(indexes) /\ indexes \in Seq(Indexes)
      BY <2>1 DEF Control, Types
    <2>7. Range(indexes') = Range(indexes) \cup {cur.index}
      BY <1>3, <2>6 DEF Range
    <2>8. Abstract!CAdd
      BY <1>3, <2>5, <2>6, <2>7 DEF Abstract!CAdd
    <2> QED
      BY <2>8 DEF Abstract!CNext
  <1>4. CASE ret # "ok" /\ indexes' = indexes /\ ret' = "ok" /\ FinalizeSync
    <2>1. file'.disk = file.disk
      BY <1>4 DEF FinalizeSync
    <2>2. Abstract!CCommit
      BY <1>4, <2>1, VisibleSame DEF Abstract!CCommit
    <2> QED
      BY <2>2 DEF Abstract!CNext
  <1>5. CASE ret # "ok" /\ indexes' = indexes /\ ret' # "ok"
    <2>1. Visible = Unreadable \/ Visible = Range(indexes)
      BY VisibleFacts
    <2>2. Visible' = Unreadable \/ Visible' = Range(indexes)
      <3>1. ContainerInv' => /\ Opens(file'.disk) => Visible' = Range(indexes')
                             /\ ~Opens(file'.disk) => Visible' = Unreadable
        <4>1. (ContainerInv => /\ Opens(file.disk) => Visible = Range(indexes)
                               /\ ~Opens(file.disk) => Visible = Unreadable)'
          BY VisibleFacts, PTL
        <4> QED
          BY <4>1 DEF Unreadable
      <3> QED
        BY <1>5, <3>1
    <2>3. CASE Visible' = Unreadable
      BY <1>5, <2>3 DEF Abstract!CNext, Abstract!CLose
    <2>4. CASE Visible' = Range(indexes) /\ Visible = Unreadable
      BY <1>5, <2>4 DEF Abstract!CNext, Abstract!CPublish
    <2>5. CASE Visible' = Range(indexes) /\ Visible = Range(indexes)
      BY <1>5, <2>5 DEF Abstract!cvars
    <2> QED
      BY <2>1, <2>2, <2>3, <2>4, <2>5
  <1> QED
    BY <1>1, <1>2, <1>3, <1>4, <1>5, OtherSteps

\* The writer implements the container its readers see: published in one step, with
\* exactly the added indexes, and final once finish() has returned OK.
THEOREM WriterPublishesAtomically == Spec => PublishedAtomically
  <1>1. Init => Abstract!CInit
    <2> SUFFICES ASSUME Init PROVE Abstract!CInit
      OBVIOUS
    <2>1. Range(indexes) = {} /\ ret # "ok" /\ ~Opens(file.disk)
      BY DEF Init, Range, Opens
    <2> QED
      BY <2>1 DEF Abstract!CInit, Visible
  <1>2. ContainerInv /\ ContainerInv' /\ [Next]_vars => [Abstract!CNext]_(Abstract!cvars)
    BY RefinesStep
  <1> QED
    BY <1>1, <1>2, ContainerInvariant, PTL DEF Spec, PublishedAtomically, Abstract!CSpec
============================================================================
