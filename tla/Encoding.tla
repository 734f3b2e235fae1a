------------------------------ MODULE Encoding ------------------------------
(***************************************************************************)
(* The byte encodings every on-disk structure of the index is built from:  *)
(* little-endian integers, LEB128 varints, bounded reading of a byte       *)
(* source, patched frame-of-reference (PFOR) blocks and the checksummed    *)
(* section frame (core/src/encoding).                                      *)
(*                                                                         *)
(* A byte string is a sequence of 0..255.  A reader returns the value Err  *)
(* where the code returns a Corruption status.  The values written stay    *)
(* below 2^31, so the 32-bit and the 64-bit varint are one encoding here.  *)
(***************************************************************************)
EXTENDS Integers, Sequences, SequencesExt, FiniteSetsExt, TLC

CONSTANTS Err,       \* what a reader returns instead of a value on corrupt input
          ExcCost    \* bytes pfor's width choice charges for an exception (6)

\* s itself, with every element evaluated once.
Eager(s) == s \o <<>>

\* Goes on with v, unless v is an error: SNII_RETURN_IF_ERROR.
Then(v, Do(_)) == IF v = Err THEN Err ELSE Do(v)

\* Goes on with v, evaluated once.
With(v, Do(_)) == Do(v)

\* op applied to the elements of s from the left, starting from base.
Fold(op(_, _), base, s) ==
  LET t == Eager(s)
      f[i \in 0..Len(t)] == IF i = 0 THEN base ELSE op(f[i - 1], t[i])
  IN  f[Len(t)]

\* A set of numbers in ascending order.
RECURSIVE Sorted(_)
Sorted(S) == IF S = {} THEN <<>> ELSE <<Min(S)>> \o Sorted(S \ {Min(S)})

Count(n) == Eager([i \in 1..n |-> i])

RECURSIVE ConcatRange(_, _, _)
ConcatRange(ss, i, j) ==
  IF i > j THEN <<>> ELSE IF i = j THEN ss[i]
  ELSE ConcatRange(ss, i, (i + j) \div 2) \o ConcatRange(ss, (i + j) \div 2 + 1, j)
Concat(ss) == With(Eager(ss), LAMBDA t : ConcatRange(t, 1, Len(t)))

\* The bytes [p, p + n) of b; Err if b ends before (ByteSource::get_bytes).
Take(b, p, n) ==
  IF n < 0 \/ p + n > Len(b) THEN Err ELSE SubSeq(b, p + 1, p + n)

(***************************************************************************)
(* Integers.                                                               *)
(***************************************************************************)
RECURSIVE PutFixed(_, _)
PutFixed(v, n) ==
  IF n = 0 THEN <<>> ELSE <<v % 256>> \o PutFixed(v \div 256, n - 1)

\* Stands for every number far beyond the length of any file of the model.
kHuge == 2^29
Shifted(low, base, high) ==
  IF high >= (2^30 \div base) * 2 THEN kHuge ELSE low + base * high

RECURSIVE LittleEndian(_)
LittleEndian(b) ==
  IF b = <<>> THEN 0 ELSE Shifted(Head(b), 256, LittleEndian(Tail(b)))

RECURSIVE Varint(_)
Varint(v) ==
  IF v < 128 THEN <<v>> ELSE <<128 + (v % 128)>> \o Varint(v \div 128)

RECURSIVE VarintLen(_)
VarintLen(v) == IF v < 128 THEN 1 ELSE 1 + VarintLen(v \div 128)

\* <<value, next position>>.  At most ten bytes: a tenth continuation is an
\* overflow of 64 bits.
RECURSIVE DecodeVarint(_, _, _)
DecodeVarint(b, p, i) ==
  IF p >= Len(b) \/ i = 10 THEN Err
  ELSE IF b[p + 1] < 128 THEN <<b[p + 1], p + 1>>
  ELSE Then(DecodeVarint(b, p + 1, i + 1), LAMBDA rest :
         <<Shifted(b[p + 1] % 128, 128, rest[1]), rest[2]>>)

Blob(b) == Varint(Len(b)) \o b

(***************************************************************************)
(* ByteSource.  A field is read at a position and gives <<value, next>>.   *)
(***************************************************************************)
GetBytes(b, p, n) == Then(Take(b, p, n), LAMBDA s : <<s, p + n>>)

GetFixed(b, p, n) == Then(Take(b, p, n), LAMBDA s : <<LittleEndian(s), p + n>>)

GetBlob(b, p) == Then(DecodeVarint(b, p, 0), LAMBDA n : GetBytes(b, n[2], n[1]))

GetField(kind, b, p) ==
  CASE kind = "varint" -> DecodeVarint(b, p, 0)
    [] kind = "u8"     -> GetFixed(b, p, 1)
    [] kind = "u16"    -> GetFixed(b, p, 2)
    [] kind = "u32"    -> GetFixed(b, p, 4)
    [] kind = "u64"    -> GetFixed(b, p, 8)
    [] kind = "blob"   -> GetBlob(b, p)

\* n items from p on, each read by Get(the items before it, its position) as
\* <<item, next position>>: <<items, next position>>.
GetMany(n, p, Get(_, _)) ==
  LET One(acc, i) ==
        Then(acc, LAMBDA a : Then(Get(a[1], a[2]), LAMBDA r : <<Append(a[1], r[1]), r[2]>>))
  IN  Fold(One, <<<<>>, p>>, Count(n))

\* Reads a list of <<name, kind>> fields in order: the record of their values,
\* with "pos" the position after the last; Err at the first field that fails.
GetFields(b, p, fields) ==
  LET Read(acc, f) ==
        Then(acc, LAMBDA a : Then(GetField(f[2], b, a.pos), LAMBDA g :
          ("pos" :> g[2]) @@ (f[1] :> g[1]) @@ a))
  IN  Fold(Read, [pos |-> p], fields)

(***************************************************************************)
(* PFOR: values are bit-packed at the width that minimises the estimated   *)
(* size; the ones that do not fit are packed as 0 and listed after it.     *)
(***************************************************************************)
RECURSIVE BitsFor(_)
BitsFor(v) == IF v = 0 THEN 0 ELSE 1 + BitsFor(v \div 2)

PackedLen(w, n) == (w * n + 7) \div 8

Exceptions(v, w) == SelectSeq(Count(Len(v)), LAMBDA i : BitsFor(v[i]) > w)

ChooseWidth(v) ==
  LET widths  == 0..Max({0} \cup {BitsFor(v[i]) : i \in 1..Len(v)})
      cost[w \in widths] == PackedLen(w, Len(v)) + ExcCost * Len(Exceptions(v, w))
  IN  CHOOSE w \in widths : \A u \in widths :
        cost[w] < cost[u] \/ (cost[w] = cost[u] /\ w <= u)

RECURSIVE Bits(_, _)
Bits(v, w) == IF w = 0 THEN <<>> ELSE <<v % 2>> \o Bits(v \div 2, w - 1)

RECURSIVE FromBits(_)
FromBits(s) == IF s = <<>> THEN 0 ELSE Head(s) + 2 * FromBits(Tail(s))

\* Bit j of value i is bit w * i + j of the packed bytes, low bits first.
BitPack(v, w) ==
  With(Concat([i \in 1..Len(v) |-> Bits(v[i], w)]), LAMBDA bits :
    Eager([k \in 1..PackedLen(w, Len(v)) |->
      FromBits(SubSeq(bits, 8 * k - 7, Min({8 * k, Len(bits)})))]))

BitUnpack(s, w, n) ==
  LET bits == Concat([k \in 1..Len(s) |-> Bits(s[k], 8)])
  IN  Eager([i \in 1..n |-> FromBits(SubSeq(bits, w * (i - 1) + 1, w * i))])

PforEncode(v) ==
  With(ChooseWidth(v), LAMBDA w : With(Exceptions(v, w), LAMBDA exc :
    LET low == Eager([i \in 1..Len(v) |-> IF BitsFor(v[i]) > w THEN 0 ELSE v[i]])
        Patch(k) == Varint(exc[k] - (IF k = 1 THEN 1 ELSE exc[k - 1])) \o Varint(v[exc[k]])
    IN  <<w>> \o Varint(Len(exc)) \o BitPack(low, w)
        \o Concat([k \in 1..Len(exc) |-> Patch(k)])))

\* Fault: the values that did not fit their width are left as packed.
BadPforDecode(b, p, n) ==
  LET Skip(pos, k) == GetFields(b, pos, <<<<"d", "varint">>, <<"v", "varint">>>>).pos
  IN  Then(GetFields(b, p, <<<<"w", "u8">>, <<"exc", "varint">>>>), LAMBDA h :
      Then(GetBytes(b, h.pos, PackedLen(h.w, n)), LAMBDA low :
        <<BitUnpack(low[1], h.w, n), Fold(Skip, low[2], Count(h.exc))>>))
\* <<values, next position>>; an exception index past the block is corrupt.
PforDecode(b, p, n) ==
  LET Patch(acc, k) ==
        Then(acc, LAMBDA a :
        Then(GetFields(b, a.pos, <<<<"d", "varint">>, <<"v", "varint">>>>), LAMBDA e :
          IF a.idx + e.d >= n THEN Err
          ELSE [idx |-> a.idx + e.d, pos |-> e.pos,
                out |-> [a.out EXCEPT ![a.idx + e.d + 1] = e.v]]))
  IN  Then(GetFields(b, p, <<<<"w", "u8">>, <<"exc", "varint">>>>), LAMBDA h :
      Then(GetBytes(b, h.pos, PackedLen(h.w, n)), LAMBDA low :
      Then(Fold(Patch, [idx |-> 0, pos |-> low[2], out |-> BitUnpack(low[1], h.w, n)],
                Count(h.exc)), LAMBDA all :
        <<all.out, all.pos>>)))

(***************************************************************************)
(* External: crc32c as some checksum of the bytes, zstd as some invertible *)
(* compression with a fixed overhead that shrinks only some inputs (here:  *)
(* a magic number, a bitmap of the zero bytes, and the other bytes).       *)
(***************************************************************************)
RECURSIVE Checksum(_, _, _)
Checksum(b, i, j) ==
  IF i > j THEN 1 ELSE IF i = j THEN b[i] + 2
  ELSE LET m == (i + j) \div 2
       IN  (31 * Checksum(b, i, m) + 17 * Checksum(b, m + 1, j) + 5) % 65521
Crc32c(b) == Checksum(b, 1, Len(b))

ZstdMagic == <<40, 181, 47, 253>>

ZstdCompress(b) ==
  ZstdMagic \o BitPack(Eager([i \in 1..Len(b) |-> IF b[i] = 0 THEN 0 ELSE 1]), 1)
            \o SelectSeq(b, LAMBDA x : x # 0)

\* expected is the uncompressed length; any other length is corrupt.
ZstdDecompress(b, expected) ==
  LET head == 4 + PackedLen(1, expected)
      Ones(map, i) == Len(SelectSeq(SubSeq(map, 1, i), LAMBDA x : x = 1))
  IN  IF Take(b, 0, 4) # ZstdMagic \/ Take(b, 0, head) = Err THEN Err
      ELSE With(BitUnpack(SubSeq(b, 5, head), 1, expected), LAMBDA map :
        IF head + Ones(map, expected) # Len(b) THEN Err
        ELSE Eager([i \in 1..expected |-> IF map[i] = 0 THEN 0 ELSE b[head + Ones(map, i)]]))

(***************************************************************************)
(* SectionFramer: type, length, payload and a checksum over all three.     *)
(***************************************************************************)
FrameWrite(type, payload) ==
  LET framed == <<type>> \o Blob(payload)
  IN  framed \o PutFixed(Crc32c(framed), 4)

\* [type, payload, pos] of the frame at p.
FrameRead(b, p) ==
  Then(GetFields(b, p, <<<<"type", "u8">>, <<"payload", "blob">>>>), LAMBDA f :
  Then(GetFixed(b, f.pos, 4), LAMBDA c :
    IF Crc32c(SubSeq(b, p + 1, f.pos)) # c[1] THEN Err ELSE [f EXCEPT !.pos = c[2]]))

=============================================================================
