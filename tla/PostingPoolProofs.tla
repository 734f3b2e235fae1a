------------------------- MODULE PostingPoolProofs --------------------------
(***************************************************************************)
(* The arena keeps what it is given, for every block size, slice ladder,   *)
(* pointer width and number of chains: the inductive invariant of          *)
(* PostingPool, what each piece of it gives about one cell, one logged     *)
(* byte, one writer, that every call keeps it, and the theorems.           *)
(*                                                                         *)
(* The invariant says where every byte of a chain is.  ArenaInv: cells from*)
(* next on are free.  WriterInv: what is left of a chain's tail slice      *)
(* belongs to it and its forward pointer is zero.  LogInv: each byte lies  *)
(* in a slice of the chain, and Link leads from it to the next one.        *)
(* CursorInv: a cursor stands right behind the last byte it yielded.       *)
(***************************************************************************)
EXTENDS PostingPool, TLAPS

Payload(c) == [chain |-> c, kind |-> "payload"]
Ptr(c) == [chain |-> c, kind |-> "ptr"]

\* The cells lo..hi-1 lie inside one of the n allocated blocks.
InBlock(lo, hi, n) ==
    \E b \in Nat : b < n /\ b * BlockSize <= lo /\ hi <= (b + 1) * BlockSize

ArenaInv ==
    /\ next <= blocks * BlockSize
    /\ \A a \in Offsets : a >= next => owner[a] = Free

WriterInv(c) ==
    LET w == writer[c] IN
    w.live =>
        /\ w.cur <= w.slice_end /\ w.slice_end + PtrBytes <= next
        /\ \A a \in w.cur..(w.slice_end - 1) : owner[a] = Payload(c)
        /\ \A a \in w.slice_end..(w.slice_end + PtrBytes - 1) :
              owner[a] = Ptr(c) /\ mem[a] = 0
        /\ InBlock(w.cur, w.slice_end + PtrBytes, blocks)
        /\ log[c] = <<>> =>
              w.cur = w.head /\ w.slice_end = w.head + SliceSizes[1] /\ w.level = 1

\* The byte after e is f: next to it, or where the forward pointer leads.
Link(e, f) ==
    \/ e.at + 1 < e.end /\ f.at = e.at + 1 /\ f.end = e.end /\ f.level = e.level
    \/ /\ e.at + 1 = e.end
       /\ mem[e.end] = f.at /\ f.at > 0
       /\ f.level = NextLevel(e.level) /\ f.end = f.at + SliceSizes[f.level]

\* One logged byte: its cell, the rest of its slice, and its pointer.
EntryInv(c, e) ==
    /\ e.at < e.end /\ e.end + PtrBytes <= next
    /\ e.at < writer[c].cur
    /\ mem[e.at] = e.val
    /\ \A a \in e.at..(e.end - 1) : owner[a] = Payload(c)
    /\ owner[e.end] = Ptr(c)
    /\ InBlock(e.at, e.end + PtrBytes, blocks)

LogInv(c) ==
    LET w == writer[c]
        n == Len(log[c])
    IN  n > 0 =>
        /\ w.live
        /\ \A i \in 1..n : EntryInv(c, log[c][i]) /\ i <= log[c][i].at + 1
        /\ \A i \in 1..(n - 1) : Link(log[c][i], log[c][i + 1])
        /\ log[c][1].at = w.head /\ log[c][1].level = 1
        /\ log[c][1].end = w.head + SliceSizes[1]
        /\ w.cur = log[c][n].at + 1 /\ w.slice_end = log[c][n].end
        /\ w.level = log[c][n].level

CursorInv ==
    LET c == cursor.chain
        n == Len(cursor.yielded)
    IN  c # NoChain =>
        /\ Len(log[c]) > 0
        /\ n + cursor.budget >= Len(log[c])
        /\ n = 0 => /\ cursor.cur = writer[c].head /\ cursor.level = 1
                    /\ cursor.slice_end = writer[c].head + SliceSizes[1]
        /\ n \in 1..Len(log[c]) => /\ cursor.cur = log[c][n].at + 1
                                   /\ cursor.slice_end = log[c][n].end
                                   /\ cursor.level = log[c][n].level
        /\ n >= Len(log[c]) => /\ cursor.slice_end = writer[c].slice_end
                               /\ writer[c].cur <= cursor.cur
                               /\ cursor.cur <= cursor.slice_end
        /\ \A i \in 1..n : i <= Len(log[c]) => cursor.yielded[i] = log[c][i].val

PoolInv ==
    /\ TypeOK /\ ArenaInv /\ CursorInv
    /\ \A c \in Chains : WriterInv(c) /\ LogInv(c)

----------------------------------------------------------------------------
(* Arithmetic of blocks. *)

\* Products with the block size are ordered as their other factors.
LEMMA MulMono ==
    ASSUME NEW p \in Nat, NEW q \in Nat, NEW b \in Nat, p <= q
    PROVE  p * b <= q * b
  BY SMT

\* A quotient and a remainder by the block size.
LEMMA DivMod ==
    ASSUME NEW x \in Nat, NEW b \in Nat \ {0}
    PROVE  /\ x \div b \in Nat /\ x % b \in 0..(b - 1)
           /\ x = (x \div b) * b + (x % b)
  BY SMT

\* An offset inside block q has block number q.
LEMMA DivInside ==
    ASSUME NEW x \in Nat, NEW b \in Nat \ {0}, NEW q \in Nat,
           q * b <= x, x < (q + 1) * b
    PROVE  x \div b = q
  BY SMT

\* Cells inside one of n blocks are inside one of more blocks, and so are fewer.
LEMMA InBlockMono ==
    ASSUME NEW lo \in Nat, NEW lo2 \in Nat, NEW hi \in Nat, NEW n \in Nat, NEW n2 \in Nat,
           InBlock(lo, hi, n), lo <= lo2, n <= n2
    PROVE  InBlock(lo2, hi, n2)
  <1>1. PICK b \in Nat : b < n /\ b * BlockSize <= lo /\ hi <= (b + 1) * BlockSize
    BY DEF InBlock
  <1>2. b < n2 /\ b * BlockSize <= lo2
    BY <1>1, PoolAssumption
  <1> QED
    BY <1>1, <1>2 DEF InBlock

\* The number of blocks once alloc_run(n) has run.
BlocksAfter(n) == IF NeedBlock(n) THEN blocks + 1 ELSE blocks

\* alloc_run gives cells that were free, inside one block.
LEMMA RunFacts ==
    ASSUME TypeOK, ArenaInv, NEW level \in Levels
    PROVE  /\ SliceSizes[level] \in Nat \ {0}
           /\ RunBytes(level) = SliceSizes[level] + PtrBytes
           /\ RunStart(RunBytes(level)) \in Nat
           /\ RunStart(RunBytes(level)) >= next
           /\ BlocksAfter(RunBytes(level)) \in Nat
           /\ BlocksAfter(RunBytes(level)) >= blocks
           /\ RunStart(RunBytes(level)) + RunBytes(level)
                 <= BlocksAfter(RunBytes(level)) * BlockSize
           /\ InBlock(RunStart(RunBytes(level)),
                      RunStart(RunBytes(level)) + RunBytes(level),
                      BlocksAfter(RunBytes(level)))
  <1> DEFINE n == RunBytes(level)
             first == RunStart(n)
             q == next \div BlockSize
  <1>1. /\ SliceSizes[level] \in Nat \ {0} /\ n = SliceSizes[level] + PtrBytes
        /\ n \in 1..BlockSize /\ BlockSize \in Nat \ {0}
    BY PoolAssumption DEF RunBytes, Levels
  <1>2. next \in Nat /\ blocks \in Nat /\ next <= blocks * BlockSize
    BY PoolAssumption DEF TypeOK, ArenaInv, Offsets
  <1>3. q \in Nat /\ next % BlockSize \in 0..(BlockSize - 1)
        /\ next = q * BlockSize + (next % BlockSize)
    BY <1>1, <1>2, DivMod, Zenon
  <1> HIDE DEF n, q
  <1>4. CASE NeedBlock(n)
    <2>1. first = blocks * BlockSize /\ BlocksAfter(n) = blocks + 1
      BY <1>4 DEF RunStart, BlocksAfter
    <2>2. blocks * BlockSize \in Nat /\ (blocks + 1) * BlockSize = blocks * BlockSize + BlockSize
      BY <1>1, <1>2
    <2>3. InBlock(first, first + n, blocks + 1)
      BY <1>1, <1>2, <2>1, <2>2 DEF InBlock
    <2> QED
      BY <1>1, <1>2, <2>1, <2>2, <2>3 DEF n
  <1>5. CASE ~NeedBlock(n)
    <2>1. first = next /\ BlocksAfter(n) = blocks /\ q < blocks
          /\ (next % BlockSize) + n <= BlockSize
      BY <1>1, <1>2, <1>3, <1>5 DEF RunStart, BlocksAfter, NeedBlock, q
    <2>2. (q + 1) * BlockSize <= blocks * BlockSize
      BY <1>1, <1>2, <1>3, <2>1, MulMono
    <2>3. (q + 1) * BlockSize = q * BlockSize + BlockSize /\ q * BlockSize \in Nat
      BY <1>1, <1>3
    <2>4. first + n <= (q + 1) * BlockSize /\ q * BlockSize <= first
      BY <1>1, <1>2, <1>3, <2>1, <2>3
    <2>5. InBlock(first, first + n, blocks)
      BY <1>2, <1>3, <2>1, <2>4 DEF InBlock
    <2>6. blocks * BlockSize \in Nat /\ (q + 1) * BlockSize \in Nat
      BY <1>1, <1>2, <1>3
    <2> QED
      BY <1>1, <1>2, <2>1, <2>2, <2>4, <2>5, <2>6 DEF n
  <1> QED
    BY <1>4, <1>5

----------------------------------------------------------------------------
(* Facts shared by the actions. *)

\* The parts of TypeOK that arithmetic needs.
LEMMA PoolTypes ==
    ASSUME TypeOK
    PROVE  /\ blocks \in Nat /\ next \in Nat /\ next <= MaxOffset
           /\ PtrBytes \in Nat \ {0} /\ MaxOffset \in Nat
  BY PoolAssumption DEF TypeOK, Offsets

\* The parts of TypeOK that say what a SliceWriter and a log are.
LEMMA WriterTypes ==
    ASSUME TypeOK, NEW d \in Chains
    PROVE  /\ writer[d] \in [live : BOOLEAN, head : Offsets, cur : Offsets,
                             slice_end : Offsets, level : Levels]
           /\ writer[d].cur \in Nat /\ writer[d].slice_end \in Nat
           /\ writer[d].head \in Nat /\ writer[d].level \in Levels
           /\ log[d] \in Seq(Entry)
  <1>1. /\ writer[d] \in [live : BOOLEAN, head : Offsets, cur : Offsets,
                           slice_end : Offsets, level : Levels]
        /\ log[d] \in Seq(Entry)
    BY DEF TypeOK
  <1> QED
    BY <1>1, PoolAssumption DEF Offsets

\* The parts of TypeOK that say what a logged byte is.
LEMMA EntryTypes ==
    ASSUME TypeOK, NEW d \in Chains, NEW i \in 1..Len(log[d])
    PROVE  /\ log[d][i] \in Entry
           /\ log[d][i].at \in Nat /\ log[d][i].end \in Nat
           /\ log[d][i].at \in Offsets /\ log[d][i].end \in Offsets
           /\ log[d][i].val \in Bytes /\ log[d][i].level \in Levels
  <1>1. log[d] \in Seq(Entry)
    BY DEF TypeOK
  <1>2. log[d][i] \in Entry
    BY <1>1
  <1> QED
    BY <1>2, PoolAssumption DEF Entry, Offsets

\* What EntryInv says about one byte, with the ranges of its offsets.
LEMMA EntryParts ==
    ASSUME TypeOK, NEW d \in Chains, NEW e \in Entry, EntryInv(d, e)
    PROVE  /\ e.at \in Offsets /\ e.end \in Offsets /\ e.at \in Nat /\ e.end \in Nat
           /\ e.at < e.end /\ e.end + PtrBytes <= next
           /\ e.at < next /\ e.end < next /\ e.at < writer[d].cur
           /\ mem[e.at] = e.val /\ owner[e.at] = Payload(d) /\ owner[e.end] = Ptr(d)
           /\ InBlock(e.at, e.end + PtrBytes, blocks)
           /\ \A a \in e.at..(e.end - 1) : a \in Offsets /\ a < next /\ owner[a] = Payload(d)
  <1>3. e.at \in Offsets /\ e.end \in Offsets /\ e.at \in Nat /\ e.end \in Nat
    BY PoolAssumption DEF Entry, Offsets
  <1>4. /\ e.at < e.end /\ e.end + PtrBytes <= next /\ e.at < writer[d].cur
        /\ mem[e.at] = e.val /\ owner[e.end] = Ptr(d)
        /\ InBlock(e.at, e.end + PtrBytes, blocks)
    BY DEF EntryInv
  <1>5. \A a \in e.at..(e.end - 1) : owner[a] = Payload(d)
    BY DEF EntryInv
  <1>6. PtrBytes \in Nat \ {0} /\ next \in Nat /\ next <= MaxOffset /\ MaxOffset \in Nat
    BY PoolTypes
  <1>7. e.at < next /\ e.end < next /\ e.at \in e.at..(e.end - 1)
    BY <1>3, <1>4, <1>6
  <1>8. \A a \in e.at..(e.end - 1) : a \in Offsets /\ a < next
    BY <1>3, <1>6, <1>7 DEF Offsets
  <1> QED
    BY <1>3, <1>4, <1>5, <1>7, <1>8

\* What LogInv says about one logged byte, without the quantifiers.
LEMMA EntryFacts ==
    ASSUME TypeOK, NEW d \in Chains, LogInv(d), NEW i \in 1..Len(log[d])
    PROVE  LET e == log[d][i] IN
           /\ EntryInv(d, e) /\ i <= e.at + 1
           /\ e.at \in Offsets /\ e.end \in Offsets /\ e.at \in Nat /\ e.end \in Nat
           /\ e.at < e.end /\ e.end + PtrBytes <= next
           /\ e.at < next /\ e.end < next /\ e.at < writer[d].cur
           /\ mem[e.at] = e.val /\ owner[e.at] = Payload(d) /\ owner[e.end] = Ptr(d)
           /\ InBlock(e.at, e.end + PtrBytes, blocks)
           /\ \A a \in e.at..(e.end - 1) : a \in Offsets /\ a < next /\ owner[a] = Payload(d)
  <1> DEFINE e == log[d][i]
  <1>1. Len(log[d]) \in Nat /\ Len(log[d]) > 0
    BY WriterTypes
  <1>2. EntryInv(d, e) /\ i <= e.at + 1
    BY <1>1 DEF LogInv
  <1>3. e \in Entry
    BY EntryTypes
  <1> HIDE DEF e
  <1> QED
    BY <1>2, <1>3, EntryParts DEF e

\* What WriterInv says about a live chain, piece by piece.
LEMMA WriterFacts ==
    ASSUME TypeOK, NEW d \in Chains, WriterInv(d), writer[d].live
    PROVE  LET w == writer[d] IN
           /\ w.cur <= w.slice_end /\ w.slice_end + PtrBytes <= next /\ w.slice_end < next
           /\ \A a \in w.cur..(w.slice_end - 1) :
                 a \in Offsets /\ a < next /\ owner[a] = Payload(d)
           /\ \A a \in w.slice_end..(w.slice_end + PtrBytes - 1) :
                 a \in Offsets /\ a < next /\ owner[a] = Ptr(d) /\ mem[a] = 0
           /\ owner[w.slice_end] = Ptr(d) /\ mem[w.slice_end] = 0
           /\ InBlock(w.cur, w.slice_end + PtrBytes, blocks)
           /\ log[d] = <<>> =>
                 w.cur = w.head /\ w.slice_end = w.head + SliceSizes[1] /\ w.level = 1
  <1> DEFINE w == writer[d]
  <1>1. w.cur \in Nat /\ w.slice_end \in Nat
    BY WriterTypes
  <1>2. PtrBytes \in Nat \ {0} /\ next \in Nat /\ next <= MaxOffset /\ MaxOffset \in Nat
    BY PoolTypes
  <1>3. /\ w.cur <= w.slice_end /\ w.slice_end + PtrBytes <= next
        /\ InBlock(w.cur, w.slice_end + PtrBytes, blocks)
        /\ log[d] = <<>> =>
              w.cur = w.head /\ w.slice_end = w.head + SliceSizes[1] /\ w.level = 1
    BY DEF WriterInv
  <1>4. \A a \in w.cur..(w.slice_end - 1) : owner[a] = Payload(d)
    BY DEF WriterInv
  <1>5. \A a \in w.slice_end..(w.slice_end + PtrBytes - 1) : owner[a] = Ptr(d) /\ mem[a] = 0
    BY DEF WriterInv
  <1> HIDE DEF w
  <1>6. w.slice_end < next /\ w.slice_end \in w.slice_end..(w.slice_end + PtrBytes - 1)
    BY <1>1, <1>2, <1>3
  <1>7. \A a \in w.cur..(w.slice_end - 1) : a \in Offsets /\ a < next
    BY <1>1, <1>2, <1>3 DEF Offsets
  <1>8. \A a \in w.slice_end..(w.slice_end + PtrBytes - 1) : a \in Offsets /\ a < next
    BY <1>1, <1>2, <1>3, SMTT(30) DEF Offsets
  <1> QED
    BY <1>3, <1>4, <1>5, <1>6, <1>7, <1>8 DEF w

\* What the two calls that allocate a slice do to the arena.
LEMMA ClaimFacts ==
    ASSUME TypeOK, ArenaInv, NEW c \in Chains, NEW level \in Levels,
           Fits(level), Claim(c, level), AllocRun(RunBytes(level))
    PROVE  LET first == RunStart(RunBytes(level))
               end   == first + SliceSizes[level]
           IN
           /\ first \in Nat /\ end \in Nat /\ first < end /\ next <= first
           /\ next' = end + PtrBytes /\ next' <= MaxOffset /\ next' \in Offsets
           /\ blocks' \in Nat /\ blocks <= blocks' /\ next' <= blocks' * BlockSize
           /\ InBlock(first, end + PtrBytes, blocks')
           /\ owner' \in [Offsets -> [chain : Chains \cup {NoChain},
                                      kind : {"free", "payload", "ptr"}]]
           /\ \A a \in Offsets : a < next => owner'[a] = owner[a]
           /\ \A a \in first..(end - 1) : a \in Offsets /\ owner'[a] = Payload(c)
           /\ \A a \in end..(end + PtrBytes - 1) : a \in Offsets /\ owner'[a] = Ptr(c)
           /\ ArenaInv'
  <1> DEFINE first == RunStart(RunBytes(level))
             end == first + SliceSizes[level]
  <1>1. /\ SliceSizes[level] \in Nat \ {0} /\ PtrBytes \in Nat \ {0} /\ MaxOffset \in Nat
        /\ RunBytes(level) = SliceSizes[level] + PtrBytes
        /\ first \in Nat /\ first >= next /\ next \in Nat
        /\ blocks' = BlocksAfter(RunBytes(level))
        /\ BlocksAfter(RunBytes(level)) \in Nat
        /\ BlocksAfter(RunBytes(level)) >= blocks
        /\ first + RunBytes(level) <= BlocksAfter(RunBytes(level)) * BlockSize
        /\ InBlock(first, first + RunBytes(level), BlocksAfter(RunBytes(level)))
        /\ first + RunBytes(level) <= MaxOffset
        /\ next' = first + RunBytes(level)
    BY RunFacts, PoolTypes DEF Fits, AllocRun, BlocksAfter
  <1> HIDE DEF first
  <1>2. end \in Nat /\ first < end /\ first + RunBytes(level) = end + PtrBytes
    BY <1>1
  <1>3. owner' = [a \in Offsets |->
                    IF a \in first..(end - 1) THEN Payload(c)
                    ELSE IF a \in end..(end + PtrBytes - 1) THEN Ptr(c)
                    ELSE owner[a]]
    BY DEF Claim, Payload, Ptr, first
  <1>4. owner' \in [Offsets -> [chain : Chains \cup {NoChain},
                                kind : {"free", "payload", "ptr"}]]
    BY <1>3 DEF TypeOK, Payload, Ptr
  <1>5. \A a \in Offsets : a < next => owner'[a] = owner[a]
    BY <1>1, <1>2, <1>3 DEF Offsets
  <1>6. \A a \in first..(end - 1) : a \in Offsets /\ owner'[a] = Payload(c)
    BY <1>1, <1>2, <1>3, SMTT(30) DEF Offsets
  <1>7. \A a \in end..(end + PtrBytes - 1) : a \in Offsets /\ owner'[a] = Ptr(c)
    BY <1>1, <1>2, <1>3, SMTT(30) DEF Offsets
  <1>8. ArenaInv'
    <2>1. \A a \in Offsets : a >= next' => owner'[a] = owner[a] /\ a >= next
      BY <1>1, <1>2, <1>3, SMTT(30) DEF Offsets
    <2> QED
      BY <1>1, <2>1 DEF ArenaInv
  <1> QED
    BY <1>1, <1>2, <1>4, <1>5, <1>6, <1>7, <1>8, SMTT(30) DEF Offsets, first

\* A chain is not disturbed by a step that leaves its writer and its log alone,
\* frees nothing and writes to none of its cells.
LEMMA FrameChain ==
    ASSUME TypeOK, TypeOK', NEW d \in Chains, WriterInv(d), LogInv(d),
           writer'[d] = writer[d], log'[d] = log[d],
           next <= next', blocks <= blocks',
           \A a \in Offsets : a < next => owner'[a] = owner[a],
           \A a \in Offsets : owner[a] \in {Payload(d), Ptr(d)} => mem'[a] = mem[a]
    PROVE  WriterInv(d)' /\ LogInv(d)'
  <1> DEFINE w == writer[d]
  <1>1. /\ w.cur \in Nat /\ w.slice_end \in Nat /\ next \in Nat /\ next' \in Nat
        /\ next <= MaxOffset /\ MaxOffset \in Nat /\ PtrBytes \in Nat \ {0}
        /\ blocks \in Nat /\ blocks' \in Nat
    <2>1. next' \in Nat /\ blocks' \in Nat
      BY PoolAssumption DEF TypeOK, Offsets
    <2> QED
      BY <2>1, PoolTypes, WriterTypes
  <1>2. WriterInv(d)'
    <2>1. SUFFICES ASSUME w.live
                   PROVE  WriterInv(d)'
      BY DEF WriterInv
    <2>2. \A a \in w.cur..(w.slice_end - 1) : owner'[a] = Payload(d)
      BY <2>1, WriterFacts
    <2>3. \A a \in w.slice_end..(w.slice_end + PtrBytes - 1) : owner'[a] = Ptr(d) /\ mem'[a] = 0
      BY <2>1, WriterFacts
    <2>4. InBlock(w.cur, w.slice_end + PtrBytes, blocks')
      <3>1. InBlock(w.cur, w.slice_end + PtrBytes, blocks)
        BY <2>1 DEF WriterInv
      <3>2. w.cur <= w.cur /\ w.slice_end + PtrBytes \in Nat
        BY <1>1
      <3> QED
        BY <1>1, <3>1, <3>2, InBlockMono, Zenon
    <2> QED
      BY <1>1, <2>1, <2>2, <2>3, <2>4, SMTT(30) DEF WriterInv
  <1>3. ASSUME NEW i \in 1..Len(log[d]), Len(log[d]) > 0
        PROVE  EntryInv(d, log[d][i])' /\ owner[log[d][i].end] = Ptr(d)
               /\ log[d][i].end \in Offsets
    <2> DEFINE e == log[d][i]
    <2>1. /\ e.at \in Offsets /\ e.end \in Offsets /\ e.at \in Nat /\ e.end \in Nat
          /\ e.at < e.end /\ e.end + PtrBytes <= next /\ e.at < w.cur
          /\ e.at < next /\ e.end < next
          /\ mem[e.at] = e.val /\ owner[e.at] = Payload(d) /\ owner[e.end] = Ptr(d)
          /\ InBlock(e.at, e.end + PtrBytes, blocks)
      BY EntryFacts
    <2>2. \A a \in e.at..(e.end - 1) : a \in Offsets /\ a < next /\ owner[a] = Payload(d)
      BY EntryFacts
    <2>3. \A a \in e.at..(e.end - 1) : owner'[a] = Payload(d)
      BY <2>2
    <2>4. mem'[e.at] = e.val /\ owner'[e.end] = Ptr(d)
      BY <2>1
    <2> HIDE DEF e
    <2>5. InBlock(e.at, e.end + PtrBytes, blocks')
      <3>1. e.end + PtrBytes \in Nat /\ e.at <= e.at
        BY <1>1, <2>1, SMTT(30)
      <3> QED
        BY <1>1, <2>1, <3>1, InBlockMono, Zenon
    <2>6. e.end + PtrBytes <= next'
      BY <1>1, <2>1
    <2>7. EntryInv(d, e)'
      BY <2>1, <2>3, <2>4, <2>5, <2>6 DEF EntryInv, e
    <2> QED
      BY <2>1, <2>7 DEF e
  <1>4. ASSUME NEW i \in 1..(Len(log[d]) - 1), Len(log[d]) > 0
        PROVE  Link(log[d][i], log[d][i + 1])'
    <2>1. Link(log[d][i], log[d][i + 1])
      BY <1>4, SMTT(30) DEF LogInv
    <2>2. mem'[log[d][i].end] = mem[log[d][i].end]
      <3>1. Len(log[d]) \in Nat
        BY WriterTypes
      <3>2. i \in 1..Len(log[d])
        BY <1>4, <3>1, SMTT(30)
      <3> QED
        BY <1>3, <1>4, <3>2
    <2> QED
      BY <2>1, <2>2, SMTT(30) DEF Link
  <1>5. LogInv(d)'
    BY <1>3, <1>4 DEF LogInv
  <1> QED
    BY <1>2, <1>5

-----------------------------------------------------------------------------
(* start_chain, append_byte, the refusal at the offset limit, reset. *)

\* The empty pool satisfies PoolInv.
LEMMA InitInv == Init => PoolInv
  <1> SUFFICES ASSUME Init
               PROVE  PoolInv
    OBVIOUS
  <1>1. 1 \in Levels /\ 0 \in Offsets /\ 0 * BlockSize = 0
    BY PoolAssumption DEF Levels, Offsets
  <1>2. TypeOK
    <2>1. NoWriter \in [live : BOOLEAN, head : Offsets, cur : Offsets,
                        slice_end : Offsets, level : Levels]
      BY <1>1 DEF NoWriter
    <2>2. NoCursor \in [chain : Chains \cup {NoChain}, cur : Nat, slice_end : Nat,
                        level : Levels, budget : Nat, yielded : Seq(Nat)]
      BY <1>1 DEF NoCursor
    <2>3. Free \in [chain : Chains \cup {NoChain}, kind : {"free", "payload", "ptr"}]
      BY DEF Free
    <2>4. <<>> \in Seq(Entry)
      OBVIOUS
    <2> QED
      BY <1>1, <2>1, <2>2, <2>3, <2>4, Zenon DEF Init, TypeOK
  <1>3. ArenaInv
    BY <1>1 DEF Init, ArenaInv
  <1>4. CursorInv
    BY DEF Init, CursorInv, NoCursor
  <1>5. ASSUME NEW c \in Chains
        PROVE  WriterInv(c) /\ LogInv(c)
    BY DEF Init, WriterInv, LogInv, NoWriter
  <1> QED
    BY <1>2, <1>3, <1>4, <1>5 DEF PoolInv

\* start_chain keeps PoolInv: the new head slice takes only free cells.
LEMMA StartChainInv ==
    ASSUME PoolInv, NEW c \in Chains, StartChain(c)
    PROVE  PoolInv'
  <1> DEFINE first == RunStart(RunBytes(1))
             end == first + SliceSizes[1]
  <1>1. TypeOK /\ ArenaInv /\ CursorInv /\ 1 \in Levels /\ LogInv(c)
    BY PoolAssumption DEF PoolInv, Levels
  <1>2. /\ Fits(1) /\ Claim(c, 1) /\ AllocRun(RunBytes(1)) /\ ~writer[c].live
        /\ mem' = ZeroPtr(mem, end) /\ Quiet
        /\ writer' = [writer EXCEPT ![c] =
              [live |-> TRUE, head |-> first, cur |-> first,
               slice_end |-> end, level |-> 1]]
        /\ cursor' = cursor /\ thrown' = thrown /\ log' = log
    BY DEF StartChain
  <1>3. /\ first \in Nat /\ end \in Nat /\ first < end /\ next <= first
        /\ next' = end + PtrBytes /\ next' <= MaxOffset /\ next' \in Offsets
        /\ blocks' \in Nat /\ blocks <= blocks'
        /\ InBlock(first, end + PtrBytes, blocks')
        /\ owner' \in [Offsets -> [chain : Chains \cup {NoChain},
                                   kind : {"free", "payload", "ptr"}]]
        /\ \A a \in Offsets : a < next => owner'[a] = owner[a]
        /\ \A a \in first..(end - 1) : a \in Offsets /\ owner'[a] = Payload(c)
        /\ \A a \in end..(end + PtrBytes - 1) : a \in Offsets /\ owner'[a] = Ptr(c)
        /\ ArenaInv'
    BY <1>1, <1>2, ClaimFacts, Zenon
  <1> HIDE DEF first
  <1>4. /\ first \in Offsets /\ end \in Offsets /\ PtrBytes \in Nat \ {0}
        /\ next \in Nat /\ MaxOffset \in Nat
    <2>1. /\ first \in Nat /\ end \in Nat /\ first < end
          /\ next' = end + PtrBytes /\ next' <= MaxOffset
      BY <1>3, Zenon
    <2>2. PtrBytes \in Nat \ {0} /\ next \in Nat /\ MaxOffset \in Nat
      BY <1>1, PoolTypes, Zenon
    <2> QED
      BY <2>1, <2>2 DEF Offsets
  <1>5. TypeOK'
    <2>1. mem' \in [Offsets -> Nat]
      BY <1>1, <1>2 DEF TypeOK, ZeroPtr
    <2>2. writer' \in [Chains -> [live : BOOLEAN, head : Offsets, cur : Offsets,
                                  slice_end : Offsets, level : Levels]]
      BY <1>1, <1>2, <1>4 DEF TypeOK
    <2> QED
      BY <1>1, <1>2, <1>3, <2>1, <2>2, ZenonT(40) DEF TypeOK
  <1>6. \A a \in Offsets : a < next => mem'[a] = mem[a]
    BY <1>2, <1>3, <1>4 DEF ZeroPtr, Offsets
  <1>7. log[c] = <<>>
    BY <1>1, <1>2, WriterTypes DEF LogInv
  <1>8. /\ WriterInv(c)' /\ LogInv(c)'
    <2>1. writer'[c] = [live |-> TRUE, head |-> first, cur |-> first,
                        slice_end |-> end, level |-> 1]
      BY <1>1, <1>2, Zenon DEF TypeOK
    <2>2. \A a \in end..(end + PtrBytes - 1) : mem'[a] = 0
      BY <1>2, <1>3 DEF ZeroPtr
    <2>3. LogInv(c)'
      BY <1>2, <1>7 DEF LogInv
    <2>4. WriterInv(c)'
      BY <1>3, <1>4, <2>1, <2>2 DEF WriterInv
    <2> QED
      BY <2>3, <2>4
  <1>9. ASSUME NEW d \in Chains, d # c
        PROVE  WriterInv(d)' /\ LogInv(d)'
    <2>1. writer'[d] = writer[d] /\ log'[d] = log[d]
      BY <1>1, <1>2, <1>9, Zenon DEF TypeOK
    <2>2. \A a \in Offsets : owner[a] \in {Payload(d), Ptr(d)} => mem'[a] = mem[a]
      BY <1>1, <1>4, <1>6, <1>9 DEF ArenaInv, Offsets, Payload, Ptr, Free
    <2>3. WriterInv(d) /\ LogInv(d) /\ next <= next'
      BY <1>3, <1>4 DEF PoolInv
    <2> QED
      BY <1>1, <1>3, <1>5, <2>1, <2>2, <2>3, FrameChain, ZenonT(40)
  <1>10. CursorInv'
    BY <1>2 DEF CursorInv, Quiet
  <1> QED
    BY <1>3, <1>5, <1>8, <1>9, <1>10 DEF PoolInv

\* What one more logged byte does to the log of its chain.
LEMMA LoggedFacts ==
    ASSUME TypeOK, NEW c \in Chains, NEW at, NEW v, NEW end, NEW level,
           Logged(c, at, v, end, level)
    PROVE  /\ Len(log[c]) \in Nat
           /\ log'[c] = Append(log[c], [at |-> at, val |-> v, end |-> end, level |-> level])
           /\ log'[c] # <<>>
           /\ \A d \in Chains \ {c} : log'[d] = log[d]
           /\ [at |-> at, val |-> v, end |-> end, level |-> level] \in Entry
              => log' \in [Chains -> Seq(Entry)]
  <1> DEFINE e == [at |-> at, val |-> v, end |-> end, level |-> level]
  <1>1. log[c] \in Seq(Entry) /\ log \in [Chains -> Seq(Entry)]
    BY DEF TypeOK
  <1>2. log' = [log EXCEPT ![c] = Append(log[c], e)]
    BY <1>1 DEF Logged
  <1> HIDE DEF e
  <1>3. log'[c] = Append(log[c], e) /\ \A d \in Chains \ {c} : log'[d] = log[d]
    BY <1>1, <1>2
  <1>4. e \in Entry => log' \in [Chains -> Seq(Entry)]
    BY <1>1, <1>2
  <1>5. log'[c] # <<>> /\ Len(log[c]) \in Nat
    BY <1>1, <1>3
  <1> QED
    BY <1>1, <1>3, <1>4, <1>5 DEF e

\* A chain whose log grows by e is well formed when its old bytes stay so, e is,
\* and e is linked to the byte before it (or is the first byte of its head slice).
LEMMA LogExtends ==
    ASSUME NEW c \in Chains, TypeOK, LogInv(c), NEW e \in Entry, Len(log[c]) <= e.at,
           log'[c] = Append(log[c], e),
           writer'[c].live, writer'[c].head = writer[c].head, writer'[c].cur = e.at + 1,
           writer'[c].slice_end = e.end, writer'[c].level = e.level,
           EntryInv(c, e)',
           \A x \in Entry : EntryInv(c, x) =>
              EntryInv(c, x)' /\ (mem[x.end] # 0 => mem'[x.end] = mem[x.end]),
           \A x \in Entry : EntryInv(c, x) /\ x.at + 1 = writer[c].cur
                            /\ x.end = writer[c].slice_end /\ x.level = writer[c].level
                            => Link(x, e)',
           log[c] = <<>> => /\ e.at = writer[c].head /\ e.level = 1
                            /\ e.end = writer[c].head + SliceSizes[1]
    PROVE  LogInv(c)'
  <1> DEFINE n == Len(log[c])
             old(i) == log[c][i]
             new(i) == log'[c][i]
  <1>1. /\ n \in Nat /\ log[c] \in Seq(Entry) /\ Len(log'[c]) = n + 1
        /\ new(n + 1) = e
        /\ \A i \in 1..n : new(i) = old(i) /\ old(i) \in Entry
    <2>1. log[c] \in Seq(Entry)
      BY DEF TypeOK
    <2>2. \A i \in 1..n : old(i) \in Entry
      BY <2>1, SMTT(60)
    <2>3. n \in Nat /\ Len(log'[c]) = n + 1 /\ new(n + 1) = e
      BY <2>1
    <2>4. \A i \in 1..n : new(i) = old(i)
      BY <2>1
    <2> QED
      BY <2>1, <2>2, <2>3, <2>4, Zenon
  <1>2. n > 0 => /\ \A i \in 1..n : EntryInv(c, log[c][i]) /\ i <= old(i).at + 1
                 /\ \A i \in 1..(n - 1) : Link(log[c][i], log[c][i + 1])
                 /\ old(1).at = writer[c].head /\ old(1).level = 1
                 /\ old(1).end = writer[c].head + SliceSizes[1]
                 /\ writer[c].cur = old(n).at + 1 /\ writer[c].slice_end = old(n).end
                 /\ writer[c].level = old(n).level
    BY Zenon DEF LogInv
  <1>3. e.at \in Nat
    BY PoolAssumption DEF Entry, Offsets
  <1>4. ASSUME NEW i \in 1..n
        PROVE  EntryInv(c, log[c][i])' /\ i <= new(i).at + 1
    <2>1. n > 0 /\ EntryInv(c, log[c][i]) /\ i <= old(i).at + 1
      BY <1>1, <1>2
    <2>2. PICK x \in Entry : x = old(i) /\ x = new(i)
      BY <1>1, Zenon
    <2>3. EntryInv(c, x)
      BY <2>1, <2>2
    <2>4. EntryInv(c, x)'
      BY <2>3
    <2> QED
      BY <2>1, <2>2, <2>4
  <1>5. ASSUME NEW i, i = n + 1
        PROVE  EntryInv(c, log[c][i])' /\ i <= new(i).at + 1
    <2>1. i <= e.at + 1
      <3> HIDE DEF n
      <3> QED
        BY <1>1, <1>3, <1>5 DEF n
    <2> QED
      BY <1>1, <1>5, <2>1
  <1>6. ASSUME NEW i \in 1..n
        PROVE  Link(log[c][i], log[c][i + 1])'
    <2>1. n > 0 /\ i \in Nat /\ EntryInv(c, log[c][i]) /\ new(i) = old(i) /\ old(i) \in Entry
      BY <1>1, <1>2, SMTT(40)
    <2>2. PICK x \in Entry : x = old(i) /\ x = new(i)
      BY <2>1
    <2>3. EntryInv(c, x)
      BY <2>1, <2>2
    <2>4. CASE i = n
      <3>1. /\ x.at + 1 = writer[c].cur /\ x.end = writer[c].slice_end
            /\ x.level = writer[c].level
        BY <1>2, <2>1, <2>2, <2>4, Zenon
      <3>2. Link(x, e)'
        BY <2>3, <3>1
      <3>3. new(i + 1) = e
        BY <1>1, <2>4
      <3> QED
        BY <2>2, <3>2, <3>3
    <2>5. CASE i # n
      <3>1. i \in 1..(n - 1) /\ i + 1 \in 1..n
        <4> HIDE DEF n
        <4> QED
          BY <1>1, <1>6, <2>5
      <3>2. PICK y \in Entry : y = old(i + 1) /\ y = new(i + 1)
        BY <1>1, <3>1
      <3>3. Link(x, y)
        BY <1>2, <2>1, <2>2, <3>1, <3>2, Zenon
      <3>4. mem[x.end] # 0 => mem'[x.end] = mem[x.end]
        BY <2>3
      <3>5. Link(x, y)'
        <4>1. y.at \in Nat
          BY PoolAssumption DEF Entry, Offsets
        <4> QED
          BY <3>3, <3>4, <4>1, SMTT(40) DEF Link
      <3> QED
        BY <2>2, <3>2, <3>5
    <2> QED
      BY <2>4, <2>5
  <1>7. /\ new(1).at = writer[c].head /\ new(1).level = 1
        /\ new(1).end = writer[c].head + SliceSizes[1]
    <2>1. CASE n = 0
      BY <1>1, <2>1
    <2>2. CASE n > 0
      <3>1. 1 \in 1..n
        <4>1. n \in Nat
          BY <1>1, Zenon
        <4> HIDE DEF n
        <4> QED
          BY <2>2, <4>1
      <3> QED
        BY <1>1, <1>2, <2>2, <3>1
    <2> QED
      BY <1>1, <2>1, <2>2
  <1>8. \A i \in 1..(n + 1) : EntryInv(c, log[c][i])' /\ i <= new(i).at + 1
    <2> SUFFICES ASSUME NEW i \in 1..(n + 1)
                 PROVE  EntryInv(c, log[c][i])' /\ i <= new(i).at + 1
      OBVIOUS
    <2>1. i = n + 1 \/ i \in 1..n
      <3> HIDE DEF n
      <3> QED
        BY <1>1
    <2> QED
      BY <1>4, <1>5, <2>1
  <1>9. (n + 1) - 1 = n
    <2> HIDE DEF n
    <2> QED
      BY <1>1
  <1>10. \A i \in 1..(Len(log'[c]) - 1) : Link(log[c][i], log[c][i + 1])'
    BY <1>1, <1>6, <1>9
  <1>11. \A i \in 1..Len(log'[c]) : EntryInv(c, log[c][i])' /\ i <= new(i).at + 1
    BY <1>1, <1>8
  <1>12. new(Len(log'[c])) = e
    BY <1>1
  <1> QED
    BY <1>7, <1>10, <1>11, <1>12 DEF LogInv

\* append_byte in a slice with room keeps PoolInv: it writes the one cell at the
\* write head, which no logged byte occupies.
LEMMA AppendInSliceInv ==
    ASSUME PoolInv, NEW c \in Chains, NEW v \in Bytes, AppendInSlice(c, v)
    PROVE  PoolInv'
  <1> DEFINE w == writer[c]
             n == Len(log[c])
  <1>1. TypeOK /\ ArenaInv /\ CursorInv /\ LogInv(c) /\ WriterInv(c)
    BY DEF PoolInv
  <1>2. /\ w.live /\ Quiet /\ w.cur # w.slice_end
        /\ mem' = [mem EXCEPT ![w.cur] = v]
        /\ writer' = [writer EXCEPT ![c].cur = w.cur + 1]
        /\ Logged(c, w.cur, v, w.slice_end, w.level)
        /\ blocks' = blocks /\ next' = next /\ cursor' = cursor
        /\ thrown' = thrown /\ owner' = owner
    BY DEF AppendInSlice
  <1>3. /\ w \in [live : BOOLEAN, head : Offsets, cur : Offsets,
                  slice_end : Offsets, level : Levels]
        /\ w.cur \in Nat /\ w.slice_end \in Nat /\ w.head \in Nat /\ w.level \in Levels
        /\ PtrBytes \in Nat \ {0} /\ MaxOffset \in Nat /\ next \in Nat
        /\ next <= MaxOffset /\ blocks \in Nat /\ Bytes \subseteq Nat
    BY <1>1, PoolTypes, WriterTypes, PoolAssumption
  <1>4. /\ w.cur < w.slice_end /\ w.slice_end + PtrBytes <= next
        /\ w.cur + 1 \in Offsets /\ w.cur \in Offsets /\ w.slice_end \in Offsets
    BY <1>1, <1>2, <1>3, SMTT(30) DEF WriterInv, Offsets
  <1>5. writer'[c] = [w EXCEPT !.cur = w.cur + 1] /\ \A d \in Chains \ {c} : writer'[d] = writer[d]
    BY <1>1, <1>2 DEF TypeOK
  <1>0. PICK e \in Entry :
           e = [at |-> w.cur, val |-> v, end |-> w.slice_end, level |-> w.level]
    <2>1. [at |-> w.cur, val |-> v, end |-> w.slice_end, level |-> w.level] \in Entry
      BY <1>3, <1>4 DEF Entry
    <2> QED
      BY <2>1
  <1>6. /\ log'[c] = Append(log[c], e) /\ log'[c] # <<>> /\ \A d \in Chains \ {c} : log'[d] = log[d]
        /\ log' \in [Chains -> Seq(Entry)]
    BY <1>0, <1>1, <1>2, LoggedFacts
  <1>7. TypeOK'
    <2>2. log' \in [Chains -> Seq(Entry)]
      BY <1>6
    <2>3. writer' \in [Chains -> [live : BOOLEAN, head : Offsets, cur : Offsets,
                              slice_end : Offsets, level : Levels]]
      BY <1>1, <1>2, <1>4, ZenonT(30) DEF TypeOK
    <2>4. mem' \in [Offsets -> Nat]
      BY <1>1, <1>2, <1>3, <1>4 DEF TypeOK
    <2> QED
      BY <1>1, <1>2, <2>2, <2>3, <2>4, ZenonT(30) DEF TypeOK
  <1>8. /\ mem'[w.cur] = v /\ \A a \in Offsets : a # w.cur => mem'[a] = mem[a]
        /\ owner[w.cur] = Payload(c)
    <2>1. mem'[w.cur] = v /\ \A a \in Offsets : a # w.cur => mem'[a] = mem[a]
      BY <1>1, <1>2, <1>4 DEF TypeOK
    <2>2. w.cur \in w.cur..(w.slice_end - 1)
      BY <1>3, <1>4
    <2> QED
      BY <1>1, <1>2, <2>1, <2>2 DEF WriterInv
  <1>9. WriterInv(c)'
    <2>1. InBlock(w.cur, w.slice_end + PtrBytes, blocks)
      BY <1>1, <1>2 DEF WriterInv
    <2>2. InBlock(w.cur + 1, w.slice_end + PtrBytes, blocks)
      BY <1>3, <2>1, InBlockMono, SMTT(30)
    <2>3. \A a \in w.slice_end..(w.slice_end + PtrBytes - 1) : owner[a] = Ptr(c) /\ mem'[a] = 0
      <3>1. ASSUME NEW a \in w.slice_end..(w.slice_end + PtrBytes - 1)
            PROVE  a \in Offsets /\ a # w.cur /\ owner[a] = Ptr(c) /\ mem[a] = 0
        <4>1. a \in Offsets /\ owner[a] = Ptr(c) /\ mem[a] = 0
          BY <1>1, <1>2, WriterFacts
        <4>2. a # w.cur
          BY <1>3, <1>4
        <4> QED
          BY <4>1, <4>2
      <3> QED
        BY <1>8, <3>1
    <2>4. \A a \in (w.cur + 1)..(w.slice_end - 1) : owner[a] = Payload(c)
      <3>1. \A a \in (w.cur + 1)..(w.slice_end - 1) : a \in w.cur..(w.slice_end - 1)
        BY <1>3
      <3> QED
        BY <1>1, <1>2, <3>1, WriterFacts
    <2>5. log'[c] # <<>>
      BY <1>6
    <2> QED
      BY <1>2, <1>3, <1>4, <1>5, <2>2, <2>3, <2>4, <2>5 DEF WriterInv
  <1>10. ASSUME NEW x \in Entry, EntryInv(c, x)
         PROVE  EntryInv(c, x)' /\ mem'[x.end] = mem[x.end]
    <2>1. /\ x.at \in Offsets /\ x.end \in Offsets /\ x.at \in Nat
          /\ x.at < w.cur /\ mem[x.at] = x.val /\ owner[x.end] = Ptr(c)
      BY <1>1, <1>10, EntryParts
    <2>2. mem'[x.at] = x.val
      <3>1. x.at # w.cur
        BY <1>3, <2>1
      <3> QED
        BY <1>8, <2>1, <3>1
    <2>3. mem'[x.end] = mem[x.end]
      BY <1>8, <2>1 DEF Payload, Ptr
    <2>4. x.at < writer'[c].cur
      <3>1. writer'[c].cur = w.cur + 1 /\ w.cur \in Nat
        BY <1>3, <1>5
      <3> QED
        BY <2>1, <3>1
    <2> QED
      BY <1>2, <1>10, <2>2, <2>3, <2>4 DEF EntryInv
  <1>11. EntryInv(c, e)'
    <2>1. \A a \in w.cur..(w.slice_end - 1) : owner[a] = Payload(c)
      BY <1>1, <1>2, WriterFacts
    <2>2. owner[w.slice_end] = Ptr(c) /\ InBlock(w.cur, w.slice_end + PtrBytes, blocks)
      BY <1>1, <1>2, WriterFacts
    <2>3. w.cur < writer'[c].cur
      BY <1>3, <1>5
    <2>4. e.at = w.cur /\ e.val = v /\ e.end = w.slice_end
      BY <1>0
    <2> QED
      BY <1>2, <1>4, <1>8, <2>1, <2>2, <2>3, <2>4 DEF EntryInv
  <1>12. LogInv(c)'
    <2>1. /\ e.at = w.cur /\ e.end = w.slice_end /\ e.level = w.level /\ n <= e.at
          /\ writer'[c].live /\ writer'[c].head = w.head /\ writer'[c].cur = e.at + 1
          /\ writer'[c].slice_end = e.end /\ writer'[c].level = e.level
      <3>1. n <= w.cur
        <4>1. n \in Nat /\ w.cur \in Nat
          <5>1. log[c] \in Seq(Entry) /\ w.cur \in Nat
            BY <1>1, WriterTypes, Zenon
          <5> QED
            BY <5>1
        <4>2. CASE n > 0
          <5>1. n \in 1..n /\ w.cur = log[c][n].at + 1
            BY <1>1, <4>1, <4>2 DEF LogInv
          <5> QED
            BY <1>1, <5>1, EntryFacts, Zenon
        <4> QED
          BY <4>1, <4>2
      <3> QED
        BY <1>0, <1>2, <1>3, <1>5, <3>1
    <2>2. ASSUME NEW x \in Entry, x.at + 1 = w.cur, x.end = w.slice_end, x.level = w.level
          PROVE  Link(x, e)'
      BY <1>4, <2>1, <2>2, Zenon DEF Link
    <2>3. log[c] = <<>> => /\ e.at = w.head /\ e.level = 1
                           /\ e.end = w.head + SliceSizes[1]
      BY <1>1, <1>2, <2>1, WriterFacts
    <2>6. \A x \in Entry : EntryInv(c, x) =>
             EntryInv(c, x)' /\ (mem[x.end] # 0 => mem'[x.end] = mem[x.end])
      BY <1>10
    <2>7. \A x \in Entry : EntryInv(c, x) /\ x.at + 1 = w.cur /\ x.end = w.slice_end
                            /\ x.level = w.level => Link(x, e)'
      BY <2>2
    <2>8. log'[c] = Append(log[c], e)
      BY <1>6
    <2> QED
      BY <1>1, <1>11, <2>1, <2>3, <2>6, <2>7, <2>8, LogExtends, Zenon
  <1>13. ASSUME NEW d \in Chains, d # c
         PROVE  WriterInv(d)' /\ LogInv(d)'
    <2>1. writer'[d] = writer[d] /\ log'[d] = log[d]
      BY <1>5, <1>6, <1>13
    <2>2. \A a \in Offsets : owner[a] \in {Payload(d), Ptr(d)} => mem'[a] = mem[a]
      BY <1>8, <1>13 DEF Payload, Ptr
    <2>3. WriterInv(d) /\ LogInv(d) /\ next <= next' /\ blocks <= blocks'
      BY <1>2, <1>3 DEF PoolInv
    <2> QED
      BY <1>1, <1>2, <1>7, <2>1, <2>2, <2>3, FrameChain
  <1>14. CursorInv' /\ ArenaInv'
    BY <1>1, <1>2 DEF CursorInv, Quiet, ArenaInv
  <1> QED
    BY <1>7, <1>9, <1>12, <1>13, <1>14 DEF PoolInv

\* append_byte in a full slice keeps PoolInv: the pointer it stores lies in the
\* pointer cells of the old slice, and the byte goes to fresh cells.
LEMMA AppendInNewSliceInv ==
    ASSUME PoolInv, NEW c \in Chains, NEW v \in Bytes, AppendInNewSlice(c, v)
    PROVE  PoolInv'
  <1> DEFINE w == writer[c]
             n == Len(log[c])
             level == NextLevel(w.level)
             first == RunStart(RunBytes(level))
             end == first + SliceSizes[level]
  <1>1. TypeOK /\ ArenaInv /\ CursorInv /\ LogInv(c) /\ WriterInv(c)
    BY DEF PoolInv
  <1>2. /\ w.live /\ Quiet /\ w.cur = w.slice_end /\ Fits(level)
        /\ mem' = [WritePtr(ZeroPtr(mem, end), w.slice_end, first) EXCEPT ![first] = v]
        /\ writer' = [writer EXCEPT ![c] =
              [live |-> TRUE, head |-> w.head, cur |-> first + 1,
               slice_end |-> end, level |-> level]]
        /\ AllocRun(RunBytes(level)) /\ Claim(c, level)
        /\ Logged(c, first, v, end, level)
        /\ cursor' = cursor /\ thrown' = thrown
    BY Zenon DEF AppendInNewSlice
  <1>3. /\ w \in [live : BOOLEAN, head : Offsets, cur : Offsets,
                  slice_end : Offsets, level : Levels]
        /\ w.cur \in Nat /\ w.slice_end \in Nat /\ w.head \in Nat /\ w.level \in Levels
        /\ PtrBytes \in Nat \ {0} /\ MaxOffset \in Nat /\ next \in Nat
        /\ next <= MaxOffset /\ blocks \in Nat /\ Bytes \subseteq Nat
    BY <1>1, PoolTypes, WriterTypes, PoolAssumption
  <1>4. level \in Levels
    BY <1>3, PoolAssumption, SMTT(30) DEF NextLevel, Levels
  <1>5. /\ first \in Nat /\ end \in Nat /\ first < end /\ next <= first
        /\ next' = end + PtrBytes /\ next' <= MaxOffset /\ next' \in Offsets
        /\ blocks' \in Nat /\ blocks <= blocks'
        /\ InBlock(first, end + PtrBytes, blocks')
        /\ owner' \in [Offsets -> [chain : Chains \cup {NoChain},
                                   kind : {"free", "payload", "ptr"}]]
        /\ \A a \in Offsets : a < next => owner'[a] = owner[a]
        /\ \A a \in first..(end - 1) : a \in Offsets /\ owner'[a] = Payload(c)
        /\ \A a \in end..(end + PtrBytes - 1) : a \in Offsets /\ owner'[a] = Ptr(c)
        /\ ArenaInv'
    BY <1>1, <1>2, <1>4, ClaimFacts, Zenon
  <1>6. end = first + SliceSizes[level]
    OBVIOUS
  <1> HIDE DEF first, level, end
  <1>51. /\ first \in Nat /\ end \in Nat /\ first < end /\ next <= first
         /\ next' = end + PtrBytes /\ next' <= MaxOffset /\ PtrBytes \in Nat \ {0}
         /\ MaxOffset \in Nat /\ next \in Nat
    BY <1>3, <1>5, Zenon
  <1>7. /\ w.slice_end + PtrBytes <= next /\ w.slice_end \in Offsets
        /\ first \in Offsets /\ first + 1 \in Offsets /\ end \in Offsets
        /\ InBlock(first + 1, end + PtrBytes, blocks')
    <2>1. w.slice_end + PtrBytes <= next /\ w.slice_end \in Offsets
      BY <1>1, <1>2, <1>3, SMTT(30) DEF WriterInv
    <2>2. first \in Offsets /\ first + 1 \in Offsets /\ end \in Offsets
      BY <1>51 DEF Offsets
    <2>3. InBlock(first + 1, end + PtrBytes, blocks')
      <3>1. /\ first + 1 \in Nat /\ end + PtrBytes \in Nat /\ first <= first + 1
        BY <1>51
      <3>2. blocks' \in Nat /\ InBlock(first, end + PtrBytes, blocks') /\ first \in Nat
        BY <1>5, Zenon
      <3>3. blocks' <= blocks'
        BY <3>2
      <3> QED
        BY <3>1, <3>2, <3>3, InBlockMono, ZenonT(40)
    <2> QED
      BY <2>1, <2>2, <2>3, Zenon
  <1>8. /\ writer'[c] = [live |-> TRUE, head |-> w.head, cur |-> first + 1,
                         slice_end |-> end, level |-> level]
        /\ \A d \in Chains \ {c} : writer'[d] = writer[d]
    BY <1>1, <1>2, Zenon DEF TypeOK
  <1>0. PICK e \in Entry : e = [at |-> first, val |-> v, end |-> end, level |-> level]
    <2>1. [at |-> first, val |-> v, end |-> end, level |-> level] \in Entry
      BY <1>4, <1>7 DEF Entry
    <2> QED
      BY <2>1
  <1>9. /\ log'[c] = Append(log[c], e) /\ log'[c] # <<>> /\ \A d \in Chains \ {c} : log'[d] = log[d]
        /\ log' \in [Chains -> Seq(Entry)]
    BY <1>0, <1>1, <1>2, LoggedFacts
  <1>10. /\ mem' \in [Offsets -> Nat]
         /\ mem'[first] = v
         /\ mem'[w.slice_end] = first
         /\ \A a \in end..(end + PtrBytes - 1) : mem'[a] = 0
         /\ \A a \in Offsets : a < next /\ mem[a] # 0 /\ owner[a] = Ptr(c) => mem'[a] = mem[a]
         /\ \A a \in Offsets : a < next /\ owner[a] # Ptr(c) => mem'[a] = mem[a]
    <2> DEFINE m == WritePtr(ZeroPtr(mem, end), w.slice_end, first)
    <2>1. m = [a \in Offsets |->
                 IF a = w.slice_end THEN first
                 ELSE IF a \in w.slice_end..(w.slice_end + PtrBytes - 1) THEN 0
                 ELSE IF a \in end..(end + PtrBytes - 1) THEN 0 ELSE mem[a]]
      BY DEF WritePtr, ZeroPtr
    <2>2. m \in [Offsets -> Nat]
      BY <1>1, <1>5, <2>1 DEF TypeOK
    <2>3. mem' = [m EXCEPT ![first] = v]
      BY <1>2
    <2> HIDE DEF m
    <2>4. mem' \in [Offsets -> Nat]
      <3>1. v \in Nat /\ first \in Offsets
        BY <1>3, <1>7
      <3> QED
        BY <2>2, <2>3, <3>1
    <2>5. mem'[first] = v
      BY <1>7, <2>2, <2>3
    <2>6. \A a \in Offsets : a # first => mem'[a] = m[a]
      BY <2>2, <2>3
    <2>7. mem'[w.slice_end] = first
      BY <1>3, <1>5, <1>7, <2>1, <2>6, SMTT(60)
    <2>8. \A a \in end..(end + PtrBytes - 1) : mem'[a] = 0
      BY <1>3, <1>5, <1>7, <2>1, <2>6
    <2>9. \A a \in w.slice_end..(w.slice_end + PtrBytes - 1) : owner[a] = Ptr(c) /\ mem[a] = 0
      BY <1>1, <1>2, WriterFacts
    <2>10. ASSUME NEW a \in Offsets, a < next,
                  a \notin w.slice_end..(w.slice_end + PtrBytes - 1)
           PROVE  mem'[a] = mem[a]
      <3>1. a # first /\ a # w.slice_end /\ a \notin end..(end + PtrBytes - 1)
        BY <1>3, <1>5, <2>10, SMTT(30) DEF Offsets
      <3> QED
        BY <2>1, <2>6, <2>10, <3>1
    <2> QED
      BY <2>4, <2>5, <2>7, <2>8, <2>9, <2>10
  <1>11. TypeOK'
    <2>2. log' \in [Chains -> Seq(Entry)]
      BY <1>9
    <2>3. writer' \in [Chains -> [live : BOOLEAN, head : Offsets, cur : Offsets,
                              slice_end : Offsets, level : Levels]]
      BY <1>1, <1>2, <1>3, <1>4, <1>7 DEF TypeOK
    <2> QED
      BY <1>1, <1>2, <1>5, <1>10, <2>2, <2>3, ZenonT(30) DEF TypeOK
  <1>12. WriterInv(c)'
    <2>1. log'[c] # <<>>
      BY <1>9
    <2>2. \A a \in (first + 1)..(end - 1) : owner'[a] = Payload(c)
      BY <1>5, SMTT(30)
    <2> QED
      <3>1. /\ writer'[c].cur = first + 1 /\ writer'[c].slice_end = end
            /\ first + 1 <= end /\ end + PtrBytes <= next'
        <4>1. /\ writer'[c].cur = first + 1 /\ writer'[c].slice_end = end
              /\ next' = end + PtrBytes /\ first < end
          <5>1. writer'[c] = [live |-> TRUE, head |-> w.head, cur |-> first + 1,
                              slice_end |-> end, level |-> level]
            BY <1>8, Zenon
          <5> QED
            BY <1>51, <5>1
        <4>2. first \in Nat /\ end \in Nat /\ PtrBytes \in Nat
          BY <1>3, <1>5
        <4> QED
          BY <4>1, <4>2
      <3>2. \A a \in end..(end + PtrBytes - 1) : owner'[a] = Ptr(c) /\ mem'[a] = 0
        BY <1>5, <1>10, SMTT(30)
      <3> QED
        BY <1>7, <2>1, <2>2, <3>1, <3>2, Zenon DEF WriterInv
  <1>13. ASSUME NEW x \in Entry, EntryInv(c, x)
         PROVE  EntryInv(c, x)' /\ (mem[x.end] # 0 => mem'[x.end] = mem[x.end])
    <2>1. /\ x.at \in Offsets /\ x.end \in Offsets /\ x.at \in Nat /\ x.end \in Nat
          /\ x.at < next /\ x.end < next /\ x.end + PtrBytes <= next
          /\ mem[x.at] = x.val /\ owner[x.at] = Payload(c) /\ owner[x.end] = Ptr(c)
          /\ InBlock(x.at, x.end + PtrBytes, blocks)
      BY <1>1, <1>13, EntryParts, Zenon
    <2>2. \A a \in x.at..(x.end - 1) : a \in Offsets /\ a < next /\ owner[a] = Payload(c)
      BY <1>1, <1>13, EntryParts, Zenon
    <2>3. mem'[x.at] = x.val /\ (mem[x.end] # 0 => mem'[x.end] = mem[x.end])
      BY <1>10, <2>1 DEF Payload, Ptr
    <2>4. /\ owner'[x.end] = Ptr(c)
          /\ \A a \in x.at..(x.end - 1) : owner'[a] = Payload(c)
      <3>1. \A a \in Offsets : a < next => owner'[a] = owner[a]
        BY <1>5
      <3> QED
        BY <2>1, <2>2, <3>1
    <2>5. x.at < writer'[c].cur /\ x.end + PtrBytes <= next'
      <3>1. /\ writer'[c].cur = first + 1 /\ next' = end + PtrBytes
            /\ first \in Nat /\ end \in Nat /\ next <= first /\ first < end
            /\ PtrBytes \in Nat /\ next \in Nat
        <4>1. writer'[c] = [live |-> TRUE, head |-> w.head, cur |-> first + 1,
                            slice_end |-> end, level |-> level]
          BY <1>8, Zenon
        <4> QED
          BY <1>51, <4>1
      <3>4. x.at \in Nat /\ x.end \in Nat /\ x.at < next /\ x.end < next
        BY <2>1, Zenon
      <3>2. x.at < first + 1
        BY <3>1, <3>4
      <3>3. x.end + PtrBytes <= end + PtrBytes
        BY <3>1, <3>4
      <3> QED
        BY <3>1, <3>2, <3>3
    <2>6. InBlock(x.at, x.end + PtrBytes, blocks')
      <3>1. x.end + PtrBytes \in Nat /\ x.at <= x.at
        <4>1. x.end \in Nat /\ x.at \in Nat /\ PtrBytes \in Nat
          BY <1>51, <2>1, Zenon
        <4> QED
          BY <4>1
      <3>2. blocks \in Nat /\ blocks' \in Nat /\ blocks <= blocks'
        BY <1>3, <1>5, Zenon
      <3> QED
        BY <2>1, <3>1, <3>2, InBlockMono, ZenonT(40)
    <2> QED
      BY <1>13, <2>3, <2>4, <2>5, <2>6, Zenon DEF EntryInv
  <1>14. EntryInv(c, e)'
    <2>1. e.at = first /\ e.val = v /\ e.end = end
      BY <1>0
    <2>2. first < writer'[c].cur /\ end + PtrBytes <= next' /\ first < end
      <3>1. /\ writer'[c].cur = first + 1 /\ next' = end + PtrBytes
            /\ first \in Nat /\ end \in Nat /\ PtrBytes \in Nat /\ first < end
        <4>1. writer'[c] = [live |-> TRUE, head |-> w.head, cur |-> first + 1,
                            slice_end |-> end, level |-> level]
          BY <1>8, Zenon
        <4> QED
          BY <1>51, <4>1
      <3> QED
        BY <3>1
    <2>3. owner'[end] = Ptr(c)
      <3>1. end \in end..(end + PtrBytes - 1)
        BY <1>3, <1>5
      <3> QED
        BY <1>5, <3>1
    <2>4. \A a \in first..(end - 1) : owner'[a] = Payload(c)
      BY <1>5
    <2>5. mem'[first] = v /\ InBlock(first, end + PtrBytes, blocks')
      BY <1>5, <1>10
    <2> QED
      BY <2>1, <2>2, <2>3, <2>4, <2>5 DEF EntryInv
  <1>15. LogInv(c)'
    <2>1. /\ e.at = first /\ e.end = end /\ e.level = level
          /\ writer'[c].live /\ writer'[c].head = w.head /\ writer'[c].cur = e.at + 1
          /\ writer'[c].slice_end = e.end /\ writer'[c].level = e.level
      <3>1. writer'[c] = [live |-> TRUE, head |-> w.head, cur |-> first + 1,
                          slice_end |-> end, level |-> level]
        BY <1>8, Zenon
      <3>2. e.at = first /\ e.end = end /\ e.level = level
        BY <1>0, SMTT(40)
      <3>3. /\ writer'[c].live /\ writer'[c].head = w.head /\ writer'[c].cur = first + 1
            /\ writer'[c].slice_end = end /\ writer'[c].level = level
        BY <3>1, SMTT(90)
      <3> QED
        BY <3>2, <3>3, Zenon
    <2>2. n \in Nat /\ n > 0
      <3>1. n \in Nat
        BY <1>1, WriterTypes
      <3>2. ASSUME n = 0
            PROVE  FALSE
        <4>1. log[c] = <<>>
          BY <1>1, <3>2, WriterTypes
        <4>2. w.cur = w.head /\ w.slice_end = w.head + SliceSizes[1]
          BY <1>1, <1>2, <4>1, WriterFacts
        <4>3. SliceSizes[1] \in Nat \ {0}
          BY PoolAssumption
        <4>4. w.cur = w.slice_end /\ w.head \in Nat
          BY <1>2, <1>3, Zenon
        <4>5. PICK h, z : h = w.head /\ z = SliceSizes[1]
          OBVIOUS
        <4>6. h \in Nat /\ z \in Nat \ {0} /\ h = h + z
          BY <4>2, <4>3, <4>4, <4>5, Zenon
        <4> QED
          BY <4>6
      <3> QED
        BY <3>1, <3>2
    <2>3. n <= e.at
      <3>1. n \in 1..n /\ w.cur = log[c][n].at + 1
        <4>1. n \in 1..n
          <5> HIDE DEF n
          <5> QED
            BY <2>2
        <4> QED
          BY <1>1, <2>2, <4>1, Zenon DEF LogInv
      <3>2. n <= w.cur
        BY <1>1, <3>1, EntryFacts, Zenon
      <3>3. /\ w.cur = w.slice_end /\ w.slice_end + PtrBytes <= next /\ next <= first
            /\ w.cur \in Nat /\ next \in Nat /\ first \in Nat /\ PtrBytes \in Nat
        <4>1. w.cur = w.slice_end
          BY <1>2, Zenon
        <4>2. w.slice_end + PtrBytes <= next /\ w.cur \in Nat
          BY <1>3, <1>7, Zenon
        <4>3. next <= first /\ next \in Nat /\ first \in Nat /\ PtrBytes \in Nat
          BY <1>51, Zenon
        <4> QED
          BY <4>1, <4>2, <4>3, Zenon
      <3>4. PICK a, b : a = w.cur /\ b = e.at
        OBVIOUS
      <3>5. /\ a \in Nat /\ next \in Nat /\ b \in Nat /\ PtrBytes \in Nat
            /\ n <= a /\ a + PtrBytes <= next /\ next <= b
        BY <2>1, <3>2, <3>3, <3>4, Zenon
      <3> HIDE DEF n
      <3>6. n <= b
        BY <2>2, <3>5
      <3> QED
        BY <3>4, <3>6, Zenon
    <2>4. ASSUME NEW x \in Entry, x.at + 1 = w.cur, x.end = w.slice_end, x.level = w.level
          PROVE  Link(x, e)'
      <3>1. w.cur = w.slice_end /\ mem'[w.slice_end] = first
        BY <1>2, <1>10
      <3>2. first > 0
        <4>1. /\ w.slice_end + PtrBytes <= next /\ next <= first /\ w.slice_end \in Nat
              /\ next \in Nat /\ first \in Nat /\ PtrBytes \in Nat \ {0}
          BY <1>3, <1>5, <1>7
        <4> QED
          BY <4>1
      <3>3. e.level = NextLevel(x.level) /\ e.end = e.at + SliceSizes[e.level]
        BY <1>6, <2>1, <2>4 DEF level
      <3> QED
        BY <2>1, <2>4, <3>1, <3>2, <3>3, Zenon DEF Link
    <2>6. \A x \in Entry : EntryInv(c, x) =>
             EntryInv(c, x)' /\ (mem[x.end] # 0 => mem'[x.end] = mem[x.end])
      BY <1>13
    <2>7. \A x \in Entry : EntryInv(c, x) /\ x.at + 1 = w.cur /\ x.end = w.slice_end
                            /\ x.level = w.level => Link(x, e)'
      BY <2>4
    <2>8. log[c] # <<>> /\ log'[c] = Append(log[c], e)
      BY <1>9, <2>2
    <2> QED
      BY <1>1, <1>14, <2>1, <2>3, <2>6, <2>7, <2>8, LogExtends, Zenon
  <1>16. ASSUME NEW d \in Chains, d # c
         PROVE  WriterInv(d)' /\ LogInv(d)'
    <2>1. writer'[d] = writer[d] /\ log'[d] = log[d]
      <3>1. d \in Chains \ {c}
        BY <1>16
      <3>2. writer'[d] = writer[d]
        BY <1>8, <3>1, Zenon
      <3>3. log'[d] = log[d]
        BY <1>9, <3>1, Zenon
      <3> QED
        BY <3>2, <3>3
    <2>2. \A a \in Offsets : owner[a] \in {Payload(d), Ptr(d)} => mem'[a] = mem[a]
      <3> SUFFICES ASSUME NEW a \in Offsets, owner[a] \in {Payload(d), Ptr(d)}
                   PROVE  mem'[a] = mem[a]
        BY Zenon
      <3>1. owner[a] # Free /\ owner[a] # Ptr(c)
        BY <1>16 DEF Payload, Ptr, Free
      <3>2. ~(a >= next)
        BY <1>1, <3>1, Zenon DEF ArenaInv
      <3>3. a < next
        BY <1>51, <3>2 DEF Offsets
      <3> QED
        BY <1>10, <3>1, <3>3, Zenon
    <2>3. WriterInv(d) /\ LogInv(d) /\ next <= next' /\ blocks <= blocks'
      <3>1. WriterInv(d) /\ LogInv(d) /\ blocks <= blocks'
        BY <1>5, Zenon DEF PoolInv
      <3>2. next <= next'
        BY <1>51
      <3> QED
        BY <3>1, <3>2, Zenon
    <2> QED
      BY <1>1, <1>5, <1>11, <2>1, <2>2, <2>3, FrameChain, ZenonT(40)
  <1>17. CursorInv'
    BY <1>1, <1>2 DEF CursorInv, Quiet
  <1> QED
    BY <1>5, <1>11, <1>12, <1>15, <1>16, <1>17, SMTT(30) DEF PoolInv

\* An append or a start_chain refused at the offset limit keeps PoolInv.
LEMMA OverflowInv ==
    ASSUME PoolInv, NEW c \in Chains, Overflow(c)
    PROVE  PoolInv'
  <1>1. /\ blocks' = blocks /\ next' = next /\ mem' = mem /\ writer' = writer
        /\ cursor' = cursor /\ owner' = owner /\ log' = log /\ thrown' \in BOOLEAN
    BY DEF Overflow
  <1>2. TypeOK' /\ ArenaInv' /\ CursorInv'
    BY <1>1, Zenon DEF PoolInv, TypeOK, ArenaInv, CursorInv
  <1>3. ASSUME NEW d \in Chains
        PROVE  WriterInv(d)' /\ LogInv(d)'
    <2>1. TypeOK /\ WriterInv(d) /\ LogInv(d)
      BY DEF PoolInv
    <2>2. next <= next' /\ blocks <= blocks'
      BY <1>1, <2>1, PoolTypes
    <2> QED
      BY <1>1, <1>2, <2>1, <2>2, FrameChain
  <1> QED
    BY <1>2, <1>3 DEF PoolInv

\* reset() re-establishes PoolInv.
LEMMA ResetInv ==
    ASSUME PoolInv, Reset
    PROVE  PoolInv'
  <1>1. Init'
    BY DEF Reset, Init
  <1>2. Init' => PoolInv'
    BY InitInv, PTL
  <1> QED
    BY <1>1, <1>2

-----------------------------------------------------------------------------
(* Opening a cursor, next() with its hop over a forward pointer, dropping it. *)

\* The chains are as they were when only the cursor changes.
LEMMA OnlyCursor ==
    ASSUME PoolInv, TypeOK', UNCHANGED <<blocks, next, mem, writer, thrown, owner, log>>
    PROVE  ArenaInv' /\ \A d \in Chains : WriterInv(d)' /\ LogInv(d)'
  <1>0. /\ blocks' = blocks /\ next' = next /\ mem' = mem /\ writer' = writer
        /\ owner' = owner /\ log' = log
    OBVIOUS
  <1>1. ArenaInv'
    BY <1>0 DEF PoolInv, ArenaInv
  <1>2. ASSUME NEW d \in Chains
        PROVE  WriterInv(d)' /\ LogInv(d)'
    <2>1. TypeOK /\ WriterInv(d) /\ LogInv(d)
      BY DEF PoolInv
    <2>2. next <= next' /\ blocks <= blocks'
      BY <1>0, <2>1, PoolTypes
    <2> QED
      BY <1>0, <2>1, <2>2, FrameChain
  <1> QED
    BY <1>1, <1>2

\* Opening a cursor on a chain, with any budget of at least its length, keeps
\* PoolInv.
LEMMA OpenCursorInv ==
    ASSUME PoolInv, NEW c \in Chains, NEW b \in {Len(log[c]), writer[c].cur},
           OpenCursor(c, b)
    PROVE  PoolInv'
  <1> DEFINE w == writer[c]
             n == Len(log[c])
  <1>1. TypeOK /\ LogInv(c)
    BY DEF PoolInv
  <1>2. /\ log[c] # <<>>
        /\ cursor' = [chain |-> c, cur |-> w.head, slice_end |-> w.head + SliceSizes[1],
                      level |-> 1, budget |-> b, yielded |-> <<>>]
        /\ UNCHANGED <<blocks, next, mem, writer, thrown, owner, log>>
    BY DEF OpenCursor
  <1>3. /\ w.head \in Nat /\ w.cur \in Nat /\ n \in Nat /\ n > 0
        /\ SliceSizes[1] \in Nat /\ 1 \in Levels
    <2>1. w.head \in Nat /\ w.cur \in Nat /\ log[c] \in Seq(Entry)
      BY <1>1, WriterTypes
    <2>2. n \in Nat /\ n > 0
      BY <1>2, <2>1
    <2>3. SliceSizes[1] \in Nat /\ 1 \in Levels
      BY PoolAssumption DEF Levels
    <2> QED
      BY <2>1, <2>2, <2>3
  <1>4. b \in Nat /\ b >= n
    <2>1. n <= w.cur
      <3>1. n \in 1..n
        BY <1>3
      <3>2. n <= log[c][n].at + 1 /\ w.cur = log[c][n].at + 1
        BY <1>1, <1>3, <3>1 DEF LogInv
      <3> QED
        BY <3>2
    <2> QED
      BY <1>3, <2>1
  <1>5. TypeOK'
    <2>1. PICK head \in Nat, end \in Nat :
             cursor' = [chain |-> c, cur |-> head, slice_end |-> end, level |-> 1,
                        budget |-> b, yielded |-> <<>>]
      <3>1. w.head + SliceSizes[1] \in Nat
        BY <1>3
      <3> QED
        BY <1>2, <1>3, <3>1, Zenon
    <2>2. c \in Chains \cup {NoChain} /\ <<>> \in Seq(Nat) /\ 1 \in Levels /\ b \in Nat
      BY <1>3, <1>4
    <2>3. cursor' \in [chain : Chains \cup {NoChain}, cur : Nat, slice_end : Nat,
                       level : Levels, budget : Nat, yielded : Seq(Nat)]
      BY <2>1, <2>2
    <2> QED
      BY <1>1, <1>2, <2>3, Zenon DEF TypeOK
  <1>6. CursorInv'
    <2>1. /\ cursor'.chain = c /\ cursor'.yielded = <<>> /\ Len(cursor'.yielded) = 0
          /\ cursor'.cur = w.head /\ cursor'.slice_end = w.head + SliceSizes[1]
          /\ cursor'.level = 1 /\ cursor'.budget = b
      BY <1>2
    <2> QED
      BY <1>2, <1>3, <1>4, <2>1 DEF CursorInv
  <1> QED
    BY <1>2, <1>5, <1>6, OnlyCursor DEF PoolInv

\* Dropping the cursor keeps PoolInv.
LEMMA CloseCursorInv ==
    ASSUME PoolInv, CloseCursor
    PROVE  PoolInv'
  <1>1. /\ cursor' = NoCursor
        /\ UNCHANGED <<blocks, next, mem, writer, thrown, owner, log>>
    BY DEF CloseCursor
  <1>2. TypeOK'
    <2>1. 1 \in Levels
      BY PoolAssumption DEF Levels
    <2>2. NoCursor \in [chain : Chains \cup {NoChain}, cur : Nat, slice_end : Nat,
                        level : Levels, budget : Nat, yielded : Seq(Nat)]
      BY <2>1 DEF NoCursor
    <2> QED
      BY <1>1, <2>2, SMTT(30) DEF PoolInv, TypeOK
  <1>3. CursorInv'
    BY <1>1 DEF CursorInv, NoCursor
  <1> QED
    BY <1>1, <1>2, <1>3, OnlyCursor DEF PoolInv

\* CursorInv after a step that only moved the cursor, clause by clause.
LEMMA CursorIntro ==
    ASSUME NEW c, NEW m \in Nat, log' = log, writer' = writer,
           cursor'.chain = c, Len(cursor'.yielded) = m,
           Len(log[c]) > 0,
           m + cursor'.budget >= Len(log[c]),
           m = 0 => /\ cursor'.cur = writer[c].head /\ cursor'.level = 1
                    /\ cursor'.slice_end = writer[c].head + SliceSizes[1],
           m \in 1..Len(log[c]) => /\ cursor'.cur = log[c][m].at + 1
                                   /\ cursor'.slice_end = log[c][m].end
                                   /\ cursor'.level = log[c][m].level,
           m >= Len(log[c]) => /\ cursor'.slice_end = writer[c].slice_end
                               /\ writer[c].cur <= cursor'.cur
                               /\ cursor'.cur <= cursor'.slice_end,
           \A i \in 1..m : i <= Len(log[c]) => cursor'.yielded[i] = log[c][i].val
    PROVE  CursorInv'
  BY DEF CursorInv

\* Cursor::next keeps PoolInv: on a logged byte it moves to the next one, beyond
\* the last one it stays in the tail slice.
LEMMA CursorNextInv ==
    ASSUME PoolInv, CursorNext
    PROVE  PoolInv'
  <1> DEFINE c == cursor.chain
             w == writer[c]
             L == Len(log[c])
             n == Len(cursor.yielded)
             k == Hop(cursor)
             tail == cursor.cur = cursor.slice_end /\ mem[cursor.slice_end] = 0
  <1>1. TypeOK /\ CursorInv
    BY DEF PoolInv
  <1>2. /\ c # NoChain /\ cursor.budget # 0
        /\ cursor' = IF tail THEN [cursor EXCEPT !.budget = 0]
                     ELSE [k EXCEPT !.cur = k.cur + 1, !.budget = k.budget - 1,
                                    !.yielded = Append(k.yielded, mem[k.cur])]
        /\ UNCHANGED <<blocks, next, mem, writer, thrown, owner, log>>
    BY DEF CursorNext
  <1>3. /\ cursor \in [chain : Chains \cup {NoChain}, cur : Nat, slice_end : Nat,
                       level : Levels, budget : Nat, yielded : Seq(Nat)]
        /\ mem \in [Offsets -> Nat]
    BY <1>1 DEF TypeOK
  <1>4. /\ c \in Chains /\ cursor.cur \in Nat /\ cursor.slice_end \in Nat
        /\ cursor.level \in Levels /\ cursor.budget \in Nat /\ cursor.yielded \in Seq(Nat)
        /\ n \in Nat
    BY <1>2, <1>3
  <1>5. WriterInv(c) /\ LogInv(c)
    BY <1>4 DEF PoolInv
  <1>6. /\ w.cur \in Nat /\ w.slice_end \in Nat /\ w.head \in Nat /\ L \in Nat /\ L > 0
        /\ PtrBytes \in Nat \ {0} /\ MaxOffset \in Nat /\ next \in Nat /\ next <= MaxOffset
    BY <1>1, <1>2, <1>4, PoolTypes, WriterTypes DEF CursorInv
  <1>7. /\ w.live /\ w.cur <= w.slice_end /\ w.slice_end + PtrBytes <= next
        /\ mem[w.slice_end] = 0
        /\ \A i \in 1..L : EntryInv(c, log[c][i])
        /\ \A i \in 1..(L - 1) : Link(log[c][i], log[c][i + 1])
        /\ log[c][1].at = w.head /\ log[c][1].level = 1
        /\ log[c][1].end = w.head + SliceSizes[1]
        /\ w.cur = log[c][L].at + 1 /\ w.slice_end = log[c][L].end
    <2>1. /\ w.live
          /\ \A i \in 1..L : EntryInv(c, log[c][i])
          /\ \A i \in 1..(L - 1) : Link(log[c][i], log[c][i + 1])
          /\ log[c][1].at = w.head /\ log[c][1].level = 1
          /\ log[c][1].end = w.head + SliceSizes[1]
          /\ w.cur = log[c][L].at + 1 /\ w.slice_end = log[c][L].end
      BY <1>5, <1>6, SMTT(30) DEF LogInv
    <2>2. w.live
      BY <2>1
    <2>3. /\ w.cur <= w.slice_end /\ w.slice_end + PtrBytes <= next
          /\ mem[w.slice_end] = 0
      BY <1>1, <1>4, <1>5, <2>2, WriterFacts, Zenon
    <2> QED
      BY <2>1, <2>3, Zenon
  <1>8. /\ n + cursor.budget >= L
        /\ n = 0 => /\ cursor.cur = w.head /\ cursor.level = 1
                    /\ cursor.slice_end = w.head + SliceSizes[1]
        /\ n \in 1..L => /\ cursor.cur = log[c][n].at + 1
                         /\ cursor.slice_end = log[c][n].end
                         /\ cursor.level = log[c][n].level
        /\ n >= L => /\ cursor.slice_end = w.slice_end
                     /\ w.cur <= cursor.cur /\ cursor.cur <= cursor.slice_end
        /\ \A i \in 1..n : i <= L => cursor.yielded[i] = log[c][i].val
    BY <1>1, <1>2 DEF CursorInv
  \* A byte is left to yield: the step lands on it.
  <1>9. ASSUME n < L
        PROVE  /\ ~tail
               /\ k.cur = log[c][n + 1].at /\ k.slice_end = log[c][n + 1].end
               /\ k.level = log[c][n + 1].level
               /\ k.chain = c /\ k.budget = cursor.budget /\ k.yielded = cursor.yielded
               /\ n + 1 \in 1..L
    <2>1. n + 1 \in 1..L
      BY <1>4, <1>6, <1>9
    <2>2. CASE n = 0
      <3>1. /\ cursor.cur = log[c][1].at /\ cursor.slice_end = log[c][1].end
            /\ cursor.level = log[c][1].level
        BY <1>7, <1>8, <2>2
      <3>2. cursor.cur # cursor.slice_end
        <4>1. 1 \in 1..L
          BY <2>1, <2>2, SMTT(30)
        <4>2. log[c][1].at < log[c][1].end /\ log[c][1].at \in Nat /\ log[c][1].end \in Nat
          BY <1>1, <1>4, <1>5, <4>1, EntryFacts, SMTT(30)
        <4> QED
          BY <3>1, <4>2
      <3>3. k = cursor
        BY <3>2 DEF Hop
      <3> QED
        BY <2>1, <2>2, <3>1, <3>2, <3>3, SMTT(30)
    <2>3. CASE n > 0
      <3>1. n \in 1..L /\ n \in 1..(L - 1)
        BY <1>4, <1>6, <1>9, <2>3, SMTT(30)
      <3>2. /\ cursor.cur = log[c][n].at + 1 /\ cursor.slice_end = log[c][n].end
            /\ cursor.level = log[c][n].level /\ Link(log[c][n], log[c][n + 1])
        BY <1>7, <1>8, <3>1, SMTT(30)
      <3>3. log[c][n].at \in Nat /\ log[c][n].end \in Nat
        BY <1>1, <1>4, <3>1, EntryTypes, SMTT(30)
      <3>4. CASE cursor.cur # cursor.slice_end
        <4>1. k = cursor
          BY <3>4, SMTT(30) DEF Hop
        <4>2. /\ log[c][n + 1].at = log[c][n].at + 1 /\ log[c][n + 1].end = log[c][n].end
              /\ log[c][n + 1].level = log[c][n].level
          <5>1. log[c][n].at + 1 # log[c][n].end
            BY <3>2, <3>4, Zenon
          <5> QED
            BY <3>2, <5>1, Zenon DEF Link
        <4> QED
          BY <2>1, <3>2, <3>4, <4>1, <4>2
      <3>5. CASE cursor.cur = cursor.slice_end
        <4>1. /\ mem[cursor.slice_end] = log[c][n + 1].at /\ log[c][n + 1].at > 0
              /\ log[c][n + 1].level = NextLevel(cursor.level)
              /\ log[c][n + 1].end = log[c][n + 1].at + SliceSizes[log[c][n + 1].level]
          <5>1. log[c][n].at + 1 = log[c][n].end
            BY <3>2, <3>5, Zenon
          <5>2. ~(log[c][n].at + 1 < log[c][n].end)
            BY <3>3, <5>1
          <5> QED
            BY <3>2, <5>1, <5>2, Zenon DEF Link
        <4>2. k = [cursor EXCEPT !.level = NextLevel(cursor.level),
                                 !.cur = mem[cursor.slice_end],
                                 !.slice_end = mem[cursor.slice_end]
                                               + SliceSizes[NextLevel(cursor.level)]]
          BY <3>5, SMTT(30) DEF Hop
        <4>3. mem[cursor.slice_end] # 0
          BY <1>1, <1>4, <2>1, <4>1, EntryTypes, SMTT(30)
        <4> QED
          BY <1>3, <2>1, <4>1, <4>2, <4>3, SMTT(30)
      <3> QED
        BY <3>4, <3>5
    <2> QED
      BY <1>4, <2>2, <2>3
  \* Every byte was yielded: the cursor is in the tail slice.
  <1>10. ASSUME ~(n < L), ~tail
         PROVE  /\ k = cursor /\ cursor.cur < cursor.slice_end
                /\ cursor.cur \in Offsets
    <2>1. /\ cursor.slice_end = w.slice_end /\ w.cur <= cursor.cur
          /\ cursor.cur <= cursor.slice_end /\ mem[w.slice_end] = 0
      BY <1>4, <1>6, <1>7, <1>8, <1>10
    <2>2. cursor.cur # cursor.slice_end
      BY <1>10, <2>1
    <2>3. k = cursor
      BY <2>2 DEF Hop
    <2> QED
      BY <1>4, <1>6, <1>7, <2>1, <2>2, <2>3, SMTT(30) DEF Offsets
  <1>11. CASE tail
    <2>1. n >= L
      BY <1>4, <1>6, <1>9, <1>11
    <2>2. /\ cursor' = [cursor EXCEPT !.budget = 0]
          /\ cursor' \in [chain : Chains \cup {NoChain}, cur : Nat, slice_end : Nat,
                          level : Levels, budget : Nat, yielded : Seq(Nat)]
          /\ cursor'.chain = c /\ cursor'.yielded = cursor.yielded
          /\ cursor'.cur = cursor.cur /\ cursor'.slice_end = cursor.slice_end
          /\ cursor'.level = cursor.level /\ cursor'.budget = 0
      BY <1>2, <1>3, <1>11
    <2>3. TypeOK'
      BY <1>1, <1>2, <2>2 DEF TypeOK
    <2>4. CursorInv'
      <3>1. log' = log /\ writer' = writer /\ Len(cursor'.yielded) = n
        BY <1>2, <2>2
      <3>2. n + cursor'.budget >= L
        BY <1>4, <2>1, <2>2
      <3> QED
        BY <1>4, <1>6, <1>8, <2>2, <3>1, <3>2, CursorIntro, ZenonT(30)
    <2> QED
      BY <1>2, <2>3, <2>4, OnlyCursor DEF PoolInv
  <1>12. ASSUME ~tail
         PROVE  /\ k \in [chain : Chains \cup {NoChain}, cur : Nat, slice_end : Nat,
                          level : Levels, budget : Nat, yielded : Seq(Nat)]
                /\ mem[k.cur] \in Nat /\ k.chain = c /\ k.budget = cursor.budget
                /\ k.yielded = cursor.yielded
    <2>1. CASE n < L
      <3>1. /\ k.cur = log[c][n + 1].at /\ k.slice_end = log[c][n + 1].end
            /\ k.level = log[c][n + 1].level /\ n + 1 \in 1..L
            /\ k.chain = c /\ k.budget = cursor.budget /\ k.yielded = cursor.yielded
        BY <1>9, <2>1
      <3>2. /\ k.cur \in Offsets /\ k.cur \in Nat /\ k.slice_end \in Nat
            /\ k.level \in Levels
        BY <1>1, <1>4, <3>1, EntryTypes
      <3>3. DOMAIN k = DOMAIN cursor /\ k = [cursor EXCEPT !.level = k.level, !.cur = k.cur,
                                               !.slice_end = k.slice_end]
        BY <1>3 DEF Hop
      <3>4. mem[k.cur] \in Nat
        BY <1>3, <3>2
      <3> HIDE DEF k
      <3>5. k \in [chain : Chains \cup {NoChain}, cur : Nat, slice_end : Nat,
                   level : Levels, budget : Nat, yielded : Seq(Nat)]
        BY <1>3, <3>2, <3>3
      <3> QED
        BY <3>1, <3>4, <3>5
    <2>2. CASE ~(n < L)
      <3>1. k = cursor /\ cursor.cur \in Offsets
        BY <1>10, <1>12, <2>2
      <3> QED
        BY <1>3, <3>1
    <2> QED
      BY <2>1, <2>2
  <1>13. CASE ~tail
    <2> HIDE DEF k
    <2>1. cursor' = [k EXCEPT !.cur = k.cur + 1, !.budget = k.budget - 1,
                              !.yielded = Append(k.yielded, mem[k.cur])]
      BY <1>2, <1>13
    <2>2. /\ k \in [chain : Chains \cup {NoChain}, cur : Nat, slice_end : Nat,
                    level : Levels, budget : Nat, yielded : Seq(Nat)]
          /\ mem[k.cur] \in Nat /\ k.chain = c /\ k.budget = cursor.budget
          /\ k.yielded = cursor.yielded
      BY <1>12, <1>13
    <2>3. /\ cursor'.chain = c /\ cursor'.cur = k.cur + 1
          /\ cursor'.slice_end = k.slice_end /\ cursor'.level = k.level
          /\ cursor'.budget = cursor.budget - 1
          /\ cursor'.yielded = Append(cursor.yielded, mem[k.cur])
          /\ cursor.budget - 1 \in Nat /\ k.cur \in Nat
          /\ cursor' \in [chain : Chains \cup {NoChain}, cur : Nat, slice_end : Nat,
                          level : Levels, budget : Nat, yielded : Seq(Nat)]
      <3>1. cursor.budget - 1 \in Nat /\ k.cur \in Nat /\ k.cur + 1 \in Nat
        BY <1>2, <1>4, <2>2, SMTT(30)
      <3>2. Append(cursor.yielded, mem[k.cur]) \in Seq(Nat)
        BY <1>4, <2>2
      <3>3. cursor' = [k EXCEPT !.cur = k.cur + 1, !.budget = cursor.budget - 1,
                                !.yielded = Append(cursor.yielded, mem[k.cur])]
        BY <2>1, <2>2
      <3>4. /\ cursor'.chain = k.chain /\ cursor'.cur = k.cur + 1
            /\ cursor'.slice_end = k.slice_end /\ cursor'.level = k.level
            /\ cursor'.budget = cursor.budget - 1
            /\ cursor'.yielded = Append(cursor.yielded, mem[k.cur])
        BY <2>2, <3>3
      <3>5. cursor' \in [chain : Chains \cup {NoChain}, cur : Nat, slice_end : Nat,
                         level : Levels, budget : Nat, yielded : Seq(Nat)]
        BY <2>2, <3>1, <3>2, <3>3
      <3> QED
        BY <2>2, <3>1, <3>4, <3>5
    <2>4. /\ Len(cursor'.yielded) = n + 1 /\ cursor'.yielded[n + 1] = mem[k.cur]
          /\ \A i \in 1..n : cursor'.yielded[i] = cursor.yielded[i]
      BY <1>4, <2>2, <2>3
    <2>5. TypeOK'
      BY <1>1, <1>2, <2>3 DEF TypeOK
    <2>6. CursorInv'
      <3>1. CASE n < L
        <4>1. /\ k.cur = log[c][n + 1].at /\ k.slice_end = log[c][n + 1].end
              /\ k.level = log[c][n + 1].level /\ n + 1 \in 1..L
          BY <1>9, <3>1
        <4>2. mem[k.cur] = log[c][n + 1].val /\ k.cur < k.slice_end
          BY <1>7, <4>1 DEF EntryInv
        <4>3. \A i \in 1..(n + 1) : i <= L => cursor'.yielded[i] = log[c][i].val
          <5>1. ASSUME NEW i \in 1..(n + 1), i <= L
                PROVE  cursor'.yielded[i] = log[c][i].val
            <6>1. i = n + 1 \/ i \in 1..n
              BY <1>4
            <6> QED
              BY <1>8, <2>4, <4>2, <5>1, <6>1
          <5> QED
            BY <5>1
        <4>4. n + 1 >= L => /\ k.slice_end = w.slice_end /\ w.cur <= k.cur + 1
                            /\ k.cur + 1 <= k.slice_end
          <5>1. SUFFICES ASSUME n + 1 >= L
                         PROVE  /\ k.slice_end = w.slice_end /\ w.cur <= k.cur + 1
                                /\ k.cur + 1 <= k.slice_end
            OBVIOUS
          <5>2. n + 1 = L
            BY <1>4, <1>6, <3>1, <5>1
          <5>3. k.slice_end = w.slice_end /\ w.cur = k.cur + 1
            BY <1>7, <4>1, <5>2
          <5> QED
            BY <1>6, <2>3, <4>2, <5>3, SMTT(30)
        <4>5. n + 1 + cursor'.budget >= L
          <5>1. n + cursor.budget >= L /\ cursor'.budget = cursor.budget - 1
            BY <1>8, <2>3
          <5> QED
            BY <1>4, <1>6, <5>1
        <4>6. log' = log /\ writer' = writer /\ n + 1 \in Nat /\ n + 1 # 0
          BY <1>2, <1>4, SMTT(30)
        <4>7. /\ cursor'.cur = log[c][n + 1].at + 1 /\ cursor'.slice_end = log[c][n + 1].end
              /\ cursor'.level = log[c][n + 1].level
          BY <2>3, <4>1
        <4>8. n + 1 >= L => /\ cursor'.slice_end = w.slice_end /\ w.cur <= cursor'.cur
                            /\ cursor'.cur <= cursor'.slice_end
          BY <2>3, <4>4, SMTT(30)
        <4> HIDE DEF n
        <4> QED
          BY <1>6, <2>3, <2>4, <4>3, <4>5, <4>6, <4>7, <4>8, CursorIntro, ZenonT(30)
      <3>2. CASE ~(n < L)
        <4>1. k = cursor /\ cursor.cur < cursor.slice_end
          BY <1>10, <1>13, <3>2
        <4>2. cursor.slice_end = w.slice_end /\ w.cur <= cursor.cur
          BY <1>4, <1>6, <1>8, <3>2
        <4>3. \A i \in 1..(n + 1) : i <= L => cursor'.yielded[i] = log[c][i].val
          <5>1. n \in Nat /\ L \in Nat
            BY <1>4, <1>6
          <5>2. ASSUME NEW i \in 1..(n + 1), i <= L
                PROVE  i \in 1..n
            <6> HIDE DEF n, L
            <6> QED
              BY <3>2, <5>1, <5>2
          <5>3. ASSUME NEW i \in 1..n, i <= L
                PROVE  cursor'.yielded[i] = log[c][i].val
            BY <1>8, <2>4, <5>3
          <5> QED
            BY <5>2, <5>3
        <4>4. /\ cursor'.slice_end = w.slice_end /\ w.cur <= cursor'.cur
              /\ cursor'.cur <= cursor'.slice_end /\ n + 1 + cursor'.budget >= L
              /\ ~(n + 1 \in 1..L)
          <5>1. n + cursor.budget >= L /\ cursor'.budget = cursor.budget - 1
            BY <1>8, <2>3
          <5>2. n + 1 + cursor'.budget >= L /\ ~(n + 1 \in 1..L)
            <6>1. n \in Nat /\ L \in Nat /\ cursor.budget \in Nat
              BY <1>4, <1>6
            <6> HIDE DEF n, L
            <6> QED
              BY <3>2, <5>1, <6>1
          <5>3. cursor'.cur = cursor.cur + 1 /\ cursor'.slice_end = cursor.slice_end
            BY <2>3, <4>1
          <5> QED
            BY <1>4, <1>6, <4>1, <4>2, <5>2, <5>3, SMTT(30)
        <4>5. log' = log /\ writer' = writer /\ n + 1 \in Nat /\ n + 1 # 0
          BY <1>2, <1>4
        <4> HIDE DEF n
        <4> QED
          BY <1>6, <2>3, <2>4, <4>3, <4>4, <4>5, CursorIntro
      <3> QED
        BY <3>1, <3>2
    <2> QED
      BY <1>2, <2>5, <2>6, OnlyCursor DEF PoolInv
  <1> QED
    BY <1>11, <1>13

-----------------------------------------------------------------------------
(* The theorems. *)

\* PoolInv is an invariant of every run of the pool.
THEOREM PoolInvariant == Spec => []PoolInv
  <1>1. Init => PoolInv
    BY InitInv
  <1>2. PoolInv /\ [Next]_vars => PoolInv'
    <2> SUFFICES ASSUME PoolInv, [Next]_vars
                 PROVE  PoolInv'
      OBVIOUS
    <2>1. ASSUME NEW c \in Chains, StartChain(c)
          PROVE  PoolInv'
      BY <2>1, StartChainInv
    <2>2. ASSUME NEW c \in Chains, NEW v \in Bytes, AppendInSlice(c, v)
          PROVE  PoolInv'
      BY <2>2, AppendInSliceInv
    <2>3. ASSUME NEW c \in Chains, NEW v \in Bytes, AppendInNewSlice(c, v)
          PROVE  PoolInv'
      BY <2>3, AppendInNewSliceInv
    <2>4. ASSUME NEW c \in Chains, Overflow(c)
          PROVE  PoolInv'
      BY <2>4, OverflowInv
    <2>5. ASSUME NEW c \in Chains, NEW b \in {Len(log[c]), writer[c].cur}, OpenCursor(c, b)
          PROVE  PoolInv'
      BY <2>5, OpenCursorInv
    <2>6. CASE Reset
      BY <2>6, ResetInv
    <2>7. CASE CursorNext
      BY <2>7, CursorNextInv
    <2>8. CASE CloseCursor
      BY <2>8, CloseCursorInv
    <2>9. CASE UNCHANGED vars
      <3>1. TypeOK' /\ CursorInv'
        BY <2>9 DEF PoolInv, TypeOK, CursorInv, vars
      <3>2. UNCHANGED <<blocks, next, mem, writer, thrown, owner, log>>
        BY <2>9 DEF vars
      <3> QED
        BY <3>1, <3>2, OnlyCursor DEF PoolInv
    <2> QED
      BY <2>1, <2>2, <2>3, <2>4, <2>5, <2>6, <2>7, <2>8, <2>9 DEF Next
  <1> QED
    BY <1>1, <1>2, PTL DEF Spec

\* Type correctness, for every value of the constants.
THEOREM TypeCorrect == Spec => []TypeOK
  <1>1. PoolInv => TypeOK
    BY DEF PoolInv
  <1> QED
    BY <1>1, PoolInvariant, PTL

\* No append, of any chain, overwrites a stored byte.
THEOREM PayloadSafe == Spec => []PayloadIntact
  <1>1. PoolInv => PayloadIntact
    <2> SUFFICES ASSUME PoolInv, NEW c \in Chains, NEW i \in 1..Len(log[c])
                 PROVE  /\ mem[log[c][i].at] = log[c][i].val
                        /\ owner[log[c][i].at] = [chain |-> c, kind |-> "payload"]
      BY DEF PayloadIntact
    <2>1. TypeOK /\ LogInv(c)
      BY DEF PoolInv
    <2>2. Len(log[c]) \in Nat /\ Len(log[c]) > 0
      BY <2>1, WriterTypes
    <2>3. EntryInv(c, log[c][i])
      BY <2>1, <2>2 DEF LogInv
    <2>4. log[c][i].at \in log[c][i].at..(log[c][i].end - 1)
      BY <2>1, <2>3, EntryTypes DEF EntryInv
    <2> QED
      BY <2>3, <2>4 DEF EntryInv, Payload
  <1> QED
    BY <1>1, PoolInvariant, PTL

\* at() and the pointer copies stay inside one allocated block.
THEOREM BlocksSafe == Spec => []SlicesInsideBlocks
  <1>1. PoolInv => SlicesInsideBlocks
    <2> SUFFICES ASSUME PoolInv, NEW c \in Chains, NEW i \in 1..Len(log[c])
                 PROVE  /\ log[c][i].at \div BlockSize
                              = (log[c][i].end + PtrBytes - 1) \div BlockSize
                        /\ log[c][i].at \div BlockSize < blocks
      BY DEF SlicesInsideBlocks
    <2> DEFINE at == log[c][i].at
               hi == log[c][i].end + PtrBytes
    <2>1. TypeOK /\ LogInv(c)
      BY DEF PoolInv
    <2>2. Len(log[c]) \in Nat /\ Len(log[c]) > 0
      BY <2>1, WriterTypes
    <2>3. EntryInv(c, log[c][i])
      BY <2>1, <2>2 DEF LogInv
    <2>4. at \in Nat /\ hi \in Nat /\ hi - 1 \in Nat /\ at <= hi - 1
      <3>1. at \in Nat /\ log[c][i].end \in Nat
        BY <2>1, <2>2, EntryTypes
      <3>2. PtrBytes \in Nat \ {0}
        BY PoolAssumption
      <3>3. at < log[c][i].end
        BY <2>3 DEF EntryInv
      <3> QED
        BY <3>1, <3>2, <3>3, SMTT(30)
    <2> SUFFICES at \div BlockSize = (hi - 1) \div BlockSize /\ at \div BlockSize < blocks
      <3>1. log[c][i].end \in Nat /\ PtrBytes \in Nat
        BY <2>1, <2>2, EntryTypes, PoolAssumption
      <3>2. hi - 1 = log[c][i].end + PtrBytes - 1
        BY <3>1
      <3> QED
        BY <3>2
    <2>5. PICK b \in Nat : b < blocks /\ b * BlockSize <= at /\ hi <= (b + 1) * BlockSize
      BY <2>3 DEF EntryInv, InBlock
    <2>6. BlockSize \in Nat \ {0} /\ b * BlockSize \in Nat /\ (b + 1) * BlockSize \in Nat
      BY PoolAssumption
    <2> HIDE DEF at, hi
    <2>7. at \div BlockSize = b
      <3>1. at < (b + 1) * BlockSize
        BY <2>4, <2>5, <2>6
      <3> QED
        BY <2>4, <2>5, <2>6, <3>1, DivInside, SMTT(30)
    <2>8. (hi - 1) \div BlockSize = b
      <3>1. hi - 1 < (b + 1) * BlockSize /\ b * BlockSize <= hi - 1
        BY <2>4, <2>5, <2>6
      <3> QED
        BY <2>4, <2>6, <3>1, DivInside
    <2> QED
      BY <2>5, <2>7, <2>8
  <1> QED
    BY <1>1, PoolInvariant, PTL

\* What a step of PoolInv says about an open cursor, for the last two theorems.
LEMMA CursorFacts ==
    ASSUME PoolInv, cursor.chain # NoChain
    PROVE  /\ cursor.chain \in Chains /\ TypeOK
           /\ Len(log[cursor.chain]) \in Nat /\ Len(log[cursor.chain]) > 0
           /\ Len(cursor.yielded) \in Nat /\ cursor.budget \in Nat
           /\ cursor.cur \in Nat /\ cursor.slice_end \in Nat
           /\ WriterInv(cursor.chain) /\ LogInv(cursor.chain)
           /\ writer[cursor.chain].live
  <1>1. TypeOK /\ CursorInv
    BY DEF PoolInv
  <1>2. cursor \in [chain : Chains \cup {NoChain}, cur : Nat, slice_end : Nat,
                    level : Levels, budget : Nat, yielded : Seq(Nat)]
    BY <1>1 DEF TypeOK
  <1>3. cursor.chain \in Chains /\ cursor.yielded \in Seq(Nat)
    BY <1>2
  <1>4. log[cursor.chain] \in Seq(Entry)
    BY <1>1, <1>3, WriterTypes
  <1>5. Len(log[cursor.chain]) > 0
    BY <1>1 DEF CursorInv
  <1>6. WriterInv(cursor.chain) /\ LogInv(cursor.chain)
    BY <1>3 DEF PoolInv
  <1>7. writer[cursor.chain].live
    BY <1>5, <1>6 DEF LogInv
  <1> QED
    BY <1>1, <1>2, <1>3, <1>4, <1>5, <1>6, <1>7

\* A cursor never leaves the slices of its chain, whatever its budget.
THEOREM CursorSafe == Spec => []CursorOnChain
  <1>1. PoolInv => CursorOnChain
    <2> DEFINE c == cursor.chain
               n == Len(cursor.yielded)
    <2> SUFFICES ASSUME PoolInv, c # NoChain
                 PROVE  /\ \A a \in cursor.cur..(cursor.slice_end - 1) : owner[a] = Payload(c)
                        /\ owner[cursor.slice_end] = Ptr(c)
      BY DEF CursorOnChain, Payload, Ptr
    <2>1. /\ c \in Chains /\ TypeOK /\ Len(log[c]) \in Nat /\ Len(log[c]) > 0
          /\ n \in Nat /\ WriterInv(c) /\ LogInv(c) /\ writer[c].live
          /\ cursor.cur \in Nat /\ cursor.slice_end \in Nat
      BY CursorFacts
    <2>2. CursorInv
      BY DEF PoolInv
    <2>3. ASSUME NEW i \in 1..Len(log[c])
          PROVE  /\ \A a \in log[c][i].at..(log[c][i].end - 1) : owner[a] = Payload(c)
                 /\ owner[log[c][i].end] = Ptr(c)
                 /\ log[c][i].at \in Nat /\ log[c][i].end \in Nat
      BY <2>1, EntryFacts, ZenonT(30)
    <2>4. CASE n = 0
      <3>1. 1 \in 1..Len(log[c])
        BY <2>1
      <3>2. cursor.cur = log[c][1].at /\ cursor.slice_end = log[c][1].end
        BY <2>1, <2>2, <2>4 DEF CursorInv, LogInv
      <3> QED
        BY <2>3, <3>1, <3>2
    <2>5. CASE n \in 1..Len(log[c])
      <3>1. cursor.cur = log[c][n].at + 1 /\ cursor.slice_end = log[c][n].end
        BY <2>2, <2>5 DEF CursorInv
      <3>2. \A a \in cursor.cur..(cursor.slice_end - 1) : a \in log[c][n].at..(log[c][n].end - 1)
        BY <2>3, <2>5, <3>1
      <3> QED
        BY <2>3, <2>5, <3>1, <3>2
    <2>6. CASE n > Len(log[c])
      <3>1. cursor.slice_end = writer[c].slice_end /\ writer[c].cur <= cursor.cur
        BY <2>1, <2>2, <2>6 DEF CursorInv
      <3>2. writer[c].cur \in Nat /\ writer[c].slice_end \in Nat /\ PtrBytes \in Nat \ {0}
        BY <2>1, WriterTypes, PoolTypes
      <3>3. /\ \A a \in writer[c].cur..(writer[c].slice_end - 1) : owner[a] = Payload(c)
            /\ owner[writer[c].slice_end] = Ptr(c)
        BY <2>1, WriterFacts
      <3>4. \A a \in cursor.cur..(cursor.slice_end - 1) :
               a \in writer[c].cur..(writer[c].slice_end - 1)
        BY <2>1, <3>1, <3>2
      <3> QED
        BY <3>1, <3>3, <3>4
    <2> QED
      BY <2>1, <2>4, <2>5, <2>6, SMTT(30)
  <1> QED
    BY <1>1, PoolInvariant, PTL

\* A cursor reads back what was appended, in order, and all of it before
\* has_next() turns false.
THEOREM ReadsBack == Spec => []ReadBack
  <1>1. PoolInv => ReadBack
    <2> DEFINE c == cursor.chain
               n == Len(cursor.yielded)
               L == Len(log[c])
    <2> SUFFICES ASSUME PoolInv, c # NoChain
                 PROVE  /\ \A i \in 1..n : i <= L => cursor.yielded[i] = log[c][i].val
                        /\ ~HasNext(cursor) => n >= L
      BY DEF ReadBack
    <2>1. /\ c \in Chains /\ TypeOK /\ L \in Nat /\ L > 0 /\ n \in Nat
          /\ LogInv(c) /\ cursor.budget \in Nat
      BY CursorFacts
    <2>2. /\ n + cursor.budget >= L
          /\ n = 0 => /\ cursor.cur = writer[c].head
                      /\ cursor.slice_end = writer[c].head + SliceSizes[1]
          /\ n \in 1..L => /\ cursor.cur = log[c][n].at + 1
                           /\ cursor.slice_end = log[c][n].end
          /\ \A i \in 1..n : i <= L => cursor.yielded[i] = log[c][i].val
      BY SMTT(30) DEF PoolInv, CursorInv
    <2>3. ASSUME ~HasNext(cursor), n < L
          PROVE  FALSE
      <3>1. cursor.budget # 0
        BY <2>1, <2>2, <2>3
      <3>2. cursor.cur = cursor.slice_end /\ mem[cursor.slice_end] = 0
        BY <2>3, <3>1 DEF HasNext
      <3>3. n # 0
        <4>1. writer[c].head \in Nat /\ SliceSizes[1] \in Nat \ {0}
          BY <2>1, WriterTypes, PoolAssumption
        <4> QED
          BY <2>2, <3>2, <4>1
      <3>4. n \in 1..L /\ n \in 1..(L - 1) /\ n + 1 \in 1..L
        BY <2>1, <2>3, <3>3
      <3>5. Link(log[c][n], log[c][n + 1])
        BY <2>1, <3>4 DEF LogInv
      <3>6. log[c][n].at \in Nat /\ log[c][n].end \in Nat /\ log[c][n + 1].at \in Nat
        BY <2>1, <3>4, EntryTypes, SMTT(30)
      <3>7. log[c][n].at + 1 = log[c][n].end /\ mem[log[c][n].end] = 0
        BY <2>2, <3>2, <3>4
      <3> QED
        BY <3>5, <3>6, <3>7 DEF Link
    <2> QED
      BY <2>1, <2>2, <2>3
  <1> QED
    BY <1>1, PoolInvariant, PTL

\* The budget to_postings passes, the write-head offset of the chain, is never
\* below the number of payload bytes of the chain.
THEOREM BudgetCovers == Spec => []WriteHeadBoundsPayload
  <1>1. PoolInv => WriteHeadBoundsPayload
    <2> SUFFICES ASSUME PoolInv, NEW c \in Chains, writer[c].live
                 PROVE  Len(log[c]) <= writer[c].cur
      BY DEF WriteHeadBoundsPayload
    <2> DEFINE L == Len(log[c])
    <2>1. TypeOK /\ LogInv(c)
      BY DEF PoolInv
    <2>2. log[c] \in Seq(Entry) /\ L \in Nat /\ writer[c].cur \in Nat
      BY <2>1, WriterTypes
    <2>3. CASE L > 0
      <3>1. L \in 1..L
        BY <2>2, <2>3
      <3>2. EntryInv(c, log[c][L]) /\ L <= log[c][L].at + 1
        BY <2>1, <2>3, <3>1, SMTT(30) DEF LogInv
      <3>3. log[c][L].at < writer[c].cur
        BY <3>2 DEF EntryInv
      <3>4. log[c][L].at \in Nat
        BY <2>1, <3>1, EntryTypes
      <3> QED
        BY <2>2, <3>2, <3>3, <3>4
    <2> QED
      BY <2>2, <2>3
  <1> QED
    BY <1>1, PoolInvariant, PTL
=============================================================================
