---------------------------- MODULE PostingPool ----------------------------
(***************************************************************************)
(* CompactPostingPool: the segmented byte arena behind SpimiTermBuffer.    *)
(* Each chain (one per live term) is a list of slices cut from fixed-size  *)
(* blocks by a bump allocator; a slice is [payload][forward pointer], and  *)
(* a reader walks the payload and follows the pointers.                    *)
(*                                                                         *)
(* Memory is a function from absolute offsets to cells.  The PtrBytes-wide *)
(* forward pointer is kept whole in its first cell, the other cells of the *)
(* pointer being zero; a payload byte is a natural number.                 *)
(***************************************************************************)
EXTENDS Integers, Sequences

CONSTANTS
    Chains,      \* the chains (terms) that may be started
    Bytes,       \* payload byte values
    BlockSize,   \* kBlockSize
    PtrBytes,    \* kPtrBytes
    SliceSizes,  \* kSliceSizes, levels counted from 1
    MaxOffset,   \* UINT32_MAX: the arena may not grow past it
    NoChain      \* "no chain": a free cell, an idle cursor

Levels == 1..Len(SliceSizes)
Offsets == 0..MaxOffset

ASSUME PoolAssumption ==
    /\ BlockSize \in Nat \ {0} /\ PtrBytes \in Nat \ {0} /\ MaxOffset \in Nat
    /\ SliceSizes \in Seq(Nat \ {0}) /\ Len(SliceSizes) > 0
    /\ \A l \in Levels : SliceSizes[l] + PtrBytes <= BlockSize
    /\ Bytes \subseteq Nat
    /\ NoChain \notin Chains

VARIABLES
    blocks,   \* blocks_.size()
    next,     \* next_offset_
    mem,      \* the bytes of all blocks; zero where no block exists yet
    writer,   \* the SliceWriter, level and head each chain's caller holds
    cursor,   \* one Cursor, or idle
    thrown,   \* a call has thrown std::overflow_error since the last reset
    \* history, read by the properties only:
    owner,    \* the chain each cell was allocated to, and for what
    log       \* per chain, where and what append_byte wrote, in order

vars == <<blocks, next, mem, writer, cursor, thrown, owner, log>>

NoWriter == [live |-> FALSE, head |-> 0, cur |-> 0, slice_end |-> 0, level |-> 1]
NoCursor == [chain |-> NoChain, cur |-> 0, slice_end |-> 0, level |-> 1,
             budget |-> 0, yielded |-> <<>>]
Free == [chain |-> NoChain, kind |-> "free"]

NextLevel(l) == IF l = Len(SliceSizes) THEN l ELSE l + 1

----------------------------------------------------------------------------
(* The bump allocator: alloc_run and alloc_slice. *)

\* Fault: a block that the last run filled exactly is taken for the tail.
BadNeedBlock(n) == blocks = 0 \/ (next % BlockSize) + n > BlockSize

\* alloc_run starts a block when there is no tail block, when the run does
\* not fit in it, or when the previous run filled it to the last byte.
NeedBlock(n) ==
    LET tail_exists == (next \div BlockSize) < blocks
    IN  ~tail_exists \/ (next % BlockSize) + n > BlockSize

RunStart(n) == IF NeedBlock(n) THEN blocks * BlockSize ELSE next

RunBytes(level) == SliceSizes[level] + PtrBytes

\* Fault: the limit is tested on the start of the run.
BadFits(level) == RunStart(RunBytes(level)) <= MaxOffset

\* alloc_run throws, before it changes anything, on a run past the limit.
Fits(level) == RunStart(RunBytes(level)) + RunBytes(level) <= MaxOffset

AllocRun(n) ==
    /\ blocks' = IF NeedBlock(n) THEN blocks + 1 ELSE blocks
    /\ next' = RunStart(n) + n

\* The cells a slice takes, for the history: payload, then pointer.
Claim(c, level) ==
    LET first == RunStart(RunBytes(level))
        end   == first + SliceSizes[level]
    IN  owner' = [a \in Offsets |->
                    IF a \in first..(end - 1) THEN [chain |-> c, kind |-> "payload"]
                    ELSE IF a \in end..(end + PtrBytes - 1) THEN [chain |-> c, kind |-> "ptr"]
                    ELSE owner[a]]

\* The forward pointer of a new slice is zeroed: it is the chain's tail.
ZeroPtr(m, end) ==
    [a \in Offsets |-> IF a \in end..(end + PtrBytes - 1) THEN 0 ELSE m[a]]

\* Fault: the pointer is written one byte early, over the last payload byte.
BadWritePtr(m, end, target) ==
    [a \in Offsets |-> IF a = end - 1 THEN target
                       ELSE IF a \in end..(end + PtrBytes - 1) THEN 0 ELSE m[a]]

WritePtr(m, end, target) ==
    [a \in Offsets |-> IF a = end THEN target
                       ELSE IF a \in end..(end + PtrBytes - 1) THEN 0 ELSE m[a]]

----------------------------------------------------------------------------
(* Operations of the pool. *)

Init ==
    /\ blocks = 0 /\ next = 0
    /\ mem = [a \in Offsets |-> 0]
    /\ writer = [c \in Chains |-> NoWriter]
    /\ cursor = NoCursor
    /\ thrown = FALSE
    /\ owner = [a \in Offsets |-> Free]
    /\ log = [c \in Chains |-> <<>>]

\* to_postings opens a cursor only from a drain, and a drain appends nothing.
Quiet == cursor.chain = NoChain

StartChain(c) ==
    /\ ~writer[c].live /\ Quiet
    /\ Fits(1)
    /\ LET first == RunStart(RunBytes(1))
           end   == first + SliceSizes[1]
       IN  /\ mem' = ZeroPtr(mem, end)
           /\ writer' = [writer EXCEPT ![c] =
                 [live |-> TRUE, head |-> first, cur |-> first,
                  slice_end |-> end, level |-> 1]]
    /\ AllocRun(RunBytes(1))
    /\ Claim(c, 1)
    /\ UNCHANGED <<cursor, thrown, log>>

Logged(c, at, v, end, level) ==
    log' = [log EXCEPT ![c] =
               Append(@, [at |-> at, val |-> v, end |-> end, level |-> level])]

\* append_byte inside the current slice.
AppendInSlice(c, v) ==
    LET w == writer[c] IN
    /\ w.live /\ Quiet
    /\ w.cur # w.slice_end
    /\ mem' = [mem EXCEPT ![w.cur] = v]
    /\ writer' = [writer EXCEPT ![c].cur = w.cur + 1]
    /\ Logged(c, w.cur, v, w.slice_end, w.level)
    /\ UNCHANGED <<blocks, next, cursor, thrown, owner>>

\* append_byte at the end of a slice: a slice of the next level is allocated,
\* the old slice's pointer is set to it, and the byte goes to its first cell.
AppendInNewSlice(c, v) ==
    LET w     == writer[c]
        level == NextLevel(w.level)
        first == RunStart(RunBytes(level))
        end   == first + SliceSizes[level]
    IN
    /\ w.live /\ Quiet
    /\ w.cur = w.slice_end
    /\ Fits(level)
    /\ mem' = [WritePtr(ZeroPtr(mem, end), w.slice_end, first) EXCEPT ![first] = v]
    /\ writer' = [writer EXCEPT ![c] =
          [live |-> TRUE, head |-> w.head, cur |-> first + 1,
           slice_end |-> end, level |-> level]]
    /\ AllocRun(RunBytes(level))
    /\ Claim(c, level)
    /\ Logged(c, first, v, end, level)
    /\ UNCHANGED <<cursor, thrown>>

\* Either call throws at the limit and leaves the arena as it was.
Overflow(c) ==
    LET w == writer[c] IN
    /\ Quiet
    /\ \/ ~w.live /\ ~Fits(1)
       \/ w.live /\ w.cur = w.slice_end /\ ~Fits(NextLevel(w.level))
    /\ thrown' = TRUE
    /\ UNCHANGED <<blocks, next, mem, writer, cursor, owner, log>>

\* reset() releases every block; the callers drop their chains and cursors.
Reset ==
    /\ blocks > 0
    /\ blocks' = 0 /\ next' = 0
    /\ mem' = [a \in Offsets |-> 0]
    /\ writer' = [c \in Chains |-> NoWriter]
    /\ cursor' = NoCursor
    /\ owner' = [a \in Offsets |-> Free]
    /\ log' = [c \in Chains |-> <<>>]
    /\ thrown' = FALSE

----------------------------------------------------------------------------
(* The reader. *)

\* Cursor(pool, head, budget) over a chain; the caller's budget may be the
\* exact payload length or anything above it (the accumulator passes w.cur, and
\* opens no cursor on a term without tokens).
OpenCursor(c, budget) ==
    /\ log[c] # <<>> /\ Quiet
    /\ cursor' = [chain |-> c, cur |-> writer[c].head,
                  slice_end |-> writer[c].head + SliceSizes[1], level |-> 1,
                  budget |-> budget, yielded |-> <<>>]
    /\ UNCHANGED <<blocks, next, mem, writer, thrown, owner, log>>

\* Fault: the end of a slice is taken for the end of the chain.
BadHasNext(k) == k.budget # 0 /\ k.cur # k.slice_end

HasNext(k) ==
    /\ k.budget # 0
    /\ k.cur = k.slice_end => mem[k.slice_end] # 0

\* The slice position next() reads from: the current one, or the head of the
\* slice the forward pointer names.
Hop(k) ==
    IF k.cur # k.slice_end THEN k
    ELSE LET level == NextLevel(k.level)
             first == mem[k.slice_end]
         IN  [k EXCEPT !.level = level, !.cur = first,
                       !.slice_end = first + SliceSizes[level]]

\* Fault: the tail's zero pointer is followed.
BadCursorNext ==
    /\ cursor.chain # NoChain /\ cursor.budget # 0
    /\ LET k == Hop(cursor) IN
       cursor' = [k EXCEPT !.cur = k.cur + 1, !.budget = k.budget - 1,
                           !.yielded = Append(k.yielded, mem[k.cur])]
    /\ UNCHANGED <<blocks, next, mem, writer, thrown, owner, log>>

\* next() with budget left: a zero pointer at a slice boundary is the tail and
\* spends the budget; otherwise one byte is yielded.
CursorNext ==
    /\ cursor.chain # NoChain /\ cursor.budget # 0
    /\ LET k == Hop(cursor) IN
       cursor' = IF cursor.cur = cursor.slice_end /\ mem[cursor.slice_end] = 0
                 THEN [cursor EXCEPT !.budget = 0]
                 ELSE [k EXCEPT !.cur = k.cur + 1, !.budget = k.budget - 1,
                                !.yielded = Append(k.yielded, mem[k.cur])]
    /\ UNCHANGED <<blocks, next, mem, writer, thrown, owner, log>>

CloseCursor ==
    /\ cursor.chain # NoChain
    /\ cursor' = NoCursor
    /\ UNCHANGED <<blocks, next, mem, writer, thrown, owner, log>>

Next ==
    \/ \E c \in Chains :
          \/ StartChain(c)
          \/ \E v \in Bytes : AppendInSlice(c, v) \/ AppendInNewSlice(c, v)
          \/ Overflow(c)
          \/ \E b \in {Len(log[c]), writer[c].cur} : OpenCursor(c, b)
    \/ Reset
    \/ CursorNext
    \/ CloseCursor

Spec == Init /\ [][Next]_vars

----------------------------------------------------------------------------
(* Properties. *)

Entry == [at : Offsets, val : Bytes, end : Offsets, level : Levels]

\* Every variable has the shape of the member it models.
TypeOK ==
    /\ blocks \in Nat /\ next \in Offsets
    /\ mem \in [Offsets -> Nat]
    /\ writer \in [Chains -> [live : BOOLEAN, head : Offsets, cur : Offsets,
                              slice_end : Offsets, level : Levels]]
    /\ cursor \in [chain : Chains \cup {NoChain}, cur : Nat, slice_end : Nat,
                   level : Levels, budget : Nat, yielded : Seq(Nat)]
    /\ thrown \in BOOLEAN
    /\ owner \in [Offsets -> [chain : Chains \cup {NoChain},
                              kind : {"free", "payload", "ptr"}]]
    /\ log \in [Chains -> Seq(Entry)]

\* No later append, of this or of another chain, overwrites a byte that
\* append_byte has stored: the arena still holds every chain's payload, each
\* byte in a cell that alloc_slice gave to that chain.
PayloadIntact ==
    \A c \in Chains : \A i \in 1..Len(log[c]) :
        /\ mem[log[c][i].at] = log[c][i].val
        /\ owner[log[c][i].at] = [chain |-> c, kind |-> "payload"]

\* A slice and its forward pointer lie inside one allocated block, so at()
\* never indexes a missing block and the pointer's memcpy never runs over the
\* end of one -- also after a run has filled a block exactly.
SlicesInsideBlocks ==
    \A c \in Chains : \A i \in 1..Len(log[c]) :
        LET s == log[c][i] IN
        /\ s.at \div BlockSize = (s.end + PtrBytes - 1) \div BlockSize
        /\ s.at \div BlockSize < blocks

\* Whatever the budget, a cursor stands inside a slice of its own chain: it
\* never walks into another chain, a pointer, or block 0 through the tail's
\* zero pointer.
CursorOnChain ==
    cursor.chain # NoChain =>
        /\ \A a \in cursor.cur..(cursor.slice_end - 1) :
              owner[a] = [chain |-> cursor.chain, kind |-> "payload"]
        /\ owner[cursor.slice_end] = [chain |-> cursor.chain, kind |-> "ptr"]

\* A cursor yields the appended bytes in the order append_byte got them, and a
\* cursor whose has_next() is false has yielded all of them.
ReadBack ==
    cursor.chain # NoChain =>
        LET written == log[cursor.chain] IN
        /\ \A i \in 1..Len(cursor.yielded) :
              i <= Len(written) => cursor.yielded[i] = written[i].val
        /\ ~HasNext(cursor) => Len(cursor.yielded) >= Len(written)

\* The budget the accumulator passes, the chain's write-head offset, is never
\* below the number of payload bytes of the chain.
WriteHeadBoundsPayload ==
    \A c \in Chains : writer[c].live => Len(log[c]) <= writer[c].cur

\* What the header promises of has_next() for any budget at or above the
\* payload length: it is false once every appended byte has been yielded.
HasNextReliable ==
    cursor.chain # NoChain /\ HasNext(cursor) =>
        Len(cursor.yielded) < Len(log[cursor.chain])
============================================================================
