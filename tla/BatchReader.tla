---------------------------- MODULE BatchReader -----------------------------
(***************************************************************************)
(* What a caller may rely on of read_batch: one batch at a time, over a    *)
(* file that stays as it is while the batch is read.  It is what IndexQuery *)
(* is shown to implement, and what the theorems of ReadBatchProofs are     *)
(* about.                                                                  *)
(***************************************************************************)
EXTENDS ReadBatch

VARIABLE file                \* the bytes of the file

Segment == [offset : Nat, len : Nat]

Init == io = NoFetch

\* The fields of io' are the inputs of the batch.
Start ==
  /\ io.state # "reading"
  /\ io'.segs \in Seq(Segment)
  /\ io' = Launch(io'.reader, io'.reqs, io'.segs, io'.loc)
  /\ file' = file

\* A plan that leaves the file is refused.
Refuse == io.state # "reading" /\ io' = [NoFetch EXCEPT !.state = "error"] /\ file' = file

\* The caller is done with a batch.
Drop == io.state # "reading" /\ io' = NoFetch /\ file' = file

Return ==
  /\ io.state = "reading"
  /\ \E i \in io.flying, ok \in BOOLEAN : io' = AfterReturn(io, i, ok, file)
  /\ file' = file

\* Between batches the file may become another one.
Replace == io.state = "none" /\ io' = io

Next == Start \/ Refuse \/ Drop \/ Return \/ Replace

Spec == Init /\ [][Next]_<<io, file>>

=============================================================================
