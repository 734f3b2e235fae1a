-------------------------- MODULE MCCompoundWriter --------------------------
(* Two indexes: one with two small posting appends and norms, one whose single
   posting append is as large as the write buffer and goes past it. *)
EXTENDS CompoundWriter

MCPostEnds == <<<<1, 2>>, <<3>>>>
============================================================================
