--------------------------- MODULE MCSpimiBuffer ---------------------------
(* Instances of SpimiBuffer.  Two borrowed ids whose strings are not in id
   order; the owned vocabulary starts empty. *)
EXTENDS SpimiBuffer

Borrowed == <<2, 1>>
OwnedVocab == <<>>
============================================================================
