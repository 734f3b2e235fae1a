---------------------------- MODULE MCWandQuery ----------------------------
(* Instances of WandQuery: one, two and repeated query terms; the fixed-point
   idf falls with the document frequency. *)
EXTENDS WandQuery

MCQueries == {<<1>>, <<1, 2>>, <<2, 2>>}
MCIdf == <<12, 8, 6, 4>>
============================================================================
