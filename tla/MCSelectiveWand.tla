-------------------------- MODULE MCSelectiveWand --------------------------
(* Instances of SelectiveWand. *)
EXTENDS SelectiveWand

MCQueries == {<<1>>, <<1, 2>>}
MCIdf == <<12, 8, 6, 4>>
============================================================================
