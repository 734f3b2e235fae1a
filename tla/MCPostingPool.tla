--------------------------- MODULE MCPostingPool ---------------------------
(* Small instances of PostingPool.  The schedule 1, 2, 3 with a one-cell    *)
(* pointer gives runs of 2, 3 and 4 cells in blocks of 6, so that runs fill *)
(* a block exactly, miss its end by one cell, and repeat the last level.    *)
EXTENDS PostingPool, TLC

MCSliceSizes == <<1, 2, 3>>

ChainSymmetry == Permutations(Chains)
============================================================================
