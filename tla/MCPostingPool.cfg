SPECIFICATION Spec
CONSTANTS
    Chains = {t1, t2}
    NoChain = none
    Bytes = {1, 2}
    BlockSize = 6
    PtrBytes = 1
    SliceSizes <- MCSliceSizes
    MaxOffset = 18
SYMMETRY ChainSymmetry
INVARIANTS
    TypeOK
    SlicesInsideBlocks
    PayloadIntact
    CursorOnChain
    ReadBack
