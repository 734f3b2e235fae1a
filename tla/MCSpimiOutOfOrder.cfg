SPECIFICATION Spec
CONSTANTS
    Terms = {1, 2}
    Docs = {1, 2}
    InitVocab <- OwnedVocab
    HasPositions = TRUE
    Caps = {0, 3}
    ArenaSpillCap = 3
    SlimDf = 2
    StreamTokens = 3
    SpillFaults = {"none"}
    MaxTokens = 4
CHECK_DEADLOCK FALSE
INVARIANT EachDocOnce
