SPECIFICATION Spec
CONSTANTS
    Terms = {1, 2}
    Docs = {1, 2, 3}
    InitVocab <- OwnedVocab
    HasPositions = TRUE
    Caps = {0, 2, 4}
    ArenaSpillCap = 3
    SlimDf = 2
    StreamTokens = 3
    SpillFaults = {"none", "space", "open", "write"}
    MaxTokens = 4
CHECK_DEADLOCK FALSE
INVARIANTS
    TypeOK
    DrainExact
    OutputIsPrefix
    SlotsExclusive
    ReporterBalanced
    SpillKeepsCap
    RunFilesTracked
    PumpOnlyWindowed
PROPERTIES
    ErrorEmitsNothing
