SPECIFICATION Spec
CONSTANTS
    NumDocs = 3
    Terms = {1, 2}
    MaxTf = 2
    Norms = {1, 3}
    Idf <- MCIdf
    SlimDf = 2
    WindowDocs = 1
    Queries <- MCQueries
    Ks = {0, 1, 2}
CHECK_DEADLOCK FALSE
INVARIANTS
    SameTopK
