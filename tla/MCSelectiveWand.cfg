SPECIFICATION Spec
CONSTANTS
    NumDocs = 4
    Terms = {1, 2}
    MaxTf = 2
    Norms = {1}
    Idf <- MCIdf
    SlimDf = 3
    WindowDocs = 2
    Queries <- MCQueries
    Ks = {0, 1, 2}
CHECK_DEADLOCK FALSE
INVARIANTS
    FetchedOnce
PROPERTIES
    Progress
    ImplementsEager
