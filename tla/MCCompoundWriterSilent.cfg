SPECIFICATION Spec
CONSTANTS
    Indexes = {1, 2}
    PostEnds <- MCPostEnds
    HasNorms = {1}
    HasBsbf = {1, 2}
    BufCapacity = 3
    MaxAdds = 3
    MaxFaults = 1
CHECK_DEADLOCK FALSE
INVARIANT FinishOkReadable
