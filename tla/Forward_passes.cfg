SPECIFICATION Spec
CONSTANTS
    FaMax = 4
    MaxTopk = 3
    WidenSlack = 16
    Chunk = 2
    Tmax = 5
    RowsPerChunk = 2
    MaxPasses = 3
    MaxFails = 1
    Kernel <- Hash
    Weight <- WeightOf
    Mass <- Far
    Overflows <- Huge
    Jobs <- Processes
    Feeds <- Additions
INVARIANT TypeOK
INVARIANT CarriesHistory
INVARIANT ScratchHolds
INVARIANT FailsForCause
PROPERTY KeepsModel
PROPERTY DrawsKept
CHECK_DEADLOCK FALSE
