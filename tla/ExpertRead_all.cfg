SPECIFICATION ReadSpec
CONSTANTS
    NShards = 2
    Names <- Tensors
    Hash <- Fnv
    MinBuckets = 2
    Disks <- AllDisks
    Parts <- Expert
    ALIGN = 4
    BLOCK = 4
    ITEMS = 8
    Chunks = {4, 7}
    Batches = {1, 4, 8}
    Probes = {0, 7}
INVARIANT ReadTypeOK
INVARIANT OneOwner
INVARIANT ExpertWhole
CHECK_DEADLOCK FALSE
