SPECIFICATION Spec
CONSTANTS
    NLayers = 3
    ALIGN = 2
    Sizes = {2, 4, 8}
    Widens = {0, 2}
    RingWants = {1, 3}
    PinPrefix = TRUE
    GB = 20
    Requests <- Resumes
    Machines <- Hosts
    Mla = {1, 2}
    StatePer = 4
    KvPer = 5
    PosBuf = 1
    Matrices = 94
    Chunk = 1
    ExpertSlot = 4
    TopK = 2
    MAX_PROMPT = 4
    MAX_GEN = 4
INVARIANT Covered
CHECK_DEADLOCK FALSE
