SPECIFICATION Spec
CONSTANTS
    NLayers = 3
    ALIGN = 2
    Sizes = {3, 4, 8}
    Widens = {0, 1}
    RingWants = {1, 3}
    PinPrefix = TRUE
    GB = 20
    Requests <- Everything
    Machines <- Hosts
    Mla = {1, 2}
    StatePer = 4
    KvPer = 5
    PosBuf = 1
    Matrices = 94
    Chunk = 1
    ExpertSlot = 4
    TopK = 2
    MAX_PROMPT = 4
    MAX_GEN = 4
INVARIANT TypeOK
INVARIANT RingFits
INVARIANT PlanCovers
INVARIANT AutoAdmitted
CHECK_DEADLOCK FALSE
