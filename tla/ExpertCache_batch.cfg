SPECIFICATION Spec
CONSTANTS
    first = first
    second = second
    a = a
    b = b
    lost = lost
    Layers <- TwoLayers
    Experts <- TwoAndLost
    NSlots = 3
    MaxBatch = 3
    BatchLens <- OnlyThree
    Absent <- LostOnes
    ApiCalls = TRUE
    MaxFails = 1
    MaxPins = 2
SYMMETRY Symmetric
INVARIANT TypeOK
INVARIANT Reservations
INVARIANT ReadOnce
PROPERTY PinnedStays
PROPERTY KeepsSource
