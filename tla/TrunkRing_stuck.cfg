SPECIFICATION Spec
CONSTANTS
    NLayers = 3
    NBound = 3
    NSlots = 2
    PinChoices <- NoPins
    MaxPasses = 2
    MaxFails = 0
INVARIANT WaiterHasWaker
