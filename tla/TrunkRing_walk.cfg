SPECIFICATION FairSpec
CONSTANTS
    NLayers = 7
    NBound = 6
    NSlots = 3
    PinChoices <- SafePins
    MaxPasses = 2
    MaxFails = 1
INVARIANT TypeOK
INVARIANT MapsAgree
INVARIANT PublishedWhole
INVARIANT OneCopy
INVARIANT ReadsOwed
PROPERTY KeepsLoan
PROPERTY FetchReturns
PROPERTY CloseReturns
