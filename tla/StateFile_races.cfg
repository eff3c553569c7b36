SPECIFICATION Spec
CONSTANTS
    s1 = s1
    s2 = s2
    small = small
    large = large
    None = None
    Rotten = Rotten
    Savers <- TwoSavers
    Shapes <- TwoShapes
    ShapeOf <- OneEach
    MaxSaves = 3
    MaxFlips = 1
INVARIANT TypeOK
INVARIANT PathWhole
INVARIANT LoadExact
PROPERTY KeepsStore
