SPECIFICATION Spec
CONSTANTS
    Tok = {1, 2, 3}
    Greedy <- Model
    Prompts <- Periodic
    Gens = {0, 1, 5}
    Modes <- MixedModes
    MaxRuns = 3
    MayFail = TRUE
INVARIANT TypeOK
INVARIANT StateExact
INVARIANT SavedExact
INVARIANT DraftFollows
PROPERTY KeepsSerial
CHECK_DEADLOCK FALSE
