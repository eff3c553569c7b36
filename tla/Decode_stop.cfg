SPECIFICATION Spec
CONSTANTS
    Tok = {1, 2, 3}
    Greedy <- Model
    Prompts <- Periodic
    Gens = {5}
    Modes <- NGramWithStop
    MaxRuns = 2
    MayFail = FALSE
INVARIANT SavedExact
CHECK_DEADLOCK FALSE
