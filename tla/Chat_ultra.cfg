SPECIFICATION Spec
CONSTANTS
    Answer <- Drawn
    Reencode <- Merge
    Tok <- Letters
    Ctl <- Markers
    Open <- Opens
    Ends <- Closes
    Said <- Words
    Systems <- Openings
    Modes <- UltraOnly
    NL = 2
    MAX_PROMPT = 24
    MAX_GEN = 4
    MaxLaunches = 1
    MaxSaid = 1
INVARIANT ClearFits
CHECK_DEADLOCK FALSE
