SPECIFICATION Spec
CONSTANTS
    Answer <- Drawn
    Reencode <- Merge
    Tok <- Letters
    Ctl <- Markers
    Open <- Opens
    Ends <- Closes
    Said <- Words
    Systems <- Openings
    Modes <- Sessions
    NL = 2
    MAX_PROMPT = 24
    MAX_GEN = 4
    MaxLaunches = 3
    MaxSaid = 4
INVARIANT TypeOK
INVARIANT RecordIsState
INVARIANT FileIsHistory
PROPERTY ReusesTail
PROPERTY KeepsConversation
CHECK_DEADLOCK FALSE
