SPECIFICATION Spec
CONSTANTS
    HistoryChars = 2
    Letters = {"a"}
    NonAscii = {}
    Signs = {}
    BufLen = 4
    Prompt = 1
    HistoryMaxLen = 3
    Words <- MCWords
    Cols = 2
    Height = 5
INVARIANTS TypeOK ScreenShowsLine
PROPERTIES EditsAtCursor RecallsTyped HistoryKept
CHECK_DEADLOCK FALSE
CONSTRAINT Bound
