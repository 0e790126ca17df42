CONSTANTS
    IC = {1}
    Methods = {"zh", "no", "pin"}
    Rc <- RcAll
    Selkey <- Keys
    ZhiLists <- Zhi
    TsiLists <- Tsi
    MCCH_BUFSIZE = 8
    N_MAX_KEYCODE_PINYIN = 2
    MaxZhuyin = 1
    WinSizes = {2, 4}
    Typed <- Keystrokes
SPECIFICATION Spec
INVARIANT PageIsSlice
INVARIANT CommitAnswers
INVARIANT BuffersFit
CHECK_DEADLOCK FALSE
INVARIANT ContextMirrorsBims
