CONSTANTS
    WCH_SIZE = 4
    N_ENC_SCHEMA = 3
    Encodings <- Encs
    Lines <- AnyLines
    KeyCode <- Code
    CodeKey <- CodeToKey
    N_KEY_IN_CODE = 2
    KeyWords = 2
    MAX_ICODE_MODE = 4
    MAX_TSI_LEN = 2
    FIRST_TSI_NUM = 100
    Graph = {57}
    Leftover = {0, 1}
    MaxLines = 4
    KEY_CODE_LEN = 8
    BeepWrong = TRUE
    Pressed <- Keyboard
    TypedLines = 1
SPECIFICATION Spec
CHECK_DEADLOCK FALSE
INVARIANT KeystrokeFinds
INVARIANT WildStart
INVARIANT KeyAccounted
INVARIANT RecallFollows
