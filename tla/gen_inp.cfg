CONSTANTS
    IC = {1, 2}
    RcFiles <- OptAll
    Table <- Entries
    KeyOrder <- Keys
    Keyname = {"a", "b"}
    Selkey <- Selkeys
    Endkey = {"b"}
    n_max_keystroke = 2
    Kremap <- Remap
    DisableSel = {}
    CtrlPhrase = TRUE
    TypedKey <- CharKeys
    Keyboard <- KeysIn
    MaxTyped = 3
SPECIFICATION Spec
INVARIANT PageIsSlice
INVARIANT GroupingOfPage
INVARIANT CommitAnswers
INVARIANT WildWithinGlob
