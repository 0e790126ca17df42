CONSTANTS
    c1 = c1
    Client <- OneClient
    MaxIC = 2
    MaxImEntry = 2
    Registered <- Slots2
    Loadable <- Slots1
    PhraseIM = {}
    DefaultIM = 0
    SingleIMC = FALSE
    ImFocusOn = TRUE
    ImFocusKey = TRUE
SPECIFICATION Spec
CHECK_DEADLOCK FALSE
INVARIANT IdsPartition
INVARIANT CurrentIsLive
INVARIANT ConnectedIsActive
INVARIANT FocusModes
