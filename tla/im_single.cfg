CONSTANTS
    c1 = c1
    Client <- OneClient
    MaxIC = 2
    MaxImEntry = 2
    Registered <- Slots2
    Loadable <- Slots2
    PhraseIM <- Slot1
    DefaultIM = 0
    SingleIMC = TRUE
    ImFocusOn = FALSE
    ImFocusKey = TRUE
SPECIFICATION Spec
CHECK_DEADLOCK FALSE
INVARIANT SharedSelection
PROPERTY SingleKeepsSession
