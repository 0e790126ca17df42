CONSTANTS
    c1 = c1
    Client <- OneClient
    MaxIC = 2
    MaxImEntry = 3
    Registered <- Slots3
    Loadable <- Slots2
    PhraseIM = {}
    DefaultIM = 0
    SingleIMC = FALSE
    ImFocusOn = FALSE
    ImFocusKey = FALSE
SPECIFICATION Spec
CHECK_DEADLOCK FALSE
INVARIANT SelectionCoherent
PROPERTY SessionSpec
