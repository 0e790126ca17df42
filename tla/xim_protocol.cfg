CONSTANTS
    a = a
    b = b
    Client = {a, b}
    Mortal = {b}
    MaxIC = 2
    MaxKeys <- TypesKeys
    MaxAsked <- Asks
    MaxDone <- Does
    MaxSessions <- Once
    Windows = {1}
    DistinctWindows = TRUE
    CommitsOnSwitch = FALSE
SPECIFICATION Spec
INVARIANT KeysInOrder
INVARIANT WaitHasAnswer
INVARIANT AnswerOwed
INVARIANT MaskAgrees
INVARIANT ICsConnected
CHECK_DEADLOCK FALSE
PROPERTY KeysHandled
