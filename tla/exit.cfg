CONSTANTS
    c1 = c1
    c2 = c2
    Client <- TwoClients
    SyncChecks = 2
    MaxQueue = 1
    MaxOwed = 1
    MaxSignals = 1
SPECIFICATION Spec
CHECK_DEADLOCK FALSE
INVARIANT WaitsForAnswer
INVARIANT AllAnswersFirst
PROPERTY ExitCompletes
