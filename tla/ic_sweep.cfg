CONSTANTS
    c1 = c1
    c2 = c2
    Client <- TwoClients
    Window = {1, 2}
    MaxIC = 2
    TIMECHECK_STEP = 0
    IC_IDLE_TIME = 1
SPECIFICATION FairSpec
CHECK_DEADLOCK FALSE
INVARIANT HeldIdsExact
PROPERTY LiveIcSpared
PROPERTY Collected
