CONSTANTS
    MaxImEntry = 3
    Lib = {"A", "B"}
    Obj <- ThreeNames
    DefaultName = "o1"
    SinmdNames <- Sinmd
    MaxCinput = 3
    Context = {"c"}
SPECIFICATION FairSpec
CHECK_DEADLOCK FALSE
INVARIANT StackCounts
INVARIANT ModulesHeld
PROPERTY SearchesEnd
