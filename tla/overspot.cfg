CONSTANTS
    Font <- TheFonts
    Valid <- GoodFonts
    Node = {"n1", "n2", "n3", "n4"}
    Id = {1, 2}
    overspot_font = "fixed"
    MaxSlots = 3
SPECIFICATION Spec
CHECK_DEADLOCK FALSE
INVARIANT OneRecord
INVARIANT FontsAccounted
