SPECIFICATION Spec
CONSTANTS
    BaseSize = 3
    Radix = 2
    Groups32 = 3
    Groups64 = 6
    Careful = TRUE
    Items <- TestItems
    LenWidth = 1
    Junk = {3}
    MaxSize = 5
INVARIANTS NoCrash ReadBack
PROPERTY IsFlat
