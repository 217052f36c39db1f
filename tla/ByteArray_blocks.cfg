SPECIFICATION Spec
CONSTANTS
    BaseSize = 3
    Radix = 2
    Groups32 = 3
    Groups64 = 6
    Careful = FALSE
    Items <- ShortItems
    LenWidth = 1
    Junk = {0, 3}
    MaxSize = 6
INVARIANT ReadBack
CHECK_DEADLOCK FALSE
