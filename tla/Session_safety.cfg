SPECIFICATION Spec
CONSTANTS
    max_header_size = 100
    MaxLength = 31
    MaxPort = 16
    OffMod = 64
    Requests <- TestRequests
    MaxRequests = 2
    MaxTurns = 3
    BuffSize = 46
    Body <- TestBody
INVARIANTS Genuine ClientReads
PROPERTIES NotRefused OneForOne Answered
CHECK_DEADLOCK FALSE
