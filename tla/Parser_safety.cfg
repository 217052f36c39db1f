SPECIFICATION Spec
CONSTANTS
    max_header_size = 50
    MaxLength = 31
    Pieces <- TestPieces
    MaxPieces = 6
    Types = {"REQUEST", "RESPONSE", "BOTH"}
    Failures = {"url", "no_body"}
INVARIANTS TypeOK NoAssert BodyFramed AllDelivered OneFraming EofDetected
PROPERTY CallbackOrder
CHECK_DEADLOCK FALSE
