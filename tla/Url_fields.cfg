SPECIFICATION Spec
CONSTANTS
    max_header_size = 50
    MaxLength = 31
    MaxPort = 10
    OffMod = 10
    Characters <- TestCharacters
    Beginnings <- TestBeginnings
    MaxLetters = 5
INVARIANTS HostIsHost Reassembled PortValue
CHECK_DEADLOCK FALSE
