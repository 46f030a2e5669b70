\* Reads that get any part of what they have room for.
SPECIFICATION ParserSpec
CONSTANTS
    Urls <- MCUrls
    Headers <- MCHeaders
    Bodies <- MCBodies
    Lengths <- MCLengths
    Capitals <- MCCapitals
    Words = {"u1", "u2", "u3", "host", "port", "b1", "b2", "b3", "b4"}
    MinRead = 8
    MaxRead = 16
    Bulk = FALSE
INVARIANTS
    ParsedAsSent
CHECK_DEADLOCK FALSE
