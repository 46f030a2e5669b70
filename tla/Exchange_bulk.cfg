\* Requests cut into reads that fill their slice or reach the end; every kind of handler,
\* responses of up to four pieces; clients that leave, transfers that fail, partial sends.
SPECIFICATION FairExchangeSpec
CONSTANTS
    Handlers = {"sync", "local", "proxy"}
    MaxPieces = 4
    Hangups = {"eof", "reset"}
    Breaks = TRUE
    Partial = TRUE
    Urls <- MCUrls
    Headers <- MCHeaders
    Bodies <- MCBodies
    Lengths <- MCLengths
    Capitals <- MCCapitals
    Words = {"u1", "u2", "u3", "host", "port", "b1", "b2", "b3", "b4"}
    MinRead = 2
    MaxRead = 5
    Bulk = TRUE
INVARIANTS
    WireIntact
    ClosedWhenComplete
    ParsedAsSent
PROPERTIES
    PendingKept
    EveryClientAnswered
    FreedUnlessProxied
CHECK_DEADLOCK FALSE
