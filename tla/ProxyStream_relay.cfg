\* A proxied request of up to three pieces, besides one for a state.
SPECIFICATION FairProxySpec
CONSTANTS
    Handlers = {"proxy"}
    MaxPieces = 3
    Hangups = {"eof", "reset"}
    Breaks = TRUE
    Partial = FALSE
    Proxied = r1
    Others = {r2}
    Sizes = {1, 2, 5}
    StateSizes = {1}
    MaxBufferSize = 2
    ChunkMax = 2
INVARIANTS
    BodyRelayed
PROPERTIES
    ImplementsConnection
    EveryClientServed
    HangUpEndsTransfer
    StatesAnswered
CHECK_DEADLOCK FALSE
