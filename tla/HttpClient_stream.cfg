\* Two requests whose bodies are cut into chunks in every way; transfers, curl_easy_init,
\* curl_multi_perform and curl_multi_poll may fail.
SPECIFICATION Spec
CONSTANTS
    Requests = {r1, r2}
    Sizes = {2, 3, 4, 7}
    MaxBufferSize = 3
    ChunkMax = 3
    Breaks = TRUE
    MultiErrors = TRUE
SYMMETRY Sym
INVARIANTS
    TypeOK
    StreamIntact
    NothingTakenIsLost
PROPERTIES
    LeaseStable
    StaleOnlyIfBroken
    SilentAfterAbort
CHECK_DEADLOCK FALSE
