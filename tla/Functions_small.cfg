SPECIFICATION Spec
CONSTANTS
    Alphabet <- MCAlphabet
    Longest <- MCLongest
    Composed <- MCComposed
    Pictures <- MCPictures
    MaxWave = 4
    FrameTime = 500
    MaxElapsed = 26000
INVARIANTS
    EncodeRoundTrips
    DecodesAsWritten
    UriTakenApart
    ShownAsDrawn
    MotionKeepsOrder
CHECK_DEADLOCK FALSE
