\* Two signals of either kind.  (On the thread of main(), which holds no mutex, they are caught as on asio.)
SPECIFICATION FairSpec
CONSTANTS
    Receivers = {"worker", "asio"}
    MaxSignals = 2
    MaxInputs = 2
INVARIANTS
    TypeOK
    StatesOutlive
PROPERTIES
    InterruptEnds
    PressHandled
CHECK_DEADLOCK FALSE
