\* Three states; a service that answers a request about an id with that id, or fails.
SPECIFICATION Spec
CONSTANTS
    Ids = {a, b, c}
    Prios = {0, 1}
    Pictures = {p}
    Followups = {"timeout"}
    MaxMembers = 1
    Answers = {"ok", "error"}
    RetryAfter = {}
    Honest = TRUE
    Queries = FALSE
    NoDisplay = NoDisplay
    Nothing = Nothing
    Dangling = Dangling
    Null = Null
    Absent = Absent
    NoRetryAfter = NoRetryAfter
    InitialBackoff = 1
    MaxBackoff = 1
SYMMETRY Sym
INVARIANTS
    DisplayingLive
    FrameFresh
    DarkOnlyWhileAsking
    NothingForgotten
