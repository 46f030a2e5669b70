\* The service answers 404 for a state that is displayed.
SPECIFICATION Spec
CONSTANTS
    Ids = {a, b}
    Prios = {0, 1}
    Pictures = {p}
    Followups = {}
    MaxMembers = 1
    Answers = {"ok", "not found"}
    RetryAfter = {}
    Honest = TRUE
    Queries = FALSE
    NoDisplay = NoDisplay
    Nothing = Nothing
    Dangling = Dangling
    Null = Null
    Absent = Absent
    NoRetryAfter = NoRetryAfter
    InitialBackoff = 2
    MaxBackoff = 5
INVARIANTS
    DisplayingLive
