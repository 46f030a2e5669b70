\* Every kind of answer, also about other ids than the requested one; every kind of Retry-After.
SPECIFICATION Spec
CONSTANTS
    Ids = {a, b}
    Prios = {0}
    Pictures = {p}
    Followups = {"timeout", "poll"}
    MaxMembers = 1
    Answers = {"ok", "invalid", "no content", "not found", "throttled", "error"}
    RetryAfter <- MCRetryAfter
    Honest = FALSE
    Queries = TRUE
    NoDisplay = NoDisplay
    Nothing = Nothing
    Dangling = Dangling
    Null = Null
    Absent = Absent
    NoRetryAfter = NoRetryAfter
    InitialBackoff = 1
    MaxBackoff = 2
SYMMETRY Sym
INVARIANTS
    RetryPaced
PROPERTIES
    DanglesOnlyByNotFound
