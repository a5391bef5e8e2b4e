SPECIFICATION Spec
CONSTANTS
    w1 = w1
    w2 = w2
    d1 = d1
    s1 = s1
    Runs = {1, 2, 3, 4}
    Wanted = {1}
    Scoped = {1, 4}
    Histories <- McHistories
    Workers = {w1, w2}
    Calls <- McCalls
    Drafts = {d1}
    Searches = {s1}
    MaxAttempts = 2
    None = None
SYMMETRY Alike
INVARIANTS
    SentOnce
    OneLive
    DraftsListed
    CompletedHasFile
PROPERTIES
    SettledIsFinal
CHECK_DEADLOCK FALSE
