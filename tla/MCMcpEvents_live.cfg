SPECIFICATION FairSpec
CONSTANTS
    w1 = w1
    w2 = w2
    c1 = c1
    c2 = c2
    MaxGeneration = 0
    Submissions <- McSubmissions
    Parts = {}
    None = None
    Stages = {}
    MaxSubmits = 0
    Callbacks = {c1, c2}
    Workers = {w1}
    MaxCrashes = 1
    MayStall = FALSE
    Changes = {"source"}
    Obstructed = {c1, c2}
PROPERTIES
    EventSettles
    JobSpec
CHECK_DEADLOCK FALSE
