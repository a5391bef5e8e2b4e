SPECIFICATION Spec
CONSTANTS
    w1 = w1
    w2 = w2
    c1 = c1
    c2 = c2
    MaxGeneration = 1
    Submissions <- McSubmissions
    Parts <- McParts
    None = None
    Stages = {"NEEDS_INPUT"}
    MaxSubmits = 1
    Callbacks = {c1}
    Workers = {w1, w2}
    MaxCrashes = 0
    MayStall = TRUE
    Changes = {"note"}
    Obstructed = {}
SYMMETRY Alike
INVARIANTS
    AnswerIsSubmission
    SupersededStopped
    NotifiedMeansDelivered
    RejectionIsCurrent
PROPERTIES
    HolderSettles
    CompletedIsFinal
CHECK_DEADLOCK FALSE
