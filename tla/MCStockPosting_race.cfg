SPECIFICATION PostingSpec
CONSTANTS
    k1 = k1
    k2 = k2
    k3 = k3
    Posters = {p1, p2}
    BalanceKeys <- ThreeRows
    Requests <- AllRequests
    Missing <- MissingRow
    Serialized <- SerialRow
    AllowNegative <- OversoldRow
    CountedRows = {k1}
    NoRequest = NoRequest
    NotFrozen = NotFrozen
    NoAdjustment = NoAdjustment
INVARIANTS
    NeverOversold
    BalanceIsLedgerSum
    RecordedOnce
    AnswerIsRecorded
    ProjectionHolds
PROPERTIES
    LedgerSpec
CHECK_DEADLOCK FALSE
