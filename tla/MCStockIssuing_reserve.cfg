SPECIFICATION Spec
CONSTANTS
    r1 = r1
    r2 = r2
    i1 = i1
    i2 = i2
    t1 = t1
    t2 = t2
    u1 = u1
    u2 = u2
    Calls = {c1, c2}
    Users = {u1, u2}
    Reservations = {r1}
    ReservationForm <- OneReservation
    Issues = {i1, i2}
    IssueForm <- MixedIssues
    Returns = {t1}
    ReturnForm <- TwoReturns
    BalanceKeys <- TwoRows
    AllowNegative <- NoRow
    Opening <- Stocked
    None = None
SYMMETRY Alike
INVARIANTS
    StatusBackedByLedger
    LedgerInOrder
    MovedOnApproval
    GoodsConserved
    MovedOnce
CHECK_DEADLOCK FALSE
