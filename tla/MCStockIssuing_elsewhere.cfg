SPECIFICATION Spec
CONSTANTS
    r1 = r1
    r2 = r2
    i1 = i1
    i2 = i2
    t1 = t1
    t2 = t2
    u1 = u1
    u2 = u2
    Calls = {c1}
    Users = {u1, u2}
    Reservations = {r1, r2}
    ReservationForm <- TwoReservations
    Issues = {i1}
    IssueForm <- ReservedIssue
    Returns = {}
    ReturnForm <- NoForm
    BalanceKeys <- OneRow
    AllowNegative <- NoRow
    Opening <- Stocked
    None = None
INVARIANTS
    ReservationsNotConsumedElsewhere
CHECK_DEADLOCK FALSE
