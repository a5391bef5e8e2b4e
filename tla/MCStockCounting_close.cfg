SPECIFICATION Spec
CONSTANTS
    rowA = rowA
    n1 = n1
    m1 = m1
    u1 = u1
    u2 = u2
    c1 = c1
    c2 = c2
    Calls = {c1, c2}
    Users = {u1, u2}
    Counts = {n1}
    Scope <- OneRow
    Tallies = {1}
    Manual = {m1}
    ManualLines <- ByHand
    Movements <- Outgoing
    BalanceKeys = {rowA}
    AllowNegative <- NoRow
    Opening <- Stocked
    None = None
SYMMETRY Alike
INVARIANTS
    PostedAsWritten
    CorrectedOnApproval
    ClosedIsPosted
    AdjustedOnApproval
CHECK_DEADLOCK FALSE
