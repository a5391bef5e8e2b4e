SPECIFICATION Spec
CONSTANTS
    r1 = r1
    r2 = r2
    r3 = r3
    i1 = i1
    i2 = i2
    i3 = i3
    l1 = l1
    s1 = s1
    u1 = u1
    u2 = u2
    c1 = c1
    c2 = c2
    c3 = c3
    Calls = {c1, c2, c3}
    Users = {u1, u2}
    Receipts = {r1, r2, r3}
    BalanceKeys = {r1, r2, r3}
    AllowNegative <- NoRow
    ReceiptForm <- Competing
    Ordered <- Three
    Shipped <- TwoShipped
    Inspections = {i1, i2, i3}
    InspectionForm <- Checked
    None = None
SYMMETRY Alike
INVARIANTS
    StatusBackedByLedger
    ReleasedByAnother
    HeldUntilReleased
    ReceivedWithinSource
CHECK_DEADLOCK FALSE
