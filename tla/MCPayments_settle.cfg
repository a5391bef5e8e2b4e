SPECIFICATION Spec
CONSTANTS
    b1 = b1
    b2 = b2
    s1 = s1
    s2 = s2
    p1 = p1
    k1 = k1
    k2 = k2
    v1 = v1
    v2 = v2
    u1 = u1
    u2 = u2
    c1 = c1
    c2 = c2
    Calls = {c1, c2}
    Users = {u1, u2}
    Payables = {b1, b2}
    Total <- Totals
    Schedules = {s1, s2}
    PayableOf <- TwoPayables
    Plans <- OnePlan
    Dependent = {s2}
    Payments = {p1}
    Amount <- Paid
    Allotments <- Asked
    Receivables = {v1, v2}
    ContractValue = 3
    ReceivablePlans <- Milestones
    Receipts = {k1, k2}
    Received <- TwoReceipts
    Amounts = {1}
    None = None
SYMMETRY Alike
INVARIANTS
    BooksBalance
    AllocatedWithinAmount
    AllocatedOnApproval
CHECK_DEADLOCK FALSE
