SPECIFICATION Spec
CONSTANTS
    a = a
    b = b
    t1 = t1
    t2 = t2
    u1 = u1
    u2 = u2
    Calls = {c1, c2, c3}
    Users = {u1, u2}
    Transfers = {t1}
    TransferForm <- OneTransfer
    Receipts <- PartialReceipts
    BalanceKeys = {a, b}
    AllowNegative <- NoRow
    Opening <- Stocked
    None = None
INVARIANTS
    DispatchedOnApproval
    TransitConserved
CHECK_DEADLOCK FALSE
