--------------------------- MODULE MCStockIssuing ---------------------------
(* Small instances of StockIssuing for TLC. *)
EXTENDS StockIssuing, TLC

CONSTANTS r1, r2, i1, i2, t1, t2, u1, u2

Main == [item |-> "lamp", warehouse |-> "main"]
Site == [item |-> "lamp", warehouse |-> "site"]

Form(k, q) == [row |-> k, quantity |-> q, project |-> "P"]
IssueOn(k, q, r) == [row |-> k, quantity |-> q, project |-> "P", reservation |-> r]
ReturnTo(k, q, i) == [row |-> k, quantity |-> q, issue |-> i]

OneRow == {Main}
TwoRows == {Main, Site}
NoRow == {}

TwoReservations == (r1 :> Form(Main, 2)) @@ (r2 :> Form(Main, 1))
OneReservation == (r1 :> Form(Main, 2))
ReservedIssue == (i1 :> IssueOn(Main, 1, r1))
MixedIssues == (i1 :> IssueOn(Main, 1, r1)) @@ (i2 :> IssueOn(Main, 2, None))
TwoReturns == (t1 :> ReturnTo(Site, 1, i1)) @@ (t2 :> ReturnTo(Main, 1, None))
Alike == Permutations(Calls) \cup Permutations(Users)
NoForm == <<>>

Stocked == At(NoEffect, Main, [onHand |-> 3, available |-> 3])
=============================================================================
