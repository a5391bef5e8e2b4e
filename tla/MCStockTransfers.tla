-------------------------- MODULE MCStockTransfers --------------------------
(* Small instances of StockTransfers for TLC. *)
EXTENDS StockTransfers

CONSTANTS a, b, t1, t2, u1, u2

Out(q) == [source |-> a, destination |-> b, quantity |-> q]

OneTransfer == [t \in {t1} |-> Out(2)]
TwoTransfers == [t \in {t1, t2} |-> Out(2)]

\* A client that receives everything at once, in two parts, or twice.
PartialReceipts ==
    {[key |-> "k1", parts |-> <<1>>], [key |-> "k2", parts |-> <<1>>],
     [key |-> "k1", parts |-> <<2>>]}
RepeatedReceipts ==
    {[key |-> "k1", parts |-> <<2>>], [key |-> "k2", parts |-> <<2>>]}

Stocked == At(NoEffect, a, [onHand |-> 4, available |-> 4])
NoRow == {}
=============================================================================
