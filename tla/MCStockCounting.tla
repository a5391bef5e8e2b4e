--------------------------- MODULE MCStockCounting ---------------------------
(* Small instances of StockCounting for TLC. *)
EXTENDS StockCounting, TLC

CONSTANTS rowA, n1, m1, u1, u2, c1, c2

OneRow == [n \in {n1} |-> {rowA}]

ByHand == [m \in {m1} |-> <<[row |-> rowA, expected |-> 2, counted |-> 1]>>]

Outgoing == {[row |-> rowA, quantity |-> -1]}

Stocked == [k \in BalanceKeys |-> Delta([onHand |-> 2, available |-> 2])]
NoRow == {}

Alike == Permutations({c1, c2}) \cup Permutations({u1, u2})
=============================================================================
