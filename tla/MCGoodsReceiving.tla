--------------------------- MODULE MCGoodsReceiving ---------------------------
(* Small instances of GoodsReceiving for TLC. *)
EXTENDS GoodsReceiving, TLC

CONSTANTS r1, r2, r3, i1, i2, i3, l1, s1, u1, u2, c1, c2, c3

Direct(q) == [line |-> l1, item |-> None, quantity |-> q]
FromShipment(q) == [line |-> l1, item |-> s1, quantity |-> q]

Three == [l \in {l1} |-> 3]
TwoShipped == [s \in {s1} |-> 2]

\* Three receipts compete for an order line, two of them for a shipment item
\* of it.  Two are inspected: one in two parts, of which one fails in part, the
\* other with everything quarantined.
Competing == r1 :> FromShipment(2) @@ r2 :> FromShipment(1) @@ r3 :> Direct(2)
Checked ==
                  i1 :> [receipt |-> r1, passed |-> 1, failed |-> 1, quarantined |-> 0]
               @@ i2 :> [receipt |-> r1, passed |-> 1, failed |-> 0, quarantined |-> 1]
               @@ i3 :> [receipt |-> r3, passed |-> 0, failed |-> 0, quarantined |-> 2]

NoRow == {}
Alike == Permutations(Calls) \cup Permutations({u1, u2})
=============================================================================
