--------------------------- MODULE MCStockPosting ---------------------------
(* Small instances of StockPosting for TLC. *)
EXTENDS StockPosting

CONSTANTS k1, k2, k3

Line(k, q, d) == [balanceKey |-> k, quantity |-> q, delta |-> Delta(d)]
Posting(key, number, source, lines) ==
    [idempotencyKey |-> key, transactionNumber |-> number,
     sourceId |-> source, lines |-> lines]

Received == Line(k1, 2, [onHand |-> 2, available |-> 2])
Out == Line(k1, 1, [onHand |-> -1, available |-> -1, inTransit |-> 1])
In == Line(k2, 1, [onHand |-> 1, available |-> 1])
Arrived == Line(k1, 1, [inTransit |-> -1])
Taken == Line(k1, 1, [onHand |-> -1, available |-> -1, issued |-> 1])

\* Racing calls: a receipt, a two-row transfer in both line orders, a key
\* reused for another payload, a number reused under another key, an issue
\* that competes with the transfer, and one that takes more than there is.
RacingRequests ==
    {Posting("receipt", "N1", "s1", <<Received>>),
     Posting("move", "N2", "s2", <<Out, Arrived, In>>),
     Posting("move", "N2", "s2", <<In, Out, Arrived>>),
     Posting("oversell", "N5", "s1", <<Line(k2, 2, [onHand |-> -2, available |-> -2])>>),
     Posting("receipt", "N1", "s1", <<Received, Received>>),
     Posting("again", "N1", "s1", <<Received>>),
     Posting("issue", "N3", "s2", <<Taken>>)}

\* Calls that run into the checks: a wrong projection, two units of one
\* serial number, an unknown row.
CheckedRequests ==
    {Posting("bad", "N4", "s1", <<Line(k1, 1, [onHand |-> 1])>>),
     Posting("serial", "N5", "s2", <<Line(k2, 2, [onHand |-> 2, qualityHold |-> 2])>>),
     Posting("unknown", "N6", "s2", <<Line(k3, 1, [onHand |-> 1, available |-> 1])>>)}

AllRequests == RacingRequests \cup CheckedRequests

ThreeRows == {k1, k2, k3}
MissingRow == {k3}
OversoldRow == {k2}
SerialRow == {k2}
NoRow == {}
=============================================================================
