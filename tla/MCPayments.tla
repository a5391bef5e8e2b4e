------------------------------ MODULE MCPayments ------------------------------
(* Small instances of Payments for TLC. *)
EXTENDS Payments, TLC

CONSTANTS b1, b2, s1, s2, p1, k1, k2, v1, v2, u1, u2, c1, c2

\* Two payables with a schedule each, and a payment that covers one and a half.
TwoPayables == s1 :> b1 @@ s2 :> b2
Totals == b1 :> 2 @@ b2 :> 2
OnePlan == b1 :> {s1 :> 2} @@ b2 :> {s2 :> 2}
Paid == p1 :> 3
Asked == {s1 :> 2, s2 :> 2, s2 :> 1, s1 :> 1 @@ s2 :> 1}

\* A contract of 3, in two schedules; the second receipt takes one amount back.
Milestones == {v1 :> 2 @@ v2 :> 1}
TwoReceipts == k1 :> (v1 :> 1) @@ k2 :> (v1 :> -1 @@ v2 :> 1)

Alike == Permutations(Calls) \cup Permutations(Users)
=============================================================================
