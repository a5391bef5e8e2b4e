---------------------------- MODULE StockLedger ----------------------------
(***************************************************************************)
(* What InventoryService.post promises its callers                         *)
(* (apps/api/src/inventory/inventory.service.ts): an organization's stock  *)
(* is a set of balance rows with eight quantity buckets, changed only by   *)
(* immutable transactions, each of which is recorded once under its        *)
(* idempotency key and takes effect as one atomic step.                    *)
(*                                                                         *)
(* The operators below are the vocabulary of every stock module.           *)
(* LedgerSpec is the abstract specification, which StockPosting (the line  *)
(* by line Serializable transaction) implements; the document workflows    *)
(* post by PostFor, the step it allows.  LedgerNext ranges over the rows   *)
(* that appear, so LedgerSpec is a property, not a model to execute.       *)
(***************************************************************************)
EXTENDS Integers, FiniteSets, Functions

CONSTANTS
    BalanceKeys,    \* item:warehouse:location:lot:serial identities
    AllowNegative   \* those in a warehouse with allowNegativeStock

ASSUME LedgerAssumption == AllowNegative \subseteq BalanceKeys

VARIABLES
    balance,        \* InventoryBalance: the bucket quantities of every key
    transactions    \* InventoryTransaction rows, each with its net effect

ledgerVars == <<balance, transactions>>

-----------------------------------------------------------------------------
(* Buckets and effects *)

\* Buckets that may be negative in no warehouse.
ControlledBuckets ==
    {"reserved", "inTransit", "qualityHold", "damaged", "issued", "installed"}

Buckets == {"onHand", "available"} \cup ControlledBuckets

Quantities == [Buckets -> Int]

Zero == [b \in Buckets |-> 0]

\* One posting line: the deltas it names, 0 in the other buckets.
Delta(d) == [b \in Buckets |-> IF b \in DOMAIN d THEN d[b] ELSE 0]

Plus(x, y) == [b \in Buckets |-> x[b] + y[b]]

\* The net effect of a posting on every balance row.
NoEffect == [k \in BalanceKeys |-> Zero]

At(effect, k, d) == [effect EXCEPT ![k] = Plus(@, Delta(d))]

\* onHand is the sum of the buckets of the goods that are there.
Projects(q) ==
    q["onHand"] = q["available"] + q["reserved"] + q["qualityHold"] + q["damaged"]

InStock(k, q) ==
    /\ \A b \in ControlledBuckets : q[b] >= 0
    /\ k \notin AllowNegative => q["onHand"] >= 0 /\ q["available"] >= 0

-----------------------------------------------------------------------------
(* Posting *)

Applied(effect) == [k \in BalanceKeys |-> Plus(balance[k], effect[k])]

Posted(key) == \E t \in transactions : t.idempotencyKey = key

Admissible(effect) ==
    \A k \in BalanceKeys : Projects(effect[k]) /\ InStock(k, Applied(effect)[k])

\* What all recorded postings moved in one bucket of one balance row.
Moved(k, b) == SumFunction([t \in transactions |-> t.effect[k][b]])

\* A new posting: recorded and applied in one step.
Post(t) ==
    /\ ~Posted(t.idempotencyKey)
    /\ Admissible(t.effect)
    /\ balance' = Applied(t.effect)
    /\ transactions' = transactions \cup {t}

PostFor_Again(key, e) ==
    /\ Admissible(e)
    /\ balance' = Applied(e)
    /\ transactions' = transactions \cup {[idempotencyKey |-> key, effect |-> e]}

\* this.inventory.post as the workflows see it: a new row, or the recorded
\* one under the same key when its payload is the same.  Every other outcome
\* is an exception.
PostFor(key, e) ==
    \/ Post([idempotencyKey |-> key, effect |-> e])
    \/ /\ [idempotencyKey |-> key, effect |-> e] \in transactions
       /\ UNCHANGED ledgerVars

-----------------------------------------------------------------------------
(* The abstract specification *)

LedgerInit ==
    /\ balance \in [BalanceKeys -> Quantities]
    /\ \A k \in BalanceKeys : Projects(balance[k]) /\ InStock(k, balance[k])
    /\ transactions = {}

LedgerNext == \E t \in transactions' \ transactions : Post(t)

LedgerSpec == LedgerInit /\ [][LedgerNext]_ledgerVars

-----------------------------------------------------------------------------
(* What the balance rows satisfy at every moment *)

\* Every on-hand unit is in exactly one of the buckets of goods that are
\* there, whatever postings the workflows interleave.
ProjectionHolds == \A k \in BalanceKeys : Projects(balance[k])

\* No controlled bucket is ever negative, and on-hand and available are
\* negative only where the warehouse allows it.
NeverOversold == \A k \in BalanceKeys : InStock(k, balance[k])
=============================================================================
