---------------------------- MODULE StockTransfers ----------------------------
(***************************************************************************)
(* Stock moving between warehouses (operations.service.ts: createTransfer, *)
(* approveTransfer, dispatchTransfer, receiveTransfer).                    *)
(*                                                                         *)
(* A transfer of one line is dispatched whole into the inTransit bucket of *)
(* its source row and received in parts; a receipt carries an idempotency  *)
(* key of its client and may name the line several times.  As in           *)
(* StockIssuing every command is a sequence of separate database steps     *)
(* that interleaves with the others and may stop after any of them.        *)
(***************************************************************************)
EXTENDS StockLedger, Sequences, SequencesExt

CONSTANTS
    Calls, Users, Transfers,
    TransferForm,   \* per transfer: source and destination row, quantity
    Receipts,       \* what clients send to receiveTransfer: key, parts
    Opening, None

Total(parts) == SumFunction(parts)

ASSUME TransferAssumption ==
    /\ \A t \in Transfers :
          /\ TransferForm[t].source \in BalanceKeys
          /\ TransferForm[t].destination \in BalanceKeys
          /\ TransferForm[t].quantity \in Nat \ {0}
    /\ \A d \in Receipts : d.parts \in Seq(Int)
    /\ Opening \in [BalanceKeys -> Quantities]
    /\ \A k \in BalanceKeys : Projects(Opening[k]) /\ InStock(k, Opening[k])
    /\ Calls # {}
    /\ None \notin Users \cup Transfers

\* The balance table holds finitely many rows.
ASSUME FiniteAssumption == IsFiniteSet(BalanceKeys)

VARIABLES
    transfer,   \* status, createdBy, approvedBy, receivedQuantity
    call        \* per call: its step, transfer, and what it remembers

vars == <<balance, transactions, transfer, call>>

StepWith(at, doc, by, key, quantity) ==
    [at |-> at, doc |-> doc, by |-> by, key |-> key, quantity |-> quantity,
     posted |-> FALSE, complete |-> FALSE]

Step(at, doc) == StepWith(at, doc, None, None, 0)

Idle == Step("idle", None)

-----------------------------------------------------------------------------
OutKey(t) == <<t, "out">>
InKey(t, key) == <<t, "in", key>>

DispatchEffect(t) ==
    LET f == TransferForm[t] IN
    At(NoEffect, f.source,
       [onHand |-> -f.quantity, available |-> -f.quantity, inTransit |-> f.quantity])

ReceiveEffect_KeepsTransit(t, q) ==
    At(NoEffect, TransferForm[t].destination, [onHand |-> q, available |-> q])

ReceiveEffect(t, q) ==
    LET f == TransferForm[t] IN
    At(At(NoEffect, f.source, [inTransit |-> -q]),
       f.destination, [onHand |-> q, available |-> q])

Start(c, step) ==
    /\ call[c] = Idle
    /\ call' = [call EXCEPT ![c] = step]

Goto(c, at) == call' = [call EXCEPT ![c].at = at]

Finish(c) == call' = [call EXCEPT ![c] = Idle]

Fail(c) ==
    /\ call[c] # Idle
    /\ Finish(c)
    /\ UNCHANGED <<balance, transactions, transfer>>

-----------------------------------------------------------------------------
Init ==
    /\ balance = Opening
    /\ transactions = {}
    /\ transfer = [t \in Transfers |->
          [status |-> "NONE", createdBy |-> None, approvedBy |-> None,
           receivedQuantity |-> 0]]
    /\ call = [c \in Calls |-> Idle]

CreateTransfer(t, u) ==
    /\ transfer[t].status = "NONE"
    /\ transfer' = [transfer EXCEPT ![t].status = "DRAFT", ![t].createdBy = u]
    /\ UNCHANGED <<balance, transactions, call>>

ApproveTransfer_ByCreator(c, t, u) ==
    /\ transfer[t].status = "DRAFT"
    /\ Start(c, StepWith("approve", t, u, None, 0))
    /\ UNCHANGED <<balance, transactions, transfer>>

ApproveTransfer(c, t, u) ==
    /\ transfer[t].status = "DRAFT"
    /\ transfer[t].createdBy # u
    /\ Start(c, StepWith("approve", t, u, None, 0))
    /\ UNCHANGED <<balance, transactions, transfer>>

MarkApproved(c) ==
    /\ call[c].at = "approve"
    /\ transfer' = [transfer EXCEPT ![call[c].doc].status = "APPROVED",
                                    ![call[c].doc].approvedBy = call[c].by]
    /\ Finish(c)
    /\ UNCHANGED <<balance, transactions>>

DispatchTransfer(c, t) ==
    /\ transfer[t].status = "APPROVED"
    /\ Start(c, Step("dispatch.post", t))
    /\ UNCHANGED <<balance, transactions, transfer>>

PostDispatch(c) ==
    /\ call[c].at = "dispatch.post"
    /\ PostFor(OutKey(call[c].doc), DispatchEffect(call[c].doc))
    /\ Goto(c, "dispatch.mark")
    /\ UNCHANGED transfer

MarkInTransit(c) ==
    /\ call[c].at = "dispatch.mark"
    /\ transfer' = [transfer EXCEPT ![call[c].doc].status = "IN_TRANSIT"]
    /\ Finish(c)
    /\ UNCHANGED <<balance, transactions>>

\* Each part is checked against what is left of the line as it was read,
\* not against the parts before it.
PartsFit(t, parts) ==
    \A i \in DOMAIN parts :
       /\ parts[i] > 0
       /\ transfer[t].receivedQuantity + parts[i] <= TransferForm[t].quantity

ReceiveTransfer(c, t, d) ==
    /\ transfer[t].status \in {"IN_TRANSIT", "PARTIALLY_RECEIVED"}
    /\ d.parts # <<>> /\ PartsFit(t, d.parts)
    /\ Start(c, StepWith("receive.look", t, None, d.key, Total(d.parts)))
    /\ UNCHANGED <<balance, transactions, transfer>>

\* alreadyPosted is read before post decides for itself.
LookForReceipt(c) ==
    /\ call[c].at = "receive.look"
    /\ call' = [call EXCEPT ![c].at = "receive.post",
                            ![c].posted = Posted(InKey(call[c].doc, call[c].key))]
    /\ UNCHANGED <<balance, transactions, transfer>>

\* A receipt that was already posted is answered without another look at
\* the line or the status.
PostReceipt(c) ==
    LET t == call[c].doc IN
    /\ call[c].at = "receive.post"
    /\ PostFor(InKey(t, call[c].key), ReceiveEffect(t, call[c].quantity))
    /\ IF call[c].posted THEN Finish(c) ELSE Goto(c, "receive.count")
    /\ UNCHANGED transfer

CountReceived(c) ==
    /\ call[c].at = "receive.count"
    /\ transfer' = [transfer EXCEPT ![call[c].doc].receivedQuantity = @ + call[c].quantity]
    /\ Goto(c, "receive.refresh")
    /\ UNCHANGED <<balance, transactions>>

RefreshTransfer(c) ==
    LET t == call[c].doc IN
    /\ call[c].at = "receive.refresh"
    /\ call' = [call EXCEPT
          ![c].at = "receive.mark",
          ![c].complete = transfer[t].receivedQuantity = TransferForm[t].quantity]
    /\ UNCHANGED <<balance, transactions, transfer>>

MarkReceived(c) ==
    /\ call[c].at = "receive.mark"
    /\ transfer' = [transfer EXCEPT ![call[c].doc].status =
                       IF call[c].complete THEN "RECEIVED" ELSE "PARTIALLY_RECEIVED"]
    /\ Finish(c)
    /\ UNCHANGED <<balance, transactions>>

Next ==
    \/ \E t \in Transfers, u \in Users :
          CreateTransfer(t, u) \/ \E c \in Calls : ApproveTransfer(c, t, u)
    \/ \E c \in Calls, t \in Transfers :
          DispatchTransfer(c, t) \/ \E d \in Receipts : ReceiveTransfer(c, t, d)
    \/ \E c \in Calls : \/ MarkApproved(c)
                        \/ PostDispatch(c) \/ MarkInTransit(c)
                        \/ LookForReceipt(c) \/ PostReceipt(c) \/ CountReceived(c)
                        \/ RefreshTransfer(c) \/ MarkReceived(c)
                        \/ Fail(c)

Spec == Init /\ [][Next]_vars

-----------------------------------------------------------------------------
TransferStatuses == {"NONE", "DRAFT", "APPROVED", "IN_TRANSIT", "PARTIALLY_RECEIVED", "RECEIVED"}

TransferRecords ==
    [status : TransferStatuses, createdBy : Users \cup {None},
     approvedBy : Users \cup {None}, receivedQuantity : Nat]

Steps == {"approve", "dispatch.post", "dispatch.mark", "receive.look",
          "receive.post", "receive.count", "receive.refresh", "receive.mark"}

CallRecords ==
    {s \in [at : {"idle"} \cup Steps, doc : Transfers \cup {None},
            by : Users \cup {None}, key : {d.key : d \in Receipts} \cup {None},
            quantity : Nat, posted : BOOLEAN, complete : BOOLEAN] :
       s.at # "idle" => s.doc \in Transfers}

TypeOK ==
    /\ transfer \in [Transfers -> TransferRecords]
    /\ call \in [Calls -> CallRecords]

Posteds(t) == {x \in transactions : \E d \in Receipts : x.idempotencyKey = InKey(t, d.key)}

\* The quantity the ledger holds as received of a transfer.
Arrived(t) ==
    SumFunction([x \in Posteds(t) |-> x.effect[TransferForm[t].destination]["available"]])

\* Stock is received of a transfer only after it was dispatched, and a
\* status past APPROVED means that it was (dispatchTransfer,
\* receiveTransfer).
DispatchedFirst ==
    \A t \in Transfers :
       \/ transfer[t].status \in {"IN_TRANSIT", "PARTIALLY_RECEIVED", "RECEIVED"}
       \/ transfer[t].receivedQuantity > 0
       \/ Posteds(t) # {}
       => Posted(OutKey(t))

\* Maker-checker: no transfer leaves its warehouse without the approval of
\* somebody other than its creator.
DispatchedOnApproval ==
    \A t \in Transfers :
       Posted(OutKey(t)) => transfer[t].approvedBy \notin {None, transfer[t].createdBy}

GoodsIn(bal) == SumFunction([k \in BalanceKeys |-> bal[k]["onHand"] + bal[k]["inTransit"]])

\* Goods on the way are still in the books: what is on hand or in transit
\* never changes, whatever receipts race or fail.
TransitConserved == GoodsIn(balance) = GoodsIn(Opening)

\* operations.test.ts 'rejects transfer receive above remaining quantity':
\* no more arrives of a transfer than was sent.
NotOverReceived ==
    \A t \in Transfers : Arrived(t) <= TransferForm[t].quantity
=============================================================================
