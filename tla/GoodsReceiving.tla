---------------------------- MODULE GoodsReceiving ----------------------------
(***************************************************************************)
(* Goods receipts and their quality inspection (receiving.service.ts).     *)
(*                                                                         *)
(* A receipt of one line takes goods of a purchase order line, directly or *)
(* from a delivered shipment, in a Serializable transaction that sums what *)
(* was received before.  Every receipt line gets an inventory item of its  *)
(* own, so the receipt stands for its balance row.  Received goods are on  *)
(* hold until an inspection, which somebody other than its inspector       *)
(* completes, releases or damages them.  As in StockIssuing every command  *)
(* is a sequence of database steps that may stop after any of them.        *)
(***************************************************************************)
EXTENDS StockLedger

CONSTANTS
    Calls, Users, Receipts, Inspections,
    ReceiptForm,    \* per receipt: order line, shipment item or None, quantity
    Ordered,        \* quantity of every purchase order line
    Shipped,        \* quantity of every delivered shipment item
    InspectionForm, \* per inspection: receipt, passed, failed, quarantined
    None

Inspected(i) ==
    LET f == InspectionForm[i] IN f.passed + f.failed + f.quarantined

ASSUME ReceivingAssumption ==
    /\ BalanceKeys = Receipts /\ AllowNegative = {}
    /\ Receipts \cap Inspections = {}
    /\ \A r \in Receipts :
          /\ ReceiptForm[r].line \in DOMAIN Ordered
          /\ ReceiptForm[r].item \in DOMAIN Shipped \cup {None}
          /\ ReceiptForm[r].quantity \in Nat \ {0}
    /\ \A i \in Inspections :
          /\ InspectionForm[i].receipt \in Receipts
          /\ {InspectionForm[i].passed, InspectionForm[i].failed,
              InspectionForm[i].quarantined} \subseteq Nat
    /\ Ordered \in [DOMAIN Ordered -> Nat] /\ Shipped \in [DOMAIN Shipped -> Nat]
    /\ None \notin Users \cup Receipts \cup Inspections \cup DOMAIN Shipped

\* The tables hold finitely many rows, whatever their ids.
ASSUME FiniteAssumption == IsFiniteSet(Receipts) /\ IsFiniteSet(Inspections)

VARIABLES
    receipt,        \* status
    inspection,     \* status, inspectorId, approverId
    damageRecords,  \* how many every inspection left
    call            \* per call: its step and what it remembers

vars == <<balance, transactions, receipt, inspection, damageRecords, call>>

documents == <<receipt, inspection, damageRecords>>

ReceiptStatuses ==
    {"NONE", "DRAFT", "RECEIVED", "UNDER_INSPECTION", "ACCEPTED", "REJECTED",
     "PARTIALLY_ACCEPTED"}

Results == {"PASSED", "FAILED", "PARTIALLY_PASSED"}

ReceiptRecords == [status : ReceiptStatuses]

InspectionRecords ==
    [status : {"NONE", "IN_PROGRESS"} \cup Results,
     inspectorId : Users \cup {None}, approverId : Users \cup {None}]

Steps ==
    {"idle", "create.commit", "receive.post", "receive.mark", "inspect.insert",
     "complete.post", "complete.mark"}

CallRecords ==
    [at : Steps, doc : Receipts \cup Inspections \cup {None},
     by : Users \cup {None}, seen : SUBSET Receipts]

Step(at, doc, by) == [at |-> at, doc |-> doc, by |-> by, seen |-> {}]

Idle == Step("idle", None, None)

Start(c, step) ==
    /\ call[c] = Idle
    /\ call' = [call EXCEPT ![c] = step]

Goto(c, at) == call' = [call EXCEPT ![c].at = at]

Finish(c) == call' = [call EXCEPT ![c] = Idle]

Fail(c) ==
    /\ call[c] # Idle
    /\ Finish(c)
    /\ UNCHANGED <<ledgerVars, documents>>

-----------------------------------------------------------------------------
Taken(rs) == SumFunction([r \in rs |-> ReceiptForm[r].quantity])

Written == {r \in Receipts : receipt[r].status # "NONE"}

\* The receipts a new one is measured against: of its shipment item, or,
\* without one, all of its order line.
Prior(r) ==
    LET f == ReceiptForm[r] IN
    {p \in Written : IF f.item # None THEN ReceiptForm[p].item = f.item
                                      ELSE ReceiptForm[p].line = f.line}

Source(r) ==
    LET f == ReceiptForm[r] IN IF f.item # None THEN Shipped[f.item] ELSE Ordered[f.line]

\* Those that are measured against r in their turn.
Rivals(r) ==
    {p \in Prior(r) : ReceiptForm[p].item = ReceiptForm[r].item}

HoldEffect(r) ==
    At(NoEffect, r, [onHand |-> ReceiptForm[r].quantity,
                     qualityHold |-> ReceiptForm[r].quantity])

ReleaseEffect_FailedToo(i) ==
    LET f == InspectionForm[i] IN
    At(NoEffect, f.receipt,
       [qualityHold |-> -(f.passed + f.failed), available |-> f.passed + f.failed])

ReleaseEffect(i) ==
    LET f == InspectionForm[i] IN
    At(NoEffect, f.receipt,
       [qualityHold |-> -(f.passed + f.failed), available |-> f.passed, damaged |-> f.failed])

-----------------------------------------------------------------------------
Init ==
    /\ balance = NoEffect
    /\ transactions = {}
    /\ receipt = [r \in Receipts |-> [status |-> "NONE"]]
    /\ inspection = [i \in Inspections |->
          [status |-> "NONE", inspectorId |-> None, approverId |-> None]]
    /\ damageRecords = [i \in Inspections |-> 0]
    /\ call = [c \in Calls |-> Idle]

(* Receipts *)

\* The transaction starts and sums what came before.
CreateReceipt(c, r) ==
    /\ receipt[r].status = "NONE"
    /\ ReceiptForm[r].quantity <= Source(r) - Taken(Prior(r))
    /\ Start(c, [Step("create.commit", r, None) EXCEPT !.seen = Rivals(r)])
    /\ UNCHANGED <<ledgerVars, documents>>

CommitReceipt_ReadCommitted(c) ==
    LET r == call[c].doc IN
    /\ call[c].at = "create.commit"
    /\ receipt[r].status = "NONE"
    /\ receipt' = [receipt EXCEPT ![r].status = "DRAFT"]
    /\ Finish(c)
    /\ UNCHANGED <<ledgerVars, inspection, damageRecords>>

\* Serializable: it fails when a receipt that should have counted in its sum,
\* and it in theirs, was committed meanwhile.  The receipt number is unique.
CommitReceipt(c) ==
    LET r == call[c].doc IN
    /\ call[c].at = "create.commit"
    /\ call[c].seen = Rivals(r)
    /\ receipt[r].status = "NONE"
    /\ receipt' = [receipt EXCEPT ![r].status = "DRAFT"]
    /\ Finish(c)
    /\ UNCHANGED <<ledgerVars, inspection, damageRecords>>

Receive_MarkFirst(c, r) ==
    /\ receipt[r].status = "DRAFT"
    /\ receipt' = [receipt EXCEPT ![r].status = "RECEIVED"]
    /\ Start(c, Step("receive.post", r, None))
    /\ UNCHANGED <<ledgerVars, inspection, damageRecords>>

\* A receipt that is RECEIVED or UNDER_INSPECTION is answered as it is.
Receive(c, r) ==
    /\ receipt[r].status = "DRAFT"
    /\ Start(c, Step("receive.post", r, None))
    /\ UNCHANGED <<ledgerVars, documents>>

PostReceipt(c) ==
    /\ call[c].at = "receive.post"
    /\ PostFor(call[c].doc, HoldEffect(call[c].doc))
    /\ Goto(c, "receive.mark")
    /\ UNCHANGED documents

\* Whatever became of the receipt since it was read.
MarkReceived(c) ==
    /\ call[c].at = "receive.mark"
    /\ receipt' = [receipt EXCEPT ![call[c].doc].status = "RECEIVED"]
    /\ Finish(c)
    /\ UNCHANGED <<ledgerVars, inspection, damageRecords>>

(* Inspections *)

\* Each line is held against what its receipt line received, not against
\* what other inspections inspected of it.
CreateInspection(c, i, u) ==
    LET r == InspectionForm[i].receipt IN
    /\ receipt[r].status = "RECEIVED"
    /\ Inspected(i) \in 1..ReceiptForm[r].quantity
    /\ Start(c, Step("inspect.insert", i, u))
    /\ UNCHANGED <<ledgerVars, documents>>

InsertInspection(c) ==
    LET i == call[c].doc IN
    /\ call[c].at = "inspect.insert"
    /\ inspection[i].status = "NONE"
    /\ inspection' = [inspection EXCEPT ![i].status = "IN_PROGRESS",
                                        ![i].inspectorId = call[c].by]
    /\ receipt' = [receipt EXCEPT ![InspectionForm[i].receipt].status = "UNDER_INSPECTION"]
    /\ Finish(c)
    /\ UNCHANGED <<ledgerVars, damageRecords>>

Moves(i) == InspectionForm[i].passed + InspectionForm[i].failed > 0

CompleteInspection_BySelf(c, i, u) ==
    /\ inspection[i].status = "IN_PROGRESS"
    /\ Start(c, Step(IF Moves(i) THEN "complete.post" ELSE "complete.mark", i, u))
    /\ UNCHANGED <<ledgerVars, documents>>

CompleteInspection(c, i, u) ==
    /\ inspection[i].status = "IN_PROGRESS"
    /\ inspection[i].inspectorId # u
    /\ Start(c, Step(IF Moves(i) THEN "complete.post" ELSE "complete.mark", i, u))
    /\ UNCHANGED <<ledgerVars, documents>>

PostInspection(c) ==
    /\ call[c].at = "complete.post"
    /\ PostFor(call[c].doc, ReleaseEffect(call[c].doc))
    /\ Goto(c, "complete.mark")
    /\ UNCHANGED documents

\* Nothing failed is PASSED, even when nothing passed either.
Result(i) ==
    LET f == InspectionForm[i] IN
    IF f.failed = 0 THEN "PASSED" ELSE IF f.passed = 0 THEN "FAILED" ELSE "PARTIALLY_PASSED"

ReceiptResult ==
    [PASSED |-> "ACCEPTED", FAILED |-> "REJECTED", PARTIALLY_PASSED |-> "PARTIALLY_ACCEPTED"]

\* One transaction; a second completion of the inspection writes its damage
\* records again.
MarkCompleted(c) ==
    LET i == call[c].doc IN
    /\ call[c].at = "complete.mark"
    /\ inspection' = [inspection EXCEPT ![i].status = Result(i), ![i].approverId = call[c].by]
    /\ receipt' = [receipt EXCEPT
          ![InspectionForm[i].receipt].status = ReceiptResult[Result(i)]]
    /\ damageRecords' = [damageRecords EXCEPT
          ![i] = @ + IF InspectionForm[i].failed > 0 THEN 1 ELSE 0]
    /\ Finish(c)
    /\ UNCHANGED ledgerVars

Next ==
    \/ \E c \in Calls, r \in Receipts : CreateReceipt(c, r) \/ Receive(c, r)
    \/ \E c \in Calls, i \in Inspections, u \in Users :
          CreateInspection(c, i, u) \/ CompleteInspection(c, i, u)
    \/ \E c \in Calls : \/ CommitReceipt(c)
                        \/ PostReceipt(c) \/ MarkReceived(c)
                        \/ InsertInspection(c)
                        \/ PostInspection(c) \/ MarkCompleted(c)
                        \/ Fail(c)

Spec == Init /\ [][Next]_vars

-----------------------------------------------------------------------------
\* Types.
TypeOK ==
    /\ receipt \in [Receipts -> ReceiptRecords]
    /\ inspection \in [Inspections -> InspectionRecords]
    /\ damageRecords \in [Inspections -> Nat]
    /\ call \in [Calls -> CallRecords]

\* However receipts race, no more is received of a shipment item than was
\* shipped, and no more directly of an order line than was ordered (create).
ReceivedWithinSource ==
    \A r \in Written : Taken({p \in Written : ReceiptForm[p].item = ReceiptForm[r].item
                                           /\ ReceiptForm[p].line = ReceiptForm[r].line})
                       <= Source(r)

\* A status says what the ledger holds: goods of a receipt past DRAFT are in
\* the books, and so is what a completed inspection decided; damage records
\* are there when it found damage (receive, completeInspection).
StatusBackedByLedger ==
    /\ \A r \in Receipts : receipt[r].status \notin {"NONE", "DRAFT"} => Posted(r)
    /\ \A i \in Inspections : inspection[i].status \in Results /\ Moves(i) => Posted(i)
    /\ \A i \in Inspections :
          damageRecords[i] > 0 <=> inspection[i].status \in Results /\ InspectionForm[i].failed > 0

\* Maker-checker: nothing leaves the hold but by an inspection of received
\* goods, and no inspection is completed by its inspector.
ReleasedByAnother ==
    \A i \in Inspections :
       /\ Posted(i) => inspection[i].inspectorId # None
       /\ inspection[i].status \in Results =>
             inspection[i].approverId \notin {None, inspection[i].inspectorId}

\* Goods are on hold until an inspection in the ledger released or damaged
\* them; with two inspections of one receipt as with one.
HeldUntilReleased ==
    \A r \in Receipts :
       LET done == {i \in Inspections : InspectionForm[i].receipt = r /\ Posted(i)}
           passed == SumFunction([i \in done |-> InspectionForm[i].passed])
           failed == SumFunction([i \in done |-> InspectionForm[i].failed])
       IN  /\ balance[r]["available"] = passed
           /\ balance[r]["damaged"] = failed
           /\ balance[r]["qualityHold"] =
                 (IF Posted(r) THEN ReceiptForm[r].quantity ELSE 0) - passed - failed

\* create refuses a quantity above what is still expected ('Invalid receipt
\* quantity'): no more is received of an order line than was ordered.
NotOverReceived ==
    \A l \in DOMAIN Ordered :
       Taken({r \in Written : ReceiptForm[r].line = l}) <= Ordered[l]
=============================================================================
