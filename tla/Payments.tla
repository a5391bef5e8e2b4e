------------------------------- MODULE Payments -------------------------------
(***************************************************************************)
(* Money settled against payment schedules: supplier payments against the  *)
(* schedules of a payable (procurement.service.ts) and customer payments   *)
(* against the schedules of a contract (contracts.service.ts).             *)
(*                                                                         *)
(* Allocating runs in a Serializable transaction; schedules are added and  *)
(* changed, and supplier payments move through their statuses, by commands *)
(* that read before they write and hold no lock between.  PostgreSQL sees  *)
(* dependencies between Serializable transactions, and a Serializable one  *)
(* cannot write a row that anybody changed after its snapshot; that a      *)
(* plain command changed a row it only read goes unnoticed.                *)
(***************************************************************************)
EXTENDS Integers, FiniteSets, Functions

CONSTANTS
    Calls, Users,
    Payables, Total,        \* proforma totals, approved
    Schedules, PayableOf,   \* possible schedule rows of the payables
    Dependent,              \* schedules that wait for a production order
    Plans,                  \* per payable: the schedules generation may ask for
    Payments, Amount,       \* supplier payments and their amounts
    Allotments,             \* what one allocation may ask for: schedules to amounts
    Receivables,            \* possible schedule rows of the contract
    ContractValue, ReceivablePlans,
    Receipts, Received,     \* customer payment keys, and what each one allocates
    Amounts,                \* what a schedule added by hand may be for
    None

Rows == Schedules \cup Receivables

ASSUME PaymentsAssumption ==
    /\ Schedules \cap Receivables = {} /\ Payments \cap Receipts = {}
    /\ PayableOf \in [Schedules -> Payables] /\ Dependent \subseteq Schedules
    /\ Total \in [Payables -> Nat \ {0}] /\ Amount \in [Payments -> Nat \ {0}]
    /\ \A b \in Payables : \A p \in Plans[b] :
          p \in [DOMAIN p -> Int] /\ DOMAIN p \subseteq {s \in Schedules : PayableOf[s] = b}
    /\ Amounts \subseteq Int
    /\ \A a \in Allotments : a \in [DOMAIN a -> Int] /\ DOMAIN a \subseteq Schedules
    /\ \A p \in ReceivablePlans : p \in [DOMAIN p -> Int] /\ DOMAIN p \subseteq Receivables
    /\ \A k \in Receipts :
          Received[k] \in [DOMAIN Received[k] -> Int] /\ DOMAIN Received[k] \subseteq Receivables
    /\ None \notin Users \cup Payments \cup Payables \cup Rows \cup Receipts

PaymentStatuses == {"DRAFT", "SUBMITTED", "APPROVED", "REJECTED", "CANCELLED"}

\* SupplierPayment rows.
PaymentRecord ==
    [status : PaymentStatuses, recordedBy : Users, approvedBy : Users \cup {None}]

\* SupplierPayable rows; the amount is the total.
PayableRecord == [paid : Int, outstanding : Int]

\* The payment schedule rows of payables and contracts.
ScheduleRecord ==
    [amount : Int, paid : Int, outstanding : Int,
     status : {"PLANNED", "DUE", "PARTIALLY_PAID", "PAID"},
     dependency : {"WAITING", "COMPLETED"}]

ASSUME RecordAssumption ==
    None \notin PaymentRecord /\ None \notin PayableRecord /\ None \notin ScheduleRecord

\* The tables hold finitely many rows, whatever their ids.
ASSUME FiniteAssumption ==
    IsFiniteSet(Payments) /\ IsFiniteSet(Receipts) /\ IsFiniteSet(Rows)

VARIABLES
    payable,    \* None, or paidAmount and outstandingAmount
    schedule,   \* None, or amount, paidAmount, outstandingAmount, status, dependency
    payment,    \* None, or status, recordedBy, approvedBy
    approvals,  \* SupplierPaymentApproval rows
    allocation, \* per payment: the allocated schedules and amounts
    received,   \* customer payment keys that exist
    call

vars == <<payable, schedule, payment, approvals, allocation, received, call>>

books == <<payable, schedule, payment, approvals, allocation, received>>

Existing == {s \in Rows : schedule[s] # None}

SchedulesOf(b) == {s \in Schedules : PayableOf[s] = b}

Scheduled(b) == SumFunction([s \in SchedulesOf(b) \cap Existing |-> schedule[s].amount])

NewSchedule(amount, dependency) ==
    [amount |-> amount, paid |-> 0, outstanding |-> amount,
     status |-> "PLANNED", dependency |-> dependency]

NewPayable(b) == [paid |-> 0, outstanding |-> Total[b]]

Idle == [at |-> "idle"]

Start(c, step) == call[c] = Idle /\ call' = [call EXCEPT ![c] = step]

Finish(c) == call' = [call EXCEPT ![c] = Idle]

Footprint_WritesOnly(d) ==
    CASE d.at = "generating" -> {<<"schedules", d.payable>>}
      [] d.at = "allocating" -> {<<"row", s>> : s \in DOMAIN d.asked}
                                \cup {<<"payable", PayableOf[s]>> : s \in DOMAIN d.asked}
      [] d.at = "receiving" -> {<<"row", s>> : s \in DOMAIN Received[d.key]}
      [] OTHER -> {}

\* What an open Serializable transaction writes, or reads and adds to.
Footprint(d) ==
    CASE d.at = "generating" -> {<<"schedules", d.payable>>}
      [] d.at = "allocating" -> {<<"row", s>> : s \in DOMAIN d.asked}
                                \cup {<<"payable", PayableOf[s]>> : s \in DOMAIN d.asked}
                                \cup {<<"allocations", d.payment>>}
      [] d.at = "receiving" -> {<<"row", s>> : s \in DOMAIN Received[d.key]}
      [] OTHER -> {}

\* When c commits, PostgreSQL ends the open transactions that conflict with it.
FinishAlone(c) ==
    call' = [d \in Calls |->
                IF d = c \/ Footprint(call[d]) \cap Footprint(call[c]) # {}
                THEN Idle ELSE call[d]]

-----------------------------------------------------------------------------
(* Payables and their schedules. *)

\* createSupplierPayableFromInvoice: an upsert without schedules.
CreatePayable(c, b) ==
    /\ call[c] = Idle
    /\ payable' = [payable EXCEPT ![b] = IF @ = None THEN NewPayable(b) ELSE @]
    /\ UNCHANGED <<schedule, payment, approvals, allocation, received, call>>

\* generateSupplierPayable opens its transaction and finds no schedules.
Generate(c, b, plan) ==
    /\ \A s \in DOMAIN plan : plan[s] > 0
    /\ SumFunction(plan) = Total[b]
    /\ SchedulesOf(b) \cap Existing = {}
    /\ Start(c, [at |-> "generating", payable |-> b, plan |-> plan,
                 fresh |-> payable[b] = None])
    /\ UNCHANGED books

\* createMany stops at a sequence, the upsert at a payable, made meanwhile.
CommitGenerate(c) ==
    LET plan == call[c].plan IN
    /\ call[c].at = "generating"
    /\ DOMAIN plan \cap Existing = {}
    /\ call[c].fresh = (payable[call[c].payable] = None)
    /\ payable' = [payable EXCEPT ![call[c].payable] =
                      IF @ = None THEN NewPayable(call[c].payable) ELSE @]
    /\ schedule' = [s \in Rows |-> IF s \in DOMAIN plan
                                   THEN NewSchedule(plan[s], "COMPLETED") ELSE schedule[s]]
    /\ FinishAlone(c)
    /\ UNCHANGED <<payment, approvals, allocation, received>>

\* createSupplierPaymentSchedule sums the schedules, and then adds one.
AddSchedule(c, s, amount) ==
    /\ payable[PayableOf[s]] # None
    /\ amount > 0 /\ Scheduled(PayableOf[s]) + amount <= Total[PayableOf[s]]
    /\ Start(c, [at |-> "adding", row |-> s, amount |-> amount])
    /\ UNCHANGED books

InsertSchedule(c) ==
    /\ call[c].at = "adding" /\ schedule[call[c].row] = None
    /\ schedule' = [schedule EXCEPT ![call[c].row] = NewSchedule(call[c].amount, "WAITING")]
    /\ Finish(c)
    /\ UNCHANGED <<payable, payment, approvals, allocation, received>>

\* updateSupplierPaymentSchedule: dates and conditions are left out.
UpdateSchedule(c, s, dependency) ==
    /\ schedule[s] # None /\ schedule[s].status # "PAID"
    /\ Start(c, [at |-> "updating", row |-> s, dependency |-> dependency])
    /\ UNCHANGED books

\* The open transactions that are to write one of the rows fail.
Overtake(rows, also) ==
    call' = [d \in Calls |->
                IF d \in also \/ {<<"row", s>> : s \in rows} \cap Footprint(call[d]) # {}
                THEN Idle ELSE call[d]]

WriteSchedule(c) ==
    /\ call[c].at = "updating"
    /\ schedule' = [schedule EXCEPT ![call[c].row].dependency = call[c].dependency]
    /\ Overtake({call[c].row}, {c})
    /\ UNCHANGED <<payable, payment, approvals, allocation, received>>

\* The production order becomes ready for shipment: what waits for it falls
\* due, and so does what was paid.
ProductionReady ==
    LET rows == Dependent \cap Existing IN
    /\ schedule' = [s \in Rows |->
          IF s \in rows THEN [schedule[s] EXCEPT !.dependency = "COMPLETED", !.status = "DUE"]
          ELSE schedule[s]]
    /\ Overtake(rows, {})
    /\ UNCHANGED <<payable, payment, approvals, allocation, received>>

-----------------------------------------------------------------------------
(* Supplier payments. *)

\* createSupplierPayment: an upsert by idempotency key that updates nothing.
CreatePayment(c, u, p) ==
    /\ call[c] = Idle
    /\ payment' = [payment EXCEPT ![p] =
          IF @ = None THEN [status |-> "DRAFT", recordedBy |-> u, approvedBy |-> None] ELSE @]
    /\ UNCHANGED <<payable, schedule, approvals, allocation, received, call>>

Allowed(status) == CASE status = "DRAFT" -> {"SUBMITTED", "CANCELLED"}
                     [] status = "SUBMITTED" -> {"APPROVED", "REJECTED", "CANCELLED"}
                     [] OTHER -> {}

Decisions == {"APPROVED", "REJECTED"}

Transition_BySelf(c, u, p, next) ==
    /\ payment[p] # None /\ next \in Allowed(payment[p].status)
    /\ Start(c, [at |-> "moving", payment |-> p, next |-> next, by |-> u])
    /\ UNCHANGED books

\* transitionSupplierPayment reads the payment and checks it ...
Transition(c, u, p, next) ==
    /\ payment[p] # None /\ next \in Allowed(payment[p].status)
    /\ next \in Decisions => payment[p].recordedBy # u
    /\ Start(c, [at |-> "moving", payment |-> p, next |-> next, by |-> u])
    /\ UNCHANGED books

\* ... and writes the status whatever it is by then.
WriteStatus(c) ==
    LET p == call[c].payment
        next == call[c].next IN
    /\ call[c].at = "moving"
    /\ payment' = [payment EXCEPT ![p].status = next,
                                  ![p].approvedBy = IF next = "APPROVED" THEN call[c].by ELSE @]
    /\ approvals' = approvals \cup
          (IF next \in Decisions
           THEN {[payment |-> p, by |-> call[c].by, decision |-> next]} ELSE {})
    /\ Finish(c)
    /\ UNCHANGED <<payable, schedule, allocation, received>>

\* The schedules exist, wait for nothing, and still owe what is asked.
Payable(asked) ==
    \A s \in DOMAIN asked :
       /\ schedule[s] # None /\ schedule[s].dependency = "COMPLETED"
       /\ asked[s] <= schedule[s].outstanding

Allocate(c, p, asked) ==
    /\ payment[p] # None /\ payment[p].status = "APPROVED"
    /\ \A s \in DOMAIN asked : asked[s] > 0
    /\ SumFunction(allocation[p]) + SumFunction(asked) <= Amount[p]
    /\ Payable(asked)
    /\ Start(c, [at |-> "allocating", payment |-> p, asked |-> asked,
                 rows |-> [s \in DOMAIN asked |-> schedule[s]]])
    /\ UNCHANGED books

Settled(row, amount) ==
    [row EXCEPT !.paid = @ + amount, !.outstanding = @ - amount,
                !.status = IF row.outstanding = amount THEN "PAID" ELSE "PARTIALLY_PAID"]

\* The part of an allocation that falls on one payable.
Share(asked, b) == SumFunction([s \in DOMAIN asked \cap SchedulesOf(b) |-> asked[s]])

Joined(f, g) == [x \in DOMAIN f \cup DOMAIN g |-> IF x \in DOMAIN f THEN f[x] ELSE g[x]]

\* A payment is allocated to a schedule once: the pair is unique.
CommitAllocate(c) ==
    LET d == call[c] IN
    /\ d.at = "allocating" /\ DOMAIN d.asked \cap DOMAIN allocation[d.payment] = {}
    /\ allocation' = [allocation EXCEPT ![d.payment] = Joined(@, d.asked)]
    /\ schedule' = [s \in Rows |-> IF s \in DOMAIN d.asked
                                   THEN Settled(d.rows[s], d.asked[s]) ELSE schedule[s]]
    /\ payable' = [b \in Payables |-> IF payable[b] = None THEN None
          ELSE [paid |-> payable[b].paid + Share(d.asked, b),
                outstanding |-> payable[b].outstanding - Share(d.asked, b)]]
    /\ FinishAlone(c)
    /\ UNCHANGED <<payment, approvals, received>>

-----------------------------------------------------------------------------
(* Contracts and customer payments. *)

\* schedules: one batch; the sequences 1, 2, ... of a contract are unique.
CreateReceivables(c, plan) ==
    /\ call[c] = Idle
    /\ SumFunction(plan) <= ContractValue /\ DOMAIN plan \cap Existing = {}
    /\ schedule' = [s \in Rows |-> IF s \in DOMAIN plan
                                   THEN NewSchedule(plan[s], "COMPLETED") ELSE schedule[s]]
    /\ UNCHANGED <<payable, payment, approvals, allocation, received, call>>

\* payment looks for the key before its transaction ...
LookForKey(c, k) ==
    /\ k \notin received
    /\ Start(c, [at |-> "paying", key |-> k])
    /\ UNCHANGED books

Receive(c) ==
    LET k == call[c].key IN
    /\ call[c].at = "paying"
    /\ \A s \in DOMAIN Received[k] : schedule[s] # None /\ Received[k][s] <= schedule[s].outstanding
    /\ call' = [call EXCEPT ![c] = [at |-> "receiving", key |-> k,
                                    rows |-> [s \in DOMAIN Received[k] |-> schedule[s]]]]
    /\ UNCHANGED books

CommitReceive_KeyLooked(c) ==
    LET d == call[c] IN
    /\ d.at = "receiving"
    /\ received' = received \cup {d.key}
    /\ allocation' = [allocation EXCEPT ![d.key] = Joined(@, Received[d.key])]
    /\ schedule' = [s \in Rows |-> IF s \in DOMAIN d.rows
                                   THEN Settled(d.rows[s], Received[d.key][s]) ELSE schedule[s]]
    /\ FinishAlone(c)
    /\ UNCHANGED <<payable, payment, approvals>>

\* ... in which a second payment with the key meets the unique index.
CommitReceive(c) ==
    LET d == call[c] IN
    /\ d.at = "receiving" /\ d.key \notin received
    /\ received' = received \cup {d.key}
    /\ allocation' = [allocation EXCEPT ![d.key] = Received[d.key]]
    /\ schedule' = [s \in Rows |-> IF s \in DOMAIN d.rows
                                   THEN Settled(d.rows[s], Received[d.key][s]) ELSE schedule[s]]
    /\ FinishAlone(c)
    /\ UNCHANGED <<payable, payment, approvals>>

\* A command that meets a refusal, a conflict or an error leaves nothing.
Fails(c) ==
    /\ call[c] # Idle
    /\ Finish(c)
    /\ UNCHANGED books

-----------------------------------------------------------------------------
Init ==
    /\ payable = [b \in Payables |-> None]
    /\ schedule = [s \in Rows |-> None]
    /\ payment = [p \in Payments |-> None]
    /\ approvals = {}
    /\ allocation = [p \in Payments \cup Receipts |-> [s \in {} |-> 0]]
    /\ received = {}
    /\ call = [c \in Calls |-> Idle]

Next ==
    \/ ProductionReady
    \/ \E c \in Calls :
          \/ \E b \in Payables : CreatePayable(c, b)
          \/ \E b \in Payables : \E plan \in Plans[b] : Generate(c, b, plan)
          \/ CommitGenerate(c)
          \/ \E s \in Schedules, amount \in Amounts : AddSchedule(c, s, amount)
          \/ InsertSchedule(c)
          \/ \E s \in Schedules, w \in {"WAITING", "COMPLETED"} : UpdateSchedule(c, s, w)
          \/ WriteSchedule(c)
          \/ \E u \in Users, p \in Payments : CreatePayment(c, u, p)
          \/ \E u \in Users, p \in Payments, next \in PaymentStatuses :
                Transition(c, u, p, next)
          \/ WriteStatus(c)
          \/ \E p \in Payments, asked \in Allotments : Allocate(c, p, asked)
          \/ CommitAllocate(c)
          \/ \E plan \in ReceivablePlans : CreateReceivables(c, plan)
          \/ \E k \in Receipts : LookForKey(c, k)
          \/ Receive(c)
          \/ CommitReceive(c)
          \/ Fails(c)

Spec == Init /\ [][Next]_vars

-----------------------------------------------------------------------------
(* Properties. *)

AllocatedTo(s) ==
    SumFunction([p \in DOMAIN allocation |->
                    IF s \in DOMAIN allocation[p] THEN allocation[p][s] ELSE 0])

\* What a payable and its schedules say was paid is what the payments that
\* exist allocated to them, and the rest is outstanding, through stale
\* commands, conflicts and a payment sent twice with one key.
BooksBalance ==
    /\ \A b \in Payables : payable[b] # None =>
          /\ payable[b].paid + payable[b].outstanding = Total[b]
          /\ payable[b].paid = SumFunction([s \in SchedulesOf(b) |-> AllocatedTo(s)])
    /\ \A s \in Existing :
          /\ schedule[s].paid + schedule[s].outstanding = schedule[s].amount
          /\ schedule[s].paid = AllocatedTo(s)
          /\ s \in Schedules => payable[PayableOf[s]] # None

\* However its allocations to schedules of several payables interleave, a
\* supplier payment gives no more than its amount, and no schedule of a
\* payable is paid above what it asks.
AllocatedWithinAmount ==
    /\ \A p \in Payments : SumFunction(allocation[p]) <= Amount[p]
    /\ \A s \in Existing \cap Schedules : schedule[s].outstanding >= 0

\* Money is allocated only of a payment that somebody other than its recorder
\* approved, although commands decide on a status they read earlier.
AllocatedOnApproval ==
    \A p \in Payments : DOMAIN allocation[p] # {} =>
       \E a \in approvals : /\ a.payment = p /\ a.decision = "APPROVED"
                            /\ a.by # payment[p].recordedBy
=============================================================================
