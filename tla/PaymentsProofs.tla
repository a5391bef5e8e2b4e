---------------------------- MODULE PaymentsProofs ----------------------------
(***************************************************************************)
(* Theorems about Payments, for any payables, schedules, contracts,        *)
(* payments and number of concurrent calls.                                *)
(*                                                                         *)
(* Money is allocated only of a payment that somebody other than its       *)
(* recorder approved. Approved is what a status, an allocation and an      *)
(* open transaction rest on; a call between its check and its write        *)
(* relies on who recorded the payment never changing.                      *)
(*                                                                         *)
(* The books balance, and no payment is allocated beyond its amount.       *)
(* BooksInv ties payables, schedules and allocations together and says     *)
(* what an open transaction read and may therefore write; a commit that    *)
(* would make it untrue ends the transaction.                              *)
(***************************************************************************)
EXTENDS Payments, FiniteSums, TLAPS

Approved(p) ==
    /\ payment[p] # None
    /\ \E a \in approvals : /\ a.payment = p /\ a.decision = "APPROVED"
                            /\ a.by # payment[p].recordedBy

PaymentOK(p) ==
    /\ payment[p] # None /\ payment[p].status = "APPROVED" => Approved(p)
    /\ DOMAIN allocation[p] # {} => Approved(p)

CallOK(c) ==
    LET d == call[c] IN
    /\ d.at = "moving" =>
          /\ d.payment \in Payments /\ payment[d.payment] # None
          /\ d.next \in PaymentStatuses /\ d.by \in Users
          /\ d.next \in Decisions => payment[d.payment].recordedBy # d.by
    /\ d.at = "allocating" => d.payment \in Payments /\ Approved(d.payment)
    /\ d.at \in {"paying", "receiving"} => d.key \in Receipts

Shaped ==
    /\ payment \in [Payments -> PaymentRecord \cup {None}]
    /\ allocation = [p \in Payments \cup Receipts |-> allocation[p]]
    /\ call = [c \in Calls |-> call[c]]

ApprovalInv ==
    /\ Shaped
    /\ \A p \in Payments : PaymentOK(p)
    /\ \A c \in Calls : CallOK(c)

\* A payment stays, recorded by whom it was, with the approvals it has.
Grows ==
    /\ approvals \subseteq approvals'
    /\ \A p \in Payments : payment[p] # None =>
          payment'[p] # None /\ payment'[p].recordedBy = payment[p].recordedBy

StepOK ==
    /\ Shaped'
    /\ Grows
    /\ \A p \in Payments : PaymentOK(p)'
    /\ \A c \in Calls : call'[c] # call[c] => CallOK(c)'

-----------------------------------------------------------------------------
LEMMA ApprovedStays ==
    ASSUME Grows, NEW p \in Payments, Approved(p)
    PROVE  Approved(p)'
BY DEF Grows, Approved

\* Nothing that a waiting call relies on is taken back.
LEMMA StepKeepsInv ==
    ASSUME ApprovalInv, StepOK
    PROVE  ApprovalInv'
<1>1. ASSUME NEW c \in Calls, call'[c] = call[c]
      PROVE  CallOK(c)'
  <2>1. CallOK(c)
    BY DEF ApprovalInv
  <2> QED
    BY <1>1, <2>1, ApprovedStays DEF CallOK, StepOK, Grows
<1> QED
  BY <1>1 DEF ApprovalInv, StepOK

\* A step that leaves payments, approvals and allocations alone.
LEMMA BooksKept ==
    ASSUME ApprovalInv, UNCHANGED <<payment, approvals, allocation>>,
           call' = [c \in Calls |-> call'[c]],
           \A c \in Calls : call'[c] # call[c] => CallOK(c)'
    PROVE  StepOK
BY DEF StepOK, Shaped, Grows, PaymentOK, Approved, ApprovalInv

LEMMA IdleOK ==
    ASSUME NEW c \in Calls, call'[c] = Idle
    PROVE  CallOK(c)'
BY DEF CallOK, Idle

LEMMA StartsOne ==
    ASSUME ApprovalInv, NEW c \in Calls, NEW step, Start(c, step)
    PROVE  /\ call' = [d \in Calls |-> call'[d]]
           /\ call'[c] = step
           /\ \A d \in Calls : d # c => call'[d] = call[d]
BY DEF ApprovalInv, Shaped, Start

\* A call that ends, alone or with the transactions it overtakes.
LEMMA OthersEnd ==
    ASSUME ApprovalInv,
           \/ \E c \in Calls : Finish(c) \/ FinishAlone(c)
           \/ \E rows, also : Overtake(rows, also)
    PROVE  /\ call' = [d \in Calls |-> call'[d]]
           /\ \A d \in Calls : call'[d] # call[d] => CallOK(d)'
<1>1. /\ call' = [d \in Calls |-> call'[d]]
      /\ \A d \in Calls : call'[d] = call[d] \/ call'[d] = Idle
  BY DEF ApprovalInv, Shaped, Finish, FinishAlone, Overtake
<1> QED
  BY <1>1, IdleOK

-----------------------------------------------------------------------------
LEMMA InitApproval == Init => ApprovalInv
BY DEF Init, ApprovalInv, Shaped, PaymentOK, CallOK, Idle

LEMMA CreatePaymentStep ==
    ASSUME ApprovalInv, NEW c \in Calls, NEW u \in Users, NEW p \in Payments,
           CreatePayment(c, u, p)
    PROVE  StepOK
<1> DEFINE new == [status |-> "DRAFT", recordedBy |-> u, approvedBy |-> None]
<1>1. new \in PaymentRecord /\ new # None
  BY RecordAssumption DEF PaymentRecord, PaymentStatuses
<1>2. payment' = [payment EXCEPT ![p] = IF payment[p] = None THEN new ELSE payment[p]]
  BY DEF CreatePayment
<1> HIDE DEF new
<1>3. Shaped' /\ Grows
  BY <1>1, <1>2 DEF CreatePayment, ApprovalInv, Shaped, Grows
<1>4. ASSUME NEW q \in Payments
      PROVE  PaymentOK(q)'
  <2>1. PaymentOK(q)
    BY DEF ApprovalInv
  <2>2. CASE payment'[q] = payment[q]
    BY <2>1, <2>2 DEF PaymentOK, Approved, CreatePayment
  <2>3. CASE payment'[q] # payment[q]
    <3>1. payment[q] = None /\ payment'[q] = new
      BY <1>2, <2>3 DEF ApprovalInv, Shaped
    <3> QED
      BY <2>1, <3>1 DEF PaymentOK, Approved, CreatePayment, new
  <2> QED
    BY <2>2, <2>3
<1> QED
  BY <1>3, <1>4 DEF StepOK, CreatePayment

LEMMA TransitionStep ==
    ASSUME ApprovalInv, NEW c \in Calls, NEW u \in Users, NEW p \in Payments,
           NEW next \in PaymentStatuses, Transition(c, u, p, next)
    PROVE  StepOK
<1> DEFINE step == [at |-> "moving", payment |-> p, next |-> next, by |-> u]
<1>1. Start(c, step) /\ UNCHANGED <<payment, approvals, allocation>>
  BY DEF Transition, books
<1>2. payment[p] # None /\ (next \in Decisions => payment[p].recordedBy # u)
  BY DEF Transition
<1>3. call'[c] = step => CallOK(c)'
  BY <1>1, <1>2 DEF CallOK
<1> HIDE DEF step
<1> QED
  BY <1>1, <1>3, StartsOne, BooksKept

LEMMA WriteStatusStep ==
    ASSUME ApprovalInv, NEW c \in Calls, WriteStatus(c)
    PROVE  StepOK
<1>1. PICK p \in Payments, next \in PaymentStatuses, by \in Users :
         /\ p = call[c].payment /\ next = call[c].next /\ by = call[c].by
         /\ payment[p] # None
         /\ next \in Decisions => payment[p].recordedBy # by
  BY DEF ApprovalInv, CallOK, WriteStatus
<1>2. payment[p] \in PaymentRecord
  BY <1>1 DEF ApprovalInv, Shaped
<1> DEFINE new == [payment[p] EXCEPT !.status = next,
                        !.approvedBy = IF next = "APPROVED" THEN by ELSE payment[p].approvedBy]
<1>3. /\ new \in PaymentRecord
      /\ new.recordedBy = payment[p].recordedBy /\ new.status = next
  BY <1>1, <1>2 DEF PaymentRecord
<1>4. new # None
  BY <1>3, RecordAssumption
<1>5. payment' = [payment EXCEPT ![p] = new]
  BY <1>1 DEF WriteStatus, ApprovalInv, Shaped
<1>6. approvals' = approvals \cup (IF next \in Decisions
           THEN {[payment |-> p, by |-> by, decision |-> next]} ELSE {})
  BY <1>1 DEF WriteStatus
<1>7. allocation' = allocation /\ Finish(c)
  BY DEF WriteStatus
<1> HIDE DEF new
<1>8. Shaped' /\ Grows
  <2>1. call' = [d \in Calls |-> call'[d]]
    BY <1>7, OthersEnd
  <2> QED
    BY <1>1, <1>3, <1>4, <1>5, <1>6, <1>7, <2>1 DEF ApprovalInv, Shaped, Grows
<1>9. ASSUME NEW q \in Payments
      PROVE  PaymentOK(q)'
  <2>1. PaymentOK(q) /\ (Approved(q) => Approved(q)')
    BY <1>8, ApprovedStays DEF ApprovalInv
  <2>2. CASE q # p
    BY <1>5, <1>7, <2>1, <2>2 DEF PaymentOK, ApprovalInv, Shaped
  <2>3. CASE q = p
    <3>1. payment'[p] = new
      BY <1>1, <1>5 DEF ApprovalInv, Shaped
    <3>2. ASSUME next = "APPROVED"
          PROVE  Approved(p)'
      <4> DEFINE a == [payment |-> p, by |-> by, decision |-> next]
      <4>1. next \in Decisions
        BY <3>2 DEF Decisions
      <4>2. a \in approvals'
        BY <1>6, <4>1
      <4>3. a.payment = p /\ a.decision = "APPROVED" /\ a.by # payment'[p].recordedBy
        BY <1>1, <1>3, <3>1, <3>2, <4>1
      <4>4. payment'[p] # None
        BY <1>4, <3>1
      <4> QED
        BY <4>2, <4>3, <4>4 DEF Approved
    <3>3. payment'[p].status = "APPROVED" => Approved(p)'
      BY <1>3, <3>1, <3>2
    <3>4. DOMAIN allocation'[p] # {} => Approved(p)'
      BY <1>7, <2>1, <2>3 DEF PaymentOK
    <3> QED
      BY <2>3, <3>3, <3>4 DEF PaymentOK
  <2> QED
    BY <2>2, <2>3
<1> QED
  BY <1>7, <1>8, <1>9, OthersEnd DEF StepOK

LEMMA AllocateStep ==
    ASSUME ApprovalInv, NEW c \in Calls, NEW p \in Payments, NEW asked \in Allotments,
           Allocate(c, p, asked)
    PROVE  StepOK
<1> DEFINE step == [at |-> "allocating", payment |-> p, asked |-> asked,
                    rows |-> [s \in DOMAIN asked |-> schedule[s]]]
<1>1. Start(c, step) /\ UNCHANGED <<payment, approvals, allocation>>
  BY DEF Allocate, books
<1>2. Approved(p)
  BY DEF Allocate, ApprovalInv, PaymentOK
<1>3. Approved(p)'
  BY <1>1, <1>2 DEF Approved
<1>4. call'[c] = step => CallOK(c)'
  BY <1>3 DEF CallOK
<1> HIDE DEF step
<1> QED
  BY <1>1, <1>4, StartsOne, BooksKept

\* Commits that write allocations: of an approved payment, or of a receipt.
LEMMA AllocationStep ==
    ASSUME ApprovalInv, NEW c \in Calls, NEW p \in Payments \cup Receipts, NEW new,
           p \in Payments => Approved(p),
           allocation' = [allocation EXCEPT ![p] = new],
           FinishAlone(c), UNCHANGED <<payment, approvals>>
    PROVE  StepOK
<1>1. ASSUME NEW q \in Payments
      PROVE  PaymentOK(q)'
  <2>1. PaymentOK(q) /\ (Approved(q) => Approved(q)')
    BY DEF ApprovalInv, Approved
  <2> QED
    BY <2>1 DEF ApprovalInv, Shaped, PaymentOK
<1>2. Shaped' /\ Grows
  BY OthersEnd DEF ApprovalInv, Shaped, Grows
<1> QED
  BY <1>1, <1>2, OthersEnd DEF StepOK

LEMMA LookForKeyStep ==
    ASSUME ApprovalInv, NEW c \in Calls, NEW k \in Receipts, LookForKey(c, k)
    PROVE  StepOK
<1> DEFINE step == [at |-> "paying", key |-> k]
<1>1. Start(c, step) /\ UNCHANGED <<payment, approvals, allocation>>
  BY DEF LookForKey, books
<1>2. call'[c] = step => CallOK(c)'
  BY DEF CallOK
<1> HIDE DEF step
<1> QED
  BY <1>1, <1>2, StartsOne, BooksKept

LEMMA ReceiveStep ==
    ASSUME ApprovalInv, NEW c \in Calls, Receive(c)
    PROVE  StepOK
<1> DEFINE k == call[c].key
           step == [at |-> "receiving", key |-> k,
                    rows |-> [s \in DOMAIN Received[k] |-> schedule[s]]]
<1>1. k \in Receipts
  BY DEF Receive, ApprovalInv, CallOK
<1>2. call' = [call EXCEPT ![c] = step] /\ UNCHANGED <<payment, approvals, allocation>>
  BY DEF Receive, books
<1>3. call'[c] = step => CallOK(c)'
  BY <1>1 DEF CallOK
<1> HIDE DEF step
<1> QED
  BY <1>2, <1>3, BooksKept DEF ApprovalInv, Shaped

\* Commands that only prepare or change schedules and payables.
LEMMA PreparedStep ==
    ASSUME ApprovalInv, NEW c \in Calls, NEW step,
           Start(c, step), UNCHANGED <<payment, approvals, allocation>>,
           step.at \in {"generating", "adding", "updating"}
    PROVE  StepOK
<1>1. call'[c] = step => CallOK(c)'
  BY DEF CallOK
<1> QED
  BY <1>1, StartsOne, BooksKept

-----------------------------------------------------------------------------
LEMMA NextApproval ==
    ASSUME ApprovalInv, [Next]_vars
    PROVE  ApprovalInv'
<1>1. CASE UNCHANGED vars
  BY <1>1 DEF vars, ApprovalInv, Shaped, PaymentOK, Approved, CallOK
<1>2. CASE ProductionReady
  BY <1>2, OthersEnd, BooksKept, StepKeepsInv DEF ProductionReady
<1>3. ASSUME NEW c \in Calls, NEW b \in Payables, CreatePayable(c, b)
      PROVE  ApprovalInv'
  BY <1>3, BooksKept, StepKeepsInv DEF CreatePayable, ApprovalInv, Shaped
<1>4. ASSUME NEW c \in Calls, NEW b \in Payables, NEW plan \in Plans[b], Generate(c, b, plan)
      PROVE  ApprovalInv'
  BY <1>4, PreparedStep, StepKeepsInv DEF Generate, books
<1>5. ASSUME NEW c \in Calls,
             \/ CommitGenerate(c) \/ InsertSchedule(c) \/ WriteSchedule(c) \/ Fails(c)
      PROVE  ApprovalInv'
  BY <1>5, OthersEnd, BooksKept, StepKeepsInv
     DEF CommitGenerate, InsertSchedule, WriteSchedule, Fails, books
<1>6. ASSUME NEW c \in Calls, NEW s \in Schedules, NEW amount \in Amounts,
             AddSchedule(c, s, amount)
      PROVE  ApprovalInv'
  BY <1>6, PreparedStep, StepKeepsInv DEF AddSchedule, books
<1>7. ASSUME NEW c \in Calls, NEW s \in Schedules, NEW w, UpdateSchedule(c, s, w)
      PROVE  ApprovalInv'
  BY <1>7, PreparedStep, StepKeepsInv DEF UpdateSchedule, books
<1>8. ASSUME NEW c \in Calls, NEW u \in Users, NEW p \in Payments,
             \/ CreatePayment(c, u, p)
             \/ \E next \in PaymentStatuses : Transition(c, u, p, next)
      PROVE  ApprovalInv'
  BY <1>8, CreatePaymentStep, TransitionStep, StepKeepsInv
<1>9. ASSUME NEW c \in Calls, WriteStatus(c)
      PROVE  ApprovalInv'
  BY <1>9, WriteStatusStep, StepKeepsInv
<1>10. ASSUME NEW c \in Calls, NEW p \in Payments, NEW asked \in Allotments,
              Allocate(c, p, asked)
       PROVE  ApprovalInv'
  BY <1>10, AllocateStep, StepKeepsInv
<1>11. ASSUME NEW c \in Calls, CommitAllocate(c)
       PROVE  ApprovalInv'
  <2>1. call[c].payment \in Payments /\ Approved(call[c].payment)
    BY <1>11 DEF CommitAllocate, ApprovalInv, CallOK
  <2> QED
    BY <1>11, <2>1, AllocationStep, StepKeepsInv DEF CommitAllocate
<1>12. ASSUME NEW c \in Calls, NEW plan \in ReceivablePlans, CreateReceivables(c, plan)
       PROVE  ApprovalInv'
  BY <1>12, BooksKept, StepKeepsInv DEF CreateReceivables, ApprovalInv, Shaped
<1>13. ASSUME NEW c \in Calls, NEW k \in Receipts, LookForKey(c, k)
       PROVE  ApprovalInv'
  BY <1>13, LookForKeyStep, StepKeepsInv
<1>14. ASSUME NEW c \in Calls, Receive(c)
       PROVE  ApprovalInv'
  BY <1>14, ReceiveStep, StepKeepsInv
<1>15. ASSUME NEW c \in Calls, CommitReceive(c)
       PROVE  ApprovalInv'
  <2>1. call[c].key \in Receipts /\ call[c].key \notin Payments
    BY <1>15, PaymentsAssumption DEF CommitReceive, ApprovalInv, CallOK
  <2> QED
    BY <1>15, <2>1, AllocationStep, StepKeepsInv DEF CommitReceive
<1> QED
  BY <1>1, <1>2, <1>3, <1>4, <1>5, <1>6, <1>7, <1>8, <1>9, <1>10, <1>11, <1>12,
     <1>13, <1>14, <1>15 DEF Next

\* transitionSupplierPayment refuses the recorder's own decision, and
\* allocateSupplierPayment a payment that is not approved: however the two,
\* and everything else, interleave, money goes only by another's approval.
THEOREM PaymentsNeedApproval == Spec => []AllocatedOnApproval
<1>1. ApprovalInv => AllocatedOnApproval
  BY DEF ApprovalInv, PaymentOK, Approved, AllocatedOnApproval
<1> QED
  BY <1>1, InitApproval, NextApproval, PTL DEF Spec

-----------------------------------------------------------------------------
(* The books *)

PayableOK(b) ==
    payable[b] # None =>
       /\ payable[b].paid + payable[b].outstanding = Total[b]
       /\ payable[b].paid = SumFunction([s \in SchedulesOf(b) |-> AllocatedTo(s)])

RowOK(s) ==
    schedule[s] # None =>
       /\ schedule[s].paid + schedule[s].outstanding = schedule[s].amount
       /\ schedule[s].paid = AllocatedTo(s)
       /\ s \in Schedules => payable[PayableOf[s]] # None /\ schedule[s].outstanding >= 0

AllocationOK(p) ==
    /\ allocation[p] \in [DOMAIN allocation[p] -> Int]
    /\ DOMAIN allocation[p] \subseteq Existing
    /\ p \in Receipts \ received => DOMAIN allocation[p] = {}
    /\ p \in Payments => SumFunction(allocation[p]) <= Amount[p]

\* The rows a transaction read are still as it read them.
Remembered(d, rows) ==
    /\ DOMAIN d.rows = rows
    /\ \A s \in rows : d.rows[s] = schedule[s] /\ schedule[s] # None

\* What a call between its reads and its writes may rely on.
ClaimOK(c) ==
    LET d == call[c] IN
    /\ d.at = "generating" =>
          /\ d.payable \in Payables /\ d.plan \in Plans[d.payable]
          /\ \A s \in DOMAIN d.plan : d.plan[s] > 0
    /\ d.at = "adding" =>
          /\ d.row \in Schedules /\ d.amount \in Int /\ d.amount > 0
          /\ payable[PayableOf[d.row]] # None
    /\ d.at = "updating" =>
          /\ d.row \in Schedules /\ schedule[d.row] # None
          /\ d.dependency \in {"WAITING", "COMPLETED"}
    /\ d.at = "allocating" =>
          /\ d.payment \in Payments /\ d.asked \in Allotments
          /\ Remembered(d, DOMAIN d.asked)
          /\ \A s \in DOMAIN d.asked : d.asked[s] <= schedule[s].outstanding
          /\ SumFunction(allocation[d.payment]) + SumFunction(d.asked) <= Amount[d.payment]
    /\ d.at \in {"paying", "receiving"} => d.key \in Receipts
    /\ d.at = "receiving" => Remembered(d, DOMAIN Received[d.key])

BooksTypes ==
    /\ payable \in [Payables -> PayableRecord \cup {None}]
    /\ schedule \in [Rows -> ScheduleRecord \cup {None}]

BooksInv ==
    /\ BooksTypes
    /\ \A b \in Payables : PayableOK(b)
    /\ \A s \in Rows : RowOK(s)
    /\ \A p \in Payments \cup Receipts : AllocationOK(p)
    /\ \A c \in Calls : ClaimOK(c)

LEMMA FootprintOf ==
    ASSUME NEW d
    PROVE  /\ d.at = "allocating" =>
                 /\ <<"allocations", d.payment>> \in Footprint(d)
                 /\ \A s \in DOMAIN d.asked : <<"row", s>> \in Footprint(d)
           /\ d.at = "receiving" =>
                 \A s \in DOMAIN Received[d.key] : <<"row", s>> \in Footprint(d)
<1>1. CASE d.at = "allocating"
  <2>1. Footprint(d) = {<<"row", s>> : s \in DOMAIN d.asked}
                          \cup {<<"payable", PayableOf[s]>> : s \in DOMAIN d.asked}
                          \cup {<<"allocations", d.payment>>}
    BY <1>1 DEF Footprint
  <2> QED
    BY <1>1, <2>1
<1>2. CASE d.at = "receiving"
  <2>1. Footprint(d) = {<<"row", s>> : s \in DOMAIN Received[d.key]}
    BY <1>2 DEF Footprint
  <2> QED
    BY <1>2, <2>1
<1> QED
  BY <1>1, <1>2

\* A step that takes back nothing call d relies on.
Keeps(d) ==
    /\ \A b \in Payables : payable[b] # None => payable'[b] # None
    /\ \A s \in Rows : /\ schedule[s] # None => schedule'[s] # None
                       /\ <<"row", s>> \in Footprint(call[d]) => schedule'[s] = schedule[s]
    /\ \A p \in Payments : <<"allocations", p>> \in Footprint(call[d]) =>
                              allocation'[p] = allocation[p]

LEMMA ClaimStays ==
    ASSUME NEW d \in Calls, ClaimOK(d), call'[d] = call[d], Keeps(d)
    PROVE  ClaimOK(d)'
<1>0. PICK e : e = call[d]
  OBVIOUS
<1>1. CASE e.at = "generating"
  BY <1>0, <1>1 DEF ClaimOK
<1>2. CASE e.at = "adding"
  <2>1. PayableOf[e.row] \in Payables
    BY <1>0, <1>2, PaymentsAssumption DEF ClaimOK
  <2> QED
    BY <1>0, <1>2, <2>1 DEF ClaimOK, Keeps
<1>3. CASE e.at = "updating"
  BY <1>0, <1>3 DEF ClaimOK, Keeps, Rows
<1>4. CASE e.at = "allocating"
  <2>1. /\ e.payment \in Payments /\ e.asked \in Allotments /\ DOMAIN e.asked \subseteq Rows
        /\ Remembered(e, DOMAIN e.asked)
        /\ \A s \in DOMAIN e.asked : e.asked[s] <= schedule[s].outstanding
        /\ SumFunction(allocation[e.payment]) + SumFunction(e.asked) <= Amount[e.payment]
    BY <1>0, <1>4, PaymentsAssumption DEF ClaimOK, Rows
  <2>2. /\ allocation'[e.payment] = allocation[e.payment]
        /\ \A s \in DOMAIN e.asked : schedule'[s] = schedule[s]
    BY <1>0, <1>4, <2>1, FootprintOf DEF Keeps
  <2>3. Remembered(e, DOMAIN e.asked)'
    BY <2>1, <2>2 DEF Remembered
  <2> QED
    BY <1>0, <1>4, <2>1, <2>2, <2>3 DEF ClaimOK
<1>5. CASE e.at = "receiving"
  <2>1. /\ e.key \in Receipts /\ DOMAIN Received[e.key] \subseteq Rows
        /\ Remembered(e, DOMAIN Received[e.key])
    BY <1>0, <1>5, PaymentsAssumption DEF ClaimOK, Rows
  <2>2. \A s \in DOMAIN Received[e.key] : schedule'[s] = schedule[s]
    BY <1>0, <1>5, <2>1, FootprintOf DEF Keeps
  <2>3. Remembered(e, DOMAIN Received[e.key])'
    BY <2>1, <2>2 DEF Remembered
  <2> QED
    BY <1>0, <1>5, <2>1, <2>3 DEF ClaimOK
<1>6. CASE e.at = "paying"
  BY <1>0, <1>6 DEF ClaimOK
<1>7. CASE e.at \notin {"generating", "adding", "updating", "allocating", "receiving", "paying"}
  BY <1>0, <1>7 DEF ClaimOK
<1> QED
  BY <1>1, <1>2, <1>3, <1>4, <1>5, <1>6, <1>7

LEMMA IdleClaims ==
    ASSUME NEW c \in Calls, call'[c] = Idle
    PROVE  ClaimOK(c)'
BY DEF ClaimOK, Idle

-----------------------------------------------------------------------------
(* What payments gave a schedule *)

Given(p, s) == IF s \in DOMAIN allocation[p] THEN allocation[p][s] ELSE 0

More(more, s) == IF s \in DOMAIN more THEN more[s] ELSE 0

Keys == Payments \cup Receipts

LEMMA GivenSummable ==
    ASSUME Shaped, \A p \in Keys : AllocationOK(p), NEW s
    PROVE  /\ DOMAIN allocation = Keys
           /\ AllocatedTo(s) = SumFunction([p \in Keys |-> Given(p, s)])
           /\ Summable([p \in Keys |-> Given(p, s)])
           /\ AllocatedTo(s) \in Int
<1>1. DOMAIN allocation = Keys
  BY DEF Shaped, Keys
<1>2. \A p \in Keys : Given(p, s) \in Int
  BY DEF AllocationOK, Given
<1>3. PICK f : f = [p \in Keys |-> Given(p, s)]
  OBVIOUS
<1>4. Summable(f)
  <2>1. IsFiniteSet(Keys)
    BY FiniteAssumption, FS_Union DEF Keys
  <2> QED
    BY <1>2, <1>3, <2>1 DEF Summable
<1>5. AllocatedTo(s) = SumFunction(f)
  BY <1>1, <1>3 DEF AllocatedTo, Given
<1> QED
  BY <1>1, <1>3, <1>4, <1>5, FunctionSumInt

\* Nothing is allocated to a row that is not there.
LEMMA NothingGiven ==
    ASSUME Shaped, \A p \in Keys : AllocationOK(p), NEW s, s \notin Existing
    PROVE  AllocatedTo(s) = 0
<1>1. \A p \in Keys : Given(p, s) = 0
  BY DEF AllocationOK, Given
<1>2. PICK f : f = [p \in Keys |-> Given(p, s)]
  OBVIOUS
<1>3. IsFiniteSet(DOMAIN f) /\ \A p \in DOMAIN f : f[p] = 0
  BY <1>1, <1>2, GivenSummable DEF Summable
<1>4. SumFunction(f) = 0
  BY <1>3, FunctionSumZero
<1> QED
  BY <1>2, <1>4, GivenSummable

\* An allocation adds what it says to the rows it names.
LEMMA GivenMore ==
    ASSUME Shaped, \A p \in Keys : AllocationOK(p), NEW k \in Keys,
           NEW more, more \in [DOMAIN more -> Int], DOMAIN more \cap DOMAIN allocation[k] = {},
           allocation' = [allocation EXCEPT ![k] = Joined(allocation[k], more)], NEW s
    PROVE  AllocatedTo(s)' = AllocatedTo(s) + More(more, s)
<1>1. /\ allocation'[k] = Joined(allocation[k], more)
      /\ \A p \in Keys : p # k => allocation'[p] = allocation[p]
      /\ DOMAIN allocation' = Keys /\ DOMAIN allocation = Keys
  BY GivenSummable
<1>2. PICK f : f = [p \in Keys |-> Given(p, s)]
  OBVIOUS
<1>3. PICK g : g = [p \in Keys |-> Given(p, s)']
  OBVIOUS
<1>4. Summable(f) /\ AllocatedTo(s) = SumFunction(f)
  BY <1>2, GivenSummable
<1>5. AllocatedTo(s)' = SumFunction(g)
  BY <1>1, <1>3 DEF AllocatedTo, Given
<1>6. Given(k, s) \in Int /\ More(more, s) \in Int
  BY DEF AllocationOK, Given, More
<1>7. Given(k, s)' = Given(k, s) + More(more, s)
  <2>1. DOMAIN Joined(allocation[k], more) = DOMAIN allocation[k] \cup DOMAIN more
    BY DEF Joined
  <2>2. CASE s \in DOMAIN allocation[k]
    <3>1. Given(k, s)' = Given(k, s) /\ More(more, s) = 0
      BY <1>1, <2>1, <2>2 DEF Given, More, Joined
    <3> QED
      BY <1>6, <3>1
  <2>3. CASE s \notin DOMAIN allocation[k] /\ s \in DOMAIN more
    <3>1. Given(k, s)' = More(more, s) /\ Given(k, s) = 0
      BY <1>1, <2>1, <2>3 DEF Given, More, Joined
    <3> QED
      BY <1>6, <3>1
  <2>4. CASE s \notin DOMAIN allocation[k] /\ s \notin DOMAIN more
    BY <1>1, <2>1, <2>4 DEF Given, More
  <2> QED
    BY <2>2, <2>3, <2>4
<1>8. /\ DOMAIN g = DOMAIN f /\ k \in DOMAIN f
      /\ g[k] = Given(k, s) + More(more, s) /\ f[k] = Given(k, s) /\ g[k] \in Int
      /\ \A p \in DOMAIN f : p # k => g[p] = f[p]
  BY <1>1, <1>2, <1>3, <1>6, <1>7 DEF Given
<1>9. SumFunction(g) = SumFunction(f) + (g[k] - f[k])
  BY ONLY <1>4, <1>8, FunctionSumChange
<1>10. g[k] - f[k] = More(more, s)
  BY ONLY <1>6, <1>8
<1> QED
  BY <1>4, <1>5, <1>9, <1>10

-----------------------------------------------------------------------------
(* What payments gave a payable *)

\* The schedules of one payable, summed.
LEMMA PayableSummable ==
    ASSUME Shaped, \A p \in Keys : AllocationOK(p), NEW b
    PROVE  /\ IsFiniteSet(SchedulesOf(b)) /\ SchedulesOf(b) \subseteq Rows
           /\ Summable([s \in SchedulesOf(b) |-> AllocatedTo(s)])
<1>1. IsFiniteSet(SchedulesOf(b)) /\ SchedulesOf(b) \subseteq Rows
  BY FiniteAssumption, FS_Subset DEF SchedulesOf, Rows
<1>2. \A s \in SchedulesOf(b) : AllocatedTo(s) \in Int
  BY GivenSummable
<1> QED
  BY <1>1, <1>2 DEF Summable

LEMMA ShareType ==
    ASSUME NEW more, more \in [DOMAIN more -> Int], NEW b
    PROVE  /\ Summable([s \in SchedulesOf(b) |-> More(more, s)])
           /\ Share(more, b) = SumFunction([s \in SchedulesOf(b) |-> More(more, s)])
           /\ Share(more, b) \in Int
<1>1. PICK f : f = [s \in DOMAIN more \cap SchedulesOf(b) |-> more[s]]
  OBVIOUS
<1>2. PICK h : h = [s \in SchedulesOf(b) |-> More(more, s)]
  OBVIOUS
<1>3. IsFiniteSet(SchedulesOf(b))
  BY FiniteAssumption, FS_Subset DEF SchedulesOf, Rows
<1>4. Summable(h)
  BY <1>2, <1>3 DEF Summable, More
<1>5. /\ DOMAIN f \subseteq DOMAIN h /\ \A s \in DOMAIN f : f[s] = h[s]
      /\ \A s \in DOMAIN h \ DOMAIN f : h[s] = 0
  BY <1>1, <1>2 DEF More
<1>6. SumFunction(f) = SumFunction(h)
  BY ONLY <1>4, <1>5, FunctionSumPad
<1> QED
  BY <1>1, <1>2, <1>4, <1>6, FunctionSumInt DEF Share

\* An allocation adds its share to every payable.
LEMMA PayableMore ==
    ASSUME Shaped, \A p \in Keys : AllocationOK(p), NEW k \in Keys,
           NEW more, more \in [DOMAIN more -> Int], DOMAIN more \cap DOMAIN allocation[k] = {},
           allocation' = [allocation EXCEPT ![k] = Joined(allocation[k], more)], NEW b
    PROVE  SumFunction([s \in SchedulesOf(b) |-> AllocatedTo(s)])'
              = SumFunction([s \in SchedulesOf(b) |-> AllocatedTo(s)]) + Share(more, b)
<1>1. PICK f : f = [s \in SchedulesOf(b) |-> AllocatedTo(s)]
  OBVIOUS
<1>2. PICK g : g = [s \in SchedulesOf(b) |-> More(more, s)]
  OBVIOUS
<1>3. PICK h : h = [s \in SchedulesOf(b) |-> AllocatedTo(s)']
  OBVIOUS
<1>4. Summable(f) /\ Summable(g)
  BY <1>1, <1>2, PayableSummable, ShareType
<1>5. \A s \in SchedulesOf(b) : AllocatedTo(s)' = AllocatedTo(s) + More(more, s)
  BY GivenMore
<1>6. /\ DOMAIN g = DOMAIN f /\ DOMAIN h = DOMAIN f
      /\ \A s \in DOMAIN f : h[s] = f[s] + g[s]
  BY <1>1, <1>2, <1>3, <1>5
<1>7. SumFunction(h) = SumFunction(f) + SumFunction(g)
  BY ONLY <1>4, <1>6, FunctionSumPlus
<1>8. SumFunction([s \in SchedulesOf(b) |-> AllocatedTo(s)])' = SumFunction(h)
  BY <1>3
<1> QED
  BY <1>1, <1>2, <1>7, <1>8, ShareType

LEMMA NothingGivenToPayable ==
    ASSUME Shaped, \A p \in Keys : AllocationOK(p), NEW b, SchedulesOf(b) \cap Existing = {}
    PROVE  SumFunction([s \in SchedulesOf(b) |-> AllocatedTo(s)]) = 0
<1>1. \A s \in SchedulesOf(b) : AllocatedTo(s) = 0
  BY NothingGiven
<1>2. PICK f : f = [s \in SchedulesOf(b) |-> AllocatedTo(s)]
  OBVIOUS
<1>3. IsFiniteSet(DOMAIN f) /\ \A s \in DOMAIN f : f[s] = 0
  BY <1>1, <1>2, PayableSummable
<1> QED
  BY <1>2, <1>3, FunctionSumZero

-----------------------------------------------------------------------------
(* The steps *)

LEMMA SameGiven ==
    ASSUME UNCHANGED allocation
    PROVE  /\ \A s : AllocatedTo(s)' = AllocatedTo(s)
           /\ \A b : SumFunction([s \in SchedulesOf(b) |-> AllocatedTo(s)])'
                        = SumFunction([s \in SchedulesOf(b) |-> AllocatedTo(s)])
<1>1. \A s : AllocatedTo(s)' = AllocatedTo(s)
  BY DEF AllocatedTo
<1> QED
  BY <1>1 DEF AllocatedTo

\* A step that writes nothing but calls, payments and approvals.
LEMMA BooksStay ==
    ASSUME BooksInv, UNCHANGED <<payable, schedule, allocation, received>>,
           \A c \in Calls : call'[c] # call[c] => ClaimOK(c)'
    PROVE  BooksInv'
<1>1. BooksTypes'
  BY DEF BooksInv, BooksTypes
<1>2. \A b \in Payables : PayableOK(b)'
  BY SameGiven DEF BooksInv, PayableOK
<1>3. \A s \in Rows : RowOK(s)'
  BY SameGiven DEF BooksInv, RowOK
<1>4. \A p \in Payments \cup Receipts : AllocationOK(p)'
  BY DEF BooksInv, AllocationOK, Existing
<1>5. ASSUME NEW c \in Calls, call'[c] = call[c]
      PROVE  ClaimOK(c)'
  BY <1>5, ClaimStays DEF BooksInv, Keeps
<1> QED
  BY <1>1, <1>2, <1>3, <1>4, <1>5 DEF BooksInv

\* A step that changes rows, but none of their amounts, and ends the open
\* transactions that are to write them.
LEMMA Relabelled ==
    ASSUME BooksInv, NEW R, UNCHANGED <<payable, allocation, received>>,
           schedule' = [s \in Rows |-> schedule'[s]],
           \A s \in Rows \ R : schedule'[s] = schedule[s],
           \A s \in R \cap Rows : /\ schedule[s] # None
                                  /\ schedule'[s] \in ScheduleRecord
                                  /\ schedule'[s].amount = schedule[s].amount
                                  /\ schedule'[s].paid = schedule[s].paid
                                  /\ schedule'[s].outstanding = schedule[s].outstanding,
           NEW also, Overtake(R, also)
    PROVE  BooksInv'
<1>1. \A s \in Rows : schedule'[s] # None <=> schedule[s] # None
  BY RecordAssumption
<1>2. BooksTypes'
  BY DEF BooksInv, BooksTypes
<1>3. \A b \in Payables : PayableOK(b)'
  BY SameGiven DEF BooksInv, PayableOK
<1>4. ASSUME NEW s \in Rows
      PROVE  RowOK(s)'
  <2>1. RowOK(s)
    BY DEF BooksInv
  <2>2. CASE s \in R
    BY <2>1, <2>2, <1>1, SameGiven DEF RowOK
  <2>3. CASE s \notin R
    BY <2>1, <2>3, SameGiven DEF RowOK
  <2> QED
    BY <2>2, <2>3
<1>5. \A p \in Payments \cup Receipts : AllocationOK(p)'
  <2>1. Existing' = Existing
    BY <1>1 DEF Existing
  <2> QED
    BY <2>1 DEF BooksInv, AllocationOK
<1>6. ASSUME NEW c \in Calls
      PROVE  ClaimOK(c)'
  <2>1. CASE call'[c] = Idle
    BY <2>1, IdleClaims
  <2>2. CASE call'[c] # Idle
    <3>1. call'[c] = call[c] /\ {<<"row", s>> : s \in R} \cap Footprint(call[c]) = {}
      BY <2>2 DEF Overtake
    <3>2. \A s \in Rows : <<"row", s>> \in Footprint(call[c]) => schedule'[s] = schedule[s]
      BY <3>1
    <3>3. Keeps(c)
      BY <1>1, <3>2 DEF Keeps
    <3> QED
      BY <3>1, <3>3, ClaimStays DEF BooksInv
  <2> QED
    BY <2>1, <2>2
<1> QED
  BY <1>2, <1>3, <1>4, <1>5, <1>6 DEF BooksInv

\* A step that adds rows, of which nothing is paid, and payables.
Adds(rows, payables) ==
    /\ UNCHANGED <<allocation, received>>
    /\ rows \subseteq Rows /\ rows \cap Existing = {}
    /\ payable' = [b \in Payables |-> IF b \in payables /\ payable[b] = None
                                      THEN NewPayable(b) ELSE payable[b]]
    /\ schedule' = [s \in Rows |-> schedule'[s]]
    /\ \A s \in Rows \ rows : schedule'[s] = schedule[s]
    /\ \A s \in rows :
          /\ schedule'[s] \in ScheduleRecord /\ schedule'[s].paid = 0
          /\ schedule'[s].outstanding = schedule'[s].amount
          /\ s \in Schedules => /\ payable'[PayableOf[s]] # None
                                /\ schedule'[s].outstanding >= 0
    /\ \A c \in Calls : call'[c] = call[c] \/ call'[c] = Idle

LEMMA RowsAdded ==
    ASSUME Shaped, BooksInv, NEW N, NEW B, Adds(N, B)
    PROVE  BooksInv'
<1>0. /\ UNCHANGED <<allocation, received>>
      /\ N \subseteq Rows /\ N \cap Existing = {}
      /\ payable' = [b \in Payables |-> IF b \in B /\ payable[b] = None
                                        THEN NewPayable(b) ELSE payable[b]]
      /\ schedule' = [s \in Rows |-> schedule'[s]]
      /\ \A s \in Rows \ N : schedule'[s] = schedule[s]
  BY DEF Adds
<1>n. \A s \in N : /\ schedule'[s] \in ScheduleRecord /\ schedule'[s].paid = 0
                   /\ schedule'[s].outstanding = schedule'[s].amount
                   /\ s \in Schedules => /\ payable'[PayableOf[s]] # None
                                         /\ schedule'[s].outstanding >= 0
  BY DEF Adds
<1>c. \A c \in Calls : call'[c] = call[c] \/ call'[c] = Idle
  BY DEF Adds
<1>1. /\ \A s \in Rows : schedule[s] # None => s \notin N /\ schedule'[s] = schedule[s]
      /\ Existing \subseteq Existing'
  <2>1. \A s \in Rows : schedule[s] # None => s \notin N /\ schedule'[s] = schedule[s]
    BY <1>0 DEF Existing
  <2> QED
    BY <2>1 DEF Existing
<1>2. \A b \in Payables : NewPayable(b) \in PayableRecord /\ NewPayable(b).paid = 0
                          /\ NewPayable(b).outstanding = Total[b] /\ Total[b] \in Int
  BY PaymentsAssumption DEF NewPayable, PayableRecord
<1>3. BooksTypes'
  <2>1. \A s \in Rows : schedule'[s] \in ScheduleRecord \cup {None}
    BY <1>0, <1>n DEF BooksInv, BooksTypes
  <2>2. \A b \in Payables : payable'[b] \in PayableRecord \cup {None}
    BY <1>0, <1>2 DEF BooksInv, BooksTypes
  <2> QED
    BY <1>0, <2>1, <2>2 DEF BooksInv, BooksTypes
<1>4. \A b \in Payables : /\ payable[b] # None => payable'[b] = payable[b]
                          /\ \/ payable'[b] = payable[b]
                             \/ payable[b] = None /\ payable'[b] = NewPayable(b)
  BY <1>0
<1>5. \A p \in Keys : AllocationOK(p)
  BY DEF BooksInv, Keys
<1>6. ASSUME NEW b \in Payables
      PROVE  PayableOK(b)'
  <2>1. PayableOK(b)
    BY DEF BooksInv
  <2>2. CASE payable'[b] = payable[b]
    BY <1>0, <2>1, <2>2, SameGiven DEF PayableOK
  <2>3. CASE payable[b] = None /\ payable'[b] = NewPayable(b)
    <3>1. \A s \in SchedulesOf(b) : s \in Rows /\ s \in Schedules /\ PayableOf[s] = b
      BY DEF SchedulesOf, Rows
    <3>2. \A s \in SchedulesOf(b) : schedule[s] = None
      BY <2>3, <3>1 DEF BooksInv, RowOK
    <3>3. SchedulesOf(b) \cap Existing = {}
      BY <3>2 DEF Existing
    <3>4. SumFunction([s \in SchedulesOf(b) |-> AllocatedTo(s)])' = 0
      BY <1>0, <1>5, <3>3, NothingGivenToPayable, SameGiven
    <3> QED
      BY <1>2, <2>3, <3>4 DEF PayableOK
  <2> QED
    BY <1>4, <2>2, <2>3
<1>7. ASSUME NEW s \in Rows
      PROVE  RowOK(s)'
  <2>1. CASE s \in N
    <3>1. AllocatedTo(s)' = 0
      BY <1>0, <1>5, <2>1, NothingGiven, SameGiven
    <3>2. schedule'[s].outstanding \in Int /\ schedule'[s].amount \in Int
      BY <1>n, <2>1 DEF ScheduleRecord
    <3> QED
      BY <1>n, <2>1, <3>1, <3>2 DEF RowOK
  <2>2. CASE s \notin N
    <3>1. RowOK(s) /\ schedule'[s] = schedule[s]
      BY <1>0, <2>2 DEF BooksInv
    <3>2. s \in Schedules => PayableOf[s] \in Payables
      BY PaymentsAssumption
    <3> QED
      BY <1>0, <1>4, <3>1, <3>2, SameGiven DEF RowOK
  <2> QED
    BY <2>1, <2>2
<1>8. \A p \in Payments \cup Receipts : AllocationOK(p)'
  BY <1>0, <1>1 DEF BooksInv, AllocationOK
<1>9. ASSUME NEW c \in Calls
      PROVE  ClaimOK(c)'
  <2>1. CASE call'[c] = Idle
    BY <2>1, IdleClaims
  <2>2. CASE call'[c] = call[c]
    <3>1. CASE call[c].at \in {"allocating", "receiving"}
      <4>1. \A s \in Rows : schedule[s] # None => schedule'[s] = schedule[s]
        BY <1>1
      <4>2. call[c].at = "allocating" =>
               \A s \in DOMAIN call[c].asked : schedule'[s] = schedule[s]
        <5>1. call[c].at = "allocating" =>
                 /\ DOMAIN call[c].asked \subseteq Rows
                 /\ \A s \in DOMAIN call[c].asked : schedule[s] # None
          BY PaymentsAssumption DEF BooksInv, ClaimOK, Remembered, Rows
        <5> QED
          BY <4>1, <5>1
      <4>3. call[c].at = "receiving" =>
               \A s \in DOMAIN Received[call[c].key] : schedule'[s] = schedule[s]
        <5>1. call[c].at = "receiving" =>
                 /\ DOMAIN Received[call[c].key] \subseteq Rows
                 /\ \A s \in DOMAIN Received[call[c].key] : schedule[s] # None
          BY PaymentsAssumption DEF BooksInv, ClaimOK, Remembered, Rows
        <5> QED
          BY <4>1, <5>1
      <4>4. ClaimOK(c)
        BY DEF BooksInv
      <4> QED
        BY <1>0, <2>2, <3>1, <4>2, <4>3, <4>4 DEF ClaimOK, Remembered
    <3>2. CASE call[c].at \notin {"allocating", "receiving"}
      <4>1. ClaimOK(c)
        BY DEF BooksInv
      <4>2. call[c].at = "adding" => PayableOf[call[c].row] \in Payables
        BY <4>1, PaymentsAssumption DEF ClaimOK
      <4>3. call[c].at = "updating" => call[c].row \in Rows
        BY <4>1 DEF ClaimOK, Rows
      <4> QED
        BY <1>0, <1>1, <1>4, <2>2, <3>2, <4>1, <4>2, <4>3 DEF ClaimOK
    <3> QED
      BY <3>1, <3>2
  <2> QED
    BY <1>c, <2>1, <2>2
<1> QED
  BY <1>3, <1>6, <1>7, <1>8, <1>9 DEF BooksInv

LEMMA SettledType ==
    ASSUME NEW row \in ScheduleRecord, NEW n \in Int
    PROVE  /\ Settled(row, n) \in ScheduleRecord
           /\ Settled(row, n).amount = row.amount
           /\ Settled(row, n).paid = row.paid + n
           /\ Settled(row, n).outstanding = row.outstanding - n
<1>1. row.amount \in Int /\ row.paid \in Int /\ row.outstanding \in Int
  BY DEF ScheduleRecord
<1>2. PICK i \in Int : i = row.paid + n
  BY <1>1
<1>3. PICK j \in Int : j = row.outstanding - n
  BY <1>1
<1>4. PICK status \in {"PAID", "PARTIALLY_PAID"} :
         status = IF row.outstanding = n THEN "PAID" ELSE "PARTIALLY_PAID"
  OBVIOUS
<1>5. Settled(row, n) = [row EXCEPT !.paid = i, !.outstanding = j, !.status = status]
  BY <1>2, <1>3, <1>4 DEF Settled
<1>6. PICK x : x = [row EXCEPT !.paid = i, !.outstanding = j, !.status = status]
  OBVIOUS
<1>7. x \in ScheduleRecord /\ x.amount = row.amount /\ x.paid = i /\ x.outstanding = j
  BY <1>6 DEF ScheduleRecord
<1> QED
  BY <1>2, <1>3, <1>5, <1>6, <1>7

\* A commit that allocates: more of k, to rows that are there and, if they
\* are a payable's, owe as much.
Settles(c, k, more) ==
    /\ k \in Keys /\ more \in [DOMAIN more -> Int] /\ DOMAIN more \subseteq Existing
    /\ DOMAIN more \cap DOMAIN allocation[k] = {}
    /\ allocation' = [allocation EXCEPT ![k] = Joined(allocation[k], more)]
    /\ schedule' = [s \in Rows |-> IF s \in DOMAIN more
                                   THEN Settled(schedule[s], more[s]) ELSE schedule[s]]
    /\ payable' = [b \in Payables |-> IF payable[b] = None THEN None
          ELSE [paid |-> payable[b].paid + Share(more, b),
                outstanding |-> payable[b].outstanding - Share(more, b)]]
    /\ \A s \in DOMAIN more \cap Schedules : more[s] <= schedule[s].outstanding
    /\ k \in Payments => SumFunction(allocation[k]) + SumFunction(more) <= Amount[k]
    /\ received \subseteq received' /\ (k \in Receipts => k \in received')
    /\ FinishAlone(c) /\ call' = [d \in Calls |-> call'[d]]
    /\ \A s \in DOMAIN more : <<"row", s>> \in Footprint(call[c])
    /\ k \in Payments => <<"allocations", k>> \in Footprint(call[c])

LEMMA Settling ==
    ASSUME Shaped, BooksInv, NEW c \in Calls, NEW k, NEW more, Settles(c, k, more)
    PROVE  BooksInv'
<1> USE DEF Settles
<1>0. /\ \A p \in Keys : AllocationOK(p)
      /\ DOMAIN more \subseteq Rows
      /\ \A s \in DOMAIN more : schedule[s] \in ScheduleRecord /\ more[s] \in Int
  BY DEF BooksInv, Keys, Existing, BooksTypes
<1>1. \A s \in Rows : schedule'[s] =
         IF s \in DOMAIN more THEN Settled(schedule[s], more[s]) ELSE schedule[s]
  OBVIOUS
<1>2. /\ \A s \in Rows : schedule'[s] # None <=> schedule[s] # None
      /\ Existing' = Existing
  <2>1. \A s \in Rows : schedule'[s] # None <=> schedule[s] # None
    BY <1>0, <1>1, SettledType, RecordAssumption
  <2> QED
    BY <2>1 DEF Existing
<1>3. \A b \in Payables :
         payable[b] # None => /\ payable[b] \in PayableRecord
                              /\ payable[b].paid \in Int /\ payable[b].outstanding \in Int
  BY DEF BooksInv, BooksTypes, PayableRecord
<1>4. \A b \in Payables : Share(more, b) \in Int
  BY ShareType
<1>5. ASSUME NEW b \in Payables
      PROVE  /\ payable[b] = None => payable'[b] = None
             /\ payable[b] # None =>
                   /\ payable'[b] \in PayableRecord /\ payable'[b] # None
                   /\ payable'[b].paid = payable[b].paid + Share(more, b)
                   /\ payable'[b].outstanding = payable[b].outstanding - Share(more, b)
  <2>1. CASE payable[b] = None
    BY <2>1
  <2>2. CASE payable[b] # None
    <3>0. PICK m : m = payable[b].paid + Share(more, b)
      OBVIOUS
    <3>1. PICK n : n = payable[b].outstanding - Share(more, b)
      OBVIOUS
    <3>2. payable'[b] = [paid |-> m, outstanding |-> n]
      BY <2>2, <3>0, <3>1
    <3>3. payable'[b] \in PayableRecord /\ payable'[b].paid = m /\ payable'[b].outstanding = n
      <4>1. /\ payable[b].paid \in Int /\ payable[b].outstanding \in Int
            /\ Share(more, b) \in Int
        BY <1>3, <1>4, <2>2
      <4>2. m \in Int /\ n \in Int
        BY ONLY <3>0, <3>1, <4>1
      <4> QED
        BY <3>2, <4>2 DEF PayableRecord
    <3> QED
      BY <2>2, <3>0, <3>1, <3>3, RecordAssumption
  <2> QED
    BY <2>1, <2>2
<1>6. BooksTypes'
  <2>1. \A s \in Rows : schedule'[s] \in ScheduleRecord \cup {None}
    BY <1>0, <1>1, SettledType DEF BooksInv, BooksTypes
  <2>2. \A b \in Payables : payable'[b] \in PayableRecord \cup {None}
    BY <1>5
  <2> QED
    BY <2>1, <2>2 DEF BooksTypes
<1>7. ASSUME NEW b \in Payables
      PROVE  PayableOK(b)'
  <2>1. CASE payable[b] = None
    BY <1>5, <2>1 DEF PayableOK
  <2>2. CASE payable[b] # None
    <3>1. PICK x : x = SumFunction([s \in SchedulesOf(b) |-> AllocatedTo(s)])
      OBVIOUS
    <3>2. PICK y : y = SumFunction([s \in SchedulesOf(b) |-> AllocatedTo(s)])'
      OBVIOUS
    <3>3. y = x + Share(more, b)
      BY <1>0, <3>1, <3>2, PayableMore
    <3>4. payable[b].paid = x /\ payable[b].paid + payable[b].outstanding = Total[b]
      BY <2>2, <3>1 DEF BooksInv, PayableOK
    <3>5. /\ payable'[b].paid = payable[b].paid + Share(more, b)
          /\ payable'[b].outstanding = payable[b].outstanding - Share(more, b)
      BY <1>5, <2>2
    <3>6. payable'[b].paid = y
      BY <3>3, <3>4, <3>5
    <3>7. payable'[b].paid + payable'[b].outstanding = Total[b]
      <4>1. \A i, j, n \in Int : (i + n) + (j - n) = i + j
        OBVIOUS
      <4>2. /\ payable[b].paid \in Int /\ payable[b].outstanding \in Int
            /\ Share(more, b) \in Int
        BY <1>3, <1>4, <2>2
      <4> QED
        BY ONLY <3>4, <3>5, <4>1, <4>2
    <3> QED
      BY <3>2, <3>6, <3>7 DEF PayableOK
  <2> QED
    BY <2>1, <2>2
<1>8. ASSUME NEW s \in Rows
      PROVE  RowOK(s)'
  <2>1. AllocatedTo(s)' = AllocatedTo(s) + More(more, s) /\ AllocatedTo(s) \in Int
    BY <1>0, GivenMore, GivenSummable
  <2>2. s \in Schedules => PayableOf[s] \in Payables
    BY PaymentsAssumption
  <2>3. RowOK(s)
    BY DEF BooksInv
  <2>4. CASE s \in DOMAIN more
    <3>1. PICK n \in Int : n = more[s]
      BY <1>0, <2>4
    <3>2. PICK row \in ScheduleRecord : row = schedule[s]
      BY <1>0, <2>4
    <3>3. row.amount \in Int /\ row.paid \in Int /\ row.outstanding \in Int /\ row # None
      BY RecordAssumption DEF ScheduleRecord
    <3>4. /\ schedule'[s].amount = row.amount /\ schedule'[s].paid = row.paid + n
          /\ schedule'[s].outstanding = row.outstanding - n
      BY <1>1, <2>4, <3>1, <3>2, SettledType
    <3>5. /\ row.paid + row.outstanding = row.amount /\ row.paid = AllocatedTo(s)
          /\ s \in Schedules => payable[PayableOf[s]] # None
      BY <2>3, <3>2, <3>3 DEF RowOK
    <3>6. AllocatedTo(s)' = AllocatedTo(s) + n
      BY <2>1, <2>4, <3>1 DEF More
    <3>7. /\ schedule'[s].paid + schedule'[s].outstanding = schedule'[s].amount
          /\ schedule'[s].paid = AllocatedTo(s)'
      BY ONLY <3>3, <3>4, <3>5, <3>6
    <3>8. s \in Schedules => schedule'[s].outstanding >= 0
      <4>1. s \in Schedules => n <= row.outstanding
        BY <2>4, <3>1, <3>2
      <4> QED
        BY ONLY <3>3, <3>4, <4>1
    <3>9. s \in Schedules => payable'[PayableOf[s]] # None
      BY <1>5, <2>2, <3>5
    <3> QED
      BY <3>7, <3>8, <3>9 DEF RowOK
  <2>5. CASE s \notin DOMAIN more
    <3>1. schedule'[s] = schedule[s] /\ AllocatedTo(s)' = AllocatedTo(s)
      BY <1>1, <2>1, <2>5 DEF More
    <3> QED
      BY <1>5, <2>2, <2>3, <3>1 DEF RowOK
  <2> QED
    BY <2>4, <2>5
<1>9. ASSUME NEW p \in Keys
      PROVE  AllocationOK(p)'
  <2>1. CASE p # k
    <3>1. allocation'[p] = allocation[p]
      BY <2>1 DEF Shaped
    <3> QED
      BY <1>0, <1>2, <3>1 DEF AllocationOK
  <2>2. CASE p = k
    <3>1. PICK f : f = allocation[k]
      OBVIOUS
    <3>2. PICK h : h = allocation'[k]
      OBVIOUS
    <3>3. h = Joined(f, more)
      BY <3>1, <3>2 DEF Shaped, Keys
    <3>4. /\ f \in [DOMAIN f -> Int] /\ DOMAIN f \subseteq Existing
          /\ DOMAIN f \cap DOMAIN more = {}
      BY <1>0, <3>1 DEF AllocationOK
    <3>5. /\ DOMAIN h = DOMAIN f \cup DOMAIN more
          /\ \A x \in DOMAIN f : h[x] = f[x]
          /\ \A x \in DOMAIN more : h[x] = more[x]
          /\ h \in [DOMAIN h -> Int]
      BY <3>3, <3>4 DEF Joined
    <3>6. Summable(f) /\ Summable(more)
      <4>1. IsFiniteSet(DOMAIN f) /\ IsFiniteSet(DOMAIN more)
        BY <3>4, FiniteAssumption, FS_Subset DEF Existing
      <4> QED
        BY <3>4, <4>1 DEF Summable
    <3>7. SumFunction(h) = SumFunction(f) + SumFunction(more)
      BY ONLY <3>4, <3>5, <3>6, FunctionSumUnion
    <3>8. k \in Payments => SumFunction(h) <= Amount[k]
      BY <3>1, <3>7
    <3>9. k \notin Receipts \ received'
      OBVIOUS
    <3> QED
      BY <1>2, <2>2, <3>2, <3>4, <3>5, <3>8, <3>9 DEF AllocationOK
  <2> QED
    BY <2>1, <2>2
<1>10. ASSUME NEW d \in Calls
       PROVE  ClaimOK(d)'
  <2>1. CASE call'[d] = Idle
    BY <2>1, IdleClaims
  <2>2. CASE call'[d] # Idle
    <3>1. call'[d] = call[d] /\ Footprint(call[d]) \cap Footprint(call[c]) = {}
      BY <2>2 DEF FinishAlone
    <3>2. \A s \in Rows : <<"row", s>> \in Footprint(call[d]) => schedule'[s] = schedule[s]
      BY <1>1, <3>1
    <3>3. \A p \in Payments : <<"allocations", p>> \in Footprint(call[d]) =>
                                 allocation'[p] = allocation[p]
      BY <3>1 DEF Shaped
    <3>4. Keeps(d)
      BY <1>2, <1>5, <3>2, <3>3 DEF Keeps
    <3> QED
      BY <3>1, <3>4, ClaimStays DEF BooksInv
  <2> QED
    BY <2>1, <2>2
<1> QED
  BY <1>6, <1>7, <1>8, <1>9, <1>10 DEF BooksInv, Keys

-----------------------------------------------------------------------------
(* The commands *)

LEMMA NewScheduleType ==
    ASSUME NEW n \in Int, NEW w \in {"WAITING", "COMPLETED"}
    PROVE  /\ NewSchedule(n, w) \in ScheduleRecord
           /\ NewSchedule(n, w).amount = n /\ NewSchedule(n, w).paid = 0
           /\ NewSchedule(n, w).outstanding = n
BY DEF NewSchedule, ScheduleRecord

\* The first step of a command, which only reads.
LEMMA StartKeepsBooks ==
    ASSUME ApprovalInv, BooksInv, NEW c \in Calls, NEW step, Start(c, step), UNCHANGED books,
           call'[c] = step => ClaimOK(c)'
    PROVE  BooksInv'
<1>1. UNCHANGED <<payable, schedule, allocation, received>>
  BY DEF books
<1> QED
  BY <1>1, StartsOne, BooksStay

LEMMA ReadsKeepBooks ==
    ASSUME ApprovalInv, BooksInv, NEW c \in Calls
    PROVE  /\ \A b \in Payables : \A plan \in Plans[b] : Generate(c, b, plan) => BooksInv'
           /\ \A s \in Schedules, amount \in Amounts : AddSchedule(c, s, amount) => BooksInv'
           /\ \A s \in Schedules, w \in {"WAITING", "COMPLETED"} :
                 UpdateSchedule(c, s, w) => BooksInv'
           /\ \A u \in Users, p \in Payments, next \in PaymentStatuses :
                 Transition(c, u, p, next) => BooksInv'
           /\ \A p \in Payments, asked \in Allotments : Allocate(c, p, asked) => BooksInv'
           /\ \A k \in Receipts : LookForKey(c, k) => BooksInv'
           /\ Receive(c) => BooksInv'
<1>1. ASSUME NEW b \in Payables, NEW plan \in Plans[b], Generate(c, b, plan)
      PROVE  BooksInv'
  <2>1. PICK step : step = [at |-> "generating", payable |-> b, plan |-> plan,
                            fresh |-> payable[b] = None]
    OBVIOUS
  <2>2. step.at = "generating" /\ step.payable = b /\ step.plan = plan
    BY <2>1
  <2>3. Start(c, step) /\ UNCHANGED books /\ \A s \in DOMAIN plan : plan[s] > 0
    BY <1>1, <2>1 DEF Generate
  <2>4. call'[c] = step => ClaimOK(c)'
    BY <2>2, <2>3 DEF ClaimOK
  <2> QED
    BY <2>3, <2>4, StartKeepsBooks
<1>2. ASSUME NEW s \in Schedules, NEW amount \in Amounts, AddSchedule(c, s, amount)
      PROVE  BooksInv'
  <2>1. PICK step : step = [at |-> "adding", row |-> s, amount |-> amount]
    OBVIOUS
  <2>2. step.at = "adding" /\ step.row = s /\ step.amount = amount
    BY <2>1
  <2>3. /\ Start(c, step) /\ UNCHANGED books
        /\ payable[PayableOf[s]] # None /\ amount > 0 /\ amount \in Int
    BY <1>2, <2>1, PaymentsAssumption DEF AddSchedule
  <2>4. payable' = payable
    BY <2>3 DEF books
  <2>5. call'[c] = step => ClaimOK(c)'
    BY <2>2, <2>3, <2>4 DEF ClaimOK
  <2> QED
    BY <2>3, <2>5, StartKeepsBooks
<1>3. ASSUME NEW s \in Schedules, NEW w \in {"WAITING", "COMPLETED"}, UpdateSchedule(c, s, w)
      PROVE  BooksInv'
  <2>1. PICK step : step = [at |-> "updating", row |-> s, dependency |-> w]
    OBVIOUS
  <2>2. step.at = "updating" /\ step.row = s /\ step.dependency = w
    BY <2>1
  <2>3. Start(c, step) /\ UNCHANGED books /\ schedule[s] # None
    BY <1>3, <2>1 DEF UpdateSchedule
  <2>4. schedule' = schedule
    BY <2>3 DEF books
  <2>5. call'[c] = step => ClaimOK(c)'
    BY <2>2, <2>3, <2>4 DEF ClaimOK
  <2> QED
    BY <2>3, <2>5, StartKeepsBooks
<1>4. ASSUME NEW u \in Users, NEW p \in Payments, NEW next \in PaymentStatuses,
             Transition(c, u, p, next)
      PROVE  BooksInv'
  <2>1. PICK step : step = [at |-> "moving", payment |-> p, next |-> next, by |-> u]
    OBVIOUS
  <2>2. step.at = "moving"
    BY <2>1
  <2>3. Start(c, step) /\ UNCHANGED books
    BY <1>4, <2>1 DEF Transition
  <2>4. call'[c] = step => ClaimOK(c)'
    BY <2>2 DEF ClaimOK
  <2> QED
    BY <2>3, <2>4, StartKeepsBooks
<1>5. ASSUME NEW p \in Payments, NEW asked \in Allotments, Allocate(c, p, asked)
      PROVE  BooksInv'
  <2>1. PICK step : step = [at |-> "allocating", payment |-> p, asked |-> asked,
                            rows |-> [s \in DOMAIN asked |-> schedule[s]]]
    OBVIOUS
  <2>2. /\ step.at = "allocating" /\ step.payment = p /\ step.asked = asked
        /\ DOMAIN step.rows = DOMAIN asked
        /\ \A s \in DOMAIN asked : step.rows[s] = schedule[s]
    BY <2>1
  <2>3. /\ Start(c, step) /\ UNCHANGED books
        /\ SumFunction(allocation[p]) + SumFunction(asked) <= Amount[p]
        /\ \A s \in DOMAIN asked : schedule[s] # None /\ asked[s] <= schedule[s].outstanding
    BY <1>5, <2>1 DEF Allocate, Payable
  <2>4. schedule' = schedule /\ allocation' = allocation
    BY <2>3 DEF books
  <2>5. Remembered(step, DOMAIN asked)'
    BY <2>2, <2>3, <2>4 DEF Remembered
  <2>6. call'[c] = step => ClaimOK(c)'
    BY <2>2, <2>3, <2>4, <2>5 DEF ClaimOK
  <2> QED
    BY <2>3, <2>6, StartKeepsBooks
<1>6. ASSUME NEW k \in Receipts, LookForKey(c, k)
      PROVE  BooksInv'
  <2>1. PICK step : step = [at |-> "paying", key |-> k]
    OBVIOUS
  <2>2. step.at = "paying" /\ step.key = k
    BY <2>1
  <2>3. Start(c, step) /\ UNCHANGED books
    BY <1>6, <2>1 DEF LookForKey
  <2>4. call'[c] = step => ClaimOK(c)'
    BY <2>2 DEF ClaimOK
  <2> QED
    BY <2>3, <2>4, StartKeepsBooks
<1>7. ASSUME Receive(c)
      PROVE  BooksInv'
  <2>1. PICK k \in Receipts : k = call[c].key
    BY <1>7 DEF Receive, BooksInv, ClaimOK
  <2>2. PICK step : step = [at |-> "receiving", key |-> k,
                            rows |-> [s \in DOMAIN Received[k] |-> schedule[s]]]
    OBVIOUS
  <2>3. /\ step.at = "receiving" /\ step.key = k /\ DOMAIN step.rows = DOMAIN Received[k]
        /\ \A s \in DOMAIN Received[k] : step.rows[s] = schedule[s]
    BY <2>2
  <2>4. /\ call' = [call EXCEPT ![c] = step]
        /\ UNCHANGED <<payable, schedule, allocation, received>>
        /\ \A s \in DOMAIN Received[k] : schedule[s] # None
    BY <1>7, <2>1, <2>2 DEF Receive, books
  <2>5. call'[c] = step /\ \A d \in Calls : d # c => call'[d] = call[d]
    BY <2>4 DEF ApprovalInv, Shaped
  <2>6. Remembered(step, DOMAIN Received[k])'
    BY <2>3, <2>4 DEF Remembered
  <2>7. ClaimOK(c)'
    BY <2>3, <2>5, <2>6 DEF ClaimOK
  <2> QED
    BY <2>4, <2>5, <2>7, BooksStay
<1> QED
  BY <1>1, <1>2, <1>3, <1>4, <1>5, <1>6, <1>7

LEMMA StatusesKeepBooks ==
    ASSUME ApprovalInv, BooksInv, NEW c \in Calls,
           \/ \E u \in Users, p \in Payments : CreatePayment(c, u, p)
           \/ WriteStatus(c) \/ Fails(c)
    PROVE  BooksInv'
<1>1. UNCHANGED <<payable, schedule, allocation, received>>
  BY DEF CreatePayment, WriteStatus, Fails, books
<1>2. \A d \in Calls : call'[d] = call[d] \/ call'[d] = Idle
  BY DEF CreatePayment, WriteStatus, Fails, Finish, ApprovalInv, Shaped
<1> QED
  BY <1>1, <1>2, IdleClaims, BooksStay

LEMMA RelabelsKeepBooks ==
    ASSUME ApprovalInv, BooksInv, ProductionReady \/ \E c \in Calls : WriteSchedule(c)
    PROVE  BooksInv'
<1>0. schedule \in [Rows -> ScheduleRecord \cup {None}]
  BY DEF BooksInv, BooksTypes
<1>1. CASE ProductionReady
  <2>1. PICK R : R = Dependent \cap Existing
    OBVIOUS
  <2>2. /\ UNCHANGED <<payable, allocation, received>> /\ Overtake(R, {})
        /\ schedule' = [s \in Rows |->
              IF s \in R THEN [schedule[s] EXCEPT !.dependency = "COMPLETED", !.status = "DUE"]
              ELSE schedule[s]]
    BY <1>1, <2>1 DEF ProductionReady
  <2>3. ASSUME NEW s \in R \cap Rows
        PROVE  /\ schedule[s] # None
               /\ schedule'[s] \in ScheduleRecord
               /\ schedule'[s].amount = schedule[s].amount
               /\ schedule'[s].paid = schedule[s].paid
               /\ schedule'[s].outstanding = schedule[s].outstanding
    <3>1. schedule[s] # None /\ schedule[s] \in ScheduleRecord
      BY <1>0, <2>1 DEF Existing
    <3>2. schedule'[s] = [schedule[s] EXCEPT !.dependency = "COMPLETED", !.status = "DUE"]
      BY <2>2
    <3> QED
      BY <3>1, <3>2 DEF ScheduleRecord
  <2>4. \A s \in Rows \ R : schedule'[s] = schedule[s]
    BY <2>2
  <2>5. schedule' = [s \in Rows |-> schedule'[s]]
    BY <2>2
  <2> QED
    BY <2>2, <2>3, <2>4, <2>5, Relabelled
<1>2. ASSUME NEW c \in Calls, WriteSchedule(c)
      PROVE  BooksInv'
  <2>1. PICK r, w : r = call[c].row /\ w = call[c].dependency
    OBVIOUS
  <2>2. r \in Rows /\ schedule[r] # None /\ w \in {"WAITING", "COMPLETED"}
    BY <1>2, <2>1 DEF WriteSchedule, BooksInv, ClaimOK, Rows
  <2>3. /\ UNCHANGED <<payable, allocation, received>> /\ Overtake({r}, {c})
        /\ schedule' = [schedule EXCEPT ![r].dependency = w]
    BY <1>2, <2>1 DEF WriteSchedule
  <2>4. PICK new : new = [schedule[r] EXCEPT !.dependency = w]
    OBVIOUS
  <2>5. schedule[r] \in ScheduleRecord
    BY <1>0, <2>2
  <2>6. /\ new \in ScheduleRecord /\ new.amount = schedule[r].amount
        /\ new.paid = schedule[r].paid /\ new.outstanding = schedule[r].outstanding
    BY <2>2, <2>4, <2>5 DEF ScheduleRecord
  <2>7. schedule' = [schedule EXCEPT ![r] = new]
    BY <2>3, <2>4
  <2>8. /\ schedule'[r] = new
        /\ \A s \in Rows \ {r} : schedule'[s] = schedule[s]
        /\ schedule' = [s \in Rows |-> schedule'[s]]
    BY <1>0, <2>2, <2>7
  <2>9. \A s \in {r} \cap Rows : /\ schedule[s] # None
                                 /\ schedule'[s] \in ScheduleRecord
                                 /\ schedule'[s].amount = schedule[s].amount
                                 /\ schedule'[s].paid = schedule[s].paid
                                 /\ schedule'[s].outstanding = schedule[s].outstanding
    BY <2>2, <2>6, <2>8
  <2> QED
    BY <2>3, <2>8, <2>9, Relabelled
<1> QED
  BY <1>1, <1>2

\* The first book entries: payables, and schedules of payables and contracts.
LEMMA AdditionsKeepBooks ==
    ASSUME ApprovalInv, BooksInv, NEW c \in Calls,
           \/ \E b \in Payables : CreatePayable(c, b)
           \/ CommitGenerate(c) \/ InsertSchedule(c)
           \/ \E plan \in ReceivablePlans : CreateReceivables(c, plan)
    PROVE  BooksInv'
<1>0. /\ schedule \in [Rows -> ScheduleRecord \cup {None}]
      /\ payable \in [Payables -> PayableRecord \cup {None}] /\ Shaped
  BY DEF BooksInv, BooksTypes, ApprovalInv
<1>1. ASSUME NEW b \in Payables, CreatePayable(c, b)
      PROVE  BooksInv'
  <2>1. /\ UNCHANGED <<schedule, allocation, received, call>>
        /\ payable' = [payable EXCEPT ![b] = IF payable[b] = None THEN NewPayable(b)
                                                                 ELSE payable[b]]
    BY <1>1 DEF CreatePayable
  <2>2. payable' = [a \in Payables |-> IF a \in {b} /\ payable[a] = None
                                       THEN NewPayable(a) ELSE payable[a]]
    BY <1>0, <2>1
  <2>3. schedule' = [s \in Rows |-> schedule'[s]] /\ \A s \in Rows \ {} : schedule'[s] = schedule[s]
    BY <1>0, <2>1
  <2>4. {} \in SUBSET Rows /\ {} \cap Existing = {}
    OBVIOUS
  <2> QED
    <3>1. Adds({}, {b})
      BY <2>1, <2>2, <2>3, <2>4 DEF Adds
    <3> QED
      BY <1>0, <3>1, RowsAdded
<1>2. CASE CommitGenerate(c)
  <2>1. PICK b, plan : /\ b = call[c].payable /\ plan = call[c].plan
                       /\ b \in Payables /\ plan \in Plans[b]
                       /\ \A s \in DOMAIN plan : plan[s] > 0
    BY <1>2 DEF CommitGenerate, BooksInv, ClaimOK
  <2>2. /\ UNCHANGED <<allocation, received>> /\ FinishAlone(c)
        /\ DOMAIN plan \cap Existing = {}
        /\ payable' = [payable EXCEPT ![b] = IF payable[b] = None THEN NewPayable(b)
                                                                 ELSE payable[b]]
        /\ schedule' = [s \in Rows |-> IF s \in DOMAIN plan
                                       THEN NewSchedule(plan[s], "COMPLETED") ELSE schedule[s]]
    BY <1>2, <2>1 DEF CommitGenerate
  <2>3. /\ DOMAIN plan \subseteq Rows
        /\ \A s \in DOMAIN plan : plan[s] \in Int /\ PayableOf[s] = b
    BY <2>1, PaymentsAssumption DEF Rows
  <2>4. payable' = [a \in Payables |-> IF a \in {b} /\ payable[a] = None
                                       THEN NewPayable(a) ELSE payable[a]]
    BY <1>0, <2>2
  <2>5. payable'[b] # None
    <3>1. NewPayable(b) \in PayableRecord
      BY <2>1, PaymentsAssumption DEF NewPayable, PayableRecord
    <3> QED
      BY <1>0, <2>1, <2>2, <3>1, RecordAssumption
  <2>6. /\ schedule' = [s \in Rows |-> schedule'[s]]
        /\ \A s \in Rows \ DOMAIN plan : schedule'[s] = schedule[s]
        /\ \A s \in DOMAIN plan : schedule'[s] = NewSchedule(plan[s], "COMPLETED")
    BY <2>2, <2>3
  <2>7. ASSUME NEW s \in DOMAIN plan
        PROVE  /\ schedule'[s] \in ScheduleRecord /\ schedule'[s].paid = 0
               /\ schedule'[s].outstanding = schedule'[s].amount
               /\ s \in Schedules => /\ payable'[PayableOf[s]] # None
                                     /\ schedule'[s].outstanding >= 0
    <3>1. PICK n \in Int : n = plan[s] /\ n > 0
      BY <2>1, <2>3
    <3>2. schedule'[s] = NewSchedule(n, "COMPLETED") /\ payable'[PayableOf[s]] # None
      BY <2>3, <2>5, <2>6, <3>1
    <3> QED
      BY <3>1, <3>2, NewScheduleType
  <2>8. \A d \in Calls : call'[d] = call[d] \/ call'[d] = Idle
    BY <2>2 DEF FinishAlone
  <2> QED
    <3>1. Adds(DOMAIN plan, {b})
      BY <2>2, <2>3, <2>4, <2>6, <2>7, <2>8 DEF Adds
    <3> QED
      BY <1>0, <3>1, RowsAdded
<1>3. CASE InsertSchedule(c)
  <2>1. PICK r \in Schedules, n \in Int : /\ r = call[c].row /\ n = call[c].amount /\ n > 0
                                          /\ payable[PayableOf[r]] # None
    BY <1>3 DEF InsertSchedule, BooksInv, ClaimOK
  <2>2. /\ UNCHANGED <<payable, allocation, received>> /\ Finish(c) /\ schedule[r] = None
        /\ schedule' = [schedule EXCEPT ![r] = NewSchedule(n, "WAITING")]
    BY <1>3, <2>1 DEF InsertSchedule
  <2>3. payable' = [a \in Payables |-> IF a \in {} /\ payable[a] = None
                                       THEN NewPayable(a) ELSE payable[a]]
    BY <1>0, <2>2
  <2>4. /\ {r} \in SUBSET Rows /\ {r} \cap Existing = {}
        /\ schedule' = [s \in Rows |-> schedule'[s]]
        /\ \A s \in Rows \ {r} : schedule'[s] = schedule[s]
        /\ schedule'[r] = NewSchedule(n, "WAITING")
    BY <1>0, <2>2 DEF Rows, Existing
  <2>5. /\ schedule'[r] \in ScheduleRecord /\ schedule'[r].paid = 0
        /\ schedule'[r].outstanding = schedule'[r].amount
        /\ payable'[PayableOf[r]] # None /\ schedule'[r].outstanding >= 0
    BY <2>1, <2>2, <2>4, NewScheduleType
  <2>6. \A d \in Calls : call'[d] = call[d] \/ call'[d] = Idle
    BY <1>0, <2>2 DEF Finish, Shaped
  <2>7. \A s \in {r} : /\ schedule'[s] \in ScheduleRecord /\ schedule'[s].paid = 0
                       /\ schedule'[s].outstanding = schedule'[s].amount
                       /\ s \in Schedules => /\ payable'[PayableOf[s]] # None
                                             /\ schedule'[s].outstanding >= 0
    BY <2>5
  <2>8. UNCHANGED <<allocation, received>>
    BY <2>2
  <2> QED
    <3>1. Adds({r}, {})
      BY <2>3, <2>4, <2>6, <2>7, <2>8 DEF Adds
    <3> QED
      BY <1>0, <3>1, RowsAdded
<1>4. ASSUME NEW plan \in ReceivablePlans, CreateReceivables(c, plan)
      PROVE  BooksInv'
  <2>1. /\ UNCHANGED <<payable, allocation, received, call>> /\ DOMAIN plan \cap Existing = {}
        /\ schedule' = [s \in Rows |-> IF s \in DOMAIN plan
                                       THEN NewSchedule(plan[s], "COMPLETED") ELSE schedule[s]]
    BY <1>4 DEF CreateReceivables
  <2>2. DOMAIN plan \subseteq Rows /\ \A s \in DOMAIN plan : plan[s] \in Int /\ s \notin Schedules
    BY PaymentsAssumption DEF Rows
  <2>3. payable' = [a \in Payables |-> IF a \in {} /\ payable[a] = None
                                       THEN NewPayable(a) ELSE payable[a]]
    BY <1>0, <2>1
  <2>4. /\ schedule' = [s \in Rows |-> schedule'[s]]
        /\ \A s \in Rows \ DOMAIN plan : schedule'[s] = schedule[s]
        /\ \A s \in DOMAIN plan : schedule'[s] = NewSchedule(plan[s], "COMPLETED")
    BY <2>1, <2>2
  <2>5. \A s \in DOMAIN plan : /\ schedule'[s] \in ScheduleRecord /\ schedule'[s].paid = 0
                               /\ schedule'[s].outstanding = schedule'[s].amount
                               /\ s \in Schedules => /\ payable'[PayableOf[s]] # None
                                                     /\ schedule'[s].outstanding >= 0
    BY <2>2, <2>4, NewScheduleType
  <2>6. UNCHANGED <<allocation, received>> /\ \A d \in Calls : call'[d] = call[d]
    BY <2>1
  <2> QED
    <3>1. Adds(DOMAIN plan, {})
      BY <2>1, <2>2, <2>3, <2>4, <2>5, <2>6 DEF Adds
    <3> QED
      BY <1>0, <3>1, RowsAdded
<1> QED
  BY <1>1, <1>2, <1>3, <1>4

LEMMA AllocationKeepsBooks ==
    ASSUME ApprovalInv, BooksInv, NEW c \in Calls, CommitAllocate(c)
    PROVE  BooksInv'
<1>1. PICK p \in Payments, asked \in Allotments :
         /\ p = call[c].payment /\ asked = call[c].asked
         /\ Remembered(call[c], DOMAIN asked)
         /\ \A s \in DOMAIN asked : asked[s] <= schedule[s].outstanding
         /\ SumFunction(allocation[p]) + SumFunction(asked) <= Amount[p]
  BY DEF CommitAllocate, BooksInv, ClaimOK
<1>2. /\ asked \in [DOMAIN asked -> Int] /\ DOMAIN asked \subseteq Schedules
      /\ DOMAIN asked \subseteq Rows /\ p \in Keys /\ p \notin Receipts
  BY PaymentsAssumption DEF Rows, Keys
<1>3. /\ DOMAIN asked \cap DOMAIN allocation[p] = {}
      /\ allocation' = [allocation EXCEPT ![p] = Joined(allocation[p], asked)]
      /\ payable' = [b \in Payables |-> IF payable[b] = None THEN None
            ELSE [paid |-> payable[b].paid + Share(asked, b),
                  outstanding |-> payable[b].outstanding - Share(asked, b)]]
      /\ FinishAlone(c) /\ received' = received
      /\ schedule' = [s \in Rows |-> IF s \in DOMAIN asked
                                     THEN Settled(call[c].rows[s], asked[s]) ELSE schedule[s]]
  BY <1>1 DEF CommitAllocate
<1>4. /\ \A s \in DOMAIN asked : call[c].rows[s] = schedule[s]
      /\ DOMAIN asked \subseteq Existing
  BY <1>1, <1>2 DEF Remembered, Existing
<1>5. schedule' = [s \in Rows |-> IF s \in DOMAIN asked
                                  THEN Settled(schedule[s], asked[s]) ELSE schedule[s]]
  BY <1>3, <1>4
<1>6. /\ \A s \in DOMAIN asked : <<"row", s>> \in Footprint(call[c])
      /\ <<"allocations", p>> \in Footprint(call[c])
  BY <1>1, FootprintOf DEF CommitAllocate
<1>7. call' = [d \in Calls |-> call'[d]] /\ Shaped
  BY <1>3 DEF FinishAlone, ApprovalInv
<1> QED
  <2>1. Settles(c, p, asked)
    BY <1>1, <1>2, <1>3, <1>4, <1>5, <1>6, <1>7 DEF Settles
  <2> QED
    BY <1>7, <2>1, Settling

LEMMA ReceiptKeepsBooks ==
    ASSUME ApprovalInv, BooksInv, NEW c \in Calls, CommitReceive(c)
    PROVE  BooksInv'
<1>1. PICK k \in Receipts : k = call[c].key /\ Remembered(call[c], DOMAIN Received[k])
  BY DEF CommitReceive, BooksInv, ClaimOK
<1>2. PICK more : more = Received[k]
  OBVIOUS
<1>3. /\ more \in [DOMAIN more -> Int] /\ DOMAIN more \subseteq Rows
      /\ DOMAIN more \cap Schedules = {} /\ k \in Keys /\ k \notin Payments
  BY <1>2, PaymentsAssumption DEF Rows, Keys
<1>4. /\ k \notin received /\ received' = received \cup {k} /\ FinishAlone(c)
      /\ allocation' = [allocation EXCEPT ![k] = more] /\ payable' = payable
      /\ schedule' = [s \in Rows |-> IF s \in DOMAIN call[c].rows
                                     THEN Settled(call[c].rows[s], more[s]) ELSE schedule[s]]
  BY <1>1, <1>2 DEF CommitReceive
<1>5. DOMAIN allocation[k] = {}
  BY <1>1, <1>4 DEF BooksInv, AllocationOK
<1>6. Joined(allocation[k], more) = more
  BY <1>3, <1>5 DEF Joined
<1>7. /\ \A s \in DOMAIN more : call[c].rows[s] = schedule[s]
      /\ DOMAIN call[c].rows = DOMAIN more /\ DOMAIN more \subseteq Existing
  BY <1>1, <1>2, <1>3 DEF Remembered, Existing
<1>8. schedule' = [s \in Rows |-> IF s \in DOMAIN more
                                  THEN Settled(schedule[s], more[s]) ELSE schedule[s]]
  BY <1>4, <1>7
<1>9. payable' = [b \in Payables |-> IF payable[b] = None THEN None
            ELSE [paid |-> payable[b].paid + Share(more, b),
                  outstanding |-> payable[b].outstanding - Share(more, b)]]
  <2>1. \A b \in Payables : Share(more, b) = 0
    <3> SUFFICES ASSUME NEW b \in Payables PROVE Share(more, b) = 0
      OBVIOUS
    <3>1. PICK f : f = [s \in DOMAIN more \cap SchedulesOf(b) |-> more[s]]
      OBVIOUS
    <3>2. DOMAIN f = {}
      BY <1>3, <3>1 DEF SchedulesOf
    <3> QED
      BY <3>1, <3>2, FunctionSumEmpty DEF Share
  <2>2. ASSUME NEW b \in Payables, payable[b] # None
        PROVE  payable[b] = [paid |-> payable[b].paid + Share(more, b),
                             outstanding |-> payable[b].outstanding - Share(more, b)]
    <3>1. payable[b] \in PayableRecord
      BY <2>2 DEF BooksInv, BooksTypes
    <3>2. payable[b] = [paid |-> payable[b].paid, outstanding |-> payable[b].outstanding]
          /\ payable[b].paid \in Int /\ payable[b].outstanding \in Int
      BY <3>1 DEF PayableRecord
    <3>3. /\ payable[b].paid + Share(more, b) = payable[b].paid
          /\ payable[b].outstanding - Share(more, b) = payable[b].outstanding
      BY <2>1, <3>2
    <3> QED
      BY <3>2, <3>3
  <2>3. payable' = [b \in Payables |-> payable[b]]
    BY <1>4 DEF BooksInv, BooksTypes
  <2> QED
    BY <2>2, <2>3
<1>10. \A s \in DOMAIN more : <<"row", s>> \in Footprint(call[c])
  BY <1>1, <1>2, FootprintOf DEF CommitReceive
<1>11. call' = [d \in Calls |-> call'[d]] /\ Shaped
  BY <1>4 DEF FinishAlone, ApprovalInv
<1>12. /\ DOMAIN more \cap DOMAIN allocation[k] = {}
       /\ allocation' = [allocation EXCEPT ![k] = Joined(allocation[k], more)]
       /\ \A s \in DOMAIN more \cap Schedules : more[s] <= schedule[s].outstanding
       /\ received \subseteq received' /\ k \in received'
  BY <1>3, <1>4, <1>5, <1>6
<1> QED
  <2>1. Settles(c, k, more)
    BY <1>3, <1>4, <1>7, <1>8, <1>9, <1>10, <1>11, <1>12 DEF Settles
  <2> QED
    BY <1>11, <2>1, Settling

LEMMA InitBooks == Init => BooksInv
<1> SUFFICES ASSUME Init PROVE BooksInv
  OBVIOUS
<1>1. BooksTypes /\ Existing = {}
  BY DEF Init, BooksTypes, Existing
<1>2. \A b \in Payables : PayableOK(b)
  BY DEF Init, PayableOK
<1>3. \A s \in Rows : RowOK(s)
  BY DEF Init, RowOK
<1>4. ASSUME NEW p \in Payments \cup Receipts
      PROVE  AllocationOK(p)
  <2>1. PICK f : f = allocation[p]
    OBVIOUS
  <2>2. f = [s \in {} |-> 0]
    BY <2>1 DEF Init
  <2>3. DOMAIN f = {} /\ f \in [DOMAIN f -> Int] /\ SumFunction(f) = 0
    BY <2>2, FunctionSumEmpty
  <2>4. p \in Payments => Amount[p] \in Nat
    BY PaymentsAssumption
  <2> QED
    BY <2>1, <2>3, <2>4 DEF AllocationOK
<1>5. \A c \in Calls : ClaimOK(c)
  BY DEF Init, ClaimOK, Idle
<1> QED
  BY <1>1, <1>2, <1>3, <1>4, <1>5 DEF BooksInv

LEMMA NextBooks ==
    ASSUME ApprovalInv, BooksInv, [Next]_vars
    PROVE  BooksInv'
<1>1. CASE UNCHANGED vars
  <2>1. UNCHANGED <<payable, schedule, allocation, received, call>>
    BY <1>1 DEF vars
  <2> QED
    BY <2>1, BooksStay
<1>2. CASE ProductionReady
  BY <1>2, RelabelsKeepBooks
<1>3. CASE \E c \in Calls :
          \/ \E b \in Payables : CreatePayable(c, b)
          \/ CommitGenerate(c) \/ InsertSchedule(c)
          \/ \E plan \in ReceivablePlans : CreateReceivables(c, plan)
  BY <1>3, AdditionsKeepBooks
<1>4. CASE \E c \in Calls :
          \/ \E b \in Payables : \E plan \in Plans[b] : Generate(c, b, plan)
          \/ \E s \in Schedules, amount \in Amounts : AddSchedule(c, s, amount)
          \/ \E s \in Schedules, w \in {"WAITING", "COMPLETED"} : UpdateSchedule(c, s, w)
          \/ \E u \in Users, p \in Payments, next \in PaymentStatuses :
                Transition(c, u, p, next)
          \/ \E p \in Payments, asked \in Allotments : Allocate(c, p, asked)
          \/ \E k \in Receipts : LookForKey(c, k)
          \/ Receive(c)
  BY <1>4, ReadsKeepBooks
<1>5. CASE \E c \in Calls :
          \/ \E u \in Users, p \in Payments : CreatePayment(c, u, p)
          \/ WriteStatus(c) \/ Fails(c)
  BY <1>5, StatusesKeepBooks
<1>6. CASE \E c \in Calls : WriteSchedule(c)
  BY <1>6, RelabelsKeepBooks
<1>7. CASE \E c \in Calls : CommitAllocate(c) \/ CommitReceive(c)
  BY <1>7, AllocationKeepsBooks, ReceiptKeepsBooks
<1> QED
  BY <1>1, <1>2, <1>3, <1>4, <1>5, <1>6, <1>7 DEF Next

\* What every payable, schedule and payment says about money is true at every
\* moment, and every open command may rely on what it read.
THEOREM BooksInvariant == Spec => []BooksInv
BY InitApproval, NextApproval, InitBooks, NextBooks, PTL DEF Spec

\* Payables, their schedules and the schedules of contracts say as paid what
\* the existing payments gave them, and as outstanding the rest, whatever
\* allocations, receipts and changes of schedules race (procurement.service.ts
\* and contracts.service.ts).
THEOREM PaymentsBalance == Spec => []BooksBalance
<1>1. ASSUME BooksInv PROVE BooksBalance
  <2>1. \A b \in Payables : PayableOK(b)
    BY <1>1 DEF BooksInv
  <2>2. \A s \in Existing : RowOK(s) /\ schedule[s] # None
    BY <1>1 DEF BooksInv, Existing
  <2> QED
    BY <2>1, <2>2 DEF BooksBalance, PayableOK, RowOK
<1> QED
  BY <1>1, BooksInvariant, PTL

\* No supplier payment gives more than its amount and no schedule of a
\* payable takes more than it asks, though each allocation is checked against
\* sums read before it commits.
THEOREM PaymentsWithinAmount == Spec => []AllocatedWithinAmount
<1>1. ASSUME BooksInv PROVE AllocatedWithinAmount
  <2>1. \A p \in Payments : AllocationOK(p)
    BY <1>1 DEF BooksInv
  <2>2. \A s \in Existing : RowOK(s) /\ schedule[s] # None
    BY <1>1 DEF BooksInv, Existing
  <2> QED
    BY <2>1, <2>2 DEF AllocatedWithinAmount, AllocationOK, RowOK
<1> QED
  BY <1>1, BooksInvariant, PTL
=============================================================================
