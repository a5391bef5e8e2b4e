------------------------ MODULE StockTransfersProofs ------------------------
(***************************************************************************)
(* Theorems about StockTransfers, for any transfers, users, receipts and   *)
(* number of concurrent calls.  TransferOK says what a transfer's status   *)
(* and receipts rest on, CallOK what a call between two of its steps may   *)
(* rely on; with the types they are inductive.                             *)
(***************************************************************************)
EXTENDS StockTransfers, FiniteSums, TLAPS

-----------------------------------------------------------------------------
(* What a call of post does to the ledger *)

\* Posting for a key records that key and no other, and loses none.
LEMMA PostForRecords ==
    ASSUME NEW key, NEW e, PostFor(key, e)
    PROVE  \A k : Posted(k)' <=> Posted(k) \/ k = key
<1> DEFINE t == [idempotencyKey |-> key, effect |-> e]
<1>0. t.idempotencyKey = key
  OBVIOUS
<1>1. CASE Post(t)
  <2>1. transactions' = transactions \cup {t}
    BY <1>1 DEF Post
  <2> QED
    BY <1>0, <2>1 DEF Posted
<1>2. CASE t \in transactions /\ UNCHANGED ledgerVars
  BY <1>0, <1>2 DEF ledgerVars, Posted
<1> QED
  BY <1>1, <1>2 DEF PostFor

\* A step that leaves the transactions alone leaves what is posted alone.
LEMMA NothingRecorded ==
    ASSUME UNCHANGED transactions
    PROVE  \A k : Posted(k)' <=> Posted(k)
BY DEF Posted

-----------------------------------------------------------------------------
(* The inductive invariant *)

Approved(t) ==
    /\ transfer[t].status # "NONE"
    /\ transfer[t].approvedBy \notin {None, transfer[t].createdBy}

TransferOK(t) ==
    /\ transfer[t].status \notin {"NONE", "DRAFT"} \/ Posted(OutKey(t)) => Approved(t)
    /\ \/ transfer[t].status \in {"IN_TRANSIT", "PARTIALLY_RECEIVED", "RECEIVED"}
       \/ transfer[t].receivedQuantity > 0
       \/ \E d \in Receipts : Posted(InKey(t, d.key))
       => Posted(OutKey(t))

CallOK(c) ==
    LET at == call[c].at
        t == call[c].doc
    IN  /\ at = "approve" => /\ transfer[t].status # "NONE"
                             /\ call[c].by \notin {None, transfer[t].createdBy}
        /\ at = "dispatch.post" => Approved(t)
        /\ at \in {"dispatch.mark", "receive.look", "receive.post", "receive.count",
                   "receive.refresh", "receive.mark"} => Posted(OutKey(t))
        /\ at \in {"receive.look", "receive.post"} =>
              \E d \in Receipts : call[c].key = d.key

TransfersInv ==
    /\ TypeOK
    /\ \A t \in Transfers : TransferOK(t)
    /\ \A c \in Calls : CallOK(c)

\* No step takes back what a call relies on.
Grows ==
    /\ \A k : Posted(k) => Posted(k)'
    /\ \A t \in Transfers : transfer[t].status # "NONE" =>
          /\ transfer'[t].status # "NONE"
          /\ transfer'[t].createdBy = transfer[t].createdBy
          /\ Approved(t) => Approved(t)'

StepOK(c) ==
    /\ TypeOK'
    /\ Grows
    /\ \A t \in Transfers : TransferOK(t)'
    /\ CallOK(c)'
    /\ \A d \in Calls : d # c => call'[d] = call[d]

\* The parts of a receipt that fit add up to a quantity.
LEMMA TotalType ==
    ASSUME NEW t, NEW d \in Receipts, PartsFit(t, d.parts)
    PROVE  Total(d.parts) \in Nat
<1>1. PICK f : f = d.parts
  OBVIOUS
<1>2. f \in Seq(Int) /\ \A i \in DOMAIN f : f[i] > 0
  BY <1>1, TransferAssumption DEF PartsFit
<1>3. DOMAIN f = 1 .. Len(f) /\ Len(f) \in Nat /\ \A i \in DOMAIN f : f[i] \in Nat
  BY <1>2
<1>4. IsFiniteSet(DOMAIN f)
  BY <1>3, FS_Interval
<1>5. Summable(f)
  BY <1>3, <1>4 DEF Summable
<1> QED
  BY <1>1, <1>3, <1>5, FunctionSumNat DEF Total

-----------------------------------------------------------------------------
LEMMA KeysDiffer ==
    ASSUME NEW t, NEW u, NEW key
    PROVE  /\ OutKey(t) = OutKey(u) <=> t = u
           /\ InKey(t, key) # OutKey(u)
           /\ InKey(t, key) = InKey(u, key) <=> t = u
BY DEF OutKey, InKey

LEMMA OtherCallsKeep ==
    ASSUME TypeOK, Grows, NEW d \in Calls, CallOK(d), call'[d] = call[d]
    PROVE  CallOK(d)'
<1>1. CASE call[d].at = "idle"
  BY <1>1 DEF CallOK
<1>2. CASE call[d].at # "idle"
  <2>1. call[d].doc \in Transfers
    BY <1>2 DEF TypeOK, CallRecords
  <2> QED
    BY <2>1 DEF CallOK, Grows, Approved
<1> QED
  BY <1>1, <1>2

LEMMA StepKeepsInv ==
    ASSUME TransfersInv, NEW c \in Calls, StepOK(c)
    PROVE  TransfersInv'
<1>1. ASSUME NEW d \in Calls PROVE CallOK(d)'
  <2>1. CASE d = c
    BY <2>1 DEF StepOK
  <2>2. CASE d # c
    BY <2>2, OtherCallsKeep DEF StepOK, TransfersInv
  <2> QED
    BY <2>1, <2>2
<1> QED
  BY <1>1 DEF StepOK, TransfersInv

\* A step that writes neither a transfer nor the ledger.
LEMMA NothingWritten ==
    ASSUME TransfersInv, UNCHANGED <<balance, transactions, transfer>>,
           call' \in [Calls -> CallRecords]
    PROVE  TypeOK' /\ Grows /\ \A t \in Transfers : TransferOK(t)'
<1>1. \A k : Posted(k)' <=> Posted(k)
  BY NothingRecorded
<1>2. TypeOK'
  BY DEF TransfersInv, TypeOK
<1>3. Grows
  BY <1>1 DEF Grows, Approved
<1>4. \A t \in Transfers : TransferOK(t)'
  BY <1>1 DEF TransfersInv, TransferOK, Approved
<1> QED
  BY <1>2, <1>3, <1>4

\* A step that writes one transfer.
LEMMA TransferWritten ==
    ASSUME TransfersInv, NEW t \in Transfers, NEW rec \in TransferRecords,
           transfer' = [transfer EXCEPT ![t] = rec],
           UNCHANGED <<balance, transactions>>,
           call' \in [Calls -> CallRecords],
           transfer[t].status # "NONE" =>
              /\ rec.status # "NONE"
              /\ rec.createdBy = transfer[t].createdBy
              /\ Approved(t) => rec.approvedBy \notin {None, rec.createdBy},
           TransferOK(t)'
    PROVE  TypeOK' /\ Grows /\ \A u \in Transfers : TransferOK(u)'
<1>1. \A k : Posted(k)' <=> Posted(k)
  BY NothingRecorded
<1>2. /\ transfer'[t] = rec
      /\ \A u \in Transfers : u # t => transfer'[u] = transfer[u]
      /\ transfer' \in [Transfers -> TransferRecords]
  BY DEF TransfersInv, TypeOK
<1>3. TypeOK'
  BY <1>2 DEF TypeOK
<1>4. Grows
  BY <1>1, <1>2 DEF Grows, Approved
<1>5. ASSUME NEW u \in Transfers PROVE TransferOK(u)'
  <2>1. CASE u = t
    BY <2>1
  <2>2. CASE u # t
    BY <2>2, <1>1, <1>2 DEF TransfersInv, TransferOK, Approved
  <2> QED
    BY <2>1, <2>2
<1> QED
  BY <1>3, <1>4, <1>5

\* A posting for one transfer.
LEMMA PostingKeeps ==
    ASSUME TransfersInv, NEW t \in Transfers, NEW key, NEW e, PostFor(key, e),
           \/ key = OutKey(t) /\ Approved(t)
           \/ (\E d \in Receipts : key = InKey(t, d.key)) /\ Posted(OutKey(t)),
           UNCHANGED transfer, call' \in [Calls -> CallRecords]
    PROVE  TypeOK' /\ Grows /\ (\A u \in Transfers : TransferOK(u)') /\ Posted(key)'
<1>1. \A k : Posted(k)' <=> Posted(k) \/ k = key
  BY PostForRecords
<1>2. TypeOK'
  BY DEF TransfersInv, TypeOK
<1>3. Grows
  BY <1>1 DEF Grows, Approved
<1>4. ASSUME NEW u \in Transfers PROVE TransferOK(u)'
  <2>1. Approved(u)' <=> Approved(u)
    BY DEF Approved
  <2>2. Posted(OutKey(u))' => Posted(OutKey(u)) \/ (u = t /\ Approved(t))
    <3>1. Posted(OutKey(u))' <=> Posted(OutKey(u)) \/ OutKey(u) = key
      BY <1>1
    <3>2. CASE key = OutKey(t) /\ Approved(t)
      BY <3>1, <3>2, KeysDiffer
    <3>3. CASE \E d \in Receipts : key = InKey(t, d.key)
      <4>1. OutKey(u) # key
        BY <3>3, KeysDiffer
      <4> QED
        BY <3>1, <4>1
    <3> QED
      BY <3>2, <3>3
  <2>3. ASSUME NEW d \in Receipts
        PROVE  Posted(InKey(u, d.key))' =>
                  Posted(InKey(u, d.key)) \/ (u = t /\ Posted(OutKey(t)))
    <3>1. Posted(InKey(u, d.key))' <=> Posted(InKey(u, d.key)) \/ InKey(u, d.key) = key
      BY <1>1
    <3>2. CASE key = OutKey(t)
      <4>1. InKey(u, d.key) # key
        BY <3>2, KeysDiffer
      <4> QED
        BY <3>1, <4>1
    <3>3. CASE (\E r \in Receipts : key = InKey(t, r.key)) /\ Posted(OutKey(t))
      <4>1. InKey(u, d.key) = key => u = t
        BY <3>3 DEF InKey
      <4> QED
        BY <3>1, <3>3, <4>1
    <3> QED
      BY <3>2, <3>3
  <2> QED
    BY <1>1, <2>1, <2>2, <2>3 DEF TransfersInv, TransferOK
<1> QED
  BY <1>1, <1>2, <1>3, <1>4

-----------------------------------------------------------------------------
(* Calls *)

LEMMA StepType ==
    ASSUME NEW at \in Steps, NEW doc \in Transfers, NEW by \in Users \cup {None},
           NEW key \in {d.key : d \in Receipts} \cup {None}, NEW quantity \in Nat
    PROVE  /\ StepWith(at, doc, by, key, quantity) \in CallRecords
           /\ StepWith(at, doc, by, key, quantity).at = at
           /\ StepWith(at, doc, by, key, quantity).doc = doc
           /\ StepWith(at, doc, by, key, quantity).by = by
           /\ StepWith(at, doc, by, key, quantity).key = key
BY DEF StepWith, CallRecords

LEMMA IdleType == Idle \in CallRecords /\ Idle.at = "idle"
BY DEF Idle, Step, StepWith, CallRecords

LEMMA StartType ==
    ASSUME TypeOK, NEW c \in Calls, NEW step \in CallRecords, Start(c, step)
    PROVE  /\ call' \in [Calls -> CallRecords]
           /\ call'[c] = step
           /\ \A d \in Calls : d # c => call'[d] = call[d]
BY DEF Start, TypeOK

LEMMA FinishType ==
    ASSUME TypeOK, NEW c \in Calls, Finish(c)
    PROVE  /\ call' \in [Calls -> CallRecords]
           /\ call'[c].at = "idle"
           /\ \A d \in Calls : d # c => call'[d] = call[d]
BY IdleType DEF Finish, TypeOK

LEMMA GotoType ==
    ASSUME TypeOK, NEW c \in Calls, NEW at \in Steps, call[c].at # "idle", Goto(c, at)
    PROVE  /\ call' \in [Calls -> CallRecords]
           /\ call'[c].at = at /\ call'[c].doc = call[c].doc
           /\ \A d \in Calls : d # c => call'[d] = call[d]
<1>1. [call[c] EXCEPT !.at = at] \in CallRecords
  BY DEF TypeOK, CallRecords
<1>2. call' = [call EXCEPT ![c] = [call[c] EXCEPT !.at = at]]
  BY DEF Goto
<1>3. call'[c] = [call[c] EXCEPT !.at = at]
  BY <1>2 DEF TypeOK
<1> QED
  BY <1>1, <1>2, <1>3 DEF TypeOK, CallRecords

-----------------------------------------------------------------------------
(* The actions *)

\* The first step of a command reads the transfer and remembers it.
LEMMA ReadSteps ==
    ASSUME TransfersInv, NEW c \in Calls, NEW t \in Transfers,
           \/ \E u \in Users : ApproveTransfer(c, t, u)
           \/ DispatchTransfer(c, t)
           \/ \E d \in Receipts : ReceiveTransfer(c, t, d)
    PROVE  StepOK(c)
<1> USE DEF TransfersInv
<1>1. ASSUME NEW u \in Users, ApproveTransfer(c, t, u)
      PROVE  StepOK(c)
  <2> DEFINE step == StepWith("approve", t, u, None, 0)
  <2>1. step \in CallRecords /\ step.at = "approve" /\ step.doc = t /\ step.by = u
    BY StepType DEF Steps
  <2>2. Start(c, step)
    BY <1>1 DEF ApproveTransfer
  <2> HIDE DEF step
  <2>3. /\ call' \in [Calls -> CallRecords] /\ call'[c] = step
        /\ \A d \in Calls : d # c => call'[d] = call[d]
    BY <2>1, <2>2, StartType
  <2>4. TypeOK' /\ Grows /\ \A v \in Transfers : TransferOK(v)'
    BY <1>1, <2>3, NothingWritten DEF ApproveTransfer
  <2>5. CallOK(c)'
    BY <1>1, <2>1, <2>3, TransferAssumption DEF ApproveTransfer, CallOK
  <2> QED
    BY <2>3, <2>4, <2>5 DEF StepOK
<1>2. ASSUME DispatchTransfer(c, t)
      PROVE  StepOK(c)
  <2> DEFINE step == Step("dispatch.post", t)
  <2>1. step \in CallRecords /\ step.at = "dispatch.post" /\ step.doc = t
    BY StepType DEF Steps, Step
  <2>2. Start(c, step)
    BY <1>2 DEF DispatchTransfer
  <2> HIDE DEF step
  <2>3. /\ call' \in [Calls -> CallRecords] /\ call'[c] = step
        /\ \A d \in Calls : d # c => call'[d] = call[d]
    BY <2>1, <2>2, StartType
  <2>4. TypeOK' /\ Grows /\ \A v \in Transfers : TransferOK(v)'
    BY <1>2, <2>3, NothingWritten DEF DispatchTransfer
  <2>5. Approved(t) /\ Approved(t)'
    BY <1>2, <2>4 DEF DispatchTransfer, TransferOK, Grows
  <2>6. CallOK(c)'
    BY <2>1, <2>3, <2>5 DEF CallOK
  <2> QED
    BY <2>3, <2>4, <2>6 DEF StepOK
<1>3. ASSUME NEW d \in Receipts, ReceiveTransfer(c, t, d)
      PROVE  StepOK(c)
  <2> DEFINE step == StepWith("receive.look", t, None, d.key, Total(d.parts))
  <2>0. Total(d.parts) \in Nat
    BY <1>3, TotalType DEF ReceiveTransfer
  <2>1. /\ step \in CallRecords /\ step.at = "receive.look" /\ step.doc = t
        /\ step.key = d.key
    BY <2>0, StepType DEF Steps
  <2>2. Start(c, step)
    BY <1>3 DEF ReceiveTransfer
  <2> HIDE DEF step
  <2>3. /\ call' \in [Calls -> CallRecords] /\ call'[c] = step
        /\ \A e \in Calls : e # c => call'[e] = call[e]
    BY <2>1, <2>2, StartType
  <2>4. TypeOK' /\ Grows /\ \A v \in Transfers : TransferOK(v)'
    BY <1>3, <2>3, NothingWritten DEF ReceiveTransfer
  <2>5. Posted(OutKey(t)) /\ Posted(OutKey(t))'
    BY <1>3, <2>4 DEF ReceiveTransfer, TransferOK, Grows
  <2>6. CallOK(c)'
    BY <2>1, <2>3, <2>5 DEF CallOK
  <2> QED
    BY <2>3, <2>4, <2>6 DEF StepOK
<1> QED
  BY <1>1, <1>2, <1>3

\* Steps that only read further, and the end of a call that fails.
LEMMA LookAndFail ==
    ASSUME TransfersInv, NEW c \in Calls,
           LookForReceipt(c) \/ RefreshTransfer(c) \/ Fail(c)
    PROVE  StepOK(c)
<1> USE DEF TransfersInv
<1>1. CASE LookForReceipt(c) \/ RefreshTransfer(c)
  <2> SUFFICES ASSUME NEW at \in {"receive.post", "receive.mark"},
                      NEW p \in BOOLEAN, NEW q \in BOOLEAN,
                      \/ call[c].at = "receive.look" /\ at = "receive.post"
                      \/ call[c].at = "receive.refresh" /\ at = "receive.mark",
                      call' = [call EXCEPT ![c] = [call[c] EXCEPT !.at = at, !.posted = p,
                                                                  !.complete = q]]
               PROVE  StepOK(c)
    <3>1. call[c] = [call[c] EXCEPT !.at = call[c].at, !.posted = call[c].posted,
                                    !.complete = call[c].complete]
      BY DEF TypeOK, CallRecords
    <3>2. call[c] \in CallRecords /\ call[c].posted \in BOOLEAN /\ call[c].complete \in BOOLEAN
      BY DEF TypeOK, CallRecords
    <3>3. CASE LookForReceipt(c)
      <4>1. call' = [call EXCEPT ![c] = [call[c] EXCEPT !.at = "receive.post",
               !.posted = Posted(InKey(call[c].doc, call[c].key)),
               !.complete = call[c].complete]]
        BY <3>2, <3>3 DEF LookForReceipt, CallRecords
      <4>2. Posted(InKey(call[c].doc, call[c].key)) \in BOOLEAN
        BY DEF Posted
      <4> QED
        BY <3>2, <3>3, <4>1, <4>2 DEF LookForReceipt
    <3>4. CASE RefreshTransfer(c)
      <4>1. call' = [call EXCEPT ![c] = [call[c] EXCEPT !.at = "receive.mark",
               !.posted = call[c].posted,
               !.complete = transfer[call[c].doc].receivedQuantity
                               = TransferForm[call[c].doc].quantity]]
        BY <3>2, <3>4 DEF RefreshTransfer, CallRecords
      <4> QED
        BY <3>2, <3>4, <4>1 DEF RefreshTransfer
    <3> QED
      BY <1>1, <3>3, <3>4
  <2>1. /\ call' \in [Calls -> CallRecords] /\ call'[c].at = at
        /\ call'[c].doc = call[c].doc /\ call'[c].key = call[c].key
        /\ \A d \in Calls : d # c => call'[d] = call[d]
    <3> DEFINE new == [call[c] EXCEPT !.at = at, !.posted = p, !.complete = q]
    <3>1. /\ new \in CallRecords /\ new.at = at /\ new.doc = call[c].doc
          /\ new.key = call[c].key
      <4>1. call[c] \in CallRecords /\ at \in Steps /\ at # "idle"
        BY DEF TypeOK, Steps
      <4>2. new.at = at /\ new.doc = call[c].doc /\ new.key = call[c].key
        BY ONLY <4>1 DEF CallRecords
      <4>3. new \in CallRecords
        BY ONLY <4>1, p \in BOOLEAN, q \in BOOLEAN,
                call[c].at \in {"receive.look", "receive.refresh"} DEF CallRecords
      <4> QED
        BY ONLY <4>2, <4>3
    <3> HIDE DEF new
    <3> QED
      BY <3>1 DEF TypeOK, new
  <2>2. TypeOK' /\ Grows /\ \A v \in Transfers : TransferOK(v)'
    BY <1>1, <2>1, NothingWritten DEF LookForReceipt, RefreshTransfer
  <2>3. call[c].doc \in Transfers /\ Posted(OutKey(call[c].doc))
    BY DEF TypeOK, CallRecords, CallOK
  <2>4. CallOK(c)'
    BY <2>1, <2>2, <2>3 DEF CallOK, Grows
  <2> QED
    BY <2>1, <2>2, <2>4 DEF StepOK
<1>2. CASE Fail(c)
  <2>1. /\ call' \in [Calls -> CallRecords] /\ call'[c].at = "idle"
        /\ \A d \in Calls : d # c => call'[d] = call[d]
    BY <1>2, FinishType DEF Fail
  <2>2. TypeOK' /\ Grows /\ \A v \in Transfers : TransferOK(v)'
    BY <1>2, <2>1, NothingWritten DEF Fail
  <2> QED
    BY <2>1, <2>2 DEF StepOK, CallOK
<1> QED
  BY <1>1, <1>2

\* The steps that post.
LEMMA PostingSteps ==
    ASSUME TransfersInv, NEW c \in Calls, PostDispatch(c) \/ PostReceipt(c)
    PROVE  StepOK(c)
<1> USE DEF TransfersInv
<1> SUFFICES ASSUME NEW t, t = call[c].doc
             PROVE  StepOK(c)
  OBVIOUS
<1>0. t \in Transfers /\ CallOK(c) /\ call[c] \in CallRecords
  BY DEF TypeOK, CallRecords, PostDispatch, PostReceipt
<1>1. CASE PostDispatch(c)
  <2>1. /\ call' \in [Calls -> CallRecords]
        /\ call'[c].at = "dispatch.mark" /\ call'[c].doc = t
        /\ \A d \in Calls : d # c => call'[d] = call[d]
    BY <1>1, GotoType DEF PostDispatch, Steps
  <2>2. PostFor(OutKey(t), DispatchEffect(t)) /\ Approved(t) /\ UNCHANGED transfer
    BY <1>0, <1>1 DEF PostDispatch, CallOK
  <2>3. TypeOK' /\ Grows /\ (\A u \in Transfers : TransferOK(u)') /\ Posted(OutKey(t))'
    BY <1>0, <2>1, <2>2, PostingKeeps
  <2>4. CallOK(c)'
    BY <2>1, <2>3 DEF CallOK
  <2> QED
    BY <2>1, <2>3, <2>4 DEF StepOK
<1>2. CASE PostReceipt(c)
  <2> DEFINE key == call[c].key
  <2>1. PICK at \in {"idle", "receive.count"} :
           /\ call' \in [Calls -> CallRecords]
           /\ call'[c].at = at /\ (at # "idle" => call'[c].doc = t)
           /\ \A d \in Calls : d # c => call'[d] = call[d]
    <3>1. CASE call[c].posted
      BY <1>2, <3>1, FinishType DEF PostReceipt
    <3>2. CASE ~call[c].posted
      BY <1>2, <3>2, GotoType DEF PostReceipt, Steps
    <3> QED
      BY <3>1, <3>2
  <2>2. PostFor(InKey(t, key), ReceiveEffect(t, call[c].quantity)) /\ UNCHANGED transfer
    BY <1>2 DEF PostReceipt
  <2>3. Posted(OutKey(t))
    BY <1>0, <1>2 DEF PostReceipt, CallOK
  <2>4. \E d \in Receipts : key = d.key
    BY <1>0, <1>2 DEF CallOK, PostReceipt
  <2>5. \E d \in Receipts : InKey(t, key) = InKey(t, d.key)
    BY <2>4
  <2>6. TypeOK' /\ Grows /\ (\A u \in Transfers : TransferOK(u)')
    BY <1>0, <2>1, <2>2, <2>3, <2>5, PostingKeeps
  <2>7. CallOK(c)'
    BY <2>1, <2>3, <2>6 DEF CallOK, Grows
  <2> QED
    BY <2>1, <2>6, <2>7 DEF StepOK
<1> QED
  BY <1>1, <1>2

\* The steps that write the transfer.
LEMMA MarkSteps ==
    ASSUME TransfersInv, NEW c \in Calls,
           MarkApproved(c) \/ MarkInTransit(c) \/ CountReceived(c) \/ MarkReceived(c)
    PROVE  StepOK(c)
<1> USE DEF TransfersInv
<1> SUFFICES ASSUME NEW t, t = call[c].doc
             PROVE  StepOK(c)
  OBVIOUS
<1>0. /\ t \in Transfers /\ CallOK(c) /\ call[c] \in CallRecords
      /\ transfer[t] \in TransferRecords /\ TransferOK(t)
  BY DEF TypeOK, CallRecords, MarkApproved, MarkInTransit, CountReceived, MarkReceived
<1>1. \A k : Posted(k)' <=> Posted(k)
  BY NothingRecorded DEF MarkApproved, MarkInTransit, CountReceived, MarkReceived
<1>2. CASE MarkApproved(c)
  <2> DEFINE new == [transfer[t] EXCEPT !.status = "APPROVED", !.approvedBy = call[c].by]
  <2>1. /\ new \in TransferRecords /\ new.status = "APPROVED" /\ new.approvedBy = call[c].by
        /\ new.createdBy = transfer[t].createdBy
        /\ new.receivedQuantity = transfer[t].receivedQuantity
    BY <1>0 DEF TransferRecords, TransferStatuses, CallRecords
  <2>2. transfer' = [transfer EXCEPT ![t] = new]
    BY <1>0, <1>2 DEF MarkApproved, TypeOK
  <2>3. transfer'[t] = new
    BY <1>0, <2>2 DEF TypeOK
  <2> HIDE DEF new
  <2>4. transfer[t].status # "NONE" /\ new.approvedBy \notin {None, new.createdBy}
    BY <1>0, <1>2, <2>1 DEF MarkApproved, CallOK
  <2>5. TransferOK(t)'
    BY <1>0, <1>1, <2>1, <2>3, <2>4 DEF TransferOK, Approved
  <2>6. /\ call' \in [Calls -> CallRecords] /\ call'[c].at = "idle"
        /\ \A d \in Calls : d # c => call'[d] = call[d]
    BY <1>2, FinishType DEF MarkApproved
  <2>7. TypeOK' /\ Grows /\ \A u \in Transfers : TransferOK(u)'
    BY <1>0, <1>2, <2>1, <2>2, <2>4, <2>5, <2>6, TransferWritten DEF MarkApproved
  <2> QED
    BY <2>6, <2>7 DEF StepOK, CallOK
<1>3. CASE MarkInTransit(c) \/ MarkReceived(c)
  <2>0. PICK s \in {"IN_TRANSIT", "PARTIALLY_RECEIVED", "RECEIVED"} :
           transfer' = [transfer EXCEPT ![t].status = s]
    BY <1>3 DEF MarkInTransit, MarkReceived
  <2> DEFINE new == [transfer[t] EXCEPT !.status = s]
  <2>1. /\ new \in TransferRecords /\ new.status = s
        /\ new.approvedBy = transfer[t].approvedBy
        /\ new.createdBy = transfer[t].createdBy
        /\ new.receivedQuantity = transfer[t].receivedQuantity
    BY <1>0 DEF TransferRecords, TransferStatuses
  <2>2. transfer' = [transfer EXCEPT ![t] = new]
    BY <1>0, <2>0 DEF TypeOK
  <2>3. transfer'[t] = new
    BY <1>0, <2>2 DEF TypeOK
  <2> HIDE DEF new
  <2>4. Posted(OutKey(t)) /\ Approved(t)
    BY <1>0, <1>3 DEF MarkInTransit, MarkReceived, CallOK, TransferOK
  <2>5. TransferOK(t)'
    BY <1>0, <1>1, <2>1, <2>3, <2>4 DEF TransferOK, Approved
  <2>6. /\ call' \in [Calls -> CallRecords] /\ call'[c].at = "idle"
        /\ \A d \in Calls : d # c => call'[d] = call[d]
    BY <1>3, FinishType DEF MarkInTransit, MarkReceived
  <2>7. UNCHANGED <<balance, transactions>>
    BY <1>3 DEF MarkInTransit, MarkReceived
  <2>8. /\ new.status # "NONE" /\ new.approvedBy \notin {None, new.createdBy}
    BY <2>1, <2>4 DEF Approved
  <2>9. TypeOK' /\ Grows /\ \A u \in Transfers : TransferOK(u)'
    BY <1>0, <2>1, <2>2, <2>5, <2>6, <2>7, <2>8, TransferWritten
  <2> QED
    BY <2>6, <2>9 DEF StepOK, CallOK
<1>4. CASE CountReceived(c)
  <2> DEFINE new == [transfer[t] EXCEPT !.receivedQuantity = @ + call[c].quantity]
  <2>0. transfer[t].receivedQuantity + call[c].quantity \in Nat
    <3>1. transfer[t].receivedQuantity \in Nat /\ call[c].quantity \in Nat
      BY <1>0 DEF TransferRecords, CallRecords
    <3> QED
      BY <3>1
  <2>1. /\ new \in TransferRecords /\ new.status = transfer[t].status
        /\ new.approvedBy = transfer[t].approvedBy
        /\ new.createdBy = transfer[t].createdBy
    BY <1>0, <2>0 DEF TransferRecords
  <2>2. transfer' = [transfer EXCEPT ![t] = new]
    BY <1>0, <1>4 DEF CountReceived, TypeOK
  <2>3. transfer'[t] = new
    BY <1>0, <2>2 DEF TypeOK
  <2> HIDE DEF new
  <2>4. Posted(OutKey(t)) /\ Approved(t)
    BY <1>0, <1>4 DEF CountReceived, CallOK, TransferOK
  <2>5. TransferOK(t)'
    BY <1>0, <1>1, <2>1, <2>3, <2>4 DEF TransferOK, Approved
  <2>6. /\ call' \in [Calls -> CallRecords]
        /\ call'[c].at = "receive.refresh" /\ call'[c].doc = t
        /\ \A d \in Calls : d # c => call'[d] = call[d]
    BY <1>4, GotoType DEF CountReceived, Steps
  <2>7. UNCHANGED <<balance, transactions>>
    BY <1>4 DEF CountReceived
  <2>8. /\ new.status # "NONE" /\ new.approvedBy \notin {None, new.createdBy}
    BY <2>1, <2>4 DEF Approved
  <2>9. TypeOK' /\ Grows /\ \A u \in Transfers : TransferOK(u)'
    BY <1>0, <2>1, <2>2, <2>5, <2>6, <2>7, <2>8, TransferWritten
  <2>10. CallOK(c)'
    BY <1>1, <2>4, <2>6 DEF CallOK
  <2> QED
    BY <2>6, <2>9, <2>10 DEF StepOK
<1> QED
  BY <1>2, <1>3, <1>4

\* A new transfer is nobody's yet: no call knows it.
LEMMA CreateKeepsInv ==
    ASSUME TransfersInv, NEW t \in Transfers, NEW u \in Users, CreateTransfer(t, u)
    PROVE  TransfersInv'
<1> USE DEF TransfersInv
<1> DEFINE new == [transfer[t] EXCEPT !.status = "DRAFT", !.createdBy = u]
<1>0. transfer[t] \in TransferRecords /\ TransferOK(t) /\ transfer[t].status = "NONE"
  BY DEF TypeOK, CreateTransfer
<1>1. /\ new \in TransferRecords /\ new.status = "DRAFT"
      /\ new.receivedQuantity = transfer[t].receivedQuantity
  BY <1>0 DEF TransferRecords, TransferStatuses
<1>2. transfer' = [transfer EXCEPT ![t] = new]
  BY <1>0 DEF CreateTransfer, TypeOK
<1>3. transfer'[t] = new
  BY <1>0, <1>2 DEF TypeOK
<1> HIDE DEF new
<1>4. \A k : Posted(k)' <=> Posted(k)
  BY NothingRecorded DEF CreateTransfer
<1>5. TransferOK(t)'
  BY <1>0, <1>1, <1>3, <1>4 DEF TransferOK, Approved
<1>6. call' \in [Calls -> CallRecords] /\ UNCHANGED <<balance, transactions, call>>
  BY DEF CreateTransfer, TypeOK
<1>7. TypeOK' /\ Grows /\ \A v \in Transfers : TransferOK(v)'
  BY <1>0, <1>1, <1>2, <1>5, <1>6, TransferWritten
<1>8. \A c \in Calls : CallOK(c)'
  BY <1>6, <1>7, OtherCallsKeep
<1> QED
  BY <1>7, <1>8

-----------------------------------------------------------------------------
LEMMA InitInv == Init => TransfersInv
<1> SUFFICES ASSUME Init
             PROVE  TransfersInv
  OBVIOUS
<1>1. TypeOK
  BY IdleType DEF Init, TypeOK, TransferRecords, TransferStatuses
<1>2. \A k : ~Posted(k)
  BY DEF Init, Posted
<1>3. \A t \in Transfers : TransferOK(t)
  BY <1>2 DEF Init, TransferOK
<1>4. \A c \in Calls : CallOK(c)
  BY IdleType DEF Init, CallOK
<1> QED
  BY <1>1, <1>3, <1>4 DEF TransfersInv

LEMMA NextKeepsInv ==
    ASSUME TransfersInv, Next
    PROVE  TransfersInv'
<1>1. CASE \E c \in Calls : StepOK(c)
  BY <1>1, StepKeepsInv
<1>2. CASE \E t \in Transfers, u \in Users : CreateTransfer(t, u)
  BY <1>2, CreateKeepsInv
<1>3. CASE \E c \in Calls, t \in Transfers :
              \/ \E u \in Users : ApproveTransfer(c, t, u)
              \/ DispatchTransfer(c, t)
              \/ \E d \in Receipts : ReceiveTransfer(c, t, d)
  BY <1>1, <1>3, ReadSteps
<1>4. CASE \E c \in Calls : \/ MarkApproved(c) \/ PostDispatch(c) \/ MarkInTransit(c)
                            \/ LookForReceipt(c) \/ PostReceipt(c) \/ CountReceived(c)
                            \/ RefreshTransfer(c) \/ MarkReceived(c) \/ Fail(c)
  BY <1>1, <1>4, LookAndFail, PostingSteps, MarkSteps
<1> QED
  BY <1>2, <1>3, <1>4 DEF Next

LEMMA StutterKeepsInv ==
    ASSUME TransfersInv, UNCHANGED vars
    PROVE  TransfersInv'
<1>1. /\ call' \in [Calls -> CallRecords]
      /\ UNCHANGED <<balance, transactions, transfer>> /\ UNCHANGED call
  BY DEF vars, TransfersInv, TypeOK
<1>2. TypeOK' /\ Grows /\ \A t \in Transfers : TransferOK(t)'
  BY <1>1, NothingWritten
<1>3. \A c \in Calls : CallOK(c)'
  BY <1>1, <1>2, OtherCallsKeep DEF TransfersInv
<1> QED
  BY <1>2, <1>3 DEF TransfersInv

\* At every moment each transfer's status and receipts have what they rest
\* on, and every call in progress what its next step relies on.
THEOREM TransfersInvariant == Spec => []TransfersInv
<1>1. TransfersInv /\ [Next]_vars => TransfersInv'
  BY NextKeepsInv, StutterKeepsInv
<1> QED
  BY <1>1, InitInv, PTL DEF Spec

\* The variables keep their types.
THEOREM TransfersTypes == Spec => []TypeOK
<1>1. TransfersInv => TypeOK
  BY DEF TransfersInv
<1> QED
  BY <1>1, TransfersInvariant, PTL

\* Nothing arrives of a transfer, and no status says it is under way, before
\* it was dispatched, whatever calls race or stop half-way.
THEOREM TransfersDispatchedFirst == Spec => []DispatchedFirst
<1>1. ASSUME TransfersInv, NEW t \in Transfers, Posteds(t) # {}
      PROVE  \E d \in Receipts : Posted(InKey(t, d.key))
  BY <1>1 DEF Posteds, Posted
<1>2. TransfersInv => DispatchedFirst
  BY <1>1 DEF TransfersInv, TransferOK, DispatchedFirst
<1> QED
  BY <1>2, TransfersInvariant, PTL

\* No transfer leaves its warehouse without somebody else's approval.
THEOREM TransfersApproved == Spec => []DispatchedOnApproval
<1>1. TransfersInv => DispatchedOnApproval
  BY DEF TransfersInv, TransferOK, Approved, DispatchedOnApproval
<1> QED
  BY <1>1, TransfersInvariant, PTL

-----------------------------------------------------------------------------
(* Conservation of goods *)

GoodsOf(q) == q["onHand"] + q["inTransit"]

LEMMA QuantityTypes ==
    /\ Zero \in Quantities
    /\ NoEffect \in [BalanceKeys -> Quantities]
    /\ \A x, y \in Quantities : Plus(x, y) \in Quantities
    /\ \A x \in Quantities : GoodsOf(x) \in Int
    /\ \A x, y \in Quantities : GoodsOf(Plus(x, y)) = GoodsOf(x) + GoodsOf(y)
BY DEF Zero, NoEffect, Quantities, Plus, GoodsOf, Buckets, ControlledBuckets

LEMMA GoodsSummable ==
    ASSUME NEW e \in [BalanceKeys -> Quantities]
    PROVE  /\ Summable([k \in BalanceKeys |-> GoodsOf(e[k])])
           /\ GoodsIn(e) = SumFunction([k \in BalanceKeys |-> GoodsOf(e[k])])
           /\ GoodsIn(e) \in Int
<1>1. PICK f : f = [k \in BalanceKeys |-> GoodsOf(e[k])]
  OBVIOUS
<1>2. \A k \in BalanceKeys : GoodsOf(e[k]) \in Int
  BY QuantityTypes
<1>3. Summable(f)
  BY <1>1, <1>2, FiniteAssumption DEF Summable
<1>4. GoodsIn(e) = SumFunction(f)
  BY <1>1 DEF GoodsIn, GoodsOf
<1> QED
  BY <1>1, <1>3, <1>4, FunctionSumInt

LEMMA GoodsNoEffect == GoodsIn(NoEffect) = 0
<1>1. PICK f : f = [k \in BalanceKeys |-> GoodsOf(NoEffect[k])]
  OBVIOUS
<1>2. \A k \in BalanceKeys : GoodsOf(NoEffect[k]) = 0
  BY DEF NoEffect, Zero, GoodsOf, Buckets, ControlledBuckets
<1>3. IsFiniteSet(DOMAIN f) /\ \A k \in DOMAIN f : f[k] = 0
  BY <1>1, <1>2, FiniteAssumption
<1> QED
  BY <1>1, <1>3, QuantityTypes, GoodsSummable, FunctionSumZero

\* What a posting adds to the goods is its effect's own goods.
LEMMA GoodsApplied ==
    ASSUME balance \in [BalanceKeys -> Quantities], NEW e \in [BalanceKeys -> Quantities]
    PROVE  /\ Applied(e) \in [BalanceKeys -> Quantities]
           /\ GoodsIn(Applied(e)) = GoodsIn(balance) + GoodsIn(e)
<1>1. PICK f : f = [k \in BalanceKeys |-> GoodsOf(balance[k])]
  OBVIOUS
<1>2. PICK g : g = [k \in BalanceKeys |-> GoodsOf(e[k])]
  OBVIOUS
<1>3. PICK h : h = [k \in BalanceKeys |-> GoodsOf(Applied(e)[k])]
  OBVIOUS
<1>4. Applied(e) \in [BalanceKeys -> Quantities]
  BY QuantityTypes DEF Applied
<1>5. \A k \in BalanceKeys : GoodsOf(Applied(e)[k]) = GoodsOf(balance[k]) + GoodsOf(e[k])
  BY QuantityTypes DEF Applied
<1>6. /\ Summable(f) /\ Summable(g)
      /\ GoodsIn(balance) = SumFunction(f) /\ GoodsIn(e) = SumFunction(g)
      /\ GoodsIn(Applied(e)) = SumFunction(h)
  BY <1>1, <1>2, <1>3, <1>4, GoodsSummable
<1>7. /\ DOMAIN g = DOMAIN f /\ DOMAIN h = DOMAIN f
      /\ \A k \in DOMAIN f : h[k] = f[k] + g[k]
  BY <1>1, <1>2, <1>3, <1>5
<1> QED
  BY <1>4, <1>6, <1>7, FunctionSumPlus

\* What one more line adds to the goods of an effect.
LEMMA GoodsAt ==
    ASSUME NEW e \in [BalanceKeys -> Quantities], NEW k \in BalanceKeys, NEW d,
           Delta(d) \in Quantities
    PROVE  /\ At(e, k, d) \in [BalanceKeys -> Quantities]
           /\ GoodsIn(At(e, k, d)) = GoodsIn(e) + GoodsOf(Delta(d))
<1>1. PICK f : f = [j \in BalanceKeys |-> GoodsOf(e[j])]
  OBVIOUS
<1>2. PICK g : g = [j \in BalanceKeys |-> GoodsOf(At(e, k, d)[j])]
  OBVIOUS
<1>3. At(e, k, d) \in [BalanceKeys -> Quantities]
  BY QuantityTypes DEF At
<1>4. /\ At(e, k, d)[k] = Plus(e[k], Delta(d))
      /\ \A j \in BalanceKeys : j # k => At(e, k, d)[j] = e[j]
  BY DEF At
<1>5. GoodsOf(At(e, k, d)[k]) = GoodsOf(e[k]) + GoodsOf(Delta(d))
  BY <1>4, QuantityTypes
<1>6. /\ GoodsOf(e[k]) \in Int /\ GoodsOf(Delta(d)) \in Int
      /\ GoodsOf(At(e, k, d)[k]) \in Int
  BY <1>3, QuantityTypes
<1>7. Summable(f) /\ GoodsIn(e) = SumFunction(f) /\ GoodsIn(At(e, k, d)) = SumFunction(g)
  BY <1>1, <1>2, <1>3, GoodsSummable
<1>8. /\ DOMAIN g = DOMAIN f /\ k \in DOMAIN f /\ g[k] \in Int
      /\ \A j \in DOMAIN f : j # k => g[j] = f[j]
  BY <1>1, <1>2, <1>4, <1>6
<1>9. SumFunction(g) = SumFunction(f) + (g[k] - f[k])
  BY ONLY <1>7, <1>8, FunctionSumChange
<1>10. g[k] - f[k] = GoodsOf(Delta(d))
  <2>1. g[k] = GoodsOf(e[k]) + GoodsOf(Delta(d)) /\ f[k] = GoodsOf(e[k])
    BY <1>1, <1>2, <1>5
  <2>2. \A a, b \in Int : (a + b) - a = b
    OBVIOUS
  <2>3. (GoodsOf(e[k]) + GoodsOf(Delta(d))) - GoodsOf(e[k]) = GoodsOf(Delta(d))
    BY ONLY <2>2, <1>6
  <2> QED
    BY ONLY <2>1, <2>3
<1> QED
  BY ONLY <1>3, <1>7, <1>9, <1>10

\* A dispatch puts on the way what it takes away, a receipt the other way round.
LEMMA EffectGoods ==
    ASSUME NEW t \in Transfers, NEW q \in Int
    PROVE  /\ DispatchEffect(t) \in [BalanceKeys -> Quantities]
           /\ GoodsIn(DispatchEffect(t)) = 0
           /\ ReceiveEffect(t, q) \in [BalanceKeys -> Quantities]
           /\ GoodsIn(ReceiveEffect(t, q)) = 0
<1>1. PICK n \in Int : n = TransferForm[t].quantity
  BY TransferAssumption
<1>2. TransferForm[t].source \in BalanceKeys /\ TransferForm[t].destination \in BalanceKeys
  BY TransferAssumption
<1>3. PICK out : out = [onHand |-> -n, available |-> -n, inTransit |-> n]
  OBVIOUS
<1>4. PICK off : off = [inTransit |-> -q]
  OBVIOUS
<1>5. PICK in : in = [onHand |-> q, available |-> q]
  OBVIOUS
<1>6. /\ Delta(out) \in Quantities /\ GoodsOf(Delta(out)) = 0
      /\ Delta(off) \in Quantities /\ GoodsOf(Delta(off)) = -q
      /\ Delta(in) \in Quantities /\ GoodsOf(Delta(in)) = q
  <2>1. Delta(out) \in Quantities /\ GoodsOf(Delta(out)) = 0
    BY <1>3 DEF Delta, Quantities, GoodsOf, Buckets, ControlledBuckets
  <2>2. Delta(off) \in Quantities /\ GoodsOf(Delta(off)) = -q
    BY <1>4 DEF Delta, Quantities, GoodsOf, Buckets, ControlledBuckets
  <2>3. Delta(in) \in Quantities /\ GoodsOf(Delta(in)) = q
    BY <1>5 DEF Delta, Quantities, GoodsOf, Buckets, ControlledBuckets
  <2> QED
    BY <2>1, <2>2, <2>3
<1>7. PICK e : e = At(NoEffect, TransferForm[t].source, off)
  OBVIOUS
<1>8. /\ DispatchEffect(t) = At(NoEffect, TransferForm[t].source, out)
      /\ ReceiveEffect(t, q) = At(e, TransferForm[t].destination, in)
  BY <1>1, <1>3, <1>4, <1>5, <1>7 DEF DispatchEffect, ReceiveEffect
<1>9. /\ DispatchEffect(t) \in [BalanceKeys -> Quantities]
      /\ GoodsIn(DispatchEffect(t)) = 0
  <2>1. PICK o : o = At(NoEffect, TransferForm[t].source, out)
    OBVIOUS
  <2>2. /\ o \in [BalanceKeys -> Quantities]
        /\ GoodsIn(o) = GoodsIn(NoEffect) + GoodsOf(Delta(out))
    BY <1>2, <1>6, <2>1, QuantityTypes, GoodsAt
  <2>3. GoodsIn(o) = 0
    BY <2>2, <1>6, GoodsNoEffect
  <2>4. DispatchEffect(t) = o
    BY <1>8, <2>1
  <2> QED
    BY ONLY <2>2, <2>3, <2>4
<1>10. e \in [BalanceKeys -> Quantities] /\ GoodsIn(e) = 0 + (-q)
  <2>1. /\ e \in [BalanceKeys -> Quantities]
        /\ GoodsIn(e) = GoodsIn(NoEffect) + GoodsOf(Delta(off))
    BY <1>2, <1>6, <1>7, QuantityTypes, GoodsAt
  <2> QED
    BY <2>1, <1>6, GoodsNoEffect
<1>11. /\ ReceiveEffect(t, q) \in [BalanceKeys -> Quantities]
       /\ GoodsIn(ReceiveEffect(t, q)) = (0 + (-q)) + q
  BY <1>2, <1>6, <1>8, <1>10, GoodsAt
<1>12. (0 + (-q)) + q = 0
  OBVIOUS
<1> QED
  BY <1>9, <1>11, <1>12

\* The books balance, and the rows are rows.
GoodsInv == balance \in [BalanceKeys -> Quantities] /\ TransitConserved

LEMMA NeutralPosting ==
    ASSUME GoodsInv, NEW key, NEW e \in [BalanceKeys -> Quantities], PostFor(key, e),
           GoodsIn(e) = 0
    PROVE  GoodsInv'
<1>1. balance' = balance \/ balance' = Applied(e)
  BY DEF PostFor, Post, ledgerVars
<1>2. balance' \in [BalanceKeys -> Quantities] /\ GoodsIn(balance') = GoodsIn(balance)
  <2>1. balance \in [BalanceKeys -> Quantities]
    BY DEF GoodsInv
  <2>2. CASE balance' = balance
    BY <2>1, <2>2
  <2>3. CASE balance' = Applied(e)
    <3>1. /\ Applied(e) \in [BalanceKeys -> Quantities]
          /\ GoodsIn(Applied(e)) = GoodsIn(balance) + 0
      BY <2>1, GoodsApplied
    <3>2. GoodsIn(balance) \in Int
      BY <2>1, GoodsSummable
    <3>3. GoodsIn(Applied(e)) = GoodsIn(balance)
      BY ONLY <3>1, <3>2
    <3> QED
      BY ONLY <2>3, <3>1, <3>3
  <2> QED
    BY <1>1, <2>2, <2>3
<1>3. GoodsIn(balance)' = GoodsIn(balance') /\ GoodsIn(Opening)' = GoodsIn(Opening)
  BY DEF GoodsIn
<1>4. TransitConserved'
  BY <1>2, <1>3 DEF GoodsInv, TransitConserved
<1> QED
  BY <1>2, <1>4 DEF GoodsInv

LEMMA GoodsStep ==
    ASSUME TypeOK, GoodsInv, [Next]_vars
    PROVE  GoodsInv'
<1>1. ASSUME NEW c \in Calls, call[c].at # "idle"
      PROVE  call[c].doc \in Transfers /\ call[c].quantity \in Int
  BY <1>1 DEF TypeOK, CallRecords
<1>2. ASSUME NEW c \in Calls, PostDispatch(c) PROVE GoodsInv'
  <2>1. PICK t \in Transfers : t = call[c].doc
    BY <1>1, <1>2 DEF PostDispatch
  <2>2. PostFor(OutKey(t), DispatchEffect(t))
    BY <1>2, <2>1 DEF PostDispatch
  <2>3. DispatchEffect(t) \in [BalanceKeys -> Quantities] /\ GoodsIn(DispatchEffect(t)) = 0
    BY EffectGoods
  <2> QED
    BY <2>2, <2>3, NeutralPosting
<1>3. ASSUME NEW c \in Calls, PostReceipt(c) PROVE GoodsInv'
  <2>1. PICK t \in Transfers, q \in Int : t = call[c].doc /\ q = call[c].quantity
    BY <1>1, <1>3 DEF PostReceipt
  <2>2. PostFor(InKey(t, call[c].key), ReceiveEffect(t, q))
    BY <1>3, <2>1 DEF PostReceipt
  <2> QED
    BY <2>2, EffectGoods, NeutralPosting
<1>4. CASE UNCHANGED ledgerVars
  BY <1>4 DEF GoodsInv, TransitConserved, GoodsIn, ledgerVars
<1>5. CASE \E c \in Calls : \/ MarkApproved(c) \/ MarkInTransit(c) \/ LookForReceipt(c)
                            \/ CountReceived(c) \/ RefreshTransfer(c)
                            \/ MarkReceived(c) \/ Fail(c)
  BY <1>4, <1>5 DEF ledgerVars, MarkApproved, MarkInTransit, LookForReceipt,
     CountReceived, RefreshTransfer, MarkReceived, Fail
<1>6. CASE \E t \in Transfers, u \in Users :
              CreateTransfer(t, u) \/ \E c \in Calls : ApproveTransfer(c, t, u)
  BY <1>4, <1>6 DEF ledgerVars, CreateTransfer, ApproveTransfer
<1>7. CASE \E c \in Calls, t \in Transfers :
              DispatchTransfer(c, t) \/ \E d \in Receipts : ReceiveTransfer(c, t, d)
  BY <1>4, <1>7 DEF ledgerVars, DispatchTransfer, ReceiveTransfer
<1>8. CASE UNCHANGED vars
  BY <1>4, <1>8 DEF vars, ledgerVars
<1> QED
  BY <1>2, <1>3, <1>5, <1>6, <1>7, <1>8 DEF Next

\* Goods on the way stay in the books: what is on hand or in transit never
\* changes, although a receipt is three database transactions any of which
\* may be the last, repeated, or overtaken (dispatchTransfer, receiveTransfer).
THEOREM TransfersConserveGoods == Spec => []TransitConserved
<1>1. Init => GoodsInv
  BY TransferAssumption DEF Init, GoodsInv, TransitConserved
<1>2. TypeOK /\ GoodsInv /\ [Next]_vars => GoodsInv'
  BY GoodsStep
<1>3. GoodsInv => TransitConserved
  BY DEF GoodsInv
<1> QED
  BY <1>1, <1>2, <1>3, TransfersTypes, PTL DEF Spec
=============================================================================
