------------------------- MODULE GoodsReceivingProofs -------------------------
(***************************************************************************)
(* Theorems about GoodsReceiving, for any receipts, inspections, users     *)
(* and number of concurrent calls. ReceiptOK and InspectionOK say what a   *)
(* status rests on, CallOK what a call between two of its steps may rely   *)
(* on; with the types they are inductive.                                  *)
(*                                                                         *)
(* What a row holds is what was received less the sums of what its posted  *)
(* inspections passed and failed (RowOK). What the receipts of one source  *)
(* take is within it because a creation that is about to commit has room   *)
(* beside every receipt it saw, and commits only if it saw them all        *)
(* (SourceInv).                                                            *)
(***************************************************************************)
EXTENDS GoodsReceiving, FiniteSums, TLAPS

-----------------------------------------------------------------------------
(* What a call of post does to the ledger *)

\* Posting for a key records that key and no other, and loses none.
LEMMA PostForRecords ==
    ASSUME NEW key, NEW e, PostFor(key, e)
    PROVE  \A k : Posted(k)' <=> Posted(k) \/ k = key
<1> DEFINE t == [idempotencyKey |-> key, effect |-> e]
<1>0. t.idempotencyKey = key
  OBVIOUS
<1>1. CASE Post(t)
  <2>1. transactions' = transactions \cup {t}
    BY <1>1 DEF Post
  <2> QED
    BY <1>0, <2>1 DEF Posted
<1>2. CASE t \in transactions /\ UNCHANGED ledgerVars
  BY <1>0, <1>2 DEF ledgerVars, Posted
<1> QED
  BY <1>1, <1>2 DEF PostFor

\* A step that leaves the transactions alone leaves what is posted alone.
LEMMA NothingRecorded ==
    ASSUME UNCHANGED transactions
    PROVE  \A k : Posted(k)' <=> Posted(k)
BY DEF Posted

-----------------------------------------------------------------------------
(* The inductive invariant *)

Origin(i) == InspectionForm[i].receipt

ReceiptOK(r) == receipt[r].status \notin {"NONE", "DRAFT"} => Posted(r)

\* An inspection exists only of posted goods; what it decided is posted, is
\* recorded as damage when it is, and was decided by somebody else.
InspectionOK(i) ==
    LET x == inspection[i] IN
    /\ Posted(i) => x.status # "NONE"
    /\ x.status # "NONE" => x.inspectorId # None /\ Posted(Origin(i))
    /\ x.status \in Results => /\ Moves(i) => Posted(i)
                               /\ x.approverId \notin {None, x.inspectorId}
    /\ damageRecords[i] > 0 <=> x.status \in Results /\ InspectionForm[i].failed > 0

CallOK(c) ==
    LET d == call[c] IN
    /\ d.at \in {"create.commit", "receive.post", "receive.mark"} => d.doc \in Receipts
    /\ d.at = "receive.mark" => Posted(d.doc)
    /\ d.at = "inspect.insert" =>
          d.doc \in Inspections /\ d.by # None /\ Posted(Origin(d.doc))
    /\ d.at \in {"complete.post", "complete.mark"} =>
          /\ d.doc \in Inspections /\ inspection[d.doc].status # "NONE"
          /\ d.by \notin {None, inspection[d.doc].inspectorId}
    /\ d.at = "complete.mark" => (Moves(d.doc) => Posted(d.doc))

ReceivingInv ==
    /\ TypeOK
    /\ \A r \in Receipts : ReceiptOK(r)
    /\ \A i \in Inspections : InspectionOK(i)
    /\ \A c \in Calls : CallOK(c)

\* No step takes back what a status or a call relies on.
Grows ==
    /\ \A k : Posted(k) => Posted(k)'
    /\ \A i \in Inspections : inspection[i].status # "NONE" =>
          /\ inspection'[i].status # "NONE"
          /\ inspection'[i].inspectorId = inspection[i].inspectorId

StepOK(c) ==
    /\ TypeOK'
    /\ Grows
    /\ \A r \in Receipts : ReceiptOK(r)'
    /\ \A i \in Inspections : InspectionOK(i)'
    /\ CallOK(c)'
    /\ \A d \in Calls : d # c => call'[d] = call[d]

-----------------------------------------------------------------------------
LEMMA FormFacts ==
    /\ \A i \in Inspections : Origin(i) \in Receipts
    /\ Receipts \cap Inspections = {}
    /\ None \notin Users \cup Receipts \cup Inspections
BY ReceivingAssumption DEF Origin

LEMMA StepKeepsInv ==
    ASSUME ReceivingInv, NEW c \in Calls, StepOK(c)
    PROVE  ReceivingInv'
<1>1. ASSUME NEW d \in Calls, d # c PROVE CallOK(d)'
  <2>1. CallOK(d) /\ call'[d] = call[d] /\ Grows
    BY <1>1 DEF StepOK, ReceivingInv
  <2> QED
    BY <2>1 DEF CallOK, Grows
<1> QED
  BY <1>1 DEF StepOK, ReceivingInv

\* A step that writes no document and not the ledger.
LEMMA NothingWritten ==
    ASSUME ReceivingInv, UNCHANGED <<ledgerVars, documents>>,
           call' \in [Calls -> CallRecords]
    PROVE  /\ TypeOK' /\ Grows
           /\ \A r \in Receipts : ReceiptOK(r)'
           /\ \A i \in Inspections : InspectionOK(i)'
<1>0. UNCHANGED <<transactions, receipt, inspection, damageRecords>>
  BY DEF ledgerVars, documents
<1>1. \A k : Posted(k)' <=> Posted(k)
  BY <1>0, NothingRecorded
<1>2. TypeOK'
  BY <1>0 DEF ReceivingInv, TypeOK
<1>3. Grows
  BY <1>0, <1>1 DEF Grows
<1>4. \A r \in Receipts : ReceiptOK(r)'
  BY <1>0, <1>1 DEF ReceivingInv, ReceiptOK
<1>5. \A i \in Inspections : InspectionOK(i)'
  BY <1>0, <1>1 DEF ReceivingInv, InspectionOK
<1> QED
  BY <1>2, <1>3, <1>4, <1>5

\* A posting, for a receipt or for an inspection that exists.
LEMMA PostingKeeps ==
    ASSUME ReceivingInv, NEW k, NEW e, PostFor(k, e),
           \/ k \in Receipts
           \/ k \in Inspections /\ inspection[k].status # "NONE",
           UNCHANGED documents, call' \in [Calls -> CallRecords]
    PROVE  /\ TypeOK' /\ Grows /\ Posted(k)'
           /\ \A r \in Receipts : ReceiptOK(r)'
           /\ \A i \in Inspections : InspectionOK(i)'
<1>0. UNCHANGED <<receipt, inspection, damageRecords>>
  BY DEF documents
<1>1. \A j : Posted(j)' <=> Posted(j) \/ j = k
  BY PostForRecords
<1>2. TypeOK'
  BY <1>0 DEF ReceivingInv, TypeOK
<1>3. Grows
  BY <1>0, <1>1 DEF Grows
<1>4. \A r \in Receipts : ReceiptOK(r)'
  BY <1>0, <1>1 DEF ReceivingInv, ReceiptOK
<1>5. ASSUME NEW i \in Inspections
      PROVE  InspectionOK(i)'
  <2>1. InspectionOK(i) /\ (k = i => inspection[i].status # "NONE")
    BY FormFacts DEF ReceivingInv
  <2> QED
    BY <1>0, <1>1, <2>1 DEF InspectionOK
<1> QED
  BY <1>1, <1>2, <1>3, <1>4, <1>5

\* A step that moves one receipt to a status its postings allow.
LEMMA ReceiptWritten ==
    ASSUME ReceivingInv, NEW r \in Receipts, NEW s \in ReceiptStatuses,
           receipt' = [receipt EXCEPT ![r].status = s],
           s \in {"NONE", "DRAFT"} \/ Posted(r), UNCHANGED ledgerVars
    PROVE  /\ receipt' \in [Receipts -> ReceiptRecords]
           /\ \A k : Posted(k)' <=> Posted(k)
           /\ \A q \in Receipts : ReceiptOK(q)'
<1>1. \A k : Posted(k)' <=> Posted(k)
  BY NothingRecorded DEF ledgerVars
<1> DEFINE new == [receipt[r] EXCEPT !.status = s]
<1>2. new \in ReceiptRecords /\ new.status = s
  BY DEF ReceivingInv, TypeOK, ReceiptRecords
<1>3. receipt' = [receipt EXCEPT ![r] = new]
  BY DEF ReceivingInv, TypeOK
<1> HIDE DEF new
<1>4. /\ receipt' \in [Receipts -> ReceiptRecords] /\ receipt'[r] = new
      /\ \A q \in Receipts : q # r => receipt'[q] = receipt[q]
  BY <1>2, <1>3 DEF ReceivingInv, TypeOK
<1>5. ASSUME NEW q \in Receipts
      PROVE  ReceiptOK(q)'
  <2>1. CASE q = r
    BY <1>1, <1>2, <1>4, <2>1 DEF ReceiptOK
  <2>2. CASE q # r
    BY <1>1, <1>4, <2>2 DEF ReceiptOK, ReceivingInv
  <2> QED
    BY <2>1, <2>2
<1> QED
  BY <1>1, <1>4, <1>5

-----------------------------------------------------------------------------
(* Calls *)

LEMMA StepType ==
    ASSUME NEW at \in Steps, NEW doc \in Receipts \cup Inspections, NEW by \in Users \cup {None}
    PROVE  /\ Step(at, doc, by) \in CallRecords
           /\ Step(at, doc, by).at = at
           /\ Step(at, doc, by).doc = doc
           /\ Step(at, doc, by).by = by
BY DEF Step, CallRecords

LEMMA IdleType == Idle \in CallRecords /\ Idle.at = "idle"
BY DEF Idle, Step, Steps, CallRecords

LEMMA StartType ==
    ASSUME TypeOK, NEW c \in Calls, NEW step \in CallRecords, Start(c, step)
    PROVE  /\ call' \in [Calls -> CallRecords]
           /\ call'[c] = step
           /\ \A d \in Calls : d # c => call'[d] = call[d]
BY DEF Start, TypeOK

LEMMA FinishType ==
    ASSUME TypeOK, NEW c \in Calls, Finish(c)
    PROVE  /\ call' \in [Calls -> CallRecords]
           /\ CallOK(c)'
           /\ \A d \in Calls : d # c => call'[d] = call[d]
<1>1. /\ call' \in [Calls -> CallRecords] /\ call'[c].at = "idle"
      /\ \A d \in Calls : d # c => call'[d] = call[d]
  BY IdleType DEF Finish, TypeOK
<1> QED
  BY <1>1 DEF CallOK

LEMMA GotoType ==
    ASSUME TypeOK, NEW c \in Calls, NEW at \in Steps, Goto(c, at)
    PROVE  /\ call' \in [Calls -> CallRecords]
           /\ call'[c].at = at /\ call'[c].doc = call[c].doc /\ call'[c].by = call[c].by
           /\ \A d \in Calls : d # c => call'[d] = call[d]
<1>1. [call[c] EXCEPT !.at = at] \in CallRecords
  BY DEF TypeOK, CallRecords
<1>2. call' = [call EXCEPT ![c] = [call[c] EXCEPT !.at = at]]
  BY DEF Goto
<1>3. call'[c] = [call[c] EXCEPT !.at = at]
  BY <1>2 DEF TypeOK
<1> QED
  BY <1>1, <1>2, <1>3 DEF TypeOK, CallRecords

\* The first step of a command reads what it needs and remembers it.
LEMMA StartOK ==
    ASSUME ReceivingInv, NEW c \in Calls, NEW step \in CallRecords, Start(c, step),
           UNCHANGED <<ledgerVars, documents>>,
           call'[c] = step /\ Grows => CallOK(c)'
    PROVE  ReceivingInv'
<1>1. /\ call' \in [Calls -> CallRecords] /\ call'[c] = step
      /\ \A d \in Calls : d # c => call'[d] = call[d]
  BY StartType DEF ReceivingInv
<1>2. /\ TypeOK' /\ Grows
      /\ \A r \in Receipts : ReceiptOK(r)'
      /\ \A i \in Inspections : InspectionOK(i)'
  BY <1>1, NothingWritten
<1>3. StepOK(c)
  BY <1>1, <1>2 DEF StepOK
<1> QED
  BY <1>3, StepKeepsInv

-----------------------------------------------------------------------------
(* The actions *)

LEMMA ReceiptReads ==
    ASSUME ReceivingInv, NEW c \in Calls, NEW r \in Receipts,
           CreateReceipt(c, r) \/ Receive(c, r)
    PROVE  ReceivingInv'
<1>1. CASE CreateReceipt(c, r)
  <2> DEFINE step == [Step("create.commit", r, None) EXCEPT !.seen = Rivals(r)]
  <2>1. Rivals(r) \subseteq Receipts
    BY DEF Rivals, Prior, Written
  <2>2. step \in CallRecords /\ step.at = "create.commit" /\ step.doc = r
    BY <2>1 DEF Step, Steps, CallRecords
  <2>3. Start(c, step) /\ UNCHANGED <<ledgerVars, documents>>
    BY <1>1 DEF CreateReceipt
  <2> HIDE DEF step
  <2>4. call'[c] = step => CallOK(c)'
    BY <2>2 DEF CallOK
  <2> QED
    BY <2>2, <2>3, <2>4, StartOK
<1>2. CASE Receive(c, r)
  <2> DEFINE step == Step("receive.post", r, None)
  <2>1. step \in CallRecords /\ step.at = "receive.post" /\ step.doc = r
    BY StepType DEF Steps
  <2>2. Start(c, step) /\ UNCHANGED <<ledgerVars, documents>>
    BY <1>2 DEF Receive
  <2> HIDE DEF step
  <2>3. call'[c] = step => CallOK(c)'
    BY <2>1 DEF CallOK
  <2> QED
    BY <2>1, <2>2, <2>3, StartOK
<1> QED
  BY <1>1, <1>2

LEMMA InspectionReads ==
    ASSUME ReceivingInv, NEW c \in Calls, NEW i \in Inspections, NEW u \in Users,
           CreateInspection(c, i, u) \/ CompleteInspection(c, i, u)
    PROVE  ReceivingInv'
<1>0. u # None /\ InspectionOK(i) /\ ReceiptOK(Origin(i))
  BY FormFacts DEF ReceivingInv
<1>1. CASE CreateInspection(c, i, u)
  <2> DEFINE step == Step("inspect.insert", i, u)
  <2>1. step \in CallRecords /\ step.at = "inspect.insert" /\ step.doc = i /\ step.by = u
    BY StepType DEF Steps
  <2>2. Start(c, step) /\ UNCHANGED <<ledgerVars, documents>>
    BY <1>1 DEF CreateInspection
  <2> HIDE DEF step
  <2>3. Posted(Origin(i))
    BY <1>0, <1>1 DEF CreateInspection, ReceiptOK, Origin
  <2>4. Posted(Origin(i))'
    BY <2>2, <2>3 DEF Posted, ledgerVars
  <2>5. call'[c] = step => CallOK(c)'
    BY <1>0, <2>1, <2>4 DEF CallOK
  <2> QED
    BY <2>1, <2>2, <2>5, StartOK
<1>2. CASE CompleteInspection(c, i, u)
  <2>1. PICK at \in {"complete.post", "complete.mark"} :
           /\ Start(c, Step(at, i, u)) /\ UNCHANGED <<ledgerVars, documents>>
           /\ at = "complete.mark" => ~Moves(i)
    <3>1. CASE Moves(i)
      BY <1>2, <3>1 DEF CompleteInspection
    <3>2. CASE ~Moves(i)
      BY <1>2, <3>2 DEF CompleteInspection
    <3> QED
      BY <3>1, <3>2
  <2> DEFINE step == Step(at, i, u)
  <2>2. step \in CallRecords /\ step.at = at /\ step.doc = i /\ step.by = u
    BY StepType DEF Steps
  <2>3. Start(c, step)
    BY <2>1
  <2> HIDE DEF step
  <2>4. inspection'[i].status # "NONE" /\ u # inspection'[i].inspectorId
    BY <1>2, <2>1 DEF CompleteInspection, documents
  <2>5. call'[c] = step => CallOK(c)'
    BY <1>0, <2>1, <2>2, <2>4 DEF CallOK
  <2> QED
    BY <2>1, <2>2, <2>3, <2>5, StartOK
<1> QED
  BY <1>1, <1>2

LEMMA PostingSteps ==
    ASSUME ReceivingInv, NEW c \in Calls, PostReceipt(c) \/ PostInspection(c)
    PROVE  ReceivingInv'
<1> SUFFICES ASSUME NEW k, k = call[c].doc
             PROVE  ReceivingInv'
  OBVIOUS
<1>0. CallOK(c) /\ TypeOK
  BY DEF ReceivingInv
<1>1. CASE PostReceipt(c)
  <2>1. /\ call' \in [Calls -> CallRecords]
        /\ call'[c].at = "receive.mark" /\ call'[c].doc = k
        /\ \A d \in Calls : d # c => call'[d] = call[d]
    BY <1>0, <1>1, GotoType DEF PostReceipt, Steps
  <2>2. k \in Receipts /\ PostFor(k, HoldEffect(k)) /\ UNCHANGED documents
    BY <1>0, <1>1 DEF PostReceipt, CallOK
  <2>3. /\ TypeOK' /\ Grows /\ Posted(k)'
        /\ \A r \in Receipts : ReceiptOK(r)'
        /\ \A i \in Inspections : InspectionOK(i)'
    BY <2>1, <2>2, PostingKeeps
  <2>4. CallOK(c)'
    BY <2>1, <2>2, <2>3 DEF CallOK
  <2> QED
    BY <2>1, <2>3, <2>4, StepKeepsInv DEF StepOK
<1>2. CASE PostInspection(c)
  <2>1. /\ call' \in [Calls -> CallRecords]
        /\ call'[c].at = "complete.mark" /\ call'[c].doc = k /\ call'[c].by = call[c].by
        /\ \A d \in Calls : d # c => call'[d] = call[d]
    BY <1>0, <1>2, GotoType DEF PostInspection, Steps
  <2>2. /\ k \in Inspections /\ inspection[k].status # "NONE"
        /\ call[c].by \notin {None, inspection[k].inspectorId}
        /\ PostFor(k, ReleaseEffect(k)) /\ UNCHANGED documents
    BY <1>0, <1>2 DEF PostInspection, CallOK
  <2>3. /\ TypeOK' /\ Grows /\ Posted(k)'
        /\ \A r \in Receipts : ReceiptOK(r)'
        /\ \A i \in Inspections : InspectionOK(i)'
    BY <2>1, <2>2, PostingKeeps
  <2>4. CallOK(c)'
    BY <2>1, <2>2, <2>3 DEF CallOK, Grows
  <2> QED
    BY <2>1, <2>3, <2>4, StepKeepsInv DEF StepOK
<1> QED
  BY <1>1, <1>2

\* The steps that write a receipt alone.
LEMMA ReceiptMarks ==
    ASSUME ReceivingInv, NEW c \in Calls, CommitReceipt(c) \/ MarkReceived(c)
    PROVE  ReceivingInv'
<1> SUFFICES ASSUME NEW r, r = call[c].doc
             PROVE  ReceivingInv'
  OBVIOUS
<1>0. CallOK(c) /\ TypeOK
  BY DEF ReceivingInv
<1>1. PICK s \in {"DRAFT", "RECEIVED"} :
         /\ receipt' = [receipt EXCEPT ![r].status = s]
         /\ r \in Receipts /\ (s = "DRAFT" \/ Posted(r))
         /\ Finish(c) /\ UNCHANGED <<ledgerVars, inspection, damageRecords>>
  BY <1>0 DEF CommitReceipt, MarkReceived, CallOK
<1>2. /\ receipt' \in [Receipts -> ReceiptRecords]
      /\ \A k : Posted(k)' <=> Posted(k)
      /\ \A q \in Receipts : ReceiptOK(q)'
  BY <1>1, ReceiptWritten DEF ReceiptStatuses
<1>3. /\ call' \in [Calls -> CallRecords] /\ CallOK(c)'
      /\ \A d \in Calls : d # c => call'[d] = call[d]
  BY <1>0, <1>1, FinishType
<1>4. TypeOK' /\ Grows
  BY <1>0, <1>1, <1>2, <1>3 DEF TypeOK, Grows
<1>5. \A i \in Inspections : InspectionOK(i)'
  BY <1>1, <1>2 DEF ReceivingInv, InspectionOK
<1> QED
  BY <1>2, <1>3, <1>4, <1>5, StepKeepsInv DEF StepOK

\* The transactions that write an inspection and its receipt.
LEMMA InspectionWritten ==
    ASSUME ReceivingInv, NEW c \in Calls, NEW i \in Inspections,
           NEW new \in InspectionRecords, NEW s \in ReceiptStatuses, NEW n \in Nat,
           inspection' = [inspection EXCEPT ![i] = new],
           receipt' = [receipt EXCEPT ![Origin(i)].status = s],
           damageRecords' = [damageRecords EXCEPT ![i] = n],
           Posted(Origin(i)), Finish(c), UNCHANGED ledgerVars,
           new.status # "NONE", new.inspectorId # None,
           inspection[i].status # "NONE" => new.inspectorId = inspection[i].inspectorId,
           new.status \in Results => /\ Moves(i) => Posted(i)
                                     /\ new.approverId \notin {None, new.inspectorId},
           n > 0 <=> new.status \in Results /\ InspectionForm[i].failed > 0
    PROVE  ReceivingInv'
<1>1. Origin(i) \in Receipts /\ TypeOK
  BY FormFacts DEF ReceivingInv
<1>2. /\ receipt' \in [Receipts -> ReceiptRecords]
      /\ \A k : Posted(k)' <=> Posted(k)
      /\ \A q \in Receipts : ReceiptOK(q)'
  BY <1>1, ReceiptWritten
<1>3. /\ call' \in [Calls -> CallRecords] /\ CallOK(c)'
      /\ \A d \in Calls : d # c => call'[d] = call[d]
  BY <1>1, FinishType
<1>4. /\ inspection' \in [Inspections -> InspectionRecords] /\ inspection'[i] = new
      /\ damageRecords' \in [Inspections -> Nat] /\ damageRecords'[i] = n
      /\ \A j \in Inspections : j # i => /\ inspection'[j] = inspection[j]
                                         /\ damageRecords'[j] = damageRecords[j]
  BY <1>1 DEF TypeOK
<1>5. TypeOK' /\ Grows
  BY <1>2, <1>3, <1>4 DEF TypeOK, Grows
<1>6. ASSUME NEW j \in Inspections
      PROVE  InspectionOK(j)'
  <2>1. CASE j = i
    BY <1>2, <1>4, <2>1 DEF InspectionOK
  <2>2. CASE j # i
    BY <1>2, <1>4, <2>2 DEF InspectionOK, ReceivingInv
  <2> QED
    BY <2>1, <2>2
<1> QED
  BY <1>2, <1>3, <1>5, <1>6, StepKeepsInv DEF StepOK

LEMMA InspectionMarks ==
    ASSUME ReceivingInv, NEW c \in Calls, InsertInspection(c) \/ MarkCompleted(c)
    PROVE  ReceivingInv'
<1> SUFFICES ASSUME NEW i, i = call[c].doc
             PROVE  ReceivingInv'
  OBVIOUS
<1>0. CallOK(c) /\ TypeOK /\ i \in Inspections /\ call[c].by \in Users \cup {None}
  BY DEF ReceivingInv, CallOK, InsertInspection, MarkCompleted, TypeOK, CallRecords
<1>1. inspection[i] \in InspectionRecords /\ damageRecords[i] \in Nat /\ InspectionOK(i)
  BY <1>0 DEF ReceivingInv, TypeOK
<1>2. CASE InsertInspection(c)
  <2> DEFINE new == [inspection[i] EXCEPT !.status = "IN_PROGRESS", !.inspectorId = call[c].by]
  <2>1. /\ new \in InspectionRecords /\ new.status = "IN_PROGRESS"
        /\ new.inspectorId = call[c].by
    BY <1>0, <1>1 DEF InspectionRecords
  <2>2. inspection' = [inspection EXCEPT ![i] = new]
    BY <1>0, <1>2 DEF InsertInspection, TypeOK
  <2>3. damageRecords' = [damageRecords EXCEPT ![i] = damageRecords[i]]
    BY <1>0, <1>2 DEF InsertInspection, TypeOK
  <2> HIDE DEF new
  <2>4. /\ receipt' = [receipt EXCEPT ![Origin(i)].status = "UNDER_INSPECTION"]
        /\ Finish(c) /\ UNCHANGED ledgerVars /\ inspection[i].status = "NONE"
        /\ Posted(Origin(i)) /\ new.inspectorId # None
    BY <1>0, <1>2, <2>1 DEF InsertInspection, Origin, CallOK
  <2>5. ~(damageRecords[i] > 0) /\ new.status \notin Results
    BY <1>1, <2>1, <2>4 DEF InspectionOK, Results
  <2> QED
    BY <1>0, <1>1, <2>1, <2>2, <2>3, <2>4, <2>5, InspectionWritten DEF ReceiptStatuses
<1>3. CASE MarkCompleted(c)
  <2> DEFINE new == [inspection[i] EXCEPT !.status = Result(i), !.approverId = call[c].by]
             n == damageRecords[i] + IF InspectionForm[i].failed > 0 THEN 1 ELSE 0
  <2>1. Result(i) \in Results /\ ReceiptResult[Result(i)] \in ReceiptStatuses
    BY DEF Result, Results, ReceiptResult, ReceiptStatuses
  <2>2. /\ new \in InspectionRecords /\ new.status = Result(i)
        /\ new.approverId = call[c].by /\ new.inspectorId = inspection[i].inspectorId
    BY <1>0, <1>1, <2>1 DEF InspectionRecords
  <2>3. n \in Nat /\ (n > 0 <=> InspectionForm[i].failed > 0)
    BY <1>1, <2>1 DEF InspectionOK
  <2>4. inspection' = [inspection EXCEPT ![i] = new]
    BY <1>0, <1>3 DEF MarkCompleted, TypeOK
  <2>5. damageRecords' = [damageRecords EXCEPT ![i] = n]
    BY <1>0, <1>3 DEF MarkCompleted, TypeOK
  <2> HIDE DEF new, n
  <2>6. /\ receipt' = [receipt EXCEPT ![Origin(i)].status = ReceiptResult[Result(i)]]
        /\ Finish(c) /\ UNCHANGED ledgerVars /\ inspection[i].status # "NONE"
        /\ call[c].by \notin {None, inspection[i].inspectorId}
        /\ Moves(i) => Posted(i)
    BY <1>0, <1>3 DEF MarkCompleted, Origin, CallOK
  <2>7. Posted(Origin(i)) /\ inspection[i].inspectorId # None /\ new.status # "NONE"
    BY <1>1, <2>1, <2>2, <2>6 DEF InspectionOK, Results
  <2> QED
    BY <1>0, <2>1, <2>2, <2>3, <2>4, <2>5, <2>6, <2>7, InspectionWritten
<1> QED
  BY <1>2, <1>3

LEMMA FailKeepsInv ==
    ASSUME ReceivingInv, NEW c \in Calls, Fail(c)
    PROVE  ReceivingInv'
<1>1. /\ call' \in [Calls -> CallRecords] /\ CallOK(c)'
      /\ \A d \in Calls : d # c => call'[d] = call[d]
  BY FinishType DEF Fail, ReceivingInv
<1>2. /\ TypeOK' /\ Grows
      /\ \A r \in Receipts : ReceiptOK(r)'
      /\ \A i \in Inspections : InspectionOK(i)'
  BY <1>1, NothingWritten DEF Fail
<1> QED
  BY <1>1, <1>2, StepKeepsInv DEF StepOK

-----------------------------------------------------------------------------
LEMMA InitInv == Init => ReceivingInv
<1> SUFFICES ASSUME Init
             PROVE  ReceivingInv
  OBVIOUS
<1>1. TypeOK
  BY IdleType DEF Init, TypeOK, ReceiptRecords, ReceiptStatuses, InspectionRecords
<1>2. \A k : ~Posted(k)
  BY DEF Init, Posted
<1>3. \A r \in Receipts : ReceiptOK(r)
  BY DEF Init, ReceiptOK
<1>4. \A i \in Inspections : InspectionOK(i)
  BY <1>2 DEF Init, InspectionOK, Results
<1>5. \A c \in Calls : CallOK(c)
  BY IdleType DEF Init, CallOK
<1> QED
  BY <1>1, <1>3, <1>4, <1>5 DEF ReceivingInv

\* At every moment each status has what it rests on, and every call in
\* progress what its next step relies on.
THEOREM ReceivingInvariant == Spec => []ReceivingInv
<1>1. ASSUME ReceivingInv, Next
      PROVE  ReceivingInv'
  BY <1>1, ReceiptReads, InspectionReads, PostingSteps, ReceiptMarks, InspectionMarks,
     FailKeepsInv DEF Next
<1>2. ASSUME ReceivingInv, UNCHANGED vars
      PROVE  ReceivingInv'
  <2>1. /\ call' \in [Calls -> CallRecords] /\ UNCHANGED <<ledgerVars, documents>>
        /\ call' = call
    BY <1>2 DEF vars, ledgerVars, documents, ReceivingInv, TypeOK
  <2>2. /\ TypeOK' /\ Grows
        /\ \A r \in Receipts : ReceiptOK(r)'
        /\ \A i \in Inspections : InspectionOK(i)'
    BY <1>2, <2>1, NothingWritten
  <2>3. \A c \in Calls : CallOK(c)'
    BY <1>2, <2>1, <2>2 DEF ReceivingInv, CallOK, Grows
  <2> QED
    BY <2>2, <2>3 DEF ReceivingInv
<1> QED
  BY <1>1, <1>2, InitInv, PTL DEF Spec

\* The variables keep their types.
THEOREM ReceivingTypes == Spec => []TypeOK
<1>1. ReceivingInv => TypeOK
  BY DEF ReceivingInv
<1> QED
  BY <1>1, ReceivingInvariant, PTL

\* No receipt and no inspection says what the ledger does not hold, whatever
\* receives and completions race, repeat or stop half-way.
THEOREM ReceivingStatusBacked == Spec => []StatusBackedByLedger
<1>1. ReceivingInv => StatusBackedByLedger
  BY DEF ReceivingInv, ReceiptOK, InspectionOK, StatusBackedByLedger
<1> QED
  BY <1>1, ReceivingInvariant, PTL

\* Goods leave the hold only by an inspection, which somebody other than its
\* inspector completes, even when two complete it at once.
THEOREM ReceivingReleased == Spec => []ReleasedByAnother
<1>1. ReceivingInv => ReleasedByAnother
  BY DEF ReceivingInv, InspectionOK, ReleasedByAnother
<1> QED
  BY <1>1, ReceivingInvariant, PTL

-----------------------------------------------------------------------------
(* What is on hold *)

Done(r) == {i \in Inspections : InspectionForm[i].receipt = r /\ Posted(i)}

Passed(r) == SumFunction([i \in Done(r) |-> InspectionForm[i].passed])

Failed(r) == SumFunction([i \in Done(r) |-> InspectionForm[i].failed])

Received(r) == IF Posted(r) THEN ReceiptForm[r].quantity ELSE 0

\* HeldUntilReleased of one balance row.
RowOK(r) ==
    /\ balance[r] \in Quantities
    /\ balance[r]["available"] = Passed(r)
    /\ balance[r]["damaged"] = Failed(r)
    /\ balance[r]["qualityHold"] = Received(r) - Passed(r) - Failed(r)

LEMMA FormQuantities ==
    /\ \A r \in Receipts : ReceiptForm[r].quantity \in Int
    /\ \A i \in Inspections : InspectionForm[i].passed \in Int /\ InspectionForm[i].failed \in Int
BY ReceivingAssumption

LEMMA DoneSummable ==
    ASSUME NEW D \in SUBSET Inspections
    PROVE  /\ Summable([i \in D |-> InspectionForm[i].passed])
           /\ Summable([i \in D |-> InspectionForm[i].failed])
<1>1. IsFiniteSet(D)
  BY FiniteAssumption, FS_Subset
<1> QED
  BY <1>1, FormQuantities DEF Summable

LEMMA RowTypes ==
    ASSUME NEW r \in Receipts
    PROVE  Received(r) \in Int /\ Passed(r) \in Int /\ Failed(r) \in Int
<1>1. Done(r) \in SUBSET Inspections
  BY DEF Done
<1> QED
  BY <1>1, DoneSummable, FunctionSumInt, FormQuantities DEF Received, Passed, Failed

\* The effects move their own row alone.
LEMMA EffectRows ==
    /\ \A r, p \in Receipts :
          LET x == HoldEffect(r)[p] IN
          /\ x \in Quantities /\ x["available"] = 0 /\ x["damaged"] = 0
          /\ x["qualityHold"] = IF p = r THEN ReceiptForm[r].quantity ELSE 0
    /\ \A i \in Inspections, p \in Receipts :
          LET x == ReleaseEffect(i)[p]
              f == InspectionForm[i]
          IN  /\ x \in Quantities
              /\ x["available"] = IF p = Origin(i) THEN f.passed ELSE 0
              /\ x["damaged"] = IF p = Origin(i) THEN f.failed ELSE 0
              /\ x["qualityHold"] = IF p = Origin(i) THEN -(f.passed + f.failed) ELSE 0
<1>1. BalanceKeys = Receipts
  BY ReceivingAssumption
<1>2. \A r, p \in Receipts : \A d :
         At(NoEffect, r, d)[p] = IF p = r THEN Plus(Zero, Delta(d)) ELSE Zero
  BY <1>1 DEF At, NoEffect
<1>3. ASSUME NEW r \in Receipts, NEW p \in Receipts
      PROVE  LET x == HoldEffect(r)[p] IN
             /\ x \in Quantities /\ x["available"] = 0 /\ x["damaged"] = 0
             /\ x["qualityHold"] = IF p = r THEN ReceiptForm[r].quantity ELSE 0
  <2>1. PICK n \in Int : n = ReceiptForm[r].quantity
    BY FormQuantities
  <2>2. PICK d : d = [onHand |-> n, qualityHold |-> n]
    OBVIOUS
  <2>3. HoldEffect(r)[p] = IF p = r THEN Plus(Zero, Delta(d)) ELSE Zero
    BY <1>2, <2>1, <2>2 DEF HoldEffect
  <2>4. PICK y : y = Plus(Zero, Delta(d))
    OBVIOUS
  <2>5. /\ y \in Quantities /\ y["available"] = 0 /\ y["damaged"] = 0
        /\ y["qualityHold"] = n
    BY <2>2, <2>4 DEF Plus, Zero, Delta, Quantities, Buckets, ControlledBuckets
  <2>6. Zero \in Quantities /\ \A b \in {"available", "damaged", "qualityHold"} : Zero[b] = 0
    BY DEF Zero, Quantities, Buckets, ControlledBuckets
  <2> QED
    BY <2>1, <2>3, <2>4, <2>5, <2>6
<1>4. ASSUME NEW i \in Inspections, NEW p \in Receipts
      PROVE  LET x == ReleaseEffect(i)[p]
                 f == InspectionForm[i]
             IN  /\ x \in Quantities
                 /\ x["available"] = IF p = Origin(i) THEN f.passed ELSE 0
                 /\ x["damaged"] = IF p = Origin(i) THEN f.failed ELSE 0
                 /\ x["qualityHold"] = IF p = Origin(i) THEN -(f.passed + f.failed) ELSE 0
  <2>1. PICK n \in Int, m \in Int : n = InspectionForm[i].passed /\ m = InspectionForm[i].failed
    BY FormQuantities
  <2>2. PICK d : d = [qualityHold |-> -(n + m), available |-> n, damaged |-> m]
    OBVIOUS
  <2>3. Origin(i) \in Receipts
    BY FormFacts
  <2>4. ReleaseEffect(i)[p] = IF p = Origin(i) THEN Plus(Zero, Delta(d)) ELSE Zero
    BY <1>2, <2>1, <2>2, <2>3 DEF ReleaseEffect, Origin
  <2>5. PICK y : y = Plus(Zero, Delta(d))
    OBVIOUS
  <2>6. /\ y \in Quantities /\ y["available"] = n /\ y["damaged"] = m
        /\ y["qualityHold"] = -(n + m)
    BY <2>2, <2>5 DEF Plus, Zero, Delta, Quantities, Buckets, ControlledBuckets
  <2>7. Zero \in Quantities /\ \A b \in {"available", "damaged", "qualityHold"} : Zero[b] = 0
    BY DEF Zero, Quantities, Buckets, ControlledBuckets
  <2> QED
    BY <2>1, <2>4, <2>5, <2>6, <2>7
<1> QED
  BY <1>3, <1>4

\* A posted effect is added bucket by bucket.
LEMMA RowApplied ==
    ASSUME NEW r \in Receipts, balance[r] \in Quantities, NEW e, e[r] \in Quantities
    PROVE  /\ Applied(e)[r] \in Quantities
           /\ \A b \in {"available", "damaged", "qualityHold"} :
                 Applied(e)[r][b] = balance[r][b] + e[r][b]
<1>1. Applied(e)[r] = Plus(balance[r], e[r])
  BY ReceivingAssumption DEF Applied
<1> QED
  BY <1>1 DEF Plus, Quantities, Buckets, ControlledBuckets

\* A row of which nothing was posted stays as it is.
LEMMA RowStays ==
    ASSUME NEW r \in Receipts, RowOK(r), balance'[r] = balance[r],
           Posted(r)' <=> Posted(r), Done(r)' = Done(r)
    PROVE  RowOK(r)'
BY DEF RowOK, Received, Passed, Failed

LEMMA LedgerStays ==
    ASSUME \A r \in Receipts : RowOK(r), UNCHANGED ledgerVars
    PROVE  \A r \in Receipts : RowOK(r)'
<1>1. \A k : Posted(k)' <=> Posted(k)
  BY NothingRecorded DEF ledgerVars
<1>2. \A r \in Receipts : Done(r)' = Done(r)
  BY <1>1 DEF Done
<1> QED
  BY <1>1, <1>2, RowStays DEF ledgerVars

\* Posting a receipt puts its goods on hold, once.
LEMMA HoldPosting ==
    ASSUME \A r \in Receipts : RowOK(r), NEW k \in Receipts, PostFor(k, HoldEffect(k))
    PROVE  \A r \in Receipts : RowOK(r)'
<1>1. PICK e : e = HoldEffect(k)
  OBVIOUS
<1>2. \A j : Posted(j)' <=> Posted(j) \/ j = k
  BY PostForRecords
<1>3. \A r \in Receipts : Done(r)' = Done(r)
  BY <1>2, FormFacts DEF Done
<1>4. CASE ~Posted(k) /\ balance' = Applied(e)
  <2> SUFFICES ASSUME NEW r \in Receipts PROVE RowOK(r)'
    OBVIOUS
  <2>1. /\ e[r] \in Quantities /\ e[r]["available"] = 0 /\ e[r]["damaged"] = 0
        /\ e[r]["qualityHold"] = IF r = k THEN ReceiptForm[k].quantity ELSE 0
    BY <1>1, EffectRows
  <2>2. /\ balance'[r] \in Quantities
        /\ \A b \in {"available", "damaged", "qualityHold"} :
              balance'[r][b] = balance[r][b] + e[r][b]
    BY <1>4, <2>1, RowApplied DEF RowOK
  <2>3. Passed(r)' = Passed(r) /\ Failed(r)' = Failed(r)
    BY <1>3 DEF Passed, Failed
  <2>4. Received(r)' = Received(r) + e[r]["qualityHold"]
    BY <1>2, <1>4, <2>1, FormQuantities DEF Received
  <2>5. Received(r) \in Int /\ Passed(r) \in Int /\ Failed(r) \in Int
        /\ e[r]["qualityHold"] \in Int
    BY <2>1, RowTypes, FormQuantities
  <2>6. /\ balance[r]["available"] = Passed(r) /\ balance[r]["damaged"] = Failed(r)
        /\ balance[r]["qualityHold"] = Received(r) - Passed(r) - Failed(r)
    BY DEF RowOK
  <2>7. /\ balance'[r]["available"] = Passed(r)'
        /\ balance'[r]["damaged"] = Failed(r)'
    BY <2>1, <2>2, <2>3, <2>5, <2>6
  <2>8. balance'[r]["qualityHold"] = Received(r)' - Passed(r)' - Failed(r)'
    <3>1. balance'[r]["qualityHold"] = balance[r]["qualityHold"] + e[r]["qualityHold"]
      BY <2>2
    <3> QED
      BY ONLY <2>3, <2>4, <2>5, <2>6, <3>1
  <2> QED
    BY <2>2, <2>7, <2>8 DEF RowOK
<1>5. UNCHANGED ledgerVars \/ (~Posted(k) /\ balance' = Applied(e))
  BY <1>1 DEF PostFor, Post
<1> QED
  BY <1>4, <1>5, LedgerStays

\* Posting an inspection takes off hold what it decided, once.
LEMMA ReleasePosting ==
    ASSUME \A r \in Receipts : RowOK(r), NEW i \in Inspections, PostFor(i, ReleaseEffect(i))
    PROVE  \A r \in Receipts : RowOK(r)'
<1>1. PICK e : e = ReleaseEffect(i)
  OBVIOUS
<1>2. \A j : Posted(j)' <=> Posted(j) \/ j = i
  BY PostForRecords
<1>3. CASE ~Posted(i) /\ balance' = Applied(e)
  <2> SUFFICES ASSUME NEW r \in Receipts PROVE RowOK(r)'
    OBVIOUS
  <2>0. PICK n \in Int, m \in Int : n = InspectionForm[i].passed /\ m = InspectionForm[i].failed
    BY FormQuantities
  <2>1. /\ e[r] \in Quantities
        /\ e[r]["available"] = IF r = Origin(i) THEN n ELSE 0
        /\ e[r]["damaged"] = IF r = Origin(i) THEN m ELSE 0
        /\ e[r]["qualityHold"] = IF r = Origin(i) THEN -(n + m) ELSE 0
    BY <1>1, <2>0, EffectRows
  <2>2. /\ balance'[r] \in Quantities
        /\ \A b \in {"available", "damaged", "qualityHold"} :
              balance'[r][b] = balance[r][b] + e[r][b]
    BY <1>3, <2>1, RowApplied DEF RowOK
  <2>3. Received(r)' = Received(r)
    BY <1>2, FormFacts DEF Received
  <2>4. Received(r) \in Int /\ Passed(r) \in Int /\ Failed(r) \in Int
    BY RowTypes
  <2>5. /\ balance[r]["available"] = Passed(r) /\ balance[r]["damaged"] = Failed(r)
        /\ balance[r]["qualityHold"] = Received(r) - Passed(r) - Failed(r)
    BY DEF RowOK
  <2>6. CASE r # Origin(i)
    <3>1. Done(r)' = Done(r)
      BY <1>2, <2>6 DEF Done, Origin
    <3>2. Passed(r)' = Passed(r) /\ Failed(r)' = Failed(r)
      BY <3>1 DEF Passed, Failed
    <3>3. /\ balance'[r]["available"] = balance[r]["available"]
          /\ balance'[r]["damaged"] = balance[r]["damaged"]
          /\ balance'[r]["qualityHold"] = balance[r]["qualityHold"]
      BY <2>1, <2>2, <2>4, <2>5, <2>6
    <3> QED
      BY <2>2, <2>3, <2>5, <3>2, <3>3 DEF RowOK
  <2>7. CASE r = Origin(i)
    <3>1. Done(r)' = Done(r) \cup {i} /\ i \notin Done(r) /\ Done(r) \in SUBSET Inspections
      BY <1>2, <1>3, <2>7 DEF Done, Origin
    <3>2. PICK f : f = [j \in Done(r) |-> InspectionForm[j].passed]
      OBVIOUS
    <3>3. PICK g : g = [j \in Done(r)' |-> InspectionForm[j].passed]
      OBVIOUS
    <3>4. PICK v : v = [j \in Done(r) |-> InspectionForm[j].failed]
      OBVIOUS
    <3>5. PICK w : w = [j \in Done(r)' |-> InspectionForm[j].failed]
      OBVIOUS
    <3>6. /\ Summable(f) /\ i \notin DOMAIN f /\ DOMAIN g = DOMAIN f \cup {i}
          /\ g[i] = n /\ g[i] \in Int /\ \A x \in DOMAIN f : g[x] = f[x]
      BY <2>0, <3>1, <3>2, <3>3, DoneSummable
    <3>7. /\ Summable(v) /\ i \notin DOMAIN v /\ DOMAIN w = DOMAIN v \cup {i}
          /\ w[i] = m /\ w[i] \in Int /\ \A x \in DOMAIN v : w[x] = v[x]
      BY <2>0, <3>1, <3>4, <3>5, DoneSummable
    <3>8. SumFunction(g) = SumFunction(f) + n /\ SumFunction(w) = SumFunction(v) + m
      BY ONLY <3>6, <3>7, FunctionSumAdd
    <3>9. Passed(r)' = Passed(r) + n /\ Failed(r)' = Failed(r) + m
      BY <3>2, <3>3, <3>4, <3>5, <3>8 DEF Passed, Failed
    <3>10. /\ balance'[r]["available"] = balance[r]["available"] + n
           /\ balance'[r]["damaged"] = balance[r]["damaged"] + m
           /\ balance'[r]["qualityHold"] = balance[r]["qualityHold"] + -(n + m)
      BY <2>1, <2>2, <2>7
    <3>11. balance'[r]["qualityHold"] = Received(r)' - Passed(r)' - Failed(r)'
      BY ONLY <2>0, <2>3, <2>4, <2>5, <3>9, <3>10
    <3> QED
      BY <2>2, <2>5, <3>9, <3>10, <3>11 DEF RowOK
  <2> QED
    BY <2>6, <2>7
<1>4. UNCHANGED ledgerVars \/ (~Posted(i) /\ balance' = Applied(e))
  BY <1>1 DEF PostFor, Post
<1> QED
  BY <1>3, <1>4, LedgerStays

LEMMA RowsStep ==
    ASSUME ReceivingInv, \A r \in Receipts : RowOK(r), [Next]_vars
    PROVE  \A r \in Receipts : RowOK(r)'
<1>1. ASSUME NEW c \in Calls, PostReceipt(c)
      PROVE  \A r \in Receipts : RowOK(r)'
  <2>1. PICK k : k = call[c].doc
    OBVIOUS
  <2>2. k \in Receipts /\ PostFor(k, HoldEffect(k))
    BY <1>1, <2>1 DEF PostReceipt, ReceivingInv, CallOK
  <2> QED
    BY <2>2, HoldPosting
<1>2. ASSUME NEW c \in Calls, PostInspection(c)
      PROVE  \A r \in Receipts : RowOK(r)'
  <2>1. PICK i : i = call[c].doc
    OBVIOUS
  <2>2. i \in Inspections /\ PostFor(i, ReleaseEffect(i))
    BY <1>2, <2>1 DEF PostInspection, ReceivingInv, CallOK
  <2> QED
    BY <2>2, ReleasePosting
<1>3. CASE UNCHANGED ledgerVars
  BY <1>3, LedgerStays
<1>4. CASE \E c \in Calls, r \in Receipts : CreateReceipt(c, r) \/ Receive(c, r)
  BY <1>3, <1>4 DEF CreateReceipt, Receive
<1>5. CASE \E c \in Calls, i \in Inspections, u \in Users :
              CreateInspection(c, i, u) \/ CompleteInspection(c, i, u)
  BY <1>3, <1>5 DEF CreateInspection, CompleteInspection
<1>6. CASE \E c \in Calls : \/ CommitReceipt(c) \/ MarkReceived(c)
                            \/ InsertInspection(c) \/ MarkCompleted(c) \/ Fail(c)
  BY <1>3, <1>6 DEF CommitReceipt, MarkReceived, InsertInspection, MarkCompleted, Fail
<1>7. CASE UNCHANGED vars
  BY <1>3, <1>7 DEF vars, ledgerVars
<1> QED
  BY <1>1, <1>2, <1>4, <1>5, <1>6, <1>7 DEF Next

\* Received goods stay on hold until an inspection in the ledger releases or
\* damages them, each inspection once, however posts race, repeat or fail.
THEOREM ReceivingHolds == Spec => []HeldUntilReleased
<1>1. ASSUME Init PROVE \A r \in Receipts : RowOK(r)
  <2> SUFFICES ASSUME NEW r \in Receipts PROVE RowOK(r)
    OBVIOUS
  <2>1. balance[r] = Zero /\ ~Posted(r) /\ Done(r) = {}
    BY <1>1, ReceivingAssumption DEF Init, NoEffect, Posted, Done
  <2>2. Received(r) = 0 /\ Passed(r) = 0 /\ Failed(r) = 0
    BY <2>1, FunctionSumEmpty DEF Received, Passed, Failed
  <2> QED
    BY <2>1, <2>2 DEF RowOK, Zero, Quantities, Buckets, ControlledBuckets
<1>2. ReceivingInv /\ (\A r \in Receipts : RowOK(r)) /\ [Next]_vars
        => (\A r \in Receipts : RowOK(r))'
  BY RowsStep
<1>3. (\A r \in Receipts : RowOK(r)) => HeldUntilReleased
  BY DEF HeldUntilReleased, RowOK, Received, Passed, Failed, Done
<1> QED
  BY <1>1, <1>2, <1>3, ReceivingInvariant, PTL DEF Spec

-----------------------------------------------------------------------------
(* What is taken of a source *)

SameSource(p, r) ==
    /\ ReceiptForm[p].item = ReceiptForm[r].item
    /\ ReceiptForm[p].line = ReceiptForm[r].line

\* The receipts that share the source of r.
Group(r) == {p \in Written : SameSource(p, r)}

\* A creation between its sum and its commit has room for what it saw, and
\* what follows it has its receipt.
ClaimOK(c) ==
    LET d == call[c] IN
    /\ d.at = "receive.post" => d.doc \in Written
    /\ d.at = "create.commit" =>
          Taken({p \in d.seen : SameSource(p, d.doc)}) + ReceiptForm[d.doc].quantity <= Source(d.doc)

SourceInv ==
    /\ ReceivedWithinSource
    /\ \A r \in Receipts : Posted(r) => r \in Written
    /\ \A c \in Calls : ClaimOK(c)

LEMMA TakenType ==
    ASSUME NEW S \in SUBSET Receipts
    PROVE  /\ Summable([r \in S |-> ReceiptForm[r].quantity])
           /\ Taken(S) \in Int
           /\ \A T \in SUBSET S : Taken(T) <= Taken(S)
           /\ \A y \in Receipts \ S : Taken(S \cup {y}) = Taken(S) + ReceiptForm[y].quantity
<1>0. \A T \in SUBSET Receipts :
         /\ \A r \in T : ReceiptForm[r].quantity \in Nat /\ ReceiptForm[r].quantity \in Int
         /\ IsFiniteSet(T)
  BY ReceivingAssumption, FiniteAssumption, FS_Subset
<1>1. PICK f : f = [r \in S |-> ReceiptForm[r].quantity]
  OBVIOUS
<1>2. Summable(f) /\ \A r \in DOMAIN f : f[r] \in Nat
  BY <1>0, <1>1 DEF Summable
<1>3. Taken(S) = SumFunction(f)
  BY <1>1 DEF Taken
<1>4. ASSUME NEW T \in SUBSET S
      PROVE  Taken(T) <= Taken(S)
  <2>1. PICK g : g = [r \in T |-> ReceiptForm[r].quantity]
    OBVIOUS
  <2>2. DOMAIN g \subseteq DOMAIN f /\ \A x \in DOMAIN g : g[x] = f[x]
    BY <1>1, <2>1
  <2>3. SumFunction(g) <= SumFunction(f)
    BY ONLY <1>2, <2>2, FunctionSumPart
  <2> QED
    BY <1>3, <2>1, <2>3 DEF Taken
<1>5. ASSUME NEW y \in Receipts \ S
      PROVE  Taken(S \cup {y}) = Taken(S) + ReceiptForm[y].quantity
  <2>1. PICK g : g = [r \in S \cup {y} |-> ReceiptForm[r].quantity]
    OBVIOUS
  <2>2. /\ y \notin DOMAIN f /\ DOMAIN g = DOMAIN f \cup {y}
        /\ g[y] = ReceiptForm[y].quantity /\ g[y] \in Int
        /\ \A x \in DOMAIN f : g[x] = f[x]
    BY <1>0, <1>1, <2>1
  <2>3. SumFunction(g) = SumFunction(f) + g[y]
    BY ONLY <1>2, <2>2, FunctionSumAdd
  <2> QED
    BY <1>3, <2>1, <2>2, <2>3 DEF Taken
<1>6. Taken(S) \in Int
  BY <1>2, <1>3, FunctionSumInt
<1> QED
  BY <1>1, <1>2, <1>4, <1>5, <1>6

LEMMA SourceType ==
    /\ \A r \in Receipts : Source(r) \in Int /\ ReceiptForm[r].quantity \in Int
    /\ \A p, r \in Receipts : SameSource(p, r) => Source(p) = Source(r)
BY ReceivingAssumption DEF Source, SameSource

LEMMA GroupsAndRivals ==
    ASSUME NEW r \in Receipts
    PROVE  /\ Group(r) \in SUBSET Receipts /\ Prior(r) \in SUBSET Receipts
           /\ Group(r) \subseteq Prior(r)
           /\ Group(r) = {p \in Rivals(r) : SameSource(p, r)}
BY DEF Group, Prior, Rivals, SameSource, Written

\* A step that writes no new receipt and leaves the claims alone.
LEMMA NoneWritten ==
    ASSUME SourceInv, Written' = Written, NEW c \in Calls, ClaimOK(c)',
           \A d \in Calls : d # c => call'[d] = call[d],
           \A r \in Receipts : Posted(r)' => Posted(r) \/ r \in Written
    PROVE  SourceInv'
<1>1. ReceivedWithinSource'
  BY DEF SourceInv, ReceivedWithinSource, Taken, Source
<1>2. \A r \in Receipts : Posted(r)' => r \in Written'
  BY DEF SourceInv
<1>3. ASSUME NEW d \in Calls PROVE ClaimOK(d)'
  <2>1. CASE d = c
    BY <2>1
  <2>2. CASE d # c
    <3>1. ClaimOK(d) /\ call'[d] = call[d]
      BY <2>2 DEF SourceInv
    <3> QED
      BY <3>1 DEF ClaimOK, Taken, Source, SameSource
  <2> QED
    BY <2>1, <2>2
<1> QED
  BY <1>1, <1>2, <1>3 DEF SourceInv

\* A step that writes a receipt which is there already.
LEMMA WrittenStays ==
    ASSUME TypeOK, NEW r \in Written, NEW s, s # "NONE",
           receipt' = [receipt EXCEPT ![r].status = s]
    PROVE  Written' = Written
<1>1. ASSUME NEW p \in Receipts
      PROVE  receipt'[p].status # "NONE" <=> receipt[p].status # "NONE"
  <2>1. CASE p = r
    <3>1. receipt'[p].status = s
      BY <2>1 DEF TypeOK, Written, ReceiptRecords
    <3> QED
      BY <2>1, <3>1 DEF Written
  <2>2. CASE p # r
    <3>1. receipt'[p] = receipt[p]
      BY <2>2 DEF TypeOK, Written
    <3> QED
      BY <3>1
  <2> QED
    BY <2>1, <2>2
<1> QED
  BY <1>1 DEF Written

LEMMA CreateClaims ==
    ASSUME ReceivingInv, SourceInv, NEW c \in Calls, NEW r \in Receipts, CreateReceipt(c, r)
    PROVE  SourceInv'
<1>1. PICK step : step = [Step("create.commit", r, None) EXCEPT !.seen = Rivals(r)]
  OBVIOUS
<1>2. Rivals(r) \subseteq Receipts
  BY DEF Rivals, Prior, Written
<1>3. /\ step \in CallRecords /\ step.at = "create.commit" /\ step.doc = r
      /\ step.seen = Rivals(r)
  BY <1>1, <1>2 DEF Step, Steps, CallRecords
<1>4. call'[c] = step /\ \A d \in Calls : d # c => call'[d] = call[d]
  <2>1. Start(c, step) /\ TypeOK
    BY <1>1 DEF CreateReceipt, ReceivingInv
  <2> QED
    BY <1>3, <2>1, StartType
<1>5. Taken(Group(r)) + ReceiptForm[r].quantity <= Source(r)
  <2>1. Taken(Group(r)) <= Taken(Prior(r)) /\ Taken(Group(r)) \in Int /\ Taken(Prior(r)) \in Int
    BY GroupsAndRivals, TakenType
  <2>2. ReceiptForm[r].quantity <= Source(r) - Taken(Prior(r))
    BY DEF CreateReceipt
  <2>3. ReceiptForm[r].quantity \in Int /\ Source(r) \in Int
    BY SourceType
  <2> QED
    BY ONLY <2>1, <2>2, <2>3
<1>6. Taken({p \in step.seen : SameSource(p, r)}) + ReceiptForm[r].quantity <= Source(r)
  <2>1. {p \in step.seen : SameSource(p, r)} = Group(r)
    BY <1>3, GroupsAndRivals
  <2> QED
    BY <1>5, <2>1
<1>7. ClaimOK(c)'
  BY <1>3, <1>4, <1>6 DEF ClaimOK, Taken, Source, SameSource
<1>8. Written' = Written /\ \A k : Posted(k)' <=> Posted(k)
  BY NothingRecorded DEF CreateReceipt, documents, ledgerVars, Written
<1> QED
  BY <1>4, <1>7, <1>8, NoneWritten

LEMMA CommitTakes ==
    ASSUME ReceivingInv, SourceInv, NEW c \in Calls, CommitReceipt(c)
    PROVE  SourceInv'
<1>1. PICK r : r = call[c].doc
  OBVIOUS
<1>2. /\ r \in Receipts /\ TypeOK /\ receipt[r].status = "NONE"
      /\ receipt' = [receipt EXCEPT ![r].status = "DRAFT"]
      /\ Finish(c) /\ UNCHANGED ledgerVars
      /\ Taken({p \in Rivals(r) : SameSource(p, r)}) + ReceiptForm[r].quantity <= Source(r)
  <2>1. call[c].at = "create.commit" /\ call[c].seen = Rivals(r)
    BY <1>1 DEF CommitReceipt
  <2> QED
    BY <1>1, <2>1 DEF CommitReceipt, ReceivingInv, CallOK, SourceInv, ClaimOK
<1>3. Written' = Written \cup {r} /\ r \notin Written
  <2>1. ASSUME NEW p \in Receipts
        PROVE  receipt'[p].status # "NONE" <=> receipt[p].status # "NONE" \/ p = r
    <3>1. CASE p = r
      BY <1>2, <3>1 DEF TypeOK, ReceiptRecords
    <3>2. CASE p # r
      BY <1>2, <3>2 DEF TypeOK
    <3> QED
      BY <3>1, <3>2
  <2> QED
    BY <1>2, <2>1 DEF Written
<1>4. Taken(Group(r) \cup {r}) <= Source(r)
  <2>1. Taken(Group(r)) + ReceiptForm[r].quantity <= Source(r)
    BY <1>2, GroupsAndRivals
  <2>2. r \in Receipts \ Group(r) /\ Group(r) \in SUBSET Receipts
    BY <1>2, <1>3 DEF Group, Written
  <2>3. Taken(Group(r) \cup {r}) = Taken(Group(r)) + ReceiptForm[r].quantity
    BY <2>2, TakenType
  <2> QED
    BY <2>1, <2>3
<1>5. ASSUME NEW w \in Written \cup {r}
      PROVE  Taken({p \in Written \cup {r} : SameSource(p, w)}) <= Source(w)
  <2>1. CASE SameSource(r, w)
    <3>1. {p \in Written \cup {r} : SameSource(p, w)} = Group(r) \cup {r}
      BY <2>1 DEF Group, SameSource
    <3>2. Source(w) = Source(r)
      BY <1>2, <2>1, SourceType DEF Written
    <3> QED
      BY <1>4, <3>1, <3>2
  <2>2. CASE ~SameSource(r, w)
    <3>1. w \in Written
      BY <2>2 DEF SameSource
    <3>2. {p \in Written \cup {r} : SameSource(p, w)} = {p \in Written : SameSource(p, w)}
      BY <2>2
    <3> QED
      BY <3>1, <3>2 DEF SourceInv, ReceivedWithinSource, SameSource
  <2> QED
    BY <2>1, <2>2
<1>6. ReceivedWithinSource'
  BY <1>3, <1>5 DEF ReceivedWithinSource, Taken, Source, SameSource
<1>7. \A k \in Receipts : Posted(k)' => k \in Written'
  BY <1>2, <1>3, NothingRecorded DEF SourceInv, ledgerVars
<1>8. ASSUME NEW d \in Calls PROVE ClaimOK(d)'
  <2>1. CASE d = c
    <3>1. call'[d].at = "idle"
      BY <1>2, <2>1, IdleType DEF Finish, TypeOK
    <3> QED
      BY <3>1 DEF ClaimOK
  <2>2. CASE d # c
    <3>1. ClaimOK(d) /\ call'[d] = call[d]
      BY <1>2, <2>2 DEF SourceInv, Finish, TypeOK
    <3> QED
      BY <1>3, <3>1 DEF ClaimOK, Taken, Source, SameSource
  <2> QED
    BY <2>1, <2>2
<1> QED
  BY <1>6, <1>7, <1>8 DEF SourceInv

\* The steps after a receipt was written.
LEMMA LaterSteps ==
    ASSUME ReceivingInv, SourceInv, NEW c \in Calls,
           \/ PostReceipt(c) \/ MarkReceived(c) \/ InsertInspection(c)
           \/ PostInspection(c) \/ MarkCompleted(c) \/ Fail(c)
    PROVE  SourceInv'
<1>0. TypeOK /\ CallOK(c) /\ ClaimOK(c)
  BY DEF ReceivingInv, SourceInv
<1>1. CASE PostReceipt(c) \/ PostInspection(c)
  <2>1. PICK k : k = call[c].doc
    OBVIOUS
  <2>2. \/ k \in Written
        \/ k \in Inspections
    BY <1>0, <1>1, <2>1 DEF PostReceipt, PostInspection, CallOK, ClaimOK
  <2>3. \A j : Posted(j)' <=> Posted(j) \/ j = k
    BY <1>1, <2>1, PostForRecords DEF PostReceipt, PostInspection
  <2>4. \A r \in Receipts : Posted(r)' => Posted(r) \/ r \in Written
    BY <2>2, <2>3, FormFacts
  <2>5. Written' = Written
    BY <1>1 DEF PostReceipt, PostInspection, documents, Written
  <2>6. PICK at \in {"receive.mark", "complete.mark"} : Goto(c, at)
    BY <1>1 DEF PostReceipt, PostInspection
  <2>7. call'[c].at = at /\ \A d \in Calls : d # c => call'[d] = call[d]
    BY <1>0, <2>6, GotoType DEF Steps
  <2>8. ClaimOK(c)'
    BY <2>7 DEF ClaimOK
  <2> QED
    BY <2>4, <2>5, <2>7, <2>8, NoneWritten
<1>2. CASE MarkReceived(c) \/ InsertInspection(c) \/ MarkCompleted(c) \/ Fail(c)
  <2>1. Finish(c) /\ \A k : Posted(k)' <=> Posted(k)
    BY <1>2, NothingRecorded DEF MarkReceived, InsertInspection, MarkCompleted, Fail, ledgerVars
  <2>2. call'[c].at = "idle" /\ \A d \in Calls : d # c => call'[d] = call[d]
    BY <1>0, <2>1, IdleType DEF Finish, TypeOK
  <2>3. ClaimOK(c)'
    BY <2>2 DEF ClaimOK
  <2>4. CASE Fail(c)
    <3>1. Written' = Written
      BY <2>4 DEF Fail, documents, Written
    <3> QED
      BY <2>1, <2>2, <2>3, <3>1, NoneWritten
  <2>5. CASE ~Fail(c)
    <3>1. PICK r, s : /\ receipt' = [receipt EXCEPT ![r].status = s]
                      /\ s # "NONE" /\ r \in Receipts /\ Posted(r)
      <4>1. CASE MarkReceived(c)
        BY <1>0, <4>1 DEF MarkReceived, CallOK
      <4>2. CASE InsertInspection(c)
        BY <1>0, <4>2, FormFacts DEF InsertInspection, CallOK, Origin
      <4>3. CASE MarkCompleted(c)
        <5>1. PICK i : i = call[c].doc
          OBVIOUS
        <5>2. i \in Inspections /\ Posted(Origin(i)) /\ Origin(i) \in Receipts
          BY <1>0, <4>3, <5>1, FormFacts DEF MarkCompleted, CallOK, ReceivingInv, InspectionOK
        <5>3. receipt' = [receipt EXCEPT ![Origin(i)].status = ReceiptResult[Result(i)]]
          BY <4>3, <5>1 DEF MarkCompleted, Origin
        <5>4. ReceiptResult[Result(i)] # "NONE"
          BY DEF ReceiptResult, Result
        <5> QED
          BY <5>2, <5>3, <5>4
      <4> QED
        BY <1>2, <2>5, <4>1, <4>2, <4>3
    <3>2. r \in Written
      BY <3>1 DEF SourceInv
    <3>3. Written' = Written
      BY <1>0, <3>1, <3>2, WrittenStays
    <3> QED
      BY <2>1, <2>2, <2>3, <3>3, NoneWritten
  <2> QED
    BY <2>4, <2>5
<1> QED
  BY <1>1, <1>2

\* Receive and the commands on inspections start with a read.
LEMMA OtherReads ==
    ASSUME ReceivingInv, SourceInv, NEW c \in Calls, NEW step \in CallRecords, Start(c, step),
           UNCHANGED <<ledgerVars, documents>>, step.at # "create.commit",
           step.at = "receive.post" => step.doc \in Written
    PROVE  SourceInv'
<1>1. call'[c] = step /\ \A d \in Calls : d # c => call'[d] = call[d]
  BY StartType DEF ReceivingInv
<1>2. Written' = Written /\ \A k : Posted(k)' <=> Posted(k)
  BY NothingRecorded DEF documents, ledgerVars, Written
<1>3. ClaimOK(c)'
  BY <1>1, <1>2 DEF ClaimOK
<1> QED
  BY <1>1, <1>2, <1>3, NoneWritten

LEMMA SourceStep ==
    ASSUME ReceivingInv, SourceInv, [Next]_vars
    PROVE  SourceInv'
<1>1. ASSUME NEW c \in Calls, NEW r \in Receipts, Receive(c, r)
      PROVE  SourceInv'
  <2>1. PICK step : step = Step("receive.post", r, None)
    OBVIOUS
  <2>2. step \in CallRecords /\ step.at = "receive.post" /\ step.doc = r
    BY <2>1, StepType DEF Steps
  <2>3. /\ Start(c, step) /\ UNCHANGED <<ledgerVars, documents>>
        /\ r \in Written
    BY <1>1, <2>1 DEF Receive, Written
  <2> QED
    BY <2>2, <2>3, OtherReads
<1>2. ASSUME NEW c \in Calls, NEW i \in Inspections, NEW u \in Users,
             CreateInspection(c, i, u) \/ CompleteInspection(c, i, u)
      PROVE  SourceInv'
  <2>1. PICK at \in {"inspect.insert", "complete.post", "complete.mark"} :
           Start(c, Step(at, i, u)) /\ UNCHANGED <<ledgerVars, documents>>
    BY <1>2 DEF CreateInspection, CompleteInspection
  <2>2. PICK step : step = Step(at, i, u)
    OBVIOUS
  <2>3. step \in CallRecords /\ step.at = at
    BY <2>2, StepType DEF Steps
  <2> QED
    BY <2>1, <2>2, <2>3, OtherReads
<1>3. CASE UNCHANGED vars
  <2>1. /\ Written' = Written /\ call' = call
        /\ \A k : Posted(k)' <=> Posted(k)
    BY <1>3, NothingRecorded DEF vars, Written
  <2>2. \A c \in Calls : ClaimOK(c)'
    BY <2>1 DEF SourceInv, ClaimOK, Taken, Source, SameSource
  <2>3. ReceivedWithinSource'
    BY <2>1 DEF SourceInv, ReceivedWithinSource, Taken, Source
  <2> QED
    BY <2>1, <2>2, <2>3 DEF SourceInv
<1> QED
  BY <1>1, <1>2, <1>3, CreateClaims, CommitTakes, LaterSteps DEF Next

\* However receipts of one source race, what they take together is there:
\* Serializable commits make the sum each of them read still true.
THEOREM ReceivingWithinSource == Spec => []ReceivedWithinSource
<1>1. ASSUME Init PROVE SourceInv
  <2>1. Written = {} /\ \A k : ~Posted(k)
    BY <1>1 DEF Init, Written, Posted
  <2>2. \A c \in Calls : call[c].at = "idle"
    BY <1>1, IdleType DEF Init
  <2> QED
    BY <2>1, <2>2 DEF SourceInv, ReceivedWithinSource, ClaimOK
<1>2. ReceivingInv /\ SourceInv /\ [Next]_vars => SourceInv'
  BY SourceStep
<1>3. SourceInv => ReceivedWithinSource
  BY DEF SourceInv
<1> QED
  BY <1>1, <1>2, <1>3, ReceivingInvariant, PTL DEF Spec
=============================================================================
