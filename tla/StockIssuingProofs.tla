------------------------- MODULE StockIssuingProofs -------------------------
(***************************************************************************)
(* Theorems about StockIssuing, for any documents, users and number of     *)
(* concurrent calls.  The invariants the runs check are not inductive: they *)
(* do not say what a call that is between two of its steps may rely on.    *)
(* CallOK does, and the four parts of IssuingInv together are inductive.   *)
(***************************************************************************)
EXTENDS StockIssuing, FiniteSums, TLAPS

-----------------------------------------------------------------------------
(* What a call of post does to the ledger *)

\* Posting for a key records that key and no other, and loses none.
LEMMA PostForRecords ==
    ASSUME NEW key, NEW e, PostFor(key, e)
    PROVE  \A k : Posted(k)' <=> Posted(k) \/ k = key
<1> DEFINE t == [idempotencyKey |-> key, effect |-> e]
<1>0. t.idempotencyKey = key
  OBVIOUS
<1>1. CASE Post(t)
  <2>1. transactions' = transactions \cup {t}
    BY <1>1 DEF Post
  <2> QED
    BY <1>0, <2>1 DEF Posted
<1>2. CASE t \in transactions /\ UNCHANGED ledgerVars
  BY <1>0, <1>2 DEF ledgerVars, Posted
<1> QED
  BY <1>1, <1>2 DEF PostFor

\* A step that leaves the transactions alone leaves what is posted alone.
LEMMA NothingRecorded ==
    ASSUME UNCHANGED transactions
    PROVE  \A k : Posted(k)' <=> Posted(k)
BY DEF Posted

-----------------------------------------------------------------------------
(* The inductive invariant *)

ApprovedReservation(r) ==
    /\ reservation[r].status # "NONE"
    /\ reservation[r].approvedBy \notin {None, reservation[r].requestedBy}

ApprovedIssue(i) ==
    /\ issue[i].status # "NONE"
    /\ issue[i].approvedBy \notin {None, issue[i].createdBy}

SourceIssued(t) ==
    ReturnForm[t].issue # None => Posted(Key(ReturnForm[t].issue, "issue"))

NothingLeft(r) ==
    \/ Posted(Key(r, "release"))
    \/ reservation[r].issuedQuantity >= ReservationForm[r].quantity

ReservationOK(r) ==
    /\ \/ reservation[r].status \in {"APPROVED", "RESERVED", "RELEASED"}
       \/ Posted(Key(r, "reserve"))
       => ApprovedReservation(r)
    /\ \/ reservation[r].status \in {"RESERVED", "RELEASED"}
       \/ Posted(Key(r, "release"))
       => Posted(Key(r, "reserve"))
    /\ reservation[r].status = "RELEASED" => NothingLeft(r)

IssueOK(i) ==
    /\ issue[i].status \in {"APPROVED", "ISSUED"} \/ Posted(Key(i, "issue"))
       => ApprovedIssue(i)
    /\ issue[i].status = "ISSUED" \/ Posted(Key(i, "install"))
       => Posted(Key(i, "issue"))
    /\ installation[i] = "INSTALLED" => Posted(Key(i, "install"))

ReturnOK(t) ==
    /\ return[t] # "NONE" \/ Posted(Key(t, "return")) => SourceIssued(t)
    /\ return[t] = "RECEIVED" => Posted(Key(t, "return"))

\* What each step of a call may rely on, whatever other calls did since the
\* call's last read.
CallOK(c) ==
    LET at == call[c].at
        doc == call[c].doc
    IN  /\ at = "reservation.approve" =>
              /\ reservation[doc].status # "NONE"
              /\ call[c].by \notin {None, reservation[doc].requestedBy}
        /\ at = "reserve.post" => ApprovedReservation(doc)
        /\ at \in {"reserve.mark", "release.post", "release.mark"} =>
              Posted(Key(doc, "reserve"))
        /\ at = "release.mark" => NothingLeft(doc)
        /\ at = "issue.approve" =>
              /\ issue[doc].status # "NONE"
              /\ call[c].by \notin {None, issue[doc].createdBy}
        /\ at \in {"issue.look", "issue.post"} => ApprovedIssue(doc)
        /\ at = "issue.count" => IssueForm[doc].reservation \in Reservations
        /\ at \in {"issue.count", "issue.mark", "install.post"} =>
              Posted(Key(doc, "issue"))
        /\ at = "install.mark" => Posted(Key(doc, "install"))
        /\ at = "return.post" => SourceIssued(doc)
        /\ at = "return.mark" => Posted(Key(doc, "return"))

DocumentsOK ==
    /\ \A r \in Reservations : ReservationOK(r)
    /\ \A i \in Issues : IssueOK(i)
    /\ \A t \in Returns : ReturnOK(t)

CallsOK == \A c \in Calls : CallOK(c)

IssuingInv == TypeOK /\ DocumentsOK /\ CallsOK

-----------------------------------------------------------------------------
(* Keys and forms *)

LEMMA KeysDiffer ==
    ASSUME NEW d, NEW e, NEW m, NEW n
    PROVE  Key(d, m) = Key(e, n) <=> d = e /\ m = n
BY DEF Key

LEMMA IssueReservationType ==
    ASSUME NEW i \in Issues
    PROVE  /\ IssueForm[i].reservation \in Reservations \cup {None}
           /\ IssueForm[i].quantity \in Nat
BY IssuingAssumption

-----------------------------------------------------------------------------
(* Types *)

LEMMA IdleType == Idle \in CallRecords
BY DEF Idle, Step, StepWith, CallRecords, ReservationSteps, IssueSteps, ReturnSteps

LEMMA ReservationStepType ==
    ASSUME NEW at \in ReservationSteps, NEW doc \in Reservations,
           NEW by \in Users \cup {None}, NEW remaining \in Int
    PROVE  /\ StepWith(at, doc, by, remaining) \in CallRecords
           /\ StepWith(at, doc, by, remaining).at = at
           /\ StepWith(at, doc, by, remaining).doc = doc
           /\ StepWith(at, doc, by, remaining).by = by
BY DEF StepWith, CallRecords, ReservationSteps, IssueSteps, ReturnSteps

LEMMA IssueStepType ==
    ASSUME NEW at \in IssueSteps, NEW doc \in Issues,
           NEW by \in Users \cup {None}, NEW remaining \in Int
    PROVE  /\ StepWith(at, doc, by, remaining) \in CallRecords
           /\ StepWith(at, doc, by, remaining).at = at
           /\ StepWith(at, doc, by, remaining).doc = doc
           /\ StepWith(at, doc, by, remaining).by = by
BY DEF StepWith, CallRecords, ReservationSteps, IssueSteps, ReturnSteps

LEMMA ReturnStepType ==
    ASSUME NEW at \in ReturnSteps, NEW doc \in Returns,
           NEW by \in Users \cup {None}, NEW remaining \in Int
    PROVE  /\ StepWith(at, doc, by, remaining) \in CallRecords
           /\ StepWith(at, doc, by, remaining).at = at
           /\ StepWith(at, doc, by, remaining).doc = doc
           /\ StepWith(at, doc, by, remaining).by = by
BY DEF StepWith, CallRecords, ReservationSteps, IssueSteps, ReturnSteps

LEMMA InitTypes == Init => TypeOK
BY IssuingAssumption, IdleType
DEF Init, TypeOK, ReservationRecords, IssueRecords

\* A call goes on with its document to a step of the same kind.
LEMMA GotoType ==
    ASSUME TypeOK, NEW c \in Calls, NEW at, Goto(c, at),
           \/ call[c].at \in ReservationSteps /\ at \in ReservationSteps
           \/ call[c].at \in IssueSteps /\ at \in IssueSteps
           \/ call[c].at \in ReturnSteps /\ at \in ReturnSteps
    PROVE  /\ call' \in [Calls -> CallRecords]
           /\ call'[c].at = at /\ call'[c].doc = call[c].doc
           /\ \A d \in Calls : d # c => call'[d] = call[d]
<1>1. [call[c] EXCEPT !.at = at] \in CallRecords
  BY DEF TypeOK, CallRecords, ReservationSteps, IssueSteps, ReturnSteps
<1>2. call' = [call EXCEPT ![c] = [call[c] EXCEPT !.at = at]]
  BY DEF Goto
<1>3. call'[c] = [call[c] EXCEPT !.at = at]
  BY <1>2 DEF TypeOK
<1> QED
  BY <1>1, <1>2, <1>3 DEF TypeOK, CallRecords

LEMMA StartType ==
    ASSUME TypeOK, NEW c \in Calls, NEW step \in CallRecords, Start(c, step)
    PROVE  /\ call' \in [Calls -> CallRecords]
           /\ call'[c] = step
           /\ \A d \in Calls : d # c => call'[d] = call[d]
BY DEF Start, TypeOK

LEMMA FinishType ==
    ASSUME TypeOK, NEW c \in Calls, Finish(c)
    PROVE  /\ call' \in [Calls -> CallRecords]
           /\ call'[c].at = "idle"
           /\ \A d \in Calls : d # c => call'[d] = call[d]
BY IdleType DEF Finish, TypeOK, Idle, Step, StepWith

-----------------------------------------------------------------------------
(* What every step does to the documents and the ledger: nothing a call has *)
(* seen and relies on is taken back.                                        *)

Grows ==
    /\ \A k : Posted(k) => Posted(k)'
    /\ \A r \in Reservations : reservation[r].status # "NONE" =>
          /\ reservation'[r].status # "NONE"
          /\ reservation'[r].requestedBy = reservation[r].requestedBy
          /\ ApprovedReservation(r) => ApprovedReservation(r)'
    /\ \A r \in Reservations :
          reservation'[r].issuedQuantity >= reservation[r].issuedQuantity
    /\ \A i \in Issues : issue[i].status # "NONE" =>
          /\ issue'[i].status # "NONE"
          /\ issue'[i].createdBy = issue[i].createdBy
          /\ ApprovedIssue(i) => ApprovedIssue(i)'

\* A step of call c.
StepOK(c) ==
    /\ TypeOK'
    /\ Grows
    /\ DocumentsOK'
    /\ CallOK(c)'
    /\ \A d \in Calls : d # c => call'[d] = call[d]

\* The other calls keep what they rely on.
LEMMA OtherCallsKeep ==
    ASSUME TypeOK, TypeOK', Grows, NEW d \in Calls, CallOK(d), call'[d] = call[d]
    PROVE  CallOK(d)'
<1> DEFINE doc == call[d].doc
<1>1. /\ call[d].at \in ReservationSteps => doc \in Reservations
      /\ call[d].at \in IssueSteps => doc \in Issues
      /\ call[d].at \in ReturnSteps => doc \in Returns
  BY DEF TypeOK, CallRecords
<1>2. \A r \in Reservations : /\ reservation[r].issuedQuantity \in Int
                              /\ reservation'[r].issuedQuantity \in Int
                              /\ ReservationForm[r].quantity \in Int
  BY IssuingAssumption DEF TypeOK, ReservationRecords
<1>3. \A r \in Reservations : NothingLeft(r) => NothingLeft(r)'
  BY <1>2 DEF NothingLeft, Grows
<1>4. \A t : SourceIssued(t) => SourceIssued(t)'
  BY DEF SourceIssued, Grows
<1>5. CASE call[d].at \in ReservationSteps
  BY <1>1, <1>3, <1>5 DEF CallOK, Grows, ReservationSteps, ApprovedReservation
<1>6. CASE call[d].at \in IssueSteps
  BY <1>1, <1>6 DEF CallOK, Grows, IssueSteps, ApprovedIssue
<1>7. CASE call[d].at \in ReturnSteps
  BY <1>1, <1>4, <1>7 DEF CallOK, Grows, ReturnSteps
<1>8. CASE call[d].at = "idle"
  BY <1>8 DEF CallOK
<1> QED
  BY <1>5, <1>6, <1>7, <1>8 DEF TypeOK, CallRecords

LEMMA StepKeepsInv ==
    ASSUME IssuingInv, NEW c \in Calls, StepOK(c)
    PROVE  IssuingInv'
<1>1. ASSUME NEW d \in Calls PROVE CallOK(d)'
  <2>1. CASE d = c
    BY <2>1 DEF StepOK
  <2>2. CASE d # c
    BY <2>2, OtherCallsKeep DEF StepOK, IssuingInv, CallsOK
  <2> QED
    BY <2>1, <2>2
<1> QED
  BY <1>1 DEF StepOK, IssuingInv, CallsOK

\* Documents alone are unchanged and nothing is posted.
LEMMA NothingWritten ==
    ASSUME IssuingInv,
           UNCHANGED <<balance, transactions, reservation, issue, return, installation>>,
           call' \in [Calls -> CallRecords]
    PROVE  TypeOK' /\ Grows /\ DocumentsOK'
<1>1. \A k : Posted(k)' <=> Posted(k)
  BY NothingRecorded
<1>2. TypeOK'
  BY DEF IssuingInv, TypeOK
<1>3. Grows
  BY <1>1 DEF Grows, ApprovedReservation, ApprovedIssue, IssuingInv, TypeOK, ReservationRecords
<1>4. DocumentsOK'
  BY <1>1 DEF IssuingInv, DocumentsOK, ReservationOK, IssueOK, ReturnOK, NothingLeft,
              SourceIssued, ApprovedReservation, ApprovedIssue
<1> QED
  BY <1>2, <1>3, <1>4

\* A command that only reads: what it saw is what its next step relies on.
LEMMA ReadSteps ==
    ASSUME IssuingInv, NEW c \in Calls,
           \/ \E r \in Reservations, u \in Users : ApproveReservation(c, r, u)
           \/ \E r \in Reservations : Reserve(c, r) \/ ReleaseReservation(c, r)
           \/ \E i \in Issues, u \in Users : ApproveIssue(c, i, u)
           \/ \E i \in Issues : PostIssue(c, i)
           \/ \E t \in Returns : ReceiveReturn(c, t)
    PROVE  StepOK(c)
<1> USE DEF IssuingInv
<1>0. /\ "reservation.approve" \in ReservationSteps /\ "reserve.post" \in ReservationSteps
      /\ "release.post" \in ReservationSteps /\ "release.mark" \in ReservationSteps
      /\ "issue.approve" \in IssueSteps /\ "issue.look" \in IssueSteps
      /\ "return.post" \in ReturnSteps
  BY DEF ReservationSteps, IssueSteps, ReturnSteps
<1>1. ASSUME NEW r \in Reservations, NEW u \in Users, ApproveReservation(c, r, u)
      PROVE  StepOK(c)
  <2> DEFINE step == StepWith("reservation.approve", r, u, 0)
  <2>1. step \in CallRecords /\ step.at = "reservation.approve" /\ step.doc = r /\ step.by = u
    BY <1>0, ReservationStepType
  <2>2. Start(c, step)
    BY <1>1 DEF ApproveReservation
  <2> HIDE DEF step
  <2>3. /\ call' \in [Calls -> CallRecords] /\ call'[c] = step
        /\ \A d \in Calls : d # c => call'[d] = call[d]
    BY <2>1, <2>2, StartType
  <2>4. TypeOK' /\ Grows /\ DocumentsOK'
    BY <1>1, <2>3, NothingWritten DEF ApproveReservation
  <2>5. CallOK(c)'
    BY <1>1, <2>1, <2>3, IssuingAssumption DEF ApproveReservation, CallOK
  <2> QED
    BY <2>3, <2>4, <2>5 DEF StepOK
<1>2. ASSUME NEW r \in Reservations, Reserve(c, r)
      PROVE  StepOK(c)
  <2> DEFINE step == Step("reserve.post", r)
  <2>1. step \in CallRecords /\ step.at = "reserve.post" /\ step.doc = r
    BY <1>0, ReservationStepType DEF Step
  <2>2. Start(c, step)
    BY <1>2 DEF Reserve
  <2> HIDE DEF step
  <2>3. /\ call' \in [Calls -> CallRecords] /\ call'[c] = step
        /\ \A d \in Calls : d # c => call'[d] = call[d]
    BY <2>1, <2>2, StartType
  <2>4. TypeOK' /\ Grows /\ DocumentsOK'
    BY <1>2, <2>3, NothingWritten DEF Reserve
  <2>5. CallOK(c)'
    BY <1>2, <2>1, <2>3, <2>4, IssuingAssumption DEF Reserve, CallOK, DocumentsOK, ReservationOK, ApprovedReservation
  <2> QED
    BY <2>3, <2>4, <2>5 DEF StepOK
<1>3. ASSUME NEW r \in Reservations, ReleaseReservation(c, r)
      PROVE  StepOK(c)
  <2> DEFINE remaining == ReservationForm[r].quantity - reservation[r].issuedQuantity
             at == IF remaining > 0 THEN "release.post" ELSE "release.mark"
             step == StepWith(at, r, None, remaining)
  <2>0. remaining \in Int
    BY IssuingAssumption DEF TypeOK, ReservationRecords
  <2>1. step \in CallRecords /\ step.at = at /\ step.doc = r
    <3> at \in ReservationSteps
      BY <1>0
    <3> HIDE DEF at, remaining
    <3> QED
      BY <2>0, ReservationStepType
  <2>2. Start(c, step)
    BY <1>3 DEF ReleaseReservation
  <2>3. /\ call' \in [Calls -> CallRecords] /\ call'[c] = step
        /\ \A d \in Calls : d # c => call'[d] = call[d]
    <3> HIDE DEF step
    <3> QED
      BY <2>1, <2>2, StartType
  <2>4. TypeOK' /\ Grows /\ DocumentsOK'
    BY <1>3, <2>3, NothingWritten DEF ReleaseReservation
  <2>5. Posted(Key(r, "reserve"))'
    BY <1>3, <2>4 DEF ReleaseReservation, DocumentsOK, ReservationOK, Grows
  <2>6. at = "release.mark" => NothingLeft(r)'
    <3>1. /\ ReservationForm[r].quantity \in Int /\ reservation[r].issuedQuantity \in Int
      BY IssuingAssumption DEF TypeOK, ReservationRecords
    <3>2. UNCHANGED reservation
      BY <1>3 DEF ReleaseReservation
    <3> QED
      BY <3>1, <3>2 DEF NothingLeft
  <2>7. CallOK(c)'
    <3>1. call'[c].at = at /\ call'[c].doc = r
      BY <2>1, <2>3
    <3>2. at \in {"release.post", "release.mark"}
      OBVIOUS
    <3> HIDE DEF at, step
    <3> QED
      BY <2>5, <2>6, <3>1, <3>2 DEF CallOK
  <2> QED
    BY <2>3, <2>4, <2>7 DEF StepOK
<1>4. ASSUME NEW i \in Issues, NEW u \in Users, ApproveIssue(c, i, u)
      PROVE  StepOK(c)
  <2> DEFINE step == StepWith("issue.approve", i, u, 0)
  <2>1. step \in CallRecords /\ step.at = "issue.approve" /\ step.doc = i /\ step.by = u
    BY <1>0, IssueStepType
  <2>2. Start(c, step)
    BY <1>4 DEF ApproveIssue
  <2> HIDE DEF step
  <2>3. /\ call' \in [Calls -> CallRecords] /\ call'[c] = step
        /\ \A d \in Calls : d # c => call'[d] = call[d]
    BY <2>1, <2>2, StartType
  <2>4. TypeOK' /\ Grows /\ DocumentsOK'
    BY <1>4, <2>3, NothingWritten DEF ApproveIssue
  <2>5. CallOK(c)'
    BY <1>4, <2>1, <2>3, <2>4, IssuingAssumption DEF ApproveIssue, CallOK
  <2> QED
    BY <2>3, <2>4, <2>5 DEF StepOK
<1>5. ASSUME NEW i \in Issues, PostIssue(c, i)
      PROVE  StepOK(c)
  <2> DEFINE step == Step("issue.look", i)
  <2>1. step \in CallRecords /\ step.at = "issue.look" /\ step.doc = i
    BY <1>0, IssueStepType DEF Step
  <2>2. Start(c, step)
    BY <1>5 DEF PostIssue
  <2> HIDE DEF step
  <2>3. /\ call' \in [Calls -> CallRecords] /\ call'[c] = step
        /\ \A d \in Calls : d # c => call'[d] = call[d]
    BY <2>1, <2>2, StartType
  <2>4. TypeOK' /\ Grows /\ DocumentsOK'
    BY <1>5, <2>3, NothingWritten DEF PostIssue
  <2>5. CallOK(c)'
    BY <1>5, <2>1, <2>3, <2>4, IssuingAssumption DEF PostIssue, CallOK, DocumentsOK, IssueOK, ApprovedIssue
  <2> QED
    BY <2>3, <2>4, <2>5 DEF StepOK
<1>6. ASSUME NEW t \in Returns, ReceiveReturn(c, t)
      PROVE  StepOK(c)
  <2> DEFINE step == Step("return.post", t)
  <2>1. step \in CallRecords /\ step.at = "return.post" /\ step.doc = t
    BY <1>0, ReturnStepType DEF Step
  <2>2. Start(c, step)
    BY <1>6 DEF ReceiveReturn
  <2> HIDE DEF step
  <2>3. /\ call' \in [Calls -> CallRecords] /\ call'[c] = step
        /\ \A d \in Calls : d # c => call'[d] = call[d]
    BY <2>1, <2>2, StartType
  <2>4. TypeOK' /\ Grows /\ DocumentsOK'
    BY <1>6, <2>3, NothingWritten DEF ReceiveReturn
  <2>5. CallOK(c)'
    BY <1>6, <2>1, <2>3, <2>4, IssuingAssumption DEF ReceiveReturn, CallOK, DocumentsOK, ReturnOK, SourceIssued, Grows
  <2> QED
    BY <2>3, <2>4, <2>5 DEF StepOK
<1> QED
  BY <1>1, <1>2, <1>3, <1>4, <1>5, <1>6

\* LookForIssue and a failing call: they too leave documents and ledger alone.
LEMMA LookAndFail ==
    ASSUME IssuingInv, NEW c \in Calls, LookForIssue(c) \/ Fail(c)
    PROVE  StepOK(c)
<1> USE DEF IssuingInv
<1>1. CASE LookForIssue(c)
  <2> DEFINE step == [call[c] EXCEPT !.at = "issue.post",
                                     !.posted = Posted(Key(call[c].doc, "issue"))]
  <2>1. Posted(Key(call[c].doc, "issue")) \in BOOLEAN
    BY DEF Posted
  <2>2. step \in CallRecords /\ step.at = "issue.post" /\ step.doc = call[c].doc
    <3>1. call[c] \in CallRecords /\ call[c].at = "issue.look"
      BY <1>1 DEF LookForIssue, TypeOK
    <3> QED
      BY ONLY <2>1, <3>1 DEF CallRecords, IssueSteps, ReservationSteps, ReturnSteps
  <2>3. call' = [call EXCEPT ![c] = step]
    BY <1>1 DEF LookForIssue
  <2> HIDE DEF step
  <2>4. /\ call' \in [Calls -> CallRecords] /\ call'[c] = step
        /\ \A d \in Calls : d # c => call'[d] = call[d]
    BY <2>2, <2>3 DEF TypeOK
  <2>5. TypeOK' /\ Grows /\ DocumentsOK'
    BY <1>1, <2>4, NothingWritten DEF LookForIssue
  <2>6. CallOK(c)'
    BY <1>1, <2>2, <2>4 DEF LookForIssue, CallsOK, CallOK, ApprovedIssue
  <2> QED
    BY <2>4, <2>5, <2>6 DEF StepOK
<1>2. CASE Fail(c)
  <2>1. /\ call' \in [Calls -> CallRecords] /\ call'[c].at = "idle"
        /\ \A d \in Calls : d # c => call'[d] = call[d]
    BY <1>2, FinishType DEF Fail
  <2>2. TypeOK' /\ Grows /\ DocumentsOK'
    BY <1>2, <2>1, NothingWritten DEF Fail
  <2> QED
    BY <2>1, <2>2 DEF StepOK, CallOK
<1> QED
  BY <1>1, <1>2

\* A posting whose documents justify it leaves every document in order.
LEMMA PostingKeeps ==
    ASSUME IssuingInv, NEW d, NEW m, NEW e, PostFor(Key(d, m), e),
           m = "reserve" => ApprovedReservation(d),
           m = "release" => Posted(Key(d, "reserve")),
           m = "issue" => ApprovedIssue(d),
           m = "install" => Posted(Key(d, "issue")),
           m = "return" => SourceIssued(d),
           UNCHANGED <<reservation, issue, return, installation>>,
           call' \in [Calls -> CallRecords]
    PROVE  TypeOK' /\ Grows /\ DocumentsOK' /\ Posted(Key(d, m))'
<1>1. \A x, n : Posted(Key(x, n))' <=> Posted(Key(x, n)) \/ (x = d /\ n = m)
  BY PostForRecords, KeysDiffer
<1>2. \A k : Posted(k) => Posted(k)'
  BY PostForRecords
<1>3. TypeOK'
  BY DEF IssuingInv, TypeOK
<1>4. Grows
  BY <1>2 DEF Grows, ApprovedReservation, ApprovedIssue, IssuingInv, TypeOK, ReservationRecords
<1>5. ASSUME NEW r \in Reservations PROVE ReservationOK(r)'
  BY <1>1 DEF IssuingInv, DocumentsOK, ReservationOK, NothingLeft, ApprovedReservation
<1>6. ASSUME NEW i \in Issues PROVE IssueOK(i)'
  BY <1>1 DEF IssuingInv, DocumentsOK, IssueOK, ApprovedIssue
<1>7. ASSUME NEW t \in Returns PROVE ReturnOK(t)'
  BY <1>1 DEF IssuingInv, DocumentsOK, ReturnOK, SourceIssued
<1> QED
  BY <1>1, <1>3, <1>4, <1>5, <1>6, <1>7 DEF DocumentsOK

LEMMA PostingSteps ==
    ASSUME IssuingInv, NEW c \in Calls,
           \/ PostReserve(c) \/ PostRelease(c) \/ PostIssueLines(c)
           \/ PostReturn(c) \/ PostInstall(c)
    PROVE  StepOK(c)
<1> USE DEF IssuingInv
<1> DEFINE doc == call[c].doc
<1>0. /\ {"reserve.post", "reserve.mark", "release.post", "release.mark"}
             \subseteq ReservationSteps
      /\ {"issue.post", "issue.count", "issue.mark", "install.post", "install.mark"}
             \subseteq IssueSteps
      /\ {"return.post", "return.mark"} \subseteq ReturnSteps
  BY DEF ReservationSteps, IssueSteps, ReturnSteps
<1>c. CallOK(c)
  BY DEF CallsOK
<1>1. CASE PostReserve(c)
  <2>1. /\ call' \in [Calls -> CallRecords]
        /\ call'[c].at = "reserve.mark" /\ call'[c].doc = doc
        /\ \A d \in Calls : d # c => call'[d] = call[d]
    BY <1>0, <1>1, GotoType DEF PostReserve
  <2>2. TypeOK' /\ Grows /\ DocumentsOK' /\ Posted(Key(doc, "reserve"))'
    BY <1>c, <1>1, <2>1, PostingKeeps DEF PostReserve, CallOK
  <2>3. CallOK(c)'
    BY <1>c, <1>1, <2>1, <2>2 DEF PostReserve, CallOK, Grows, NothingLeft
  <2> QED
    BY <2>1, <2>2, <2>3 DEF StepOK
<1>2. CASE PostRelease(c)
  <2>1. /\ call' \in [Calls -> CallRecords]
        /\ call'[c].at = "release.mark" /\ call'[c].doc = doc
        /\ \A d \in Calls : d # c => call'[d] = call[d]
    BY <1>0, <1>2, GotoType DEF PostRelease
  <2>2. TypeOK' /\ Grows /\ DocumentsOK' /\ Posted(Key(doc, "release"))'
    BY <1>c, <1>2, <2>1, PostingKeeps DEF PostRelease, CallOK
  <2>3. CallOK(c)'
    BY <1>c, <1>2, <2>1, <2>2 DEF PostRelease, CallOK, Grows, NothingLeft
  <2> QED
    BY <2>1, <2>2, <2>3 DEF StepOK
<1>3. CASE PostIssueLines(c)
  <2> DEFINE to == IF call[c].posted \/ IssueForm[doc].reservation = None
                   THEN "issue.mark" ELSE "issue.count"
  <2>0. /\ call[c].at = "issue.post" /\ doc \in Issues /\ to \in IssueSteps /\ Goto(c, to)
        /\ to = "issue.count" => IssueForm[doc].reservation \in Reservations
    BY <1>0, <1>3, IssueReservationType DEF PostIssueLines, TypeOK, CallRecords
  <2>t. to \in {"issue.mark", "issue.count"}
    OBVIOUS
  <2> HIDE DEF to
  <2>1. /\ call' \in [Calls -> CallRecords]
        /\ call'[c].at = to /\ call'[c].doc = doc
        /\ \A d \in Calls : d # c => call'[d] = call[d]
    BY <1>0, <2>0, GotoType
  <2>2. TypeOK' /\ Grows /\ DocumentsOK' /\ Posted(Key(doc, "issue"))'
    BY <1>c, <1>3, <2>1, PostingKeeps DEF PostIssueLines, CallOK
  <2>3. CallOK(c)'
    BY <2>0, <2>t, <2>1, <2>2 DEF CallOK
  <2> QED
    BY <2>1, <2>2, <2>3 DEF StepOK
<1>4. CASE PostReturn(c)
  <2>1. /\ call' \in [Calls -> CallRecords]
        /\ call'[c].at = "return.mark" /\ call'[c].doc = doc
        /\ \A d \in Calls : d # c => call'[d] = call[d]
    BY <1>0, <1>4, GotoType DEF PostReturn
  <2>2. TypeOK' /\ Grows /\ DocumentsOK' /\ Posted(Key(doc, "return"))'
    BY <1>c, <1>4, <2>1, PostingKeeps DEF PostReturn, CallOK
  <2>3. CallOK(c)'
    BY <1>c, <1>4, <2>1, <2>2 DEF PostReturn, CallOK, Grows, NothingLeft
  <2> QED
    BY <2>1, <2>2, <2>3 DEF StepOK
<1>5. CASE PostInstall(c)
  <2>1. /\ call' \in [Calls -> CallRecords]
        /\ call'[c].at = "install.mark" /\ call'[c].doc = doc
        /\ \A d \in Calls : d # c => call'[d] = call[d]
    BY <1>0, <1>5, GotoType DEF PostInstall
  <2>2. TypeOK' /\ Grows /\ DocumentsOK' /\ Posted(Key(doc, "install"))'
    BY <1>c, <1>5, <2>1, PostingKeeps DEF PostInstall, CallOK
  <2>3. CallOK(c)'
    BY <1>c, <1>5, <2>1, <2>2 DEF PostInstall, CallOK, Grows, NothingLeft
  <2> QED
    BY <2>1, <2>2, <2>3 DEF StepOK
<1> QED
  BY <1>1, <1>2, <1>3, <1>4, <1>5

\* Writing a reservation: its new record keeps what the others rely on.
LEMMA ReservationWritten ==
    ASSUME IssuingInv, NEW r \in Reservations, NEW rec \in ReservationRecords,
           reservation' = [reservation EXCEPT ![r] = rec],
           UNCHANGED <<balance, transactions, issue, return, installation>>,
           call' \in [Calls -> CallRecords],
           reservation[r].status # "NONE" =>
              /\ rec.status # "NONE"
              /\ rec.requestedBy = reservation[r].requestedBy
              /\ ApprovedReservation(r) => rec.approvedBy \notin {None, rec.requestedBy},
           rec.issuedQuantity >= reservation[r].issuedQuantity,
           ReservationOK(r)'
    PROVE  TypeOK' /\ Grows /\ DocumentsOK'
<1>1. \A k : Posted(k)' <=> Posted(k)
  BY NothingRecorded
<1>2. /\ reservation'[r] = rec
      /\ \A q \in Reservations : q # r => reservation'[q] = reservation[q]
      /\ reservation' \in [Reservations -> ReservationRecords]
  BY DEF IssuingInv, TypeOK
<1>3. TypeOK'
  BY <1>2 DEF IssuingInv, TypeOK
<1>4. Grows
  <2>1. \A q \in Reservations : reservation[q].issuedQuantity \in Int
    BY DEF IssuingInv, TypeOK, ReservationRecords
  <2> QED
    BY <1>1, <1>2, <2>1 DEF Grows, ApprovedReservation, ApprovedIssue
<1>5. ASSUME NEW q \in Reservations PROVE ReservationOK(q)'
  <2>1. CASE q = r
    BY <2>1
  <2>2. CASE q # r
    BY <2>2, <1>1, <1>2 DEF IssuingInv, DocumentsOK, ReservationOK, NothingLeft,
                            ApprovedReservation
  <2> QED
    BY <2>1, <2>2
<1>6. \A i \in Issues : IssueOK(i)'
  BY <1>1 DEF IssuingInv, DocumentsOK, IssueOK, ApprovedIssue
<1>7. \A t \in Returns : ReturnOK(t)'
  BY <1>1 DEF IssuingInv, DocumentsOK, ReturnOK, SourceIssued
<1> QED
  BY <1>3, <1>4, <1>5, <1>6, <1>7 DEF DocumentsOK

\* The same for an issue and the installation of its line.
LEMMA IssueWritten ==
    ASSUME IssuingInv, NEW i \in Issues, NEW rec \in IssueRecords,
           NEW status \in {"NONE", "PLANNED", "INSTALLED"},
           issue' = [issue EXCEPT ![i] = rec],
           installation' = [installation EXCEPT ![i] = status],
           UNCHANGED <<balance, transactions, reservation, return>>,
           call' \in [Calls -> CallRecords],
           issue[i].status # "NONE" =>
              /\ rec.status # "NONE"
              /\ rec.createdBy = issue[i].createdBy
              /\ ApprovedIssue(i) => rec.approvedBy \notin {None, rec.createdBy},
           IssueOK(i)'
    PROVE  TypeOK' /\ Grows /\ DocumentsOK'
<1>1. \A k : Posted(k)' <=> Posted(k)
  BY NothingRecorded
<1>2. /\ issue'[i] = rec
      /\ \A j \in Issues : j # i => issue'[j] = issue[j] /\ installation'[j] = installation[j]
      /\ issue' \in [Issues -> IssueRecords]
      /\ installation' \in [Issues -> {"NONE", "PLANNED", "INSTALLED"}]
  BY DEF IssuingInv, TypeOK
<1>3. TypeOK'
  BY <1>2 DEF IssuingInv, TypeOK
<1>4. Grows
  <2>1. \A q \in Reservations : reservation[q].issuedQuantity \in Int
    BY DEF IssuingInv, TypeOK, ReservationRecords
  <2> QED
    BY <1>1, <1>2, <2>1 DEF Grows, ApprovedReservation, ApprovedIssue
<1>5. ASSUME NEW j \in Issues PROVE IssueOK(j)'
  <2>1. CASE j = i
    BY <2>1
  <2>2. CASE j # i
    BY <2>2, <1>1, <1>2 DEF IssuingInv, DocumentsOK, IssueOK, ApprovedIssue
  <2> QED
    BY <2>1, <2>2
<1>6. \A r \in Reservations : ReservationOK(r)'
  BY <1>1 DEF IssuingInv, DocumentsOK, ReservationOK, NothingLeft, ApprovedReservation
<1>7. \A t \in Returns : ReturnOK(t)'
  BY <1>1 DEF IssuingInv, DocumentsOK, ReturnOK, SourceIssued
<1> QED
  BY <1>3, <1>4, <1>5, <1>6, <1>7 DEF DocumentsOK

\* The same for a return.
LEMMA ReturnWritten ==
    ASSUME IssuingInv, NEW t \in Returns, NEW status \in {"DRAFT", "RECEIVED"},
           return' = [return EXCEPT ![t] = status],
           UNCHANGED <<balance, transactions, reservation, issue, installation>>,
           call' \in [Calls -> CallRecords],
           ReturnOK(t)'
    PROVE  TypeOK' /\ Grows /\ DocumentsOK'
<1>1. \A k : Posted(k)' <=> Posted(k)
  BY NothingRecorded
<1>2. /\ return' \in [Returns -> {"NONE", "DRAFT", "RECEIVED"}]
      /\ \A u \in Returns : u # t => return'[u] = return[u]
  BY DEF IssuingInv, TypeOK
<1>3. TypeOK'
  BY <1>2 DEF IssuingInv, TypeOK
<1>4. Grows
  <2>1. \A q \in Reservations : reservation[q].issuedQuantity \in Int
    BY DEF IssuingInv, TypeOK, ReservationRecords
  <2> QED
    BY <1>1, <2>1 DEF Grows, ApprovedReservation, ApprovedIssue
<1>5. ASSUME NEW u \in Returns PROVE ReturnOK(u)'
  <2>1. CASE u = t
    BY <2>1
  <2>2. CASE u # t
    BY <2>2, <1>1, <1>2 DEF IssuingInv, DocumentsOK, ReturnOK, SourceIssued
  <2> QED
    BY <2>1, <2>2
<1>6. \A r \in Reservations : ReservationOK(r)'
  BY <1>1 DEF IssuingInv, DocumentsOK, ReservationOK, NothingLeft, ApprovedReservation
<1>7. \A i \in Issues : IssueOK(i)'
  BY <1>1 DEF IssuingInv, DocumentsOK, IssueOK, ApprovedIssue
<1> QED
  BY <1>3, <1>4, <1>5, <1>6, <1>7 DEF DocumentsOK

\* New documents and returns: no call is involved, so "c" is any of them.
LEMMA CreateSteps ==
    ASSUME IssuingInv, NEW c \in Calls,
           \/ \E r \in Reservations, u \in Users : CreateReservation(r, u)
           \/ \E i \in Issues, u \in Users : CreateIssue(i, u)
           \/ \E t \in Returns : CreateReturn(t)
    PROVE  StepOK(c)
<1> USE DEF IssuingInv
<1>0. \A k : Posted(k)' <=> Posted(k)
  BY NothingRecorded DEF CreateReservation, CreateIssue, CreateReturn
<1>c. call' = call /\ call' \in [Calls -> CallRecords]
  BY DEF CreateReservation, CreateIssue, CreateReturn, TypeOK
<1>d. ASSUME Grows, TypeOK' PROVE CallOK(c)' /\ \A d \in Calls : d # c => call'[d] = call[d]
  BY <1>c, <1>d, OtherCallsKeep DEF CallsOK
<1>1. ASSUME NEW r \in Reservations, NEW u \in Users, CreateReservation(r, u)
      PROVE  StepOK(c)
  <2> DEFINE rec == [reservation[r] EXCEPT !.status = "REQUESTED", !.requestedBy = u]
  <2>0. reservation[r] \in ReservationRecords /\ reservation[r].status = "NONE"
    BY <1>1 DEF TypeOK, CreateReservation
  <2>1. /\ rec \in ReservationRecords /\ rec.status = "REQUESTED"
        /\ rec.approvedBy = reservation[r].approvedBy
        /\ rec.issuedQuantity = reservation[r].issuedQuantity
    BY <2>0 DEF ReservationRecords
  <2>2. reservation' = [reservation EXCEPT ![r] = rec]
    BY <1>1 DEF CreateReservation
  <2>3. reservation'[r] = rec
    BY <2>2 DEF TypeOK
  <2> HIDE DEF rec
  <2>4. ReservationOK(r)'
    BY <1>0, <2>0, <2>1, <2>3
    DEF DocumentsOK, ReservationOK, ApprovedReservation
  <2>5. rec.issuedQuantity >= reservation[r].issuedQuantity
    BY <2>0, <2>1 DEF ReservationRecords
  <2>6. TypeOK' /\ Grows /\ DocumentsOK'
    BY <1>1, <1>c, <2>0, <2>1, <2>2, <2>4, <2>5, ReservationWritten DEF CreateReservation
  <2> QED
    BY <1>d, <2>6 DEF StepOK
<1>2. ASSUME NEW i \in Issues, NEW u \in Users, CreateIssue(i, u)
      PROVE  StepOK(c)
  <2> DEFINE rec == [issue[i] EXCEPT !.status = "DRAFT", !.createdBy = u]
  <2>0. issue[i] \in IssueRecords /\ issue[i].status = "NONE"
    BY <1>2 DEF TypeOK, CreateIssue
  <2>1. rec \in IssueRecords /\ rec.status = "DRAFT"
    BY <2>0 DEF IssueRecords
  <2>2. /\ issue' = [issue EXCEPT ![i] = rec]
        /\ installation[i] \in {"NONE", "PLANNED", "INSTALLED"}
        /\ installation' = [installation EXCEPT ![i] = installation[i]]
    BY <1>2 DEF CreateIssue, TypeOK
  <2>3. issue'[i] = rec
    BY <2>2 DEF TypeOK
  <2> HIDE DEF rec
  <2>4. IssueOK(i)'
    BY <1>0, <1>2, <2>0, <2>1, <2>3 DEF DocumentsOK, IssueOK, ApprovedIssue, CreateIssue
  <2>6. TypeOK' /\ Grows /\ DocumentsOK'
    BY <1>2, <1>c, <2>0, <2>1, <2>2, <2>4, IssueWritten DEF CreateIssue
  <2> QED
    BY <1>d, <2>6 DEF StepOK
<1>3. ASSUME NEW t \in Returns, CreateReturn(t)
      PROVE  StepOK(c)
  <2>1. return'[t] = "DRAFT" /\ return[t] = "NONE"
    BY <1>3 DEF CreateReturn, TypeOK
  <2>2. SourceIssued(t)'
    BY <1>0, <1>3, IssuingAssumption DEF CreateReturn, SourceIssued, DocumentsOK, IssueOK
  <2>3. ReturnOK(t)'
    BY <1>0, <2>1, <2>2 DEF ReturnOK
  <2>6. TypeOK' /\ Grows /\ DocumentsOK'
    BY <1>3, <1>c, <2>3, ReturnWritten DEF CreateReturn
  <2> QED
    BY <1>d, <2>6 DEF StepOK
<1> QED
  BY <1>1, <1>2, <1>3

\* The last step of a command: the document's new status.
LEMMA MarkSteps ==
    ASSUME IssuingInv, NEW c \in Calls,
           \/ MarkReservationApproved(c) \/ MarkReserved(c) \/ MarkReleased(c)
           \/ MarkIssueApproved(c) \/ MarkIssued(c) \/ MarkInstalled(c)
           \/ MarkReturned(c)
    PROVE  StepOK(c)
<1> USE DEF IssuingInv
<1> SUFFICES ASSUME NEW doc, doc = call[c].doc
             PROVE  StepOK(c)
  OBVIOUS
<1>0. \A k : Posted(k)' <=> Posted(k)
  BY NothingRecorded DEF MarkReservationApproved, MarkReserved, MarkReleased,
       MarkIssueApproved, MarkIssued, MarkInstalled, MarkReturned
<1>c. /\ CallOK(c) /\ call[c] \in CallRecords
      /\ call' \in [Calls -> CallRecords] /\ call'[c].at = "idle"
      /\ \A d \in Calls : d # c => call'[d] = call[d]
  BY FinishType DEF CallsOK, TypeOK, MarkReservationApproved, MarkReserved, MarkReleased,
       MarkIssueApproved, MarkIssued, MarkInstalled, MarkReturned
<1>d. ASSUME TypeOK' /\ Grows /\ DocumentsOK' PROVE StepOK(c)
  BY <1>c, <1>d DEF StepOK, CallOK
<1>1. CASE MarkReservationApproved(c) \/ MarkReserved(c) \/ MarkReleased(c)
  <2>0. doc \in Reservations /\ reservation[doc] \in ReservationRecords
    BY <1>1, <1>c DEF MarkReservationApproved, MarkReserved, MarkReleased, TypeOK,
                      CallRecords, ReservationSteps
  <2>1. CASE MarkReservationApproved(c)
    <3> DEFINE new == [reservation[doc] EXCEPT !.status = "APPROVED", !.approvedBy = call[c].by]
    <3>1. /\ new \in ReservationRecords /\ new.status = "APPROVED"
          /\ new.approvedBy = call[c].by /\ new.requestedBy = reservation[doc].requestedBy
          /\ new.issuedQuantity = reservation[doc].issuedQuantity
          /\ new.issuedQuantity \in Nat
      BY <1>c, <2>0 DEF ReservationRecords, CallRecords
    <3>2. reservation' = [reservation EXCEPT ![doc] = new]
      BY <2>1, <2>0 DEF MarkReservationApproved
    <3>3. reservation'[doc] = new
      BY <2>0, <3>2 DEF TypeOK
    <3> HIDE DEF new
    <3>4. ReservationOK(doc)'
      BY <1>0, <1>c, <2>0, <2>1, <3>1, <3>3
      DEF DocumentsOK, ReservationOK, ApprovedReservation, CallOK, MarkReservationApproved
    <3>5. new.approvedBy \notin {None, new.requestedBy}
      BY <1>c, <2>1, <3>1 DEF CallOK, MarkReservationApproved
    <3>6. new.issuedQuantity >= reservation[doc].issuedQuantity
      BY <3>1
    <3>7. UNCHANGED <<transactions, balance, issue, return, installation>>
      BY <2>1 DEF MarkReservationApproved
    <3>8. TypeOK' /\ Grows /\ DocumentsOK'
      BY <1>c, <2>0, <3>1, <3>2, <3>4, <3>5, <3>6, <3>7, ReservationWritten
    <3> QED
      BY <1>d, <3>8
  <2>2. CASE MarkReserved(c)
    <3> DEFINE new == [reservation[doc] EXCEPT !.status = "RESERVED"]
    <3>1. /\ new \in ReservationRecords /\ new.status = "RESERVED"
          /\ new.approvedBy = reservation[doc].approvedBy
          /\ new.requestedBy = reservation[doc].requestedBy
          /\ new.issuedQuantity = reservation[doc].issuedQuantity
          /\ new.issuedQuantity \in Nat
      BY <2>0 DEF ReservationRecords
    <3>2. reservation' = [reservation EXCEPT ![doc] = new]
      BY <2>2, <2>0 DEF MarkReserved
    <3>3. reservation'[doc] = new
      BY <2>0, <3>2 DEF TypeOK
    <3> HIDE DEF new
    <3>4. ReservationOK(doc)'
      BY <1>0, <1>c, <2>0, <2>2, <3>1, <3>3
      DEF DocumentsOK, ReservationOK, ApprovedReservation, CallOK, MarkReserved
    <3>5. new.issuedQuantity >= reservation[doc].issuedQuantity
      BY <3>1
    <3>6. ApprovedReservation(doc) => new.approvedBy \notin {None, new.requestedBy}
      BY <3>1 DEF ApprovedReservation
    <3>7. UNCHANGED <<transactions, balance, issue, return, installation>>
      BY <2>2 DEF MarkReserved
    <3>8. TypeOK' /\ Grows /\ DocumentsOK'
      BY <1>c, <2>0, <3>1, <3>2, <3>4, <3>5, <3>6, <3>7, ReservationWritten DEF ApprovedReservation
    <3> QED
      BY <1>d, <3>8
  <2>3. CASE MarkReleased(c)
    <3> DEFINE new == [reservation[doc] EXCEPT !.status = "RELEASED"]
    <3>1. /\ new \in ReservationRecords /\ new.status = "RELEASED"
          /\ new.approvedBy = reservation[doc].approvedBy
          /\ new.requestedBy = reservation[doc].requestedBy
          /\ new.issuedQuantity = reservation[doc].issuedQuantity
          /\ new.issuedQuantity \in Nat
      BY <2>0 DEF ReservationRecords
    <3>2. reservation' = [reservation EXCEPT ![doc] = new]
      BY <2>3, <2>0 DEF MarkReleased
    <3>3. reservation'[doc] = new
      BY <2>0, <3>2 DEF TypeOK
    <3> HIDE DEF new
    <3>4. ReservationOK(doc)'
      BY <1>0, <1>c, <2>0, <2>3, <3>1, <3>3
      DEF DocumentsOK, ReservationOK, ApprovedReservation, NothingLeft, CallOK, MarkReleased
    <3>5. new.issuedQuantity >= reservation[doc].issuedQuantity
      BY <3>1
    <3>6. ApprovedReservation(doc) => new.approvedBy \notin {None, new.requestedBy}
      BY <3>1 DEF ApprovedReservation
    <3>7. UNCHANGED <<transactions, balance, issue, return, installation>>
      BY <2>3 DEF MarkReleased
    <3>8. TypeOK' /\ Grows /\ DocumentsOK'
      BY <1>c, <2>0, <3>1, <3>2, <3>4, <3>5, <3>6, <3>7, ReservationWritten DEF ApprovedReservation
    <3> QED
      BY <1>d, <3>8
  <2> QED
    BY <1>1, <2>1, <2>2, <2>3
<1>2. CASE MarkIssueApproved(c) \/ MarkIssued(c) \/ MarkInstalled(c)
  <2>0. /\ doc \in Issues /\ issue[doc] \in IssueRecords
        /\ installation[doc] \in {"NONE", "PLANNED", "INSTALLED"}
    BY <1>2, <1>c DEF MarkIssueApproved, MarkIssued, MarkInstalled, TypeOK,
                      CallRecords, IssueSteps
  <2>1. CASE MarkIssueApproved(c)
    <3> DEFINE new == [issue[doc] EXCEPT !.status = "APPROVED", !.approvedBy = call[c].by]
    <3>1. /\ new \in IssueRecords /\ new.status = "APPROVED"
          /\ new.approvedBy = call[c].by /\ new.createdBy = issue[doc].createdBy
      BY <1>c, <2>0 DEF IssueRecords, CallRecords
    <3>2. /\ issue' = [issue EXCEPT ![doc] = new]
          /\ installation' = [installation EXCEPT ![doc] = installation[doc]]
      BY <2>1, <2>0 DEF MarkIssueApproved, TypeOK
    <3>3. issue'[doc] = new
      BY <2>0, <3>2 DEF TypeOK
    <3> HIDE DEF new
    <3>4. IssueOK(doc)'
      BY <1>0, <1>c, <2>0, <2>1, <3>1, <3>3
      DEF DocumentsOK, IssueOK, ApprovedIssue, CallOK, MarkIssueApproved
    <3>5. new.approvedBy \notin {None, new.createdBy}
      BY <1>c, <2>1, <3>1 DEF CallOK, MarkIssueApproved
    <3>6. UNCHANGED <<transactions, balance, reservation, return>>
      BY <2>1 DEF MarkIssueApproved
    <3>7. TypeOK' /\ Grows /\ DocumentsOK'
      BY <1>c, <2>0, <3>1, <3>2, <3>4, <3>5, <3>6, IssueWritten
    <3> QED
      BY <1>d, <3>7
  <2>2. CASE MarkIssued(c)
    <3> DEFINE new == [issue[doc] EXCEPT !.status = "ISSUED"]
    <3>1. /\ new \in IssueRecords /\ new.status = "ISSUED"
          /\ new.approvedBy = issue[doc].approvedBy /\ new.createdBy = issue[doc].createdBy
      BY <2>0 DEF IssueRecords
    <3>2. /\ issue' = [issue EXCEPT ![doc] = new]
          /\ installation' = [installation EXCEPT ![doc] = installation[doc]]
      BY <2>2, <2>0 DEF MarkIssued, TypeOK
    <3>3. issue'[doc] = new
      BY <2>0, <3>2 DEF TypeOK
    <3> HIDE DEF new
    <3>4. IssueOK(doc)'
      BY <1>0, <1>c, <2>0, <2>2, <3>1, <3>3
      DEF DocumentsOK, IssueOK, ApprovedIssue, CallOK, MarkIssued
    <3>5. UNCHANGED <<transactions, balance, reservation, return>>
      BY <2>2 DEF MarkIssued
    <3>6. TypeOK' /\ Grows /\ DocumentsOK'
      BY <1>c, <2>0, <3>1, <3>2, <3>4, <3>5, IssueWritten DEF ApprovedIssue
    <3> QED
      BY <1>d, <3>6
  <2>3. CASE MarkInstalled(c)
    <3>1. /\ issue' = [issue EXCEPT ![doc] = issue[doc]]
          /\ installation' = [installation EXCEPT ![doc] = "INSTALLED"]
          /\ issue' = issue
      BY <2>3, <2>0 DEF MarkInstalled, TypeOK
    <3>2. IssueOK(doc)'
      BY <1>0, <1>c, <2>0, <2>3, <3>1
      DEF DocumentsOK, IssueOK, ApprovedIssue, CallOK, MarkInstalled
    <3>3. UNCHANGED <<transactions, balance, reservation, return>>
      BY <2>3 DEF MarkInstalled
    <3>4. TypeOK' /\ Grows /\ DocumentsOK'
      BY <1>c, <2>0, <3>1, <3>2, <3>3, IssueWritten DEF ApprovedIssue
    <3> QED
      BY <1>d, <3>4
  <2> QED
    BY <1>2, <2>1, <2>2, <2>3
<1>3. CASE MarkReturned(c)
  <2>0. doc \in Returns
    BY <1>3, <1>c DEF MarkReturned, CallRecords, ReturnSteps
  <2>1. return' = [return EXCEPT ![doc] = "RECEIVED"] /\ return'[doc] = "RECEIVED"
    BY <1>3, <2>0 DEF MarkReturned, TypeOK
  <2>2. ReturnOK(doc)'
    BY <1>0, <1>c, <1>3, <2>0, <2>1
    DEF DocumentsOK, ReturnOK, SourceIssued, CallOK, MarkReturned
  <2> QED
    BY <1>c, <1>d, <1>3, <2>0, <2>1, <2>2, ReturnWritten DEF MarkReturned
<1> QED
  BY <1>1, <1>2, <1>3

\* The increment of a reservation line and the InstallationItem's creation:
\* a document is written in the middle of a command.
LEMMA MiddleSteps ==
    ASSUME IssuingInv, NEW c \in Calls,
           CountIssued(c) \/ \E i \in Issues : InstallItem(c, i)
    PROVE  StepOK(c)
<1> USE DEF IssuingInv
<1>c. CallOK(c) /\ call[c] \in CallRecords
  BY DEF CallsOK, TypeOK
<1>1. CASE CountIssued(c)
  <2> SUFFICES ASSUME NEW doc, doc = call[c].doc
               PROVE  StepOK(c)
    OBVIOUS
  <2>0. \A k : Posted(k)' <=> Posted(k)
    BY <1>1, NothingRecorded DEF CountIssued
  <2>1. /\ doc \in Issues /\ IssueForm[doc].quantity \in Nat
        /\ IssueForm[doc].reservation \in Reservations
        /\ Posted(Key(doc, "issue"))
    BY <1>1, <1>c, IssueReservationType DEF CountIssued, CallRecords, CallOK, IssueSteps
  <2>2. SUFFICES ASSUME NEW r \in Reservations, r = IssueForm[doc].reservation
                 PROVE  StepOK(c)
    BY <2>1
  <2> DEFINE new == [reservation[r] EXCEPT !.issuedQuantity = @ + IssueForm[doc].quantity]
  <2>3. reservation[r] \in ReservationRecords
    BY DEF TypeOK
  <2>4. /\ new \in ReservationRecords /\ new.status = reservation[r].status
        /\ new.requestedBy = reservation[r].requestedBy
        /\ new.approvedBy = reservation[r].approvedBy
        /\ new.issuedQuantity >= reservation[r].issuedQuantity
    BY <2>1, <2>3 DEF ReservationRecords
  <2>5. reservation' = [reservation EXCEPT ![r] = new]
    BY <1>1, <2>2 DEF CountIssued
  <2>6. reservation'[r] = new
    BY <2>5 DEF TypeOK
  <2>7. /\ new.issuedQuantity \in Int /\ reservation[r].issuedQuantity \in Int
        /\ ReservationForm[r].quantity \in Int
    BY <2>3, <2>4, IssuingAssumption DEF ReservationRecords
  <2> HIDE DEF new
  <2>8. ReservationOK(r)'
    <3>1. NothingLeft(r) => NothingLeft(r)'
      BY <2>0, <2>4, <2>6, <2>7 DEF NothingLeft
    <3> QED
      BY <2>0, <2>4, <2>6, <3>1 DEF DocumentsOK, ReservationOK, ApprovedReservation
  <2>9. /\ call' \in [Calls -> CallRecords]
        /\ call'[c].at = "issue.mark" /\ call'[c].doc = doc
        /\ \A d \in Calls : d # c => call'[d] = call[d]
    <3>1. "issue.mark" \in IssueSteps /\ "issue.count" \in IssueSteps
      BY DEF IssueSteps
    <3> QED
      BY <1>1, <3>1, GotoType DEF CountIssued
  <2>10. ApprovedReservation(r) => new.approvedBy \notin {None, new.requestedBy}
    BY <2>4 DEF ApprovedReservation
  <2>11. TypeOK' /\ Grows /\ DocumentsOK'
    BY <1>1, <2>4, <2>5, <2>8, <2>9, <2>10, ReservationWritten DEF CountIssued
  <2>12. CallOK(c)'
    BY <2>0, <2>1, <2>9 DEF CallOK
  <2> QED
    BY <2>9, <2>11, <2>12 DEF StepOK
<1>2. ASSUME NEW i \in Issues, InstallItem(c, i)
      PROVE  StepOK(c)
  <2> DEFINE step == Step("install.post", i)
             status == IF installation[i] = "NONE" THEN "PLANNED" ELSE installation[i]
  <2>0. \A k : Posted(k)' <=> Posted(k)
    BY <1>2, NothingRecorded DEF InstallItem
  <2>1. step \in CallRecords /\ step.at = "install.post" /\ step.doc = i
    <3>1. "install.post" \in IssueSteps
      BY DEF IssueSteps
    <3> QED
      BY <3>1, IssueStepType DEF Step
  <2>2. Start(c, step)
    BY <1>2 DEF InstallItem
  <2>3. /\ status \in {"NONE", "PLANNED", "INSTALLED"}
        /\ status = "INSTALLED" => installation[i] = "INSTALLED"
        /\ installation' = [installation EXCEPT ![i] = status]
        /\ issue' = [issue EXCEPT ![i] = issue[i]]
        /\ issue[i] \in IssueRecords
        /\ installation'[i] = status
    BY <1>2 DEF InstallItem, TypeOK
  <2> HIDE DEF step, status
  <2>4. /\ call' \in [Calls -> CallRecords] /\ call'[c] = step
        /\ \A d \in Calls : d # c => call'[d] = call[d]
    BY <2>1, <2>2, StartType
  <2>5. IssueOK(i)'
    BY <1>2, <2>0, <2>3 DEF InstallItem, DocumentsOK, IssueOK, ApprovedIssue
  <2>6. TypeOK' /\ Grows /\ DocumentsOK'
    BY <1>2, <2>3, <2>4, <2>5, IssueWritten DEF InstallItem, ApprovedIssue
  <2>7. CallOK(c)'
    BY <1>2, <2>0, <2>1, <2>4 DEF InstallItem, CallOK, DocumentsOK, IssueOK
  <2> QED
    BY <2>4, <2>6, <2>7 DEF StepOK
<1> QED
  BY <1>1, <1>2

-----------------------------------------------------------------------------
(* The invariant *)

LEMMA InitInv == Init => IssuingInv
<1> SUFFICES ASSUME Init
             PROVE  IssuingInv
  OBVIOUS
<1>1. TypeOK
  BY InitTypes
<1>2. \A k : ~Posted(k)
  BY DEF Init, Posted
<1>3. DocumentsOK
  BY <1>2 DEF Init, DocumentsOK, ReservationOK, IssueOK, ReturnOK
<1>4. CallsOK
  BY DEF Init, CallsOK, CallOK, Idle, Step, StepWith
<1> QED
  BY <1>1, <1>3, <1>4 DEF IssuingInv

LEMMA NextKeepsInv ==
    ASSUME IssuingInv, Next
    PROVE  IssuingInv'
<1>0. Calls # {}
  BY IssuingAssumption
<1>1. CASE \E c \in Calls : StepOK(c)
  BY <1>1, StepKeepsInv
<1>2. CASE ReservationNext
  BY <1>0, <1>1, <1>2, CreateSteps, ReadSteps, PostingSteps, MarkSteps DEF ReservationNext
<1>3. CASE IssueNext
  BY <1>0, <1>1, <1>3, CreateSteps, ReadSteps, LookAndFail, PostingSteps, MiddleSteps,
     MarkSteps DEF IssueNext
<1>4. CASE ReturnNext
  BY <1>0, <1>1, <1>4, CreateSteps, ReadSteps, PostingSteps, MarkSteps DEF ReturnNext
<1>5. CASE InstallNext
  BY <1>1, <1>5, PostingSteps, MiddleSteps, MarkSteps DEF InstallNext
<1>6. CASE \E c \in Calls : Fail(c)
  BY <1>1, <1>6, LookAndFail
<1> QED
  BY <1>2, <1>3, <1>4, <1>5, <1>6 DEF Next

LEMMA StutterKeepsInv ==
    ASSUME IssuingInv, UNCHANGED vars
    PROVE  IssuingInv'
<1>1. \A k : Posted(k)' <=> Posted(k)
  BY NothingRecorded DEF vars
<1>2. TypeOK' /\ Grows
  BY <1>1 DEF vars, IssuingInv, TypeOK, Grows, ApprovedReservation, ApprovedIssue,
              ReservationRecords
<1>3. DocumentsOK'
  BY <1>1 DEF vars, IssuingInv, DocumentsOK, ReservationOK, IssueOK, ReturnOK, NothingLeft,
              SourceIssued, ApprovedReservation, ApprovedIssue
<1>4. ASSUME NEW c \in Calls PROVE CallOK(c)'
  BY <1>2, OtherCallsKeep DEF vars, IssuingInv, CallsOK
<1> QED
  BY <1>2, <1>3, <1>4 DEF IssuingInv, CallsOK

\* At every moment the documents are in order and every call in progress
\* still has what its next step relies on.
THEOREM IssuingInvariant == Spec => []IssuingInv
<1>1. IssuingInv /\ [Next]_vars => IssuingInv'
  BY NextKeepsInv, StutterKeepsInv
<1> QED
  BY <1>1, InitInv, PTL DEF Spec

\* The variables keep their types.
THEOREM IssuingTypes == Spec => []TypeOK
<1>1. IssuingInv => TypeOK
  BY DEF IssuingInv
<1> QED
  BY <1>1, IssuingInvariant, PTL

\* However commands interleave, race and fail, a document's status never
\* claims a movement that was not posted.
THEOREM IssuingStatusBacked == Spec => []StatusBackedByLedger
<1>1. IssuingInv => StatusBackedByLedger
  BY DEF IssuingInv, DocumentsOK, ReservationOK, IssueOK, ReturnOK, NothingLeft,
         StatusBackedByLedger
<1> QED
  BY <1>1, IssuingInvariant, PTL

\* Nothing is released, installed or returned before it was taken.
THEOREM IssuingInOrder == Spec => []LedgerInOrder
<1>1. IssuingInv => LedgerInOrder
  BY DEF IssuingInv, DocumentsOK, ReservationOK, IssueOK, ReturnOK, SourceIssued,
         LedgerInOrder
<1> QED
  BY <1>1, IssuingInvariant, PTL

\* No reservation or issue moves stock without somebody else's approval.
THEOREM IssuingApproved == Spec => []MovedOnApproval
<1>1. IssuingInv => MovedOnApproval
  BY DEF IssuingInv, DocumentsOK, ReservationOK, IssueOK, ApprovedReservation,
         ApprovedIssue, MovedOnApproval
<1> QED
  BY <1>1, IssuingInvariant, PTL

-----------------------------------------------------------------------------
(* Conservation of goods *)

GoodsOf(q) == q["onHand"] + q["issued"] + q["installed"]

LEMMA QuantityTypes ==
    /\ Zero \in Quantities
    /\ NoEffect \in [BalanceKeys -> Quantities]
    /\ \A x, y \in Quantities : Plus(x, y) \in Quantities
    /\ \A x \in Quantities : GoodsOf(x) \in Int
    /\ \A x, y \in Quantities : GoodsOf(Plus(x, y)) = GoodsOf(x) + GoodsOf(y)
BY DEF Zero, NoEffect, Quantities, Plus, GoodsOf, Buckets, ControlledBuckets

LEMMA GoodsSummable ==
    ASSUME NEW e \in [BalanceKeys -> Quantities]
    PROVE  /\ Summable([k \in BalanceKeys |-> GoodsOf(e[k])])
           /\ GoodsIn(e) = SumFunction([k \in BalanceKeys |-> GoodsOf(e[k])])
           /\ GoodsIn(e) \in Int
<1>1. PICK f : f = [k \in BalanceKeys |-> GoodsOf(e[k])]
  OBVIOUS
<1>2. \A k \in BalanceKeys : GoodsOf(e[k]) \in Int
  BY QuantityTypes
<1>3. Summable(f)
  BY <1>1, <1>2, FiniteAssumption DEF Summable
<1>4. GoodsIn(e) = SumFunction(f)
  BY <1>1 DEF GoodsIn, GoodsOf
<1> QED
  BY <1>1, <1>3, <1>4, FunctionSumInt

LEMMA GoodsNoEffect == GoodsIn(NoEffect) = 0
<1>1. PICK f : f = [k \in BalanceKeys |-> GoodsOf(NoEffect[k])]
  OBVIOUS
<1>2. \A k \in BalanceKeys : GoodsOf(NoEffect[k]) = 0
  BY DEF NoEffect, Zero, GoodsOf, Buckets, ControlledBuckets
<1>3. IsFiniteSet(DOMAIN f) /\ \A k \in DOMAIN f : f[k] = 0
  BY <1>1, <1>2, FiniteAssumption
<1> QED
  BY <1>1, <1>3, QuantityTypes, GoodsSummable, FunctionSumZero

\* What a posting adds to the goods is its effect's own goods.
LEMMA GoodsApplied ==
    ASSUME balance \in [BalanceKeys -> Quantities], NEW e \in [BalanceKeys -> Quantities]
    PROVE  /\ Applied(e) \in [BalanceKeys -> Quantities]
           /\ GoodsIn(Applied(e)) = GoodsIn(balance) + GoodsIn(e)
<1>1. PICK f : f = [k \in BalanceKeys |-> GoodsOf(balance[k])]
  OBVIOUS
<1>2. PICK g : g = [k \in BalanceKeys |-> GoodsOf(e[k])]
  OBVIOUS
<1>3. PICK h : h = [k \in BalanceKeys |-> GoodsOf(Applied(e)[k])]
  OBVIOUS
<1>4. Applied(e) \in [BalanceKeys -> Quantities]
  BY QuantityTypes DEF Applied
<1>5. \A k \in BalanceKeys : GoodsOf(Applied(e)[k]) = GoodsOf(balance[k]) + GoodsOf(e[k])
  BY QuantityTypes DEF Applied
<1>6. /\ Summable(f) /\ Summable(g)
      /\ GoodsIn(balance) = SumFunction(f) /\ GoodsIn(e) = SumFunction(g)
      /\ GoodsIn(Applied(e)) = SumFunction(h)
  BY <1>1, <1>2, <1>3, <1>4, GoodsSummable
<1>7. /\ DOMAIN g = DOMAIN f /\ DOMAIN h = DOMAIN f
      /\ \A k \in DOMAIN f : h[k] = f[k] + g[k]
  BY <1>1, <1>2, <1>3, <1>5
<1> QED
  BY <1>4, <1>6, <1>7, FunctionSumPlus

\* What one more line adds to the goods of an effect.
LEMMA GoodsAt ==
    ASSUME NEW e \in [BalanceKeys -> Quantities], NEW k \in BalanceKeys, NEW d,
           Delta(d) \in Quantities
    PROVE  /\ At(e, k, d) \in [BalanceKeys -> Quantities]
           /\ GoodsIn(At(e, k, d)) = GoodsIn(e) + GoodsOf(Delta(d))
<1>1. PICK f : f = [j \in BalanceKeys |-> GoodsOf(e[j])]
  OBVIOUS
<1>2. PICK g : g = [j \in BalanceKeys |-> GoodsOf(At(e, k, d)[j])]
  OBVIOUS
<1>3. At(e, k, d) \in [BalanceKeys -> Quantities]
  BY QuantityTypes DEF At
<1>4. /\ At(e, k, d)[k] = Plus(e[k], Delta(d))
      /\ \A j \in BalanceKeys : j # k => At(e, k, d)[j] = e[j]
  BY DEF At
<1>5. GoodsOf(At(e, k, d)[k]) = GoodsOf(e[k]) + GoodsOf(Delta(d))
  BY <1>4, QuantityTypes
<1>6. /\ GoodsOf(e[k]) \in Int /\ GoodsOf(Delta(d)) \in Int
      /\ GoodsOf(At(e, k, d)[k]) \in Int
  BY <1>3, QuantityTypes
<1>7. Summable(f) /\ GoodsIn(e) = SumFunction(f) /\ GoodsIn(At(e, k, d)) = SumFunction(g)
  BY <1>1, <1>2, <1>3, GoodsSummable
<1>8. /\ DOMAIN g = DOMAIN f /\ k \in DOMAIN f /\ g[k] \in Int
      /\ \A j \in DOMAIN f : j # k => g[j] = f[j]
  BY <1>1, <1>2, <1>4, <1>6
<1>9. SumFunction(g) = SumFunction(f) + (g[k] - f[k])
  BY ONLY <1>7, <1>8, FunctionSumChange
<1>10. g[k] - f[k] = GoodsOf(Delta(d))
  <2>1. g[k] = GoodsOf(e[k]) + GoodsOf(Delta(d)) /\ f[k] = GoodsOf(e[k])
    BY <1>1, <1>2, <1>5
  <2>2. \A a, b \in Int : (a + b) - a = b
    OBVIOUS
  <2>3. (GoodsOf(e[k]) + GoodsOf(Delta(d))) - GoodsOf(e[k]) = GoodsOf(Delta(d))
    BY ONLY <2>2, <1>6
  <2> QED
    BY ONLY <2>1, <2>3
<1> QED
  BY ONLY <1>3, <1>7, <1>9, <1>10

\* The effects of the workflows: only a return that names no issue adds goods.
LEMMA EffectGoods ==
    /\ \A r \in Reservations, q \in Int :
          /\ ReserveEffect(r) \in [BalanceKeys -> Quantities]
          /\ GoodsIn(ReserveEffect(r)) = 0
          /\ ReleaseEffect(r, q) \in [BalanceKeys -> Quantities]
          /\ GoodsIn(ReleaseEffect(r, q)) = 0
    /\ \A i \in Issues :
          /\ IssueEffect(i) \in [BalanceKeys -> Quantities]
          /\ GoodsIn(IssueEffect(i)) = 0
          /\ InstallEffect(i) \in [BalanceKeys -> Quantities]
          /\ GoodsIn(InstallEffect(i)) = 0
    /\ \A t \in Returns :
          /\ ReturnEffect(t) \in [BalanceKeys -> Quantities]
          /\ GoodsIn(ReturnEffect(t)) =
                IF ReturnForm[t].issue = None THEN ReturnForm[t].quantity ELSE 0
<1>1. \A k \in BalanceKeys : \A d : Delta(d) \in Quantities =>
         /\ At(NoEffect, k, d) \in [BalanceKeys -> Quantities]
         /\ GoodsIn(At(NoEffect, k, d)) = GoodsOf(Delta(d))
  <2> SUFFICES ASSUME NEW k \in BalanceKeys, NEW d, Delta(d) \in Quantities
               PROVE  /\ At(NoEffect, k, d) \in [BalanceKeys -> Quantities]
                      /\ GoodsIn(At(NoEffect, k, d)) = GoodsOf(Delta(d))
    OBVIOUS
  <2>1. /\ At(NoEffect, k, d) \in [BalanceKeys -> Quantities]
        /\ GoodsIn(At(NoEffect, k, d)) = 0 + GoodsOf(Delta(d))
    BY QuantityTypes, GoodsNoEffect, GoodsAt
  <2> QED
    BY <2>1, QuantityTypes
<1>2. ASSUME NEW r \in Reservations, NEW q \in Int
      PROVE  /\ ReserveEffect(r) \in [BalanceKeys -> Quantities]
             /\ GoodsIn(ReserveEffect(r)) = 0
             /\ ReleaseEffect(r, q) \in [BalanceKeys -> Quantities]
             /\ GoodsIn(ReleaseEffect(r, q)) = 0
  <2>1. PICK n \in Int : n = ReservationForm[r].quantity /\ ReservationForm[r].row \in BalanceKeys
    BY IssuingAssumption
  <2>2. PICK d : d = [available |-> -n, reserved |-> n]
    OBVIOUS
  <2>3. PICK e : e = [available |-> q, reserved |-> -q]
    OBVIOUS
  <2>4. Delta(d) \in Quantities /\ GoodsOf(Delta(d)) = 0
    BY <2>2 DEF Delta, Quantities, GoodsOf, Buckets, ControlledBuckets
  <2>5. Delta(e) \in Quantities /\ GoodsOf(Delta(e)) = 0
    BY <2>3 DEF Delta, Quantities, GoodsOf, Buckets, ControlledBuckets
  <2> QED
    BY <1>1, <2>1, <2>2, <2>3, <2>4, <2>5 DEF ReserveEffect, ReleaseEffect
<1>3. ASSUME NEW i \in Issues
      PROVE  /\ IssueEffect(i) \in [BalanceKeys -> Quantities]
             /\ GoodsIn(IssueEffect(i)) = 0
             /\ InstallEffect(i) \in [BalanceKeys -> Quantities]
             /\ GoodsIn(InstallEffect(i)) = 0
  <2>1. PICK n \in Int : n = IssueForm[i].quantity /\ IssueForm[i].row \in BalanceKeys
    BY IssuingAssumption
  <2>2. PICK d : d = IF IssueForm[i].reservation = None
                     THEN [onHand |-> -n, available |-> -n, issued |-> n]
                     ELSE [onHand |-> -n, reserved |-> -n, issued |-> n]
    OBVIOUS
  <2>3. PICK e : e = [issued |-> -n, installed |-> n]
    OBVIOUS
  <2>4. Delta(d) \in Quantities /\ GoodsOf(Delta(d)) = 0
    <3>1. CASE IssueForm[i].reservation = None
      BY <2>2, <3>1 DEF Delta, Quantities, GoodsOf, Buckets, ControlledBuckets
    <3>2. CASE IssueForm[i].reservation # None
      BY <2>2, <3>2 DEF Delta, Quantities, GoodsOf, Buckets, ControlledBuckets
    <3> QED
      BY <3>1, <3>2
  <2>5. Delta(e) \in Quantities /\ GoodsOf(Delta(e)) = 0
    BY <2>3 DEF Delta, Quantities, GoodsOf, Buckets, ControlledBuckets
  <2> QED
    BY <1>1, <2>1, <2>2, <2>3, <2>4, <2>5 DEF IssueEffect, InstallEffect
<1>4. ASSUME NEW t \in Returns
      PROVE  /\ ReturnEffect(t) \in [BalanceKeys -> Quantities]
             /\ GoodsIn(ReturnEffect(t)) =
                   IF ReturnForm[t].issue = None THEN ReturnForm[t].quantity ELSE 0
  <2>1. PICK n \in Int : n = ReturnForm[t].quantity /\ ReturnForm[t].row \in BalanceKeys
    BY IssuingAssumption
  <2>2. PICK d : d = [onHand |-> n, qualityHold |-> n]
    OBVIOUS
  <2>3. Delta(d) \in Quantities /\ GoodsOf(Delta(d)) = n
    BY <2>2 DEF Delta, Quantities, GoodsOf, Buckets, ControlledBuckets
  <2>4. PICK back : back = At(NoEffect, ReturnForm[t].row, d)
    OBVIOUS
  <2>5. back \in [BalanceKeys -> Quantities] /\ GoodsIn(back) = n
    BY <1>1, <2>1, <2>3, <2>4
  <2>6. CASE ReturnForm[t].issue = None
    BY <2>1, <2>2, <2>4, <2>5, <2>6 DEF ReturnEffect
  <2>7. CASE ReturnForm[t].issue # None
    <3>1. IssueForm[ReturnForm[t].issue].row \in BalanceKeys
      BY <2>7, IssuingAssumption
    <3>2. PICK e : e = [issued |-> -n]
      OBVIOUS
    <3>3. Delta(e) \in Quantities /\ GoodsOf(Delta(e)) = -n
      BY <3>2 DEF Delta, Quantities, GoodsOf, Buckets, ControlledBuckets
    <3>4. ReturnEffect(t) = At(back, IssueForm[ReturnForm[t].issue].row, e)
      BY <2>1, <2>2, <2>4, <2>7, <3>2 DEF ReturnEffect
    <3>5. /\ ReturnEffect(t) \in [BalanceKeys -> Quantities]
          /\ GoodsIn(ReturnEffect(t)) = n + (-n)
      BY <2>5, <3>1, <3>3, <3>4, GoodsAt
    <3> QED
      BY <2>1, <2>7, <3>5
  <2> QED
    BY <2>6, <2>7
<1> QED
  BY <1>2, <1>3, <1>4

\* The books balance, and the rows are rows.
GoodsInv == balance \in [BalanceKeys -> Quantities] /\ GoodsConserved

LEMMA ReturnedSummable ==
    ASSUME NEW U \in SUBSET Returns
    PROVE  Summable([t \in U |-> ReturnForm[t].quantity])
<1>1. IsFiniteSet(U)
  BY FiniteAssumption, FS_Subset
<1> QED
  BY <1>1, IssuingAssumption DEF Summable

\* A posting that moves no goods in or out, and is no return without issue.
LEMMA NeutralPosting ==
    ASSUME GoodsInv, NEW key, NEW e \in [BalanceKeys -> Quantities], PostFor(key, e),
           GoodsIn(e) = 0,
           \A t \in Returns : ReturnForm[t].issue = None => Key(t, "return") # key
    PROVE  GoodsInv'
<1>1. Unsourced' = Unsourced
  BY PostForRecords DEF Unsourced
<1>2. balance' = balance \/ balance' = Applied(e)
  BY DEF PostFor, Post, ledgerVars
<1>3. balance' \in [BalanceKeys -> Quantities] /\ GoodsIn(balance') = GoodsIn(balance)
  <2>1. balance \in [BalanceKeys -> Quantities]
    BY DEF GoodsInv
  <2>2. CASE balance' = balance
    BY <2>1, <2>2
  <2>3. CASE balance' = Applied(e)
    <3>1. /\ Applied(e) \in [BalanceKeys -> Quantities]
          /\ GoodsIn(Applied(e)) = GoodsIn(balance) + 0
      BY <2>1, GoodsApplied
    <3>2. GoodsIn(balance) \in Int
      BY <2>1, GoodsSummable
    <3>3. GoodsIn(Applied(e)) = GoodsIn(balance)
      BY ONLY <3>1, <3>2
    <3> QED
      BY ONLY <2>3, <3>1, <3>3
  <2> QED
    BY <1>2, <2>2, <2>3
<1>4. GoodsIn(balance)' = GoodsIn(balance')
  BY DEF GoodsIn
<1>5. GoodsConserved'
  BY <1>1, <1>3, <1>4 DEF GoodsInv, GoodsConserved
<1> QED
  BY <1>3, <1>5 DEF GoodsInv

\* A return without an issue brings in what it brings in, once.
LEMMA UnsourcedPosting ==
    ASSUME GoodsInv, NEW t \in Returns, ReturnForm[t].issue = None,
           PostFor(Key(t, "return"), ReturnEffect(t))
    PROVE  GoodsInv'
<1>1. PICK n \in Int : n = ReturnForm[t].quantity
  BY IssuingAssumption
<1>2. PICK e \in [BalanceKeys -> Quantities] : e = ReturnEffect(t) /\ GoodsIn(e) = n
  BY <1>1, EffectGoods
<1>3. \A u : Posted(Key(u, "return"))' <=> Posted(Key(u, "return")) \/ u = t
  BY PostForRecords, KeysDiffer
<1>4. CASE UNCHANGED ledgerVars
  <2>1. Unsourced' = Unsourced
    BY <1>4, NothingRecorded DEF Unsourced, ledgerVars
  <2> QED
    BY <1>4, <2>1 DEF GoodsInv, GoodsConserved, GoodsIn, ledgerVars
<1>5. CASE ~Posted(Key(t, "return")) /\ balance' = Applied(e)
  <2>1. Unsourced' = Unsourced \cup {t} /\ t \notin Unsourced /\ Unsourced \in SUBSET Returns
    BY <1>3, <1>5 DEF Unsourced
  <2>2. PICK f : f = [u \in Unsourced |-> ReturnForm[u].quantity]
    OBVIOUS
  <2>3. PICK g : g = [u \in Unsourced' |-> ReturnForm[u].quantity]
    OBVIOUS
  <2>4. Summable(f) /\ t \notin DOMAIN f /\ DOMAIN g = DOMAIN f \cup {t}
    BY <2>1, <2>2, <2>3, ReturnedSummable
  <2>5. g[t] = n /\ n \in Int /\ \A u \in DOMAIN f : g[u] = f[u]
    BY <1>1, <2>1, <2>2, <2>3
  <2>6. SumFunction(g) = SumFunction(f) + n /\ SumFunction(f) \in Int
    BY ONLY <2>4, <2>5, FunctionSumAdd, FunctionSumInt
  <2>7. /\ balance' \in [BalanceKeys -> Quantities]
        /\ GoodsIn(balance') = GoodsIn(balance) + n
    BY <1>2, <1>5, GoodsApplied DEF GoodsInv
  <2>8. GoodsIn(balance) = GoodsIn(Opening) + SumFunction(f)
    BY <2>2 DEF GoodsInv, GoodsConserved
  <2>9. GoodsIn(Opening) \in Int
    BY IssuingAssumption, GoodsSummable
  <2>10. GoodsIn(balance') = GoodsIn(Opening) + SumFunction(g)
    <3>1. \A a, b \in Int : (a + b) + n = a + (b + n)
      OBVIOUS
    <3> QED
      BY ONLY <2>6, <2>7, <2>8, <2>9, <3>1, Zenon
  <2>11. GoodsConserved'
    <3>1. GoodsIn(balance)' = GoodsIn(balance')
      BY DEF GoodsIn
    <3>2. GoodsIn(Opening)' = GoodsIn(Opening)
      BY DEF GoodsIn
    <3> QED
      BY <2>3, <2>10, <3>1, <3>2 DEF GoodsConserved
  <2> QED
    BY <2>7, <2>11 DEF GoodsInv
<1>6. UNCHANGED ledgerVars \/ (~Posted(Key(t, "return")) /\ balance' = Applied(e))
  BY <1>2 DEF PostFor, Post
<1> QED
  BY <1>4, <1>5, <1>6

LEMMA GoodsStay ==
    ASSUME GoodsInv, UNCHANGED ledgerVars
    PROVE  GoodsInv'
<1>1. Unsourced' = Unsourced
  BY NothingRecorded DEF Unsourced, ledgerVars
<1> QED
  BY <1>1 DEF GoodsInv, GoodsConserved, GoodsIn, ledgerVars

LEMMA GoodsStep ==
    ASSUME TypeOK, GoodsInv, [Next]_vars
    PROVE  GoodsInv'
<1>0. ASSUME NEW c \in Calls
      PROVE  /\ call[c].at \in ReservationSteps =>
                   call[c].doc \in Reservations /\ call[c].remaining \in Int
             /\ call[c].at \in IssueSteps => call[c].doc \in Issues
             /\ call[c].at \in ReturnSteps => call[c].doc \in Returns
  BY DEF TypeOK, CallRecords
<1>1. \A d, m : m # "return" => \A t \in Returns : Key(t, "return") # Key(d, m)
  BY KeysDiffer
<1>2. ASSUME NEW c \in Calls, PostReserve(c) PROVE GoodsInv'
  <2>1. PICK r \in Reservations : r = call[c].doc
    BY <1>0, <1>2 DEF PostReserve, ReservationSteps
  <2>2. PostFor(Key(r, "reserve"), ReserveEffect(r))
    BY <1>2, <2>1 DEF PostReserve
  <2> QED
    BY <1>1, <2>2, EffectGoods, NeutralPosting
<1>3. ASSUME NEW c \in Calls, PostRelease(c) PROVE GoodsInv'
  <2>1. PICK r \in Reservations, q \in Int : r = call[c].doc /\ q = call[c].remaining
    BY <1>0, <1>3 DEF PostRelease, ReservationSteps
  <2>2. PostFor(Key(r, "release"), ReleaseEffect(r, q))
    BY <1>3, <2>1 DEF PostRelease
  <2> QED
    BY <1>1, <2>2, EffectGoods, NeutralPosting
<1>4. ASSUME NEW c \in Calls, PostIssueLines(c) PROVE GoodsInv'
  <2>1. PICK i \in Issues : i = call[c].doc
    BY <1>0, <1>4 DEF PostIssueLines, IssueSteps
  <2>2. PostFor(Key(i, "issue"), IssueEffect(i))
    BY <1>4, <2>1 DEF PostIssueLines
  <2> QED
    BY <1>1, <2>2, EffectGoods, NeutralPosting
<1>5. ASSUME NEW c \in Calls, PostInstall(c) PROVE GoodsInv'
  <2>1. PICK i \in Issues : i = call[c].doc
    BY <1>0, <1>5 DEF PostInstall, IssueSteps
  <2>2. PostFor(Key(i, "install"), InstallEffect(i))
    BY <1>5, <2>1 DEF PostInstall
  <2> QED
    BY <1>1, <2>2, EffectGoods, NeutralPosting
<1>6. ASSUME NEW c \in Calls, PostReturn(c) PROVE GoodsInv'
  <2>1. PICK t \in Returns : t = call[c].doc
    BY <1>0, <1>6 DEF PostReturn, ReturnSteps
  <2>2. PostFor(Key(t, "return"), ReturnEffect(t))
    BY <1>6, <2>1 DEF PostReturn
  <2>3. CASE ReturnForm[t].issue = None
    BY <2>2, <2>3, UnsourcedPosting
  <2>4. CASE ReturnForm[t].issue # None
    <3>1. \A u \in Returns : ReturnForm[u].issue = None => Key(u, "return") # Key(t, "return")
      BY <2>4, KeysDiffer
    <3> QED
      BY <2>2, <2>4, <3>1, EffectGoods, NeutralPosting
  <2> QED
    BY <2>3, <2>4
<1>7. CASE UNCHANGED ledgerVars
  BY <1>7, GoodsStay
<1>8. CASE ReservationNext
  BY <1>2, <1>3, <1>7, <1>8 DEF ReservationNext, ledgerVars, CreateReservation,
     ApproveReservation, Reserve, ReleaseReservation, MarkReservationApproved,
     MarkReserved, MarkReleased
<1>9. CASE IssueNext
  BY <1>4, <1>7, <1>9 DEF IssueNext, ledgerVars, CreateIssue, ApproveIssue, PostIssue,
     MarkIssueApproved, LookForIssue, CountIssued, MarkIssued
<1>10. CASE ReturnNext
  BY <1>6, <1>7, <1>10 DEF ReturnNext, ledgerVars, CreateReturn, ReceiveReturn, MarkReturned
<1>11. CASE InstallNext
  BY <1>5, <1>7, <1>11 DEF InstallNext, ledgerVars, InstallItem, MarkInstalled
<1>12. CASE \E c \in Calls : Fail(c)
  BY <1>7, <1>12 DEF Fail, ledgerVars
<1>13. CASE UNCHANGED vars
  BY <1>7, <1>13 DEF vars, ledgerVars
<1> QED
  BY <1>8, <1>9, <1>10, <1>11, <1>12, <1>13 DEF Next

LEMMA GoodsInvariant == Spec => []GoodsInv
<1>1. Init => GoodsInv
  <2> SUFFICES ASSUME Init PROVE GoodsInv
    OBVIOUS
  <2>1. balance = Opening /\ Opening \in [BalanceKeys -> Quantities]
    BY IssuingAssumption DEF Init
  <2>2. Unsourced = {}
    BY DEF Init, Unsourced, Posted
  <2>3. SumFunction([t \in Unsourced |-> ReturnForm[t].quantity]) = 0
    BY <2>2, FunctionSumEmpty
  <2>4. GoodsIn(Opening) \in Int
    BY <2>1, GoodsSummable
  <2> QED
    BY <2>1, <2>3, <2>4 DEF GoodsInv, GoodsConserved
<1>2. TypeOK /\ GoodsInv /\ [Next]_vars => GoodsInv'
  BY GoodsStep
<1> QED
  BY <1>1, <1>2, IssuingTypes, PTL DEF Spec

\* Whatever commands interleave, repeat or fail, goods come in only by the
\* returns that name no issue, each of them once, and never get lost between
\* the warehouse, the issued and the installed (operations.service.ts).
THEOREM IssuingConservesGoods == Spec => []GoodsConserved
<1>1. GoodsInv => GoodsConserved
  BY DEF GoodsInv
<1> QED
  BY <1>1, GoodsInvariant, PTL

-----------------------------------------------------------------------------
(* Each document moves its goods once *)

IssueShare(k, i, move) ==
    Share(k, IssueForm[i].row, Key(i, move), IssueForm[i].quantity)

ReturnShare(k, t) ==
    IF ReturnForm[t].issue = None THEN 0
    ELSE Share(k, IssueForm[ReturnForm[t].issue].row, Key(t, "return"), ReturnForm[t].quantity)

LEMMA SharesSummable ==
    ASSUME NEW k
    PROVE  /\ \A move : Summable([i \in Issues |-> IssueShare(k, i, move)])
           /\ Summable([t \in Returns |-> ReturnShare(k, t)])
           /\ IssuedOn(k) = SumFunction([i \in Issues |-> IssueShare(k, i, "issue")])
           /\ InstalledOn(k) = SumFunction([i \in Issues |-> IssueShare(k, i, "install")])
           /\ ReturnedOn(k) = SumFunction([t \in Returns |-> ReturnShare(k, t)])
           /\ IssuedOn(k) \in Int /\ InstalledOn(k) \in Int /\ ReturnedOn(k) \in Int
<1>1. \A move : \A i \in Issues : IssueShare(k, i, move) \in Int
  BY IssuingAssumption DEF IssueShare, Share
<1>2. \A t \in Returns : ReturnShare(k, t) \in Int
  BY IssuingAssumption DEF ReturnShare, Share
<1>3. /\ \A move : Summable([i \in Issues |-> IssueShare(k, i, move)])
      /\ Summable([t \in Returns |-> ReturnShare(k, t)])
  BY <1>1, <1>2, FiniteAssumption DEF Summable
<1>4. /\ IssuedOn(k) = SumFunction([i \in Issues |-> IssueShare(k, i, "issue")])
      /\ InstalledOn(k) = SumFunction([i \in Issues |-> IssueShare(k, i, "install")])
      /\ ReturnedOn(k) = SumFunction([t \in Returns |-> ReturnShare(k, t)])
  BY DEF IssuedOn, InstalledOn, ReturnedOn, IssueShare, ReturnShare
<1> QED
  BY <1>3, <1>4, FunctionSumInt

\* Sums over documents of which none is posted in the step.
LEMMA IssuesStay ==
    ASSUME NEW k, NEW move, \A i \in Issues : Posted(Key(i, move))' <=> Posted(Key(i, move))
    PROVE  /\ move = "issue" => IssuedOn(k)' = IssuedOn(k)
           /\ move = "install" => InstalledOn(k)' = InstalledOn(k)
<1>1. \A i \in Issues : IssueShare(k, i, move)' = IssueShare(k, i, move)
  BY DEF IssueShare, Share
<1>2. [i \in Issues |-> IssueShare(k, i, move)]' = [i \in Issues |-> IssueShare(k, i, move)]
  BY <1>1
<1> QED
  BY <1>2 DEF IssuedOn, InstalledOn, IssueShare

LEMMA ReturnsStay ==
    ASSUME NEW k, \A t \in Returns : Posted(Key(t, "return"))' <=> Posted(Key(t, "return"))
    PROVE  ReturnedOn(k)' = ReturnedOn(k)
<1>1. \A t \in Returns : ReturnShare(k, t)' = ReturnShare(k, t)
  BY DEF ReturnShare, Share
<1>2. [t \in Returns |-> ReturnShare(k, t)]' = [t \in Returns |-> ReturnShare(k, t)]
  BY <1>1
<1> QED
  BY <1>2 DEF ReturnedOn, ReturnShare

\* The sum of an issue's postings grows by the issue that is posted.
LEMMA IssueCounts ==
    ASSUME NEW k, NEW j \in Issues, NEW move, ~Posted(Key(j, move)),
           \A key : Posted(key)' <=> Posted(key) \/ key = Key(j, move)
    PROVE  LET more == IF IssueForm[j].row = k THEN IssueForm[j].quantity ELSE 0 IN
           /\ move = "issue" => IssuedOn(k)' = IssuedOn(k) + more
           /\ move = "install" => InstalledOn(k)' = InstalledOn(k) + more
<1> DEFINE more == IF IssueForm[j].row = k THEN IssueForm[j].quantity ELSE 0
<1>1. PICK f : f = [i \in Issues |-> IssueShare(k, i, move)]
  OBVIOUS
<1>2. PICK g : g = [i \in Issues |-> IssueShare(k, i, move)']
  OBVIOUS
<1>3. /\ Summable(f) /\ DOMAIN f = Issues
      /\ move = "issue" => IssuedOn(k) = SumFunction(f)
      /\ move = "install" => InstalledOn(k) = SumFunction(f)
  BY <1>1, SharesSummable
<1>4. /\ move = "issue" => IssuedOn(k)' = SumFunction(g)
      /\ move = "install" => InstalledOn(k)' = SumFunction(g)
  BY <1>2 DEF IssuedOn, InstalledOn, IssueShare
<1>5. f[j] = 0 /\ g[j] = more /\ more \in Int
  BY <1>1, <1>2, IssuingAssumption DEF IssueShare, Share
<1>6. \A i \in Issues : i # j => g[i] = f[i]
  BY <1>1, <1>2, KeysDiffer DEF IssueShare, Share
<1>7. /\ Summable(f) /\ DOMAIN g = DOMAIN f /\ j \in DOMAIN f /\ g[j] \in Int
      /\ \A i \in DOMAIN f : i # j => g[i] = f[i]
  BY <1>2, <1>3, <1>5, <1>6
<1>8. SumFunction(g) = SumFunction(f) + (g[j] - f[j])
  BY ONLY <1>7, FunctionSumChange
<1>9. SumFunction(g) = SumFunction(f) + more
  BY <1>5, <1>8
<1> QED
  BY <1>3, <1>4, <1>9

LEMMA ReturnCounts ==
    ASSUME NEW k, NEW u \in Returns, ~Posted(Key(u, "return")),
           \A key : Posted(key)' <=> Posted(key) \/ key = Key(u, "return")
    PROVE  ReturnedOn(k)' = ReturnedOn(k) +
              (IF ReturnForm[u].issue # None /\ IssueForm[ReturnForm[u].issue].row = k
               THEN ReturnForm[u].quantity ELSE 0)
<1> DEFINE more == IF ReturnForm[u].issue # None /\ IssueForm[ReturnForm[u].issue].row = k
                   THEN ReturnForm[u].quantity ELSE 0
<1>1. PICK f : f = [t \in Returns |-> ReturnShare(k, t)]
  OBVIOUS
<1>2. PICK g : g = [t \in Returns |-> ReturnShare(k, t)']
  OBVIOUS
<1>3. Summable(f) /\ DOMAIN f = Returns /\ ReturnedOn(k) = SumFunction(f)
  BY <1>1, SharesSummable
<1>4. ReturnedOn(k)' = SumFunction(g)
  BY <1>2 DEF ReturnedOn, ReturnShare
<1>5. f[u] = 0 /\ g[u] = more /\ more \in Int
  BY <1>1, <1>2, IssuingAssumption DEF ReturnShare, Share
<1>6. \A t \in Returns : t # u => g[t] = f[t]
  BY <1>1, <1>2, KeysDiffer DEF ReturnShare, Share
<1>7. /\ Summable(f) /\ DOMAIN g = DOMAIN f /\ u \in DOMAIN f /\ g[u] \in Int
      /\ \A t \in DOMAIN f : t # u => g[t] = f[t]
  BY <1>2, <1>3, <1>5, <1>6
<1>8. SumFunction(g) = SumFunction(f) + (g[u] - f[u])
  BY ONLY <1>7, FunctionSumChange
<1> QED
  BY <1>3, <1>4, <1>5, <1>8

\* A posting under a new key moves in each row what the sums gain.
LEMMA MovedBy ==
    ASSUME MovedOnce, balance \in [BalanceKeys -> Quantities],
           NEW key, NEW e \in [BalanceKeys -> Quantities], PostFor(key, e),
           ~Posted(key) =>
              \A k \in BalanceKeys :
                 \E a, b, c \in Int :
                    /\ IssuedOn(k)' = IssuedOn(k) + a
                    /\ InstalledOn(k)' = InstalledOn(k) + b
                    /\ ReturnedOn(k)' = ReturnedOn(k) + c
                    /\ e[k]["installed"] = b /\ e[k]["issued"] = a - b - c
    PROVE  MovedOnce'
<1>1. CASE UNCHANGED ledgerVars
  <2>1. \A x : Posted(x)' <=> Posted(x)
    BY <1>1, NothingRecorded DEF ledgerVars
  <2> QED
    BY <1>1, <2>1, IssuesStay, ReturnsStay DEF MovedOnce, ledgerVars
<1>2. CASE ~Posted(key) /\ balance' = Applied(e)
  <2> SUFFICES ASSUME NEW k \in BalanceKeys
               PROVE  /\ balance'[k]["installed"] = Opening[k]["installed"] + InstalledOn(k)'
                      /\ balance'[k]["issued"] =
                            Opening[k]["issued"] + IssuedOn(k)' - InstalledOn(k)' - ReturnedOn(k)'
    BY DEF MovedOnce
  <2>1. /\ balance'[k]["installed"] = balance[k]["installed"] + e[k]["installed"]
        /\ balance'[k]["issued"] = balance[k]["issued"] + e[k]["issued"]
    BY <1>2 DEF Applied, Plus, Buckets, ControlledBuckets
  <2>2. /\ balance[k]["installed"] = Opening[k]["installed"] + InstalledOn(k)
        /\ balance[k]["issued"] =
              Opening[k]["issued"] + IssuedOn(k) - InstalledOn(k) - ReturnedOn(k)
    BY DEF MovedOnce
  <2>3. PICK a, b, c \in Int :
           /\ IssuedOn(k)' = IssuedOn(k) + a
           /\ InstalledOn(k)' = InstalledOn(k) + b
           /\ ReturnedOn(k)' = ReturnedOn(k) + c
           /\ e[k]["installed"] = b /\ e[k]["issued"] = a - b - c
    BY <1>2
  <2>4. Opening[k]["installed"] \in Int /\ Opening[k]["issued"] \in Int
    BY IssuingAssumption DEF Quantities, Buckets, ControlledBuckets
  <2>5. IssuedOn(k) \in Int /\ InstalledOn(k) \in Int /\ ReturnedOn(k) \in Int
    BY SharesSummable
  <2> QED
    BY ONLY <2>1, <2>2, <2>3, <2>4, <2>5
<1> QED
  BY <1>1, <1>2 DEF PostFor, Post

\* What the effects move in the buckets of MovedOnce.
LEMMA EffectMoves ==
    ASSUME NEW k \in BalanceKeys
    PROVE  /\ \A r \in Reservations, q \in Int :
                 /\ ReserveEffect(r)[k]["issued"] = 0 /\ ReserveEffect(r)[k]["installed"] = 0
                 /\ ReleaseEffect(r, q)[k]["issued"] = 0
                 /\ ReleaseEffect(r, q)[k]["installed"] = 0
           /\ \A i \in Issues :
                 LET n == IF IssueForm[i].row = k THEN IssueForm[i].quantity ELSE 0 IN
                 /\ IssueEffect(i)[k]["issued"] = n /\ IssueEffect(i)[k]["installed"] = 0
                 /\ InstallEffect(i)[k]["issued"] = -n /\ InstallEffect(i)[k]["installed"] = n
           /\ \A t \in Returns :
                 LET n == IF ReturnForm[t].issue # None /\ IssueForm[ReturnForm[t].issue].row = k
                          THEN ReturnForm[t].quantity ELSE 0 IN
                 ReturnEffect(t)[k]["issued"] = -n /\ ReturnEffect(t)[k]["installed"] = 0
<1> DEFINE moves(e, n, m) == e[k]["issued"] = n /\ e[k]["installed"] = m
<1>1. \A j \in BalanceKeys : \A d :
         At(NoEffect, j, d)[k] = IF j = k THEN Plus(Zero, Delta(d)) ELSE Zero
  BY DEF At, NoEffect
<1>2. \A d : /\ Plus(Zero, Delta(d))["issued"] = 0 + Delta(d)["issued"]
             /\ Plus(Zero, Delta(d))["installed"] = 0 + Delta(d)["installed"]
             /\ Zero["issued"] = 0 /\ Zero["installed"] = 0
  BY DEF Plus, Zero, Buckets, ControlledBuckets
<1>3. ASSUME NEW r \in Reservations, NEW q \in Int
      PROVE  moves(ReserveEffect(r), 0, 0) /\ moves(ReleaseEffect(r, q), 0, 0)
  <2>1. ReservationForm[r].row \in BalanceKeys
    BY IssuingAssumption
  <2>2. PICK n : n = ReservationForm[r].quantity
    OBVIOUS
  <2>3. PICK d : d = [available |-> -n, reserved |-> n]
    OBVIOUS
  <2>4. PICK e : e = [available |-> q, reserved |-> -q]
    OBVIOUS
  <2>5. Delta(d)["issued"] = 0 /\ Delta(d)["installed"] = 0
    BY <2>3 DEF Delta, Buckets, ControlledBuckets
  <2>6. Delta(e)["issued"] = 0 /\ Delta(e)["installed"] = 0
    BY <2>4 DEF Delta, Buckets, ControlledBuckets
  <2>7. /\ ReserveEffect(r) = At(NoEffect, ReservationForm[r].row, d)
        /\ ReleaseEffect(r, q) = At(NoEffect, ReservationForm[r].row, e)
    BY <2>2, <2>3, <2>4 DEF ReserveEffect, ReleaseEffect
  <2> QED
    BY <1>1, <1>2, <2>1, <2>5, <2>6, <2>7
<1>4. ASSUME NEW i \in Issues, NEW n \in Int,
             n = IF IssueForm[i].row = k THEN IssueForm[i].quantity ELSE 0
      PROVE  moves(IssueEffect(i), n, 0) /\ moves(InstallEffect(i), -n, n)
  <2>1. PICK q \in Int : q = IssueForm[i].quantity /\ IssueForm[i].row \in BalanceKeys
    BY IssuingAssumption
  <2>2. PICK d : d = IF IssueForm[i].reservation = None
                     THEN [onHand |-> -q, available |-> -q, issued |-> q]
                     ELSE [onHand |-> -q, reserved |-> -q, issued |-> q]
    OBVIOUS
  <2>3. PICK e : e = [issued |-> -q, installed |-> q]
    OBVIOUS
  <2>4. Delta(d)["issued"] = q /\ Delta(d)["installed"] = 0
    BY <2>2 DEF Delta, Buckets, ControlledBuckets
  <2>5. Delta(e)["issued"] = -q /\ Delta(e)["installed"] = q
    BY <2>3 DEF Delta, Buckets, ControlledBuckets
  <2>6. /\ IssueEffect(i) = At(NoEffect, IssueForm[i].row, d)
        /\ InstallEffect(i) = At(NoEffect, IssueForm[i].row, e)
    BY <2>1, <2>2, <2>3 DEF IssueEffect, InstallEffect
  <2> QED
    BY <1>1, <1>2, <1>4, <2>1, <2>4, <2>5, <2>6
<1>5. ASSUME NEW t \in Returns, NEW n \in Int,
             n = IF ReturnForm[t].issue # None /\ IssueForm[ReturnForm[t].issue].row = k
                 THEN ReturnForm[t].quantity ELSE 0
      PROVE  moves(ReturnEffect(t), -n, 0)
  <2>1. PICK q \in Int : q = ReturnForm[t].quantity /\ ReturnForm[t].row \in BalanceKeys
    BY IssuingAssumption
  <2>2. PICK d : d = [onHand |-> q, qualityHold |-> q]
    OBVIOUS
  <2>3. Delta(d)["issued"] = 0 /\ Delta(d)["installed"] = 0
    BY <2>2 DEF Delta, Buckets, ControlledBuckets
  <2>4. PICK back : back = At(NoEffect, ReturnForm[t].row, d)
    OBVIOUS
  <2>5. moves(back, 0, 0)
    BY <1>1, <1>2, <2>1, <2>3, <2>4
  <2>6. CASE ReturnForm[t].issue = None
    BY <1>5, <2>1, <2>2, <2>4, <2>5, <2>6 DEF ReturnEffect
  <2>7. CASE ReturnForm[t].issue # None
    <3>1. PICK j \in BalanceKeys : j = IssueForm[ReturnForm[t].issue].row
      BY <2>7, IssuingAssumption
    <3>2. PICK e : e = [issued |-> -q]
      OBVIOUS
    <3>3. Delta(e)["issued"] = -q /\ Delta(e)["installed"] = 0
      BY <3>2 DEF Delta, Buckets, ControlledBuckets
    <3>4. ReturnEffect(t) = At(back, j, e)
      BY <2>1, <2>2, <2>4, <2>7, <3>1, <3>2 DEF ReturnEffect
    <3>5. back \in [BalanceKeys -> [Buckets -> Int]]
      <4>1. Delta(d) \in Quantities
        BY <2>2 DEF Delta, Quantities, Buckets, ControlledBuckets
      <4> QED
        BY <2>1, <2>4, <4>1, QuantityTypes, GoodsAt DEF Quantities
    <3>6. At(back, j, e)[k] = IF j = k THEN Plus(back[k], Delta(e)) ELSE back[k]
      BY <3>5 DEF At
    <3>7. /\ Plus(back[k], Delta(e))["issued"] = back[k]["issued"] + Delta(e)["issued"]
          /\ Plus(back[k], Delta(e))["installed"] = back[k]["installed"] + Delta(e)["installed"]
      BY DEF Plus, Buckets, ControlledBuckets
    <3>8. moves(At(back, j, e), IF j = k THEN -q ELSE 0, 0)
      BY <2>1, <2>5, <3>3, <3>6, <3>7
    <3> QED
      BY <1>5, <2>1, <2>7, <3>1, <3>4, <3>8
  <2> QED
    BY <2>6, <2>7
<1>6. \A r \in Reservations : ReservationForm[r].quantity \in Int
  BY IssuingAssumption
<1>7. \A i \in Issues : (IF IssueForm[i].row = k THEN IssueForm[i].quantity ELSE 0) \in Int
  BY IssuingAssumption
<1>8. \A t \in Returns :
         (IF ReturnForm[t].issue # None /\ IssueForm[ReturnForm[t].issue].row = k
          THEN ReturnForm[t].quantity ELSE 0) \in Int
  BY IssuingAssumption
<1> QED
  BY <1>3, <1>4, <1>5, <1>7, <1>8

LEMMA MovedStep ==
    ASSUME TypeOK, balance \in [BalanceKeys -> Quantities], MovedOnce, [Next]_vars
    PROVE  MovedOnce'
<1>0. ASSUME NEW c \in Calls
      PROVE  /\ call[c].at \in ReservationSteps =>
                   call[c].doc \in Reservations /\ call[c].remaining \in Int
             /\ call[c].at \in IssueSteps => call[c].doc \in Issues
             /\ call[c].at \in ReturnSteps => call[c].doc \in Returns
  BY DEF TypeOK, CallRecords
<1>1. ASSUME NEW r, NEW move \in {"reserve", "release"}, NEW e \in [BalanceKeys -> Quantities],
             PostFor(Key(r, move), e),
             \A k \in BalanceKeys : e[k]["issued"] = 0 /\ e[k]["installed"] = 0
      PROVE  MovedOnce'
  <2>1. \A i, other : other \notin {"reserve", "release"} =>
           (Posted(Key(i, other))' <=> Posted(Key(i, other)))
    BY <1>1, PostForRecords, KeysDiffer
  <2>2. ASSUME NEW k \in BalanceKeys
        PROVE  \E a, b, c \in Int :
                  /\ IssuedOn(k)' = IssuedOn(k) + a
                  /\ InstalledOn(k)' = InstalledOn(k) + b
                  /\ ReturnedOn(k)' = ReturnedOn(k) + c
                  /\ e[k]["installed"] = b /\ e[k]["issued"] = a - b - c
    <3>1. /\ IssuedOn(k)' = IssuedOn(k) /\ InstalledOn(k)' = InstalledOn(k)
          /\ ReturnedOn(k)' = ReturnedOn(k)
      BY <2>1, IssuesStay, ReturnsStay
    <3>2. IssuedOn(k) \in Int /\ InstalledOn(k) \in Int /\ ReturnedOn(k) \in Int
      BY SharesSummable
    <3> WITNESS 0 \in Int, 0 \in Int, 0 \in Int
    <3> QED
      BY <1>1, <3>1, <3>2
  <2> QED
    BY <1>1, <2>2, MovedBy
<1>2. ASSUME NEW c \in Calls, PostReserve(c) PROVE MovedOnce'
  <2>1. PICK r \in Reservations : r = call[c].doc
    BY <1>0, <1>2 DEF PostReserve, ReservationSteps
  <2>2. PostFor(Key(r, "reserve"), ReserveEffect(r))
    BY <1>2, <2>1 DEF PostReserve
  <2> QED
    BY <1>1, <2>2, EffectGoods, EffectMoves
<1>3. ASSUME NEW c \in Calls, PostRelease(c) PROVE MovedOnce'
  <2>1. PICK r \in Reservations, q \in Int : r = call[c].doc /\ q = call[c].remaining
    BY <1>0, <1>3 DEF PostRelease, ReservationSteps
  <2>2. PostFor(Key(r, "release"), ReleaseEffect(r, q))
    BY <1>3, <2>1 DEF PostRelease
  <2> QED
    BY <1>1, <2>2, EffectGoods, EffectMoves
<1>4. ASSUME NEW c \in Calls, PostIssueLines(c) PROVE MovedOnce'
  <2>1. PICK i \in Issues : i = call[c].doc
    BY <1>0, <1>4 DEF PostIssueLines, IssueSteps
  <2>2. PostFor(Key(i, "issue"), IssueEffect(i))
    BY <1>4, <2>1 DEF PostIssueLines
  <2>3. ASSUME ~Posted(Key(i, "issue")), NEW k \in BalanceKeys
        PROVE  \E a, b, d \in Int :
                  /\ IssuedOn(k)' = IssuedOn(k) + a
                  /\ InstalledOn(k)' = InstalledOn(k) + b
                  /\ ReturnedOn(k)' = ReturnedOn(k) + d
                  /\ IssueEffect(i)[k]["installed"] = b
                  /\ IssueEffect(i)[k]["issued"] = a - b - d
    <3>1. PICK n \in Int : n = IF IssueForm[i].row = k THEN IssueForm[i].quantity ELSE 0
      BY IssuingAssumption
    <3>2. IssuedOn(k)' = IssuedOn(k) + n
      BY <2>2, <2>3, <3>1, PostForRecords, IssueCounts
    <3>3. /\ \A j : Posted(Key(j, "install"))' <=> Posted(Key(j, "install"))
          /\ \A j : Posted(Key(j, "return"))' <=> Posted(Key(j, "return"))
      BY <2>2, PostForRecords, KeysDiffer
    <3>4. InstalledOn(k)' = InstalledOn(k) /\ ReturnedOn(k)' = ReturnedOn(k)
      BY <3>3, IssuesStay, ReturnsStay
    <3>5. InstalledOn(k) \in Int /\ ReturnedOn(k) \in Int
      BY SharesSummable
    <3>6. IssueEffect(i)[k]["issued"] = n /\ IssueEffect(i)[k]["installed"] = 0
      BY <3>1, EffectMoves
    <3> WITNESS n \in Int, 0 \in Int, 0 \in Int
    <3> QED
      BY ONLY <3>1, <3>2, <3>4, <3>5, <3>6
  <2> QED
    BY <2>2, <2>3, EffectGoods, MovedBy
<1>5. ASSUME NEW c \in Calls, PostInstall(c) PROVE MovedOnce'
  <2>1. PICK i \in Issues : i = call[c].doc
    BY <1>0, <1>5 DEF PostInstall, IssueSteps
  <2>2. PostFor(Key(i, "install"), InstallEffect(i))
    BY <1>5, <2>1 DEF PostInstall
  <2>3. ASSUME ~Posted(Key(i, "install")), NEW k \in BalanceKeys
        PROVE  \E a, b, d \in Int :
                  /\ IssuedOn(k)' = IssuedOn(k) + a
                  /\ InstalledOn(k)' = InstalledOn(k) + b
                  /\ ReturnedOn(k)' = ReturnedOn(k) + d
                  /\ InstallEffect(i)[k]["installed"] = b
                  /\ InstallEffect(i)[k]["issued"] = a - b - d
    <3>1. PICK n \in Int : n = IF IssueForm[i].row = k THEN IssueForm[i].quantity ELSE 0
      BY IssuingAssumption
    <3>2. InstalledOn(k)' = InstalledOn(k) + n
      BY <2>2, <2>3, <3>1, PostForRecords, IssueCounts
    <3>3. /\ \A j : Posted(Key(j, "issue"))' <=> Posted(Key(j, "issue"))
          /\ \A j : Posted(Key(j, "return"))' <=> Posted(Key(j, "return"))
      BY <2>2, PostForRecords, KeysDiffer
    <3>4. IssuedOn(k)' = IssuedOn(k) /\ ReturnedOn(k)' = ReturnedOn(k)
      BY <3>3, IssuesStay, ReturnsStay
    <3>5. IssuedOn(k) \in Int /\ ReturnedOn(k) \in Int
      BY SharesSummable
    <3>6. InstallEffect(i)[k]["issued"] = -n /\ InstallEffect(i)[k]["installed"] = n
      BY <3>1, EffectMoves
    <3> WITNESS 0 \in Int, n \in Int, 0 \in Int
    <3> QED
      BY ONLY <3>1, <3>2, <3>4, <3>5, <3>6
  <2> QED
    BY <2>2, <2>3, EffectGoods, MovedBy
<1>6. ASSUME NEW c \in Calls, PostReturn(c) PROVE MovedOnce'
  <2>1. PICK t \in Returns : t = call[c].doc
    BY <1>0, <1>6 DEF PostReturn, ReturnSteps
  <2>2. PostFor(Key(t, "return"), ReturnEffect(t))
    BY <1>6, <2>1 DEF PostReturn
  <2>3. ASSUME ~Posted(Key(t, "return")), NEW k \in BalanceKeys
        PROVE  \E a, b, d \in Int :
                  /\ IssuedOn(k)' = IssuedOn(k) + a
                  /\ InstalledOn(k)' = InstalledOn(k) + b
                  /\ ReturnedOn(k)' = ReturnedOn(k) + d
                  /\ ReturnEffect(t)[k]["installed"] = b
                  /\ ReturnEffect(t)[k]["issued"] = a - b - d
    <3>1. PICK n \in Int :
             n = IF ReturnForm[t].issue # None /\ IssueForm[ReturnForm[t].issue].row = k
                 THEN ReturnForm[t].quantity ELSE 0
      BY IssuingAssumption
    <3>2. ReturnedOn(k)' = ReturnedOn(k) + n
      BY <2>2, <2>3, <3>1, PostForRecords, ReturnCounts
    <3>3. /\ \A j : Posted(Key(j, "issue"))' <=> Posted(Key(j, "issue"))
          /\ \A j : Posted(Key(j, "install"))' <=> Posted(Key(j, "install"))
      BY <2>2, PostForRecords, KeysDiffer
    <3>4. IssuedOn(k)' = IssuedOn(k) /\ InstalledOn(k)' = InstalledOn(k)
      BY <3>3, IssuesStay
    <3>5. IssuedOn(k) \in Int /\ InstalledOn(k) \in Int
      BY SharesSummable
    <3>6. ReturnEffect(t)[k]["issued"] = -n /\ ReturnEffect(t)[k]["installed"] = 0
      BY <3>1, EffectMoves
    <3> WITNESS 0 \in Int, 0 \in Int, n \in Int
    <3> QED
      BY ONLY <3>1, <3>2, <3>4, <3>5, <3>6
  <2> QED
    BY <2>2, <2>3, EffectGoods, MovedBy
<1>7. CASE UNCHANGED ledgerVars
  <2>1. \A x : Posted(x)' <=> Posted(x)
    BY <1>7, NothingRecorded DEF ledgerVars
  <2> QED
    BY <1>7, <2>1, IssuesStay, ReturnsStay DEF MovedOnce, ledgerVars
<1>8. CASE ReservationNext
  BY <1>2, <1>3, <1>7, <1>8 DEF ReservationNext, ledgerVars, CreateReservation,
     ApproveReservation, Reserve, ReleaseReservation, MarkReservationApproved,
     MarkReserved, MarkReleased
<1>9. CASE IssueNext
  BY <1>4, <1>7, <1>9 DEF IssueNext, ledgerVars, CreateIssue, ApproveIssue, PostIssue,
     MarkIssueApproved, LookForIssue, CountIssued, MarkIssued
<1>10. CASE ReturnNext
  BY <1>6, <1>7, <1>10 DEF ReturnNext, ledgerVars, CreateReturn, ReceiveReturn, MarkReturned
<1>11. CASE InstallNext
  BY <1>5, <1>7, <1>11 DEF InstallNext, ledgerVars, InstallItem, MarkInstalled
<1>12. CASE \E c \in Calls : Fail(c)
  BY <1>7, <1>12 DEF Fail, ledgerVars
<1>13. CASE UNCHANGED vars
  BY <1>7, <1>13 DEF vars, ledgerVars
<1> QED
  BY <1>8, <1>9, <1>10, <1>11, <1>12, <1>13 DEF Next

\* Whatever commands are repeated, race or stop half way, a document moves its
\* goods once: what is installed and what is out add up over the documents
\* posted (operations.service.ts, installation.service.ts).
THEOREM IssuingMovesOnce == Spec => []MovedOnce
<1>1. Init => MovedOnce
  <2> SUFFICES ASSUME Init, NEW k \in BalanceKeys
               PROVE  /\ balance[k]["installed"] = Opening[k]["installed"] + InstalledOn(k)
                      /\ balance[k]["issued"] = Opening[k]["issued"] + IssuedOn(k)
                                                  - InstalledOn(k) - ReturnedOn(k)
    BY DEF MovedOnce
  <2>1. balance = Opening /\ \A key : ~Posted(key)
    BY DEF Init, Posted
  <2>2. \A i \in Issues : \A move : IssueShare(k, i, move) = 0
    BY <2>1 DEF IssueShare, Share
  <2>3. \A t \in Returns : ReturnShare(k, t) = 0
    BY <2>1 DEF ReturnShare, Share
  <2>4. IssuedOn(k) = 0 /\ InstalledOn(k) = 0 /\ ReturnedOn(k) = 0
    <3>1. PICK f : f = [i \in Issues |-> IssueShare(k, i, "issue")]
      OBVIOUS
    <3>2. PICK g : g = [i \in Issues |-> IssueShare(k, i, "install")]
      OBVIOUS
    <3>3. PICK h : h = [t \in Returns |-> ReturnShare(k, t)]
      OBVIOUS
    <3>4. SumFunction(f) = 0 /\ SumFunction(g) = 0 /\ SumFunction(h) = 0
      BY <2>2, <2>3, <3>1, <3>2, <3>3, FiniteAssumption, FunctionSumZero
    <3> QED
      BY <3>1, <3>2, <3>3, <3>4, SharesSummable
  <2>5. Opening[k]["installed"] \in Int /\ Opening[k]["issued"] \in Int
    BY IssuingAssumption DEF Quantities, Buckets, ControlledBuckets
  <2> QED
    BY <2>1, <2>4, <2>5
<1>2. TypeOK /\ GoodsInv /\ MovedOnce /\ [Next]_vars => MovedOnce'
  BY MovedStep DEF GoodsInv
<1> QED
  BY <1>1, <1>2, IssuingTypes, GoodsInvariant, PTL DEF Spec
=============================================================================
