---------------------------- MODULE StockIssuing ----------------------------
(***************************************************************************)
(* Stock leaving a warehouse: reservations, issues, returns and            *)
(* installation (inventory/operations.service.ts,                          *)
(* installation.service.ts:installItem).                                   *)
(*                                                                         *)
(* Each command reads its document, posts to the ledger in a transaction   *)
(* of its own and then writes the document's new status, unconditionally,  *)
(* in another; commands on one document interleave freely and may fail     *)
(* between any two of these steps.  A call is a command in progress: "at"  *)
(* names its next step, "doc" its document, and "by", "remaining" and      *)
(* "posted" what it remembers of its caller and its reads.                 *)
(* Documents have one line each.                                           *)
(***************************************************************************)
EXTENDS StockLedger

CONSTANTS
    Calls,          \* concurrent commands
    Users,
    Reservations, Issues, Returns,
    ReservationForm,    \* per reservation: its row, quantity and project
    IssueForm,          \* per issue: also the reservation it draws on
    ReturnForm,         \* per return: also the issue it gives back
    Opening,        \* balances left by earlier receipts
    None

ASSUME IssuingAssumption ==
    /\ BalanceKeys \subseteq [item : STRING, warehouse : STRING]
    /\ \A r \in Reservations :
          ReservationForm[r].row \in BalanceKeys /\ ReservationForm[r].quantity \in Nat \ {0}
    /\ \A i \in Issues :
          /\ IssueForm[i].row \in BalanceKeys /\ IssueForm[i].quantity \in Nat \ {0}
          /\ IssueForm[i].reservation \in Reservations \cup {None}
    /\ \A t \in Returns :
          /\ ReturnForm[t].row \in BalanceKeys /\ ReturnForm[t].quantity \in Nat \ {0}
          /\ ReturnForm[t].issue \in Issues \cup {None}
    /\ Opening \in [BalanceKeys -> Quantities]
    /\ \A k \in BalanceKeys : Projects(Opening[k]) /\ InStock(k, Opening[k])
    /\ Calls # {}
    /\ None \notin Users \cup Reservations \cup Issues \cup Returns
    /\ Reservations \cap Issues = {} /\ Issues \cap Returns = {}
    /\ Reservations \cap Returns = {}

\* Tables hold finitely many rows.
ASSUME FiniteAssumption ==
    IsFiniteSet(BalanceKeys) /\ IsFiniteSet(Issues) /\ IsFiniteSet(Returns)

VARIABLES
    reservation,    \* status, requestedBy, approvedBy, issuedQuantity
    issue,          \* status, createdBy, approvedBy
    return,         \* status
    installation,   \* status of the InstallationItem of each issue line
    call            \* per call: the step it is at, its document, what it read

vars == <<balance, transactions, reservation, issue, return, installation, call>>

\* A call at a step of a document; idle, it has none.
StepWith(at, doc, by, remaining) ==
    [at |-> at, doc |-> doc, by |-> by, remaining |-> remaining, posted |-> FALSE]

Step(at, doc) == StepWith(at, doc, None, 0)

Idle == Step("idle", None)

-----------------------------------------------------------------------------
(* Postings of the workflows *)

Key(doc, move) == <<doc, move>>

ReserveEffect(r) ==
    LET f == ReservationForm[r] IN
    At(NoEffect, f.row, [available |-> -f.quantity, reserved |-> f.quantity])

ReleaseEffect(r, q) ==
    At(NoEffect, ReservationForm[r].row, [available |-> q, reserved |-> -q])

IssueEffect_NotIssued(i) ==
    LET f == IssueForm[i] IN
    At(NoEffect, f.row,
       IF f.reservation = None THEN [onHand |-> -f.quantity, available |-> -f.quantity]
                               ELSE [onHand |-> -f.quantity, reserved |-> -f.quantity])

IssueEffect(i) ==
    LET f == IssueForm[i] IN
    At(NoEffect, f.row,
       IF f.reservation = None
       THEN [onHand |-> -f.quantity, available |-> -f.quantity, issued |-> f.quantity]
       ELSE [onHand |-> -f.quantity, reserved |-> -f.quantity, issued |-> f.quantity])

ReturnEffect(t) ==
    LET f == ReturnForm[t]
        back == At(NoEffect, f.row, [onHand |-> f.quantity, qualityHold |-> f.quantity])
    IN  IF f.issue = None THEN back
        ELSE At(back, IssueForm[f.issue].row, [issued |-> -f.quantity])

InstallEffect(i) ==
    LET f == IssueForm[i] IN
    At(NoEffect, f.row, [issued |-> -f.quantity, installed |-> f.quantity])

-----------------------------------------------------------------------------
(* Calls *)

Start(c, step) ==
    /\ call[c] = Idle
    /\ call' = [call EXCEPT ![c] = step]

Goto(c, at) == call' = [call EXCEPT ![c].at = at]

Finish(c) == call' = [call EXCEPT ![c] = Idle]

\* The call fails (a refused posting, a lost database or process) and what
\* it did so far stays.
Fail(c) ==
    /\ call[c] # Idle
    /\ Finish(c)
    /\ UNCHANGED <<balance, transactions, reservation, issue, return, installation>>

-----------------------------------------------------------------------------
Init ==
    /\ balance = Opening
    /\ transactions = {}
    /\ reservation = [r \in Reservations |->
          [status |-> "NONE", requestedBy |-> None, approvedBy |-> None, issuedQuantity |-> 0]]
    /\ issue = [i \in Issues |->
          [status |-> "NONE", createdBy |-> None, approvedBy |-> None]]
    /\ return = [t \in Returns |-> "NONE"]
    /\ installation = [i \in Issues |-> "NONE"]
    /\ call = [c \in Calls |-> Idle]

(* Reservations *)

CreateReservation(r, u) ==
    /\ reservation[r].status = "NONE"
    /\ reservation' = [reservation EXCEPT ![r].status = "REQUESTED", ![r].requestedBy = u]
    /\ UNCHANGED <<balance, transactions, issue, return, installation, call>>

ApproveReservation_BySelf(c, r, u) ==
    /\ reservation[r].status = "REQUESTED"
    /\ Start(c, StepWith("reservation.approve", r, u, 0))
    /\ UNCHANGED <<balance, transactions, reservation, issue, return, installation>>

ApproveReservation(c, r, u) ==
    /\ reservation[r].status = "REQUESTED"
    /\ reservation[r].requestedBy # u
    /\ Start(c, StepWith("reservation.approve", r, u, 0))
    /\ UNCHANGED <<balance, transactions, reservation, issue, return, installation>>

MarkReservationApproved(c) ==
    /\ call[c].at = "reservation.approve"
    /\ reservation' = [reservation EXCEPT ![call[c].doc].status = "APPROVED",
                                          ![call[c].doc].approvedBy = call[c].by]
    /\ Finish(c)
    /\ UNCHANGED <<balance, transactions, issue, return, installation>>

Reserve_MarkFirst(c, r) ==
    /\ reservation[r].status = "APPROVED"
    /\ reservation' = [reservation EXCEPT ![r].status = "RESERVED"]
    /\ Start(c, Step("reserve.post", r))
    /\ UNCHANGED <<balance, transactions, issue, return, installation>>

Reserve(c, r) ==
    /\ reservation[r].status = "APPROVED"
    /\ Start(c, Step("reserve.post", r))
    /\ UNCHANGED <<balance, transactions, reservation, issue, return, installation>>

PostReserve(c) ==
    /\ call[c].at = "reserve.post"
    /\ PostFor(Key(call[c].doc, "reserve"), ReserveEffect(call[c].doc))
    /\ Goto(c, "reserve.mark")
    /\ UNCHANGED <<reservation, issue, return, installation>>

MarkReserved(c) ==
    /\ call[c].at = "reserve.mark"
    /\ reservation' = [reservation EXCEPT ![call[c].doc].status = "RESERVED"]
    /\ Finish(c)
    /\ UNCHANGED <<balance, transactions, issue, return, installation>>

\* Nothing is posted when the reservation is fully issued.
ReleaseReservation(c, r) ==
    LET remaining == ReservationForm[r].quantity - reservation[r].issuedQuantity IN
    /\ reservation[r].status = "RESERVED"
    /\ Start(c, StepWith(IF remaining > 0 THEN "release.post" ELSE "release.mark",
                         r, None, remaining))
    /\ UNCHANGED <<balance, transactions, reservation, issue, return, installation>>

PostRelease(c) ==
    /\ call[c].at = "release.post"
    /\ PostFor(Key(call[c].doc, "release"), ReleaseEffect(call[c].doc, call[c].remaining))
    /\ Goto(c, "release.mark")
    /\ UNCHANGED <<reservation, issue, return, installation>>

MarkReleased(c) ==
    /\ call[c].at = "release.mark"
    /\ reservation' = [reservation EXCEPT ![call[c].doc].status = "RELEASED"]
    /\ Finish(c)
    /\ UNCHANGED <<balance, transactions, issue, return, installation>>

(* Issues *)

CreateIssue(i, u) ==
    /\ issue[i].status = "NONE"
    /\ issue' = [issue EXCEPT ![i].status = "DRAFT", ![i].createdBy = u]
    /\ UNCHANGED <<balance, transactions, reservation, return, installation, call>>

ApproveIssue(c, i, u) ==
    /\ issue[i].status = "DRAFT"
    /\ issue[i].createdBy # u
    /\ Start(c, StepWith("issue.approve", i, u, 0))
    /\ UNCHANGED <<balance, transactions, reservation, issue, return, installation>>

MarkIssueApproved(c) ==
    /\ call[c].at = "issue.approve"
    /\ issue' = [issue EXCEPT ![call[c].doc].status = "APPROVED",
                              ![call[c].doc].approvedBy = call[c].by]
    /\ Finish(c)
    /\ UNCHANGED <<balance, transactions, reservation, return, installation>>

\* The reservation line is found by project and must be of the same goods
\* with enough left; neither its status nor its warehouse is looked at.
ReservationServes(i) ==
    LET f == IssueForm[i] IN
    f.reservation # None =>
       LET r == f.reservation IN
       /\ f.project \in {None, ReservationForm[r].project}
       /\ reservation[r].status # "NONE"
       /\ ReservationForm[r].row.item = f.row.item
       /\ ReservationForm[r].quantity - reservation[r].issuedQuantity >= f.quantity

PostIssue(c, i) ==
    /\ issue[i].status = "APPROVED"
    /\ ReservationServes(i)
    /\ Start(c, Step("issue.look", i))
    /\ UNCHANGED <<balance, transactions, reservation, issue, return, installation>>

\* alreadyPosted is read before post decides for itself.
LookForIssue(c) ==
    /\ call[c].at = "issue.look"
    /\ call' = [call EXCEPT ![c].at = "issue.post",
                            ![c].posted = Posted(Key(call[c].doc, "issue"))]
    /\ UNCHANGED <<balance, transactions, reservation, issue, return, installation>>

PostIssueLines_TrustsLook(c) ==
    LET i == call[c].doc IN
    /\ call[c].at = "issue.post"
    /\ IF call[c].posted THEN UNCHANGED ledgerVars
                         ELSE PostFor_Again(Key(i, "issue"), IssueEffect(i))
    /\ Goto(c, IF call[c].posted \/ IssueForm[i].reservation = None
               THEN "issue.mark" ELSE "issue.count")
    /\ UNCHANGED <<reservation, issue, return, installation>>

PostIssueLines(c) ==
    LET i == call[c].doc IN
    /\ call[c].at = "issue.post"
    /\ PostFor(Key(i, "issue"), IssueEffect(i))
    /\ Goto(c, IF call[c].posted \/ IssueForm[i].reservation = None
               THEN "issue.mark" ELSE "issue.count")
    /\ UNCHANGED <<reservation, issue, return, installation>>

CountIssued(c) ==
    LET f == IssueForm[call[c].doc] IN
    /\ call[c].at = "issue.count"
    /\ reservation' = [reservation EXCEPT ![f.reservation].issuedQuantity = @ + f.quantity]
    /\ Goto(c, "issue.mark")
    /\ UNCHANGED <<balance, transactions, issue, return, installation>>

MarkIssued(c) ==
    /\ call[c].at = "issue.mark"
    /\ issue' = [issue EXCEPT ![call[c].doc].status = "ISSUED"]
    /\ Finish(c)
    /\ UNCHANGED <<balance, transactions, reservation, return, installation>>

(* Returns and installation *)

CreateReturn_BeforeIssue(t) ==
    LET f == ReturnForm[t] IN
    /\ return[t] = "NONE"
    /\ f.issue # None => f.quantity <= IssueForm[f.issue].quantity
    /\ return' = [return EXCEPT ![t] = "DRAFT"]
    /\ UNCHANGED <<balance, transactions, reservation, issue, installation, call>>

\* Each return is checked against the whole issue line, not against what
\* other returns already took of it.
CreateReturn(t) ==
    LET f == ReturnForm[t] IN
    /\ return[t] = "NONE"
    /\ f.issue # None =>
          /\ issue[f.issue].status = "ISSUED"
          /\ IssueForm[f.issue].row.item = f.row.item
          /\ f.quantity <= IssueForm[f.issue].quantity
    /\ return' = [return EXCEPT ![t] = "DRAFT"]
    /\ UNCHANGED <<balance, transactions, reservation, issue, installation, call>>

ReceiveReturn(c, t) ==
    /\ return[t] = "DRAFT"
    /\ Start(c, Step("return.post", t))
    /\ UNCHANGED <<balance, transactions, reservation, issue, return, installation>>

PostReturn(c) ==
    /\ call[c].at = "return.post"
    /\ PostFor(Key(call[c].doc, "return"), ReturnEffect(call[c].doc))
    /\ Goto(c, "return.mark")
    /\ UNCHANGED <<reservation, issue, return, installation>>

MarkReturned(c) ==
    /\ call[c].at = "return.mark"
    /\ return' = [return EXCEPT ![call[c].doc] = "RECEIVED"]
    /\ Finish(c)
    /\ UNCHANGED <<balance, transactions, reservation, issue, installation>>

\* The issued line is found, then its unique InstallationItem is found or
\* created; a call that finds it goes on to the same posting.
InstallItem(c, i) ==
    /\ issue[i].status = "ISSUED"
    /\ installation' = [installation EXCEPT ![i] = IF @ = "NONE" THEN "PLANNED" ELSE @]
    /\ Start(c, Step("install.post", i))
    /\ UNCHANGED <<balance, transactions, reservation, issue, return>>

PostInstall(c) ==
    /\ call[c].at = "install.post"
    /\ PostFor(Key(call[c].doc, "install"), InstallEffect(call[c].doc))
    /\ Goto(c, "install.mark")
    /\ UNCHANGED <<reservation, issue, return, installation>>

MarkInstalled(c) ==
    /\ call[c].at = "install.mark"
    /\ installation' = [installation EXCEPT ![call[c].doc] = "INSTALLED"]
    /\ Finish(c)
    /\ UNCHANGED <<balance, transactions, reservation, issue, return>>

-----------------------------------------------------------------------------
ReservationNext ==
    \/ \E r \in Reservations, u \in Users :
          CreateReservation(r, u) \/ \E c \in Calls : ApproveReservation(c, r, u)
    \/ \E c \in Calls, r \in Reservations : Reserve(c, r) \/ ReleaseReservation(c, r)
    \/ \E c \in Calls : \/ MarkReservationApproved(c)
                        \/ PostReserve(c) \/ MarkReserved(c)
                        \/ PostRelease(c) \/ MarkReleased(c)

IssueNext ==
    \/ \E i \in Issues, u \in Users :
          CreateIssue(i, u) \/ \E c \in Calls : ApproveIssue(c, i, u)
    \/ \E c \in Calls, i \in Issues : PostIssue(c, i)
    \/ \E c \in Calls : \/ MarkIssueApproved(c) \/ LookForIssue(c)
                        \/ PostIssueLines(c) \/ CountIssued(c) \/ MarkIssued(c)

ReturnNext ==
    \/ \E t \in Returns : CreateReturn(t) \/ \E c \in Calls : ReceiveReturn(c, t)
    \/ \E c \in Calls : PostReturn(c) \/ MarkReturned(c)

InstallNext ==
    \/ \E c \in Calls, i \in Issues : InstallItem(c, i)
    \/ \E c \in Calls : PostInstall(c) \/ MarkInstalled(c)

Next ==
    \/ ReservationNext \/ IssueNext \/ ReturnNext \/ InstallNext
    \/ \E c \in Calls : Fail(c)

Spec == Init /\ [][Next]_vars

-----------------------------------------------------------------------------
ReservationSteps == {"reservation.approve", "reserve.post", "reserve.mark",
                     "release.post", "release.mark"}
IssueSteps == {"issue.approve", "issue.look", "issue.post", "issue.count",
               "issue.mark", "install.post", "install.mark"}
ReturnSteps == {"return.post", "return.mark"}

ReservationRecords ==
    [status : {"NONE", "REQUESTED", "APPROVED", "RESERVED", "RELEASED"},
     requestedBy : Users \cup {None}, approvedBy : Users \cup {None},
     issuedQuantity : Nat]

IssueRecords ==
    [status : {"NONE", "DRAFT", "APPROVED", "ISSUED"},
     createdBy : Users \cup {None}, approvedBy : Users \cup {None}]

\* Every step works on a document of its own kind.
CallRecords ==
    {s \in [at : {"idle"} \cup ReservationSteps \cup IssueSteps \cup ReturnSteps,
            doc : Reservations \cup Issues \cup Returns \cup {None},
            by : Users \cup {None}, remaining : Int, posted : BOOLEAN] :
       /\ s.at \in ReservationSteps => s.doc \in Reservations
       /\ s.at \in IssueSteps => s.doc \in Issues
       /\ s.at \in ReturnSteps => s.doc \in Returns}

TypeOK ==
    /\ reservation \in [Reservations -> ReservationRecords]
    /\ issue \in [Issues -> IssueRecords]
    /\ return \in [Returns -> {"NONE", "DRAFT", "RECEIVED"}]
    /\ installation \in [Issues -> {"NONE", "PLANNED", "INSTALLED"}]
    /\ call \in [Calls -> CallRecords]

\* A status never claims a movement of stock that is not in the ledger,
\* wherever commands interleave or fail: every status is written after its
\* posting (reserve, releaseReservation, postIssue, receiveReturn, installItem).
StatusBackedByLedger ==
    /\ \A r \in Reservations :
          /\ reservation[r].status \in {"RESERVED", "RELEASED"} => Posted(Key(r, "reserve"))
          /\ reservation[r].status = "RELEASED" =>
                \/ Posted(Key(r, "release"))
                \/ reservation[r].issuedQuantity >= ReservationForm[r].quantity
    /\ \A i \in Issues :
          /\ issue[i].status = "ISSUED" => Posted(Key(i, "issue"))
          /\ installation[i] = "INSTALLED" => Posted(Key(i, "install"))
    /\ \A t \in Returns : return[t] = "RECEIVED" => Posted(Key(t, "return"))

\* The ledger never gives back what it did not take: a release follows its
\* reserve, an installation and a return follow the issue they draw on.
LedgerInOrder ==
    /\ \A r \in Reservations : Posted(Key(r, "release")) => Posted(Key(r, "reserve"))
    /\ \A i \in Issues : Posted(Key(i, "install")) => Posted(Key(i, "issue"))
    /\ \A t \in Returns :
          Posted(Key(t, "return")) /\ ReturnForm[t].issue # None
             => Posted(Key(ReturnForm[t].issue, "issue"))

\* Maker-checker at the ledger: no reservation or issue moves stock without
\* the approval of somebody other than the user who asked for it, even when
\* approvals race with each other and with later commands.
MovedOnApproval ==
    /\ \A r \in Reservations : Posted(Key(r, "reserve")) =>
          reservation[r].approvedBy \notin {None, reservation[r].requestedBy}
    /\ \A i \in Issues : Posted(Key(i, "issue")) =>
          issue[i].approvedBy \notin {None, issue[i].createdBy}

GoodsIn(bal) ==
    SumFunction([k \in BalanceKeys |->
                    bal[k]["onHand"] + bal[k]["issued"] + bal[k]["installed"]])

Unsourced == {t \in Returns : ReturnForm[t].issue = None /\ Posted(Key(t, "return"))}

\* Goods are neither created nor lost on their way out and back: what is on
\* hand, issued or installed is what was there plus the returns that name no
\* issue.
GoodsConserved ==
    GoodsIn(balance) =
       GoodsIn(Opening) + SumFunction([t \in Unsourced |-> ReturnForm[t].quantity])

\* What a posted document moved on the balance row it is about.
Share(k, row, key, quantity) == IF row = k /\ Posted(key) THEN quantity ELSE 0

IssuedOn(k) ==
    SumFunction([i \in Issues |->
        Share(k, IssueForm[i].row, Key(i, "issue"), IssueForm[i].quantity)])

InstalledOn(k) ==
    SumFunction([i \in Issues |->
        Share(k, IssueForm[i].row, Key(i, "install"), IssueForm[i].quantity)])

\* A return goes to its own row and is taken from that of its issue.
ReturnedOn(k) ==
    SumFunction([t \in Returns |->
        IF ReturnForm[t].issue = None THEN 0
        ELSE Share(k, IssueForm[ReturnForm[t].issue].row, Key(t, "return"),
                   ReturnForm[t].quantity)])

\* Each document moves its goods once, however often it is approved again,
\* retried or called by two callers who both found nothing posted, and
\* wherever a call stops: what is installed, and what is issued and neither
\* installed nor back, are sums over the documents posted.
MovedOnce ==
    \A k \in BalanceKeys :
        /\ balance[k]["installed"] = Opening[k]["installed"] + InstalledOn(k)
        /\ balance[k]["issued"] =
              Opening[k]["issued"] + IssuedOn(k) - InstalledOn(k) - ReturnedOn(k)

\* docs/warehouse-and-inventory-model.md: project reservations cannot be
\* consumed elsewhere.  What the release and the issues of a reservation take
\* out of the reserved bucket is at most what its own reserve put there; any
\* more is stock another reservation holds.
ReservationsNotConsumedElsewhere ==
    \A r \in Reservations :
       LET drawing == {Key(r, "release")} \cup
                         {Key(i, "issue") : i \in {j \in Issues : IssueForm[j].reservation = r}}
           reserved(t) == SumFunction([k \in BalanceKeys |-> t.effect[k]["reserved"]])
           drawn == SumFunction([t \in {u \in transactions : u.idempotencyKey \in drawing}
                                    |-> -reserved(t)])
       IN  drawn <= IF Posted(Key(r, "reserve")) THEN ReservationForm[r].quantity ELSE 0
=============================================================================
