---------------------------- MODULE StockCounting ----------------------------
(***************************************************************************)
(* Stock adjustments and cycle counts (operations.service.ts:              *)
(* createAdjustment .. postCount), beside other movements of the same rows. *)
(*                                                                         *)
(* A count freezes the rows of its scope: inventory.post refuses a line on *)
(* a row that a count holds, unless the posting is the count's own         *)
(* adjustment.  The freeze is read inside the Serializable transaction of  *)
(* post and written outside of one, so a posting is two steps here: it     *)
(* reads the freeze, and commits unless a row it touches was posted to.    *)
(* The adjustment of a count has the count's number, which is unique, so   *)
(* the count itself names it.  As in StockIssuing a command interleaves    *)
(* with the others and may stop after any of its steps.                    *)
(***************************************************************************)
EXTENDS StockLedger, Sequences, SequencesExt

CONSTANTS
    Calls, Users, Counts,
    Scope,          \* the rows of every count
    Tallies,        \* quantities a counter may report
    Manual,         \* adjustments that are made by hand
    ManualLines,    \* their lines
    Movements,      \* other postings: a row and a quantity
    Opening, None

ASSUME CountingAssumption ==
    /\ \A n \in Counts : Scope[n] \subseteq BalanceKeys
    /\ Tallies \subseteq Nat
    /\ \A a \in Manual : \A i \in DOMAIN ManualLines[a] :
          ManualLines[a][i].row \in BalanceKeys
    /\ Opening \in [BalanceKeys -> Quantities]
    /\ \A k \in BalanceKeys : Projects(Opening[k]) /\ InStock(k, Opening[k])
    /\ None \notin Users \cup Counts \cup Tallies
    /\ Counts \cap Manual = {}
    /\ Movements \cap (Counts \cup Manual) = {}

VARIABLES
    count,          \* status, counterId, approvedBy, lines, its adjustment
    adjustment,     \* status, createdBy, approvedBy, lines
    call            \* per call: its step and what it remembers

vars == <<balance, transactions, count, adjustment, call>>

documents == <<count, adjustment>>

\* forCount: postCount goes on after postAdjustment.
Step(at, doc, by) ==
    [at |-> at, doc |-> doc, by |-> by, approver |-> None, lines |-> <<>>,
     tally |-> <<>>, forCount |-> FALSE, seen |-> {}]

Idle == Step("idle", None, None)

Start(c, step) ==
    /\ call[c] = Idle
    /\ call' = [call EXCEPT ![c] = step]

Goto(c, at) == call' = [call EXCEPT ![c].at = at]

Finish(c) == call' = [call EXCEPT ![c] = Idle]

\* The call ends where it is: an exception, a lost connection, a restart.
Fail(c) ==
    /\ call[c] # Idle
    /\ Finish(c)
    /\ UNCHANGED <<ledgerVars, documents>>

-----------------------------------------------------------------------------
Variance(l) == l.counted - l.expected

\* The lines postCount corrects; one that was never counted is among them.
Varying(lines) ==
    SelectSeq(lines, LAMBDA l : IF l.counted = None THEN TRUE ELSE Variance(l) # 0)

Correction(lines) ==
    FoldLeft(LAMBDA e, l : At(e, l.row, [onHand |-> Variance(l), available |-> Variance(l)]),
             NoEffect, lines)

\* What a posting for document d moves.
Effect(d) ==
    IF d \in Movements
    THEN At(NoEffect, d.row, [onHand |-> d.quantity, available |-> d.quantity])
    ELSE Correction(adjustment[d].lines)

Touched(d) == {k \in BalanceKeys : Effect(d)[k] # Zero}

\* The postings so far to the rows d touches.
History(d) == {t \in transactions : \E k \in Touched(d) : t.effect[k] # Zero}

FrozenStatuses == {"FROZEN", "COUNTING", "REVIEW", "APPROVED"}

Freezers(k) ==
    {n \in Counts : /\ count[n].status \in FrozenStatuses
                    /\ \E i \in DOMAIN count[n].lines : count[n].lines[i].row = k}

\* findFirst picks one of the counts that hold the row.
NotFrozenFor(d) ==
    \A k \in Touched(d) :
       Freezers(k) # {} => \E n \in Freezers(k) : count[n].adjustment = d

-----------------------------------------------------------------------------
Init ==
    /\ balance = Opening
    /\ transactions = {}
    /\ count = [n \in Counts |->
          [status |-> "NONE", counterId |-> None, approvedBy |-> None,
           lines |-> <<>>, adjustment |-> None]]
    /\ adjustment = [a \in Counts \cup Manual |->
          [status |-> "NONE", createdBy |-> None, approvedBy |-> None, lines |-> <<>>]]
    /\ call = [c \in Calls |-> Idle]

(* Postings *)

Move(c, m) ==
    /\ Start(c, Step("post", m, None))
    /\ UNCHANGED <<ledgerVars, documents>>

AfterPost(c) ==
    IF call[c].doc \in Movements THEN Finish(c) ELSE Goto(c, "adjust.posted")

\* The transaction starts: it finds the posting it would make, or a row that
\* is free.  Lines of no quantity are refused.
BeginPost(c) ==
    LET d == call[c].doc IN
    /\ call[c].at = "post"
    /\ IF Posted(d)
       THEN AfterPost(c)
       ELSE /\ d \notin Movements =>
                  \A i \in DOMAIN adjustment[d].lines : Variance(adjustment[d].lines[i]) # 0
            /\ NotFrozenFor(d)
            /\ call' = [call EXCEPT ![c].at = "commit", ![c].seen = History(d)]
    /\ UNCHANGED <<ledgerVars, documents>>

CommitPost(c) ==
    LET d == call[c].doc IN
    /\ call[c].at = "commit"
    /\ call[c].seen = History(d)
    /\ Post([idempotencyKey |-> d, effect |-> Effect(d)])
    /\ AfterPost(c)
    /\ UNCHANGED documents

(* Adjustments *)

CreateAdjustment(c, a, u) ==
    /\ \E i \in DOMAIN ManualLines[a] : Variance(ManualLines[a][i]) # 0
    /\ Start(c, [Step("adjust.check", a, u) EXCEPT !.lines = ManualLines[a]])
    /\ UNCHANGED <<ledgerVars, documents>>

\* The client's expectation is compared with the balance.
CheckBalances(c) ==
    /\ call[c].at = "adjust.check"
    /\ \A i \in DOMAIN call[c].lines :
          call[c].lines[i].expected = balance[call[c].lines[i].row]["onHand"]
    /\ Goto(c, "adjust.insert")
    /\ UNCHANGED <<ledgerVars, documents>>

InsertAdjustment_Again(c) ==
    LET a == call[c].doc IN
    /\ call[c].at = "adjust.insert"
    /\ adjustment' = [adjustment EXCEPT ![a] =
          [status |-> "DRAFT", createdBy |-> call[c].by, approvedBy |-> None,
           lines |-> call[c].lines]]
    /\ IF call[c].forCount THEN Goto(c, "adjust.approve") ELSE Finish(c)
    /\ UNCHANGED <<ledgerVars, count>>

\* The adjustment number is unique.
InsertAdjustment(c) ==
    LET a == call[c].doc IN
    /\ call[c].at = "adjust.insert"
    /\ adjustment[a].status = "NONE"
    /\ adjustment' = [adjustment EXCEPT ![a] =
          [status |-> "DRAFT", createdBy |-> call[c].by, approvedBy |-> None,
           lines |-> call[c].lines]]
    /\ IF call[c].forCount THEN Goto(c, "adjust.approve") ELSE Finish(c)
    /\ UNCHANGED <<ledgerVars, count>>

ApproveAdjustment_ByCreator(c, a, u) ==
    /\ adjustment[a].status = "DRAFT"
    /\ Start(c, [Step("adjust.approve", a, u) EXCEPT !.approver = u])
    /\ UNCHANGED <<ledgerVars, documents>>

ApproveAdjustment(c, a, u) ==
    /\ adjustment[a].status = "DRAFT"
    /\ adjustment[a].createdBy # u
    /\ Start(c, [Step("adjust.approve", a, u) EXCEPT !.approver = u])
    /\ UNCHANGED <<ledgerVars, documents>>

\* Also the step of postCount that approves in the name of the count's
\* approver.
MarkAdjustmentApproved(c) ==
    /\ call[c].at = "adjust.approve"
    /\ adjustment' = [adjustment EXCEPT ![call[c].doc].status = "APPROVED",
                                        ![call[c].doc].approvedBy = call[c].approver]
    /\ IF call[c].forCount THEN Goto(c, "count.link") ELSE Finish(c)
    /\ UNCHANGED <<ledgerVars, count>>

PostAdjustment(c, a) ==
    /\ adjustment[a].status = "APPROVED"
    /\ Start(c, Step("post", a, None))
    /\ UNCHANGED <<ledgerVars, documents>>

MarkAdjustmentPosted(c) ==
    /\ call[c].at = "adjust.posted"
    /\ adjustment' = [adjustment EXCEPT ![call[c].doc].status = "POSTED"]
    /\ IF call[c].forCount THEN Goto(c, "count.close") ELSE Finish(c)
    /\ UNCHANGED <<ledgerVars, count>>

(* Cycle counts *)

CreateCount(n) ==
    /\ count[n].status = "NONE"
    /\ count' = [count EXCEPT ![n].status = "DRAFT"]
    /\ UNCHANGED <<ledgerVars, adjustment, call>>

\* The count is read first, then the balances of its scope.
FreezeCount(c, n) ==
    /\ count[n].status = "DRAFT"
    /\ Start(c, Step("count.snapshot", n, None))
    /\ UNCHANGED <<ledgerVars, documents>>

SnapshotBalances(c) ==
    LET rows == SetToSeq(Scope[call[c].doc])
        line(i) == [row |-> rows[i], expected |-> balance[rows[i]]["onHand"], counted |-> None]
    IN
    /\ call[c].at = "count.snapshot"
    /\ call' = [call EXCEPT ![c].at = "count.freeze",
                            ![c].lines = [i \in DOMAIN rows |-> line(i)]]
    /\ UNCHANGED <<ledgerVars, documents>>

\* Lines are added to those another call may have written meanwhile.
MarkFrozen(c) ==
    /\ call[c].at = "count.freeze"
    /\ count' = [count EXCEPT ![call[c].doc].status = "FROZEN",
                              ![call[c].doc].lines = @ \o call[c].lines]
    /\ Finish(c)
    /\ UNCHANGED <<ledgerVars, adjustment>>

RecordCount(c, n, u) ==
    /\ count[n].status \in {"FROZEN", "COUNTING"}
    /\ \E S \in SUBSET DOMAIN count[n].lines \ {{}} : \E tally \in [S -> Tallies] :
          Start(c, [Step("count.record", n, u) EXCEPT !.tally = tally])
    /\ UNCHANGED <<ledgerVars, documents>>

\* Each line in an update of its own.
RecordLine(c) ==
    /\ call[c].at = "count.record"
    /\ \E i \in DOMAIN call[c].tally :
          /\ count' = [count EXCEPT ![call[c].doc].lines[i].counted = call[c].tally[i]]
          /\ call' = [call EXCEPT
                ![c].tally = [j \in DOMAIN @ \ {i} |-> @[j]],
                ![c].at = IF DOMAIN call[c].tally = {i} THEN "count.review" ELSE @]
    /\ UNCHANGED <<ledgerVars, adjustment>>

\* However many lines the client counted, and whatever became of the count.
MarkReview(c) ==
    /\ call[c].at = "count.review"
    /\ count' = [count EXCEPT ![call[c].doc].status = "REVIEW",
                              ![call[c].doc].counterId = call[c].by]
    /\ Finish(c)
    /\ UNCHANGED <<ledgerVars, adjustment>>

ApproveCount(c, n, u) ==
    /\ count[n].status = "REVIEW"
    /\ count[n].counterId # u
    /\ \A i \in DOMAIN count[n].lines : count[n].lines[i].counted # None
    /\ Start(c, Step("count.approve", n, u))
    /\ UNCHANGED <<ledgerVars, documents>>

MarkCountApproved(c) ==
    /\ call[c].at = "count.approve"
    /\ count' = [count EXCEPT ![call[c].doc].status = "APPROVED",
                              ![call[c].doc].approvedBy = call[c].by]
    /\ Finish(c)
    /\ UNCHANGED <<ledgerVars, adjustment>>

PostCount_Reviewed(c, n, u) ==
    LET lines == Varying(count[n].lines) IN
    /\ count[n].status \in {"REVIEW", "APPROVED"}
    /\ \A i \in DOMAIN lines : lines[i].counted # None
    /\ Start(c, [Step(IF lines = <<>> THEN "count.close" ELSE "adjust.check", n, u)
                   EXCEPT !.lines = lines, !.approver = count[n].approvedBy,
                          !.forCount = TRUE])
    /\ UNCHANGED <<ledgerVars, documents>>

\* A variance without a counted quantity is an exception.
PostCount(c, n, u) ==
    LET lines == Varying(count[n].lines) IN
    /\ count[n].status = "APPROVED"
    /\ \A i \in DOMAIN lines : lines[i].counted # None
    /\ Start(c, [Step(IF lines = <<>> THEN "count.close" ELSE "adjust.check", n, u)
                   EXCEPT !.lines = lines, !.approver = count[n].approvedBy,
                          !.forCount = TRUE])
    /\ UNCHANGED <<ledgerVars, documents>>

LinkAdjustment_Unposted(c) ==
    /\ call[c].at = "count.link"
    /\ count' = [count EXCEPT ![call[c].doc].adjustment = call[c].doc]
    /\ Goto(c, "count.close")
    /\ UNCHANGED <<ledgerVars, adjustment>>

LinkAdjustment(c) ==
    /\ call[c].at = "count.link"
    /\ count' = [count EXCEPT ![call[c].doc].adjustment = call[c].doc]
    /\ Goto(c, "post.read")
    /\ UNCHANGED <<ledgerVars, adjustment>>

\* postAdjustment within postCount.
ReadAdjustment(c) ==
    /\ call[c].at = "post.read"
    /\ \/ /\ adjustment[call[c].doc].status = "POSTED"
          /\ Goto(c, "count.close")
       \/ /\ adjustment[call[c].doc].status = "APPROVED"
          /\ Goto(c, "post")
    /\ UNCHANGED <<ledgerVars, documents>>

CloseCount(c) ==
    LET n == call[c].doc IN
    /\ call[c].at = "count.close"
    /\ count' = [count EXCEPT ![n].status = "POSTED",
                              ![n].adjustment = IF call[c].lines = <<>> THEN @ ELSE n]
    /\ Finish(c)
    /\ UNCHANGED <<ledgerVars, adjustment>>

Next ==
    \/ \E n \in Counts : CreateCount(n)
    \/ \E c \in Calls : \/ \E m \in Movements : Move(c, m)
                        \/ \E n \in Counts : FreezeCount(c, n)
                        \/ \E n \in Counts, u \in Users :
                              RecordCount(c, n, u) \/ ApproveCount(c, n, u) \/ PostCount(c, n, u)
                        \/ \E a \in Manual, u \in Users : CreateAdjustment(c, a, u)
                        \/ \E a \in Manual \cup Counts :
                              \/ \E u \in Users : ApproveAdjustment(c, a, u)
                              \/ PostAdjustment(c, a)
    \/ \E c \in Calls : \/ BeginPost(c) \/ CommitPost(c)
                        \/ CheckBalances(c) \/ InsertAdjustment(c)
                        \/ MarkAdjustmentApproved(c) \/ MarkAdjustmentPosted(c)
                        \/ SnapshotBalances(c) \/ MarkFrozen(c)
                        \/ RecordLine(c) \/ MarkReview(c) \/ MarkCountApproved(c)
                        \/ LinkAdjustment(c) \/ ReadAdjustment(c) \/ CloseCount(c)
                        \/ Fail(c)

Spec == Init /\ [][Next]_vars

-----------------------------------------------------------------------------
LineRecords == [row : BalanceKeys, expected : Int, counted : Int \cup {None}]

\* A count past DRAFT has the lines of its scope.
TypeOK ==
    /\ \A n \in Counts :
          /\ count[n].status \in {"NONE", "DRAFT", "POSTED"} \cup FrozenStatuses
          /\ {count[n].counterId, count[n].approvedBy} \subseteq Users \cup {None}
          /\ count[n].adjustment \in {n, None}
          /\ count[n].lines \in Seq(LineRecords)
          /\ count[n].lines = <<>> <=> count[n].status \in {"NONE", "DRAFT"}
    /\ \A a \in Counts \cup Manual :
          /\ adjustment[a].status \in {"NONE", "DRAFT", "APPROVED", "POSTED"}
          /\ adjustment[a].lines \in Seq(LineRecords)
    /\ \A c \in Calls : call[c].lines \in Seq(LineRecords)

\* What the ledger holds for an adjustment is what its lines say, however
\* often postCount or postAdjustment is retried.
PostedAsWritten ==
    \A t \in transactions :
       t.idempotencyKey \in Counts \cup Manual =>
          /\ adjustment[t.idempotencyKey].status \in {"APPROVED", "POSTED"}
          /\ t.effect = Correction(adjustment[t.idempotencyKey].lines)

\* Maker-checker: an adjustment made by hand is posted only with the
\* approval of somebody other than its creator (approveAdjustment,
\* postAdjustment).
AdjustedOnApproval ==
    \A a \in Manual :
       Posted(a) => adjustment[a].approvedBy \notin {None, adjustment[a].createdBy}

\* A count corrects the books only after somebody approved it, and by
\* counted quantities only (approveCount, postCount).
CorrectedOnApproval ==
    \A n \in Counts :
       adjustment[n].status # "NONE" =>
          /\ count[n].approvedBy # None
          /\ \A i \in DOMAIN adjustment[n].lines : adjustment[n].lines[i].counted # None

\* POSTED is written on an adjustment, and the count it corrects is closed,
\* only when the ledger holds the posting (postAdjustment, postCount).
ClosedIsPosted ==
    /\ \A a \in Counts \cup Manual : adjustment[a].status = "POSTED" => Posted(a)
    /\ \A c \in Calls :
          call[c].at = "count.close" /\ call[c].lines # <<>> => Posted(call[c].doc)
=============================================================================
