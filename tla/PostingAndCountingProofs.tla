---------------------- MODULE PostingAndCountingProofs ----------------------
(***************************************************************************)
(* Proofs about the two modules that model inventory.post by more than one *)
(* step.                                                                   *)
(*                                                                         *)
(* StockPosting: for any number of callers, balance rows and requests, the *)
(* Serializable posting transaction keeps the balance rows projected,      *)
(* never oversold and equal to what the recorded postings add up to,       *)
(* records each key once, answers truthfully and implements the atomic     *)
(* ledger of StockLedger.                                                  *)
(*                                                                         *)
(* StockCounting: for any rows, counts, manual adjustments, movements,     *)
(* users and number of concurrent calls.  AdjustmentOK and CountOK say     *)
(* what a document's status rests on, CallOK what a call between two of    *)
(* its steps may rely on although every other call goes on meanwhile; with *)
(* the shape of the rows they are inductive.                               *)
(***************************************************************************)
EXTENDS StockPosting, StockCounting, FiniteSums, TLAPS

-----------------------------------------------------------------------------
(* Posting: quantities *)

LEMMA PlusQuantities ==
    ASSUME NEW x \in Quantities, NEW y \in Quantities
    PROVE  Plus(x, y) \in Quantities
BY DEF Quantities, Plus, Buckets, ControlledBuckets

LEMMA ZeroQuantities == Zero \in Quantities /\ Projects(Zero)
BY DEF Zero, Quantities, Projects, Buckets, ControlledBuckets

LEMMA PlusZero ==
    ASSUME NEW x \in Quantities
    PROVE  Plus(x, Zero) = x
BY DEF Quantities, Plus, Zero, Buckets, ControlledBuckets

LEMMA PlusAssoc ==
    ASSUME NEW x \in Quantities, NEW y \in Quantities, NEW z \in Quantities
    PROVE  Plus(Plus(x, y), z) = Plus(x, Plus(y, z))
BY DEF Quantities, Plus, Buckets, ControlledBuckets

LEMMA PlusProjects ==
    ASSUME NEW x \in Quantities, NEW y \in Quantities, Projects(x), Projects(y)
    PROVE  Projects(Plus(x, y))
<1>1. \A b \in Buckets : x[b] \in Int /\ y[b] \in Int /\ Plus(x, y)[b] = x[b] + y[b]
  BY DEF Quantities, Plus
<1>2. {"onHand", "available", "reserved", "qualityHold", "damaged"} \subseteq Buckets
  BY DEF Buckets, ControlledBuckets
<1> QED
  BY <1>1, <1>2 DEF Projects

LEMMA EmptyRowInStock ==
    ASSUME NEW k \in BalanceKeys
    PROVE  InStock(k, Zero)
BY DEF InStock, Zero, Buckets, ControlledBuckets

\* How many lines a posting has on a row is a number, and 0 only without one.
LEMMA LinesOnCount ==
    ASSUME NEW r \in Requests, NEW k \in BalanceKeys
    PROVE  /\ Cardinality(LinesOn(r, k)) \in Nat
           /\ Cardinality(LinesOn(r, k)) = 0 <=> LinesOn(r, k) = {}
<1>1. r.lines \in Seq(Lines)
  BY PostingAssumption
<1>2. DOMAIN r.lines = 1 .. Len(r.lines) /\ Len(r.lines) \in Nat
  BY <1>1
<1>3. IsFiniteSet(DOMAIN r.lines)
  BY <1>2, FS_Interval
<1>4. IsFiniteSet(LinesOn(r, k))
  BY <1>3, FS_Subset DEF LinesOn
<1> QED
  BY <1>4, FS_CardinalityType, FS_EmptySet

LEMMA LineType ==
    ASSUME NEW r \in Requests, NEW i \in DOMAIN r.lines
    PROVE  /\ r.lines[i] \in Lines
           /\ r.lines[i].balanceKey \in BalanceKeys
           /\ r.lines[i].delta \in Quantities
           /\ i \in LinesOn(r, r.lines[i].balanceKey)
<1>1. r.lines \in Seq(Lines)
  BY PostingAssumption
<1>2. r.lines[i] \in Lines
  BY <1>1
<1> QED
  BY <1>2 DEF Lines, LinesOn

-----------------------------------------------------------------------------
(* Posting: the inductive invariant *)

\* An open transaction's view is its snapshot plus the lines it inserted;
\* where nobody committed since, that is the committed row plus its lines.
OpenTransaction(p) ==
    \A k \in BalanceKeys :
       /\ Projects(work[p][k]) /\ InStock(k, work[p][k])
       /\ Projects(effect[p][k])
       /\ LinesOn(request[p], k) = {} => effect[p][k] = Zero
       /\ seen[p][k] <= version[k]
       /\ seen[p][k] = version[k] => work[p][k] = Plus(balance[k], effect[p][k])

PostingInv ==
    /\ PostingTypeOK
    /\ ProjectionHolds
    /\ NeverOversold
    /\ RecordedOnce
    /\ AnswerIsRecorded
    /\ \A p \in Posters : phase[p] = "open" => OpenTransaction(p)

LEMMA InitPostingInv == PostingInit => PostingInv
<1> SUFFICES ASSUME PostingInit PROVE PostingInv
  OBVIOUS
<1> USE DEF PostingInit
<1>1. NoEffect \in [BalanceKeys -> Quantities]
  BY ZeroQuantities DEF NoEffect
<1>2. PostingTypeOK
  BY <1>1 DEF PostingTypeOK, Phases
<1>3. ProjectionHolds /\ NeverOversold
  BY ZeroQuantities, EmptyRowInStock DEF ProjectionHolds, NeverOversold, NoEffect
<1>4. RecordedOnce /\ AnswerIsRecorded
  BY DEF RecordedOnce, AnswerIsRecorded
<1> QED
  BY <1>2, <1>3, <1>4 DEF PostingInv

-----------------------------------------------------------------------------
(* Posting: type correctness of each step *)

LEMMA TypeStep == PostingTypeOK /\ [PostingNext]_postingVars => PostingTypeOK'
<1> SUFFICES ASSUME PostingTypeOK, [PostingNext]_postingVars PROVE PostingTypeOK'
  OBVIOUS
<1>0. NoEffect \in [BalanceKeys -> Quantities]
  BY ZeroQuantities DEF NoEffect
<1>1. ASSUME NEW p \in Posters, NEW r \in Requests, Begin(p, r) PROVE PostingTypeOK'
  BY <1>0, <1>1 DEF Begin, PostingTypeOK, Phases
<1>2. ASSUME NEW p \in Posters, NEW r \in Requests, Replay(p, r) PROVE PostingTypeOK'
  BY <1>2 DEF Replay, PostingTypeOK, Phases
<1>3. ASSUME NEW p \in Posters, PostLine(p) PROVE PostingTypeOK'
  <2>0. request[p] \in Requests
    BY <1>3 DEF PostLine, PostingTypeOK
  <2>1. PICK l \in Lines :
           /\ l = request[p].lines[nextLine[p]]
           /\ l.balanceKey \in BalanceKeys /\ l.delta \in Quantities
           /\ work' = [work EXCEPT ![p][l.balanceKey] = NextRow(p, l)]
           /\ effect' = [effect EXCEPT ![p][l.balanceKey] = Plus(@, l.delta)]
    BY <1>3, <2>0, LineType DEF PostLine
  <2>2. NextRow(p, l) \in Quantities /\ Plus(effect[p][l.balanceKey], l.delta) \in Quantities
    <3>0. work \in [Posters -> [BalanceKeys -> Quantities]]
          /\ effect \in [Posters -> [BalanceKeys -> Quantities]]
      BY DEF PostingTypeOK
    <3>1. work[p][l.balanceKey] \in Quantities /\ effect[p][l.balanceKey] \in Quantities
      BY ONLY <2>1, <3>0, p \in Posters
    <3> QED
      BY ONLY <2>1, <3>1, PlusQuantities DEF NextRow
  <2>3. work' \in [Posters -> [BalanceKeys -> Quantities]]
    BY <2>1, <2>2 DEF PostingTypeOK
  <2>4. effect' \in [Posters -> [BalanceKeys -> Quantities]]
    BY <2>1, <2>2 DEF PostingTypeOK
  <2>5. nextLine' \in [Posters -> Nat \ {0}]
    <3>1. nextLine \in [Posters -> Nat \ {0}] /\ nextLine' = [nextLine EXCEPT ![p] = @ + 1]
      BY <1>3 DEF PostLine, PostingTypeOK
    <3> QED
      BY ONLY <3>1, p \in Posters
  <2>6. UNCHANGED <<balance, transactions, version, frozenBy, phase, request, seen, frozenSeen>>
    BY <1>3 DEF PostLine
  <2> QED
    BY <2>3, <2>4, <2>5, <2>6 DEF PostingTypeOK
<1>4. ASSUME NEW p \in Posters, RejectLine(p) PROVE PostingTypeOK'
  BY <1>0, <1>4 DEF RejectLine, Answer, PostingTypeOK, Phases
<1>5. ASSUME NEW p \in Posters, Commit(p) PROVE PostingTypeOK'
  <2>0. request[p] \in Requests
    BY <1>5 DEF Commit, PostingTypeOK
  <2>1. balance' \in [BalanceKeys -> Quantities]
    BY <1>5 DEF Commit, PostingTypeOK
  <2>2. version' \in [BalanceKeys -> Nat]
    BY <1>5, <2>0, LinesOnCount DEF Commit, NextVersion, PostingTypeOK
  <2>3. \A t \in transactions' :
           /\ t.effect \in [BalanceKeys -> Quantities]
           /\ \E r \in Requests : t = Row(r, t.effect)
    BY <1>5, <2>0 DEF Commit, PostingTypeOK, Row
  <2> QED
    BY <1>0, <1>5, <2>1, <2>2, <2>3 DEF Commit, Answer, PostingTypeOK, Phases
<1>6. ASSUME NEW p \in Posters, Abort(p) PROVE PostingTypeOK'
  BY <1>0, <1>6 DEF Abort, Answer, PostingTypeOK, Phases
<1>7. ASSUME NEW p \in Posters, Return(p) PROVE PostingTypeOK'
  BY <1>7 DEF Return, PostingTypeOK, Phases
<1>8. ASSUME NEW k \in CountedRows, CycleCountStep(k) PROVE PostingTypeOK'
  <2>1. frozenBy' \in [BalanceKeys -> Sources \cup {NotFrozen, NoAdjustment}]
    BY <1>8 DEF CycleCountStep, PostingTypeOK
  <2> QED
    BY <1>8, <2>1 DEF CycleCountStep, txVars, PostingTypeOK
<1>9. CASE UNCHANGED postingVars
  BY <1>9 DEF postingVars, txVars, PostingTypeOK
<1>10. CASE PostingNext
  <2>1. CASE \E p \in Posters :
                \/ \E r \in Requests : Begin(p, r) \/ Replay(p, r)
                \/ PostLine(p) \/ RejectLine(p) \/ Commit(p) \/ Abort(p) \/ Return(p)
    BY <2>1, <1>1, <1>2, <1>3, <1>4, <1>5, <1>6, <1>7
  <2>2. CASE \E k \in CountedRows : CycleCountStep(k)
    BY <2>2, <1>8
  <2> QED
    BY <1>10, <2>1, <2>2 DEF PostingNext
<1> QED
  BY <1>9, <1>10

-----------------------------------------------------------------------------
(* Posting: the invariant is inductive *)

\* A call that stays open beside a step that leaves its transaction and the
\* committed rows alone keeps its view.
LEMMA OpenFrame ==
    ASSUME NEW q \in Posters, OpenTransaction(q),
           request'[q] = request[q], seen'[q] = seen[q],
           work'[q] = work[q], effect'[q] = effect[q],
           balance' = balance, version' = version
    PROVE  OpenTransaction(q)'
BY DEF OpenTransaction, LinesOn

\* Nothing a caller was told is invalidated by further postings.
LEMMA AnswerFrame ==
    ASSUME AnswerIsRecorded, transactions \subseteq transactions',
           NEW q \in Posters, request'[q] = request[q], phase'[q] = phase[q],
           phase'[q] \in {"created", "existing"}
    PROVE  \E t \in transactions' :
              /\ t.idempotencyKey = request'[q].idempotencyKey
              /\ t.payloadHash = PayloadHash(request'[q])
BY DEF AnswerIsRecorded

LEMMA BeginStep ==
    ASSUME PostingInv, NEW p \in Posters, NEW r \in Requests, Begin(p, r)
    PROVE  PostingInv'
<1> USE DEF Begin
<1>1. PostingTypeOK'
  BY TypeStep DEF PostingNext, PostingInv
<1>2. ProjectionHolds' /\ NeverOversold' /\ RecordedOnce'
  BY DEF PostingInv, ProjectionHolds, NeverOversold, RecordedOnce
<1>3. AnswerIsRecorded'
  <2> SUFFICES ASSUME NEW q \in Posters, phase'[q] \in {"created", "existing"}
               PROVE  \E t \in transactions' :
                         /\ t.idempotencyKey = request'[q].idempotencyKey
                         /\ t.payloadHash = PayloadHash(request'[q])
    BY DEF AnswerIsRecorded
  <2>1. q # p /\ phase'[q] = phase[q] /\ request'[q] = request[q]
    BY DEF PostingInv, PostingTypeOK
  <2> QED
    BY <2>1, AnswerFrame DEF PostingInv
<1>4. ASSUME NEW q \in Posters, phase'[q] = "open" PROVE OpenTransaction(q)'
  <2>1. CASE q # p
    BY <1>4, <2>1, OpenFrame DEF PostingInv, PostingTypeOK
  <2>2. CASE q = p
    <3>1. /\ request'[p] = r /\ seen'[p] = version /\ work'[p] = balance
          /\ effect'[p] = NoEffect
      BY DEF PostingInv, PostingTypeOK
    <3> SUFFICES ASSUME NEW k \in BalanceKeys
                 PROVE  /\ Projects(balance[k]) /\ InStock(k, balance[k])
                        /\ Projects(Zero)
                        /\ version[k] <= version[k]
                        /\ balance[k] = Plus(balance[k], Zero)
      BY <2>2, <3>1 DEF OpenTransaction, NoEffect, LinesOn
    <3>2. balance[k] \in Quantities /\ version[k] \in Nat
      BY DEF PostingInv, PostingTypeOK
    <3> QED
      BY <3>2, PlusZero, ZeroQuantities DEF PostingInv, ProjectionHolds, NeverOversold
  <2> QED
    BY <2>1, <2>2
<1> QED
  BY <1>1, <1>2, <1>3, <1>4 DEF PostingInv

LEMMA PostLineStep ==
    ASSUME PostingInv, NEW p \in Posters, PostLine(p)
    PROVE  PostingInv'
<1>1. PostingTypeOK'
  BY TypeStep DEF PostingNext, PostingInv
<1>2. /\ UNCHANGED <<balance, transactions, version, phase, request, seen>>
      /\ phase[p] = "open" /\ request[p] \in Requests
  BY DEF PostLine, PostingInv, PostingTypeOK
<1>3. ProjectionHolds' /\ NeverOversold' /\ RecordedOnce' /\ AnswerIsRecorded'
  BY <1>2 DEF PostingInv, ProjectionHolds, NeverOversold, RecordedOnce,
              AnswerIsRecorded
<1>4. PICK l \in Lines :
         /\ l.balanceKey \in BalanceKeys /\ l.delta \in Quantities
         /\ LinesOn(request[p], l.balanceKey) # {}
         /\ Projects(l.delta)
         /\ InStock(l.balanceKey, NextRow(p, l))
         /\ work' = [work EXCEPT ![p][l.balanceKey] = NextRow(p, l)]
         /\ effect' = [effect EXCEPT ![p][l.balanceKey] = Plus(@, l.delta)]
  BY <1>2, LineType DEF PostLine, Sufficient, ValidLine
<1> DEFINE k0 == l.balanceKey
<1>5. ASSUME NEW q \in Posters, phase'[q] = "open" PROVE OpenTransaction(q)'
  <2>0. OpenTransaction(q)
    BY <1>2, <1>5 DEF PostingInv
  <2>1. CASE q # p
    <3>1. work'[q] = work[q] /\ effect'[q] = effect[q]
      BY <1>4, <2>1 DEF PostingInv, PostingTypeOK
    <3> QED
      BY <1>2, <2>0, <3>1, OpenFrame
  <2>2. CASE q = p
    <3> SUFFICES ASSUME NEW k \in BalanceKeys
                 PROVE  /\ Projects(work'[p][k]) /\ InStock(k, work'[p][k])
                        /\ Projects(effect'[p][k])
                        /\ LinesOn(request[p], k) = {} => effect'[p][k] = Zero
                        /\ seen[p][k] <= version[k]
                        /\ seen[p][k] = version[k] =>
                              work'[p][k] = Plus(balance[k], effect'[p][k])
      BY <1>2, <2>2 DEF OpenTransaction, LinesOn
    <3>1. work \in [Posters -> [BalanceKeys -> Quantities]]
          /\ effect \in [Posters -> [BalanceKeys -> Quantities]]
          /\ balance \in [BalanceKeys -> Quantities]
      BY DEF PostingInv, PostingTypeOK
    <3>2. CASE k # k0
      <4>1. work'[p][k] = work[p][k] /\ effect'[p][k] = effect[p][k]
        BY <1>4, <3>1, <3>2
      <4> QED
        BY <2>0, <2>2, <4>1 DEF OpenTransaction
    <3>3. CASE k = k0
      <4>1. /\ work'[p][k] = Plus(work[p][k], l.delta)
            /\ effect'[p][k] = Plus(effect[p][k], l.delta)
        BY <1>4, <3>1, <3>3 DEF NextRow
      <4>2. work[p][k] \in Quantities /\ effect[p][k] \in Quantities /\ balance[k] \in Quantities
        BY <3>1
      <4>3. Projects(work'[p][k]) /\ Projects(effect'[p][k])
        BY <1>4, <2>0, <2>2, <4>1, <4>2, PlusProjects DEF OpenTransaction
      <4>4. InStock(k, work'[p][k])
        BY <1>4, <3>3, <4>1 DEF NextRow
      <4>5. seen[p][k] = version[k] => work'[p][k] = Plus(balance[k], effect'[p][k])
        BY <1>4, <2>0, <2>2, <4>1, <4>2, PlusAssoc DEF OpenTransaction
      <4> QED
        BY <1>4, <2>0, <2>2, <3>3, <4>3, <4>4, <4>5 DEF OpenTransaction
    <3> QED
      BY <3>2, <3>3
  <2> QED
    BY <2>1, <2>2
<1> QED
  BY <1>1, <1>3, <1>5 DEF PostingInv

LEMMA ReplayStep ==
    ASSUME PostingInv, NEW p \in Posters, NEW r \in Requests, Replay(p, r)
    PROVE  PostingInv'
<1>1. PostingTypeOK'
  BY TypeStep DEF PostingNext, PostingInv
<1>2. ProjectionHolds' /\ NeverOversold' /\ RecordedOnce'
  BY DEF Replay, PostingInv, ProjectionHolds, NeverOversold, RecordedOnce
<1>3. AnswerIsRecorded'
  <2> SUFFICES ASSUME NEW q \in Posters, phase'[q] \in {"created", "existing"}
               PROVE  \E t \in transactions' :
                         /\ t.idempotencyKey = request'[q].idempotencyKey
                         /\ t.payloadHash = PayloadHash(request'[q])
    BY DEF AnswerIsRecorded
  <2>1. CASE q # p
    <3>1. phase'[q] = phase[q] /\ request'[q] = request[q] /\ transactions' = transactions
      BY <2>1 DEF Replay, PostingInv, PostingTypeOK
    <3> QED
      BY <3>1, AnswerFrame DEF PostingInv
  <2>2. CASE q = p
    <3>1. request'[p] = r /\ transactions' = transactions
      BY DEF Replay, PostingInv, PostingTypeOK
    <3>2. PICK t \in transactions :
             /\ t.idempotencyKey = r.idempotencyKey
             /\ phase' = [phase EXCEPT ![p] =
                             IF t.payloadHash = PayloadHash(r) THEN "existing"
                                                               ELSE "mismatch"]
      BY DEF Replay
    <3>3. t.payloadHash = PayloadHash(r)
      BY <2>2, <3>2 DEF PostingInv, PostingTypeOK
    <3> QED
      BY <2>2, <3>1, <3>2, <3>3
  <2> QED
    BY <2>1, <2>2
<1>4. ASSUME NEW q \in Posters, phase'[q] = "open" PROVE OpenTransaction(q)'
  <2>1. q # p /\ phase[q] = "open"
    BY <1>4 DEF Replay, PostingInv, PostingTypeOK
  <2>2. request'[q] = request[q]
    BY <2>1 DEF Replay, PostingInv, PostingTypeOK
  <2> QED
    BY <2>1, <2>2, OpenFrame DEF Replay, PostingInv
<1> QED
  BY <1>1, <1>2, <1>3, <1>4 DEF PostingInv

\* The steps that end a call without posting, and those of the cycle counts.
LEMMA QuietStep ==
    ASSUME PostingInv,
           \/ \E p \in Posters : RejectLine(p) \/ Abort(p) \/ Return(p)
           \/ \E k \in CountedRows : CycleCountStep(k)
           \/ UNCHANGED postingVars
    PROVE  PostingInv'
<1>1. PostingTypeOK'
  BY TypeStep DEF PostingNext, PostingInv
<1>2. UNCHANGED <<balance, transactions, version>>
  BY DEF RejectLine, Abort, Return, CycleCountStep, postingVars
<1>3. ProjectionHolds' /\ NeverOversold' /\ RecordedOnce'
  BY <1>2 DEF PostingInv, ProjectionHolds, NeverOversold, RecordedOnce
<1>4. ASSUME NEW q \in Posters, phase'[q] \in {"open", "created", "existing"}
      PROVE  /\ phase'[q] = phase[q] /\ request'[q] = request[q]
             /\ seen'[q] = seen[q] /\ work'[q] = work[q] /\ effect'[q] = effect[q]
  <2>1. ASSUME NEW p \in Posters, RejectLine(p) \/ Abort(p) PROVE q # p
    BY <1>4, <2>1 DEF RejectLine, Abort, Answer, PostingInv, PostingTypeOK
  <2>2. ASSUME NEW p \in Posters, Return(p) PROVE q # p
    BY <1>4, <2>2 DEF Return, PostingInv, PostingTypeOK
  <2>3. ASSUME NEW p \in Posters, RejectLine(p) \/ Abort(p) \/ Return(p)
        PROVE  /\ phase'[q] = phase[q] /\ request'[q] = request[q]
               /\ seen'[q] = seen[q] /\ work'[q] = work[q] /\ effect'[q] = effect[q]
    BY <2>1, <2>2, <2>3 DEF RejectLine, Abort, Return, Answer, PostingInv, PostingTypeOK
  <2>4. CASE \E k \in CountedRows : CycleCountStep(k)
    BY <2>4 DEF CycleCountStep, txVars
  <2>5. CASE UNCHANGED postingVars
    BY <2>5 DEF postingVars, txVars
  <2> QED
    BY <2>3, <2>4, <2>5
<1>5. AnswerIsRecorded'
  <2> SUFFICES ASSUME NEW q \in Posters, phase'[q] \in {"created", "existing"}
               PROVE  \E t \in transactions' :
                         /\ t.idempotencyKey = request'[q].idempotencyKey
                         /\ t.payloadHash = PayloadHash(request'[q])
    BY DEF AnswerIsRecorded
  <2> QED
    BY <1>2, <1>4, AnswerFrame DEF PostingInv
<1>6. ASSUME NEW q \in Posters, phase'[q] = "open" PROVE OpenTransaction(q)'
  BY <1>2, <1>4, <1>6, OpenFrame DEF PostingInv
<1> QED
  BY <1>1, <1>3, <1>5, <1>6 DEF PostingInv

-----------------------------------------------------------------------------
(* Posting: the commit *)

\* What a commit does to the balance rows is what the abstract ledger's
\* posting does: it adds the net effect, to admissible quantities.
LEMMA CommitPosts ==
    ASSUME PostingInv, NEW p \in Posters, Commit(p)
    PROVE  LET t == Row(request[p], effect[p])
           IN  /\ t \notin transactions
               /\ transactions' = transactions \cup {t}
               /\ Post(t)
<1> DEFINE t == Row(request[p], effect[p])
<1>1. /\ t.idempotencyKey = request[p].idempotencyKey
      /\ t.effect = effect[p]
  BY DEF Row
<1>2. ~Posted(t.idempotencyKey) /\ t \notin transactions /\ transactions' = transactions \cup {t}
  BY <1>1 DEF Commit, Serializable, Posted
<1>3. OpenTransaction(p)
  BY DEF Commit, PostingInv
<1>4. /\ balance \in [BalanceKeys -> Quantities]
      /\ work[p] \in [BalanceKeys -> Quantities]
      /\ effect[p] \in [BalanceKeys -> Quantities]
  BY DEF PostingInv, PostingTypeOK
<1>5. ASSUME NEW k \in BalanceKeys
      PROVE  /\ balance'[k] = Applied(effect[p])[k]
             /\ Projects(effect[p][k])
             /\ InStock(k, Applied(effect[p])[k])
  <2>1. Applied(effect[p])[k] = Plus(balance[k], effect[p][k])
    BY DEF Applied
  <2>2. CASE LinesOn(request[p], k) # {}
    <3>1. balance'[k] = work[p][k] /\ seen[p][k] = version[k]
      BY <2>2 DEF Commit, Serializable
    <3> QED
      BY <1>3, <2>1, <3>1 DEF OpenTransaction
  <2>3. CASE LinesOn(request[p], k) = {}
    <3>1. balance'[k] = balance[k] /\ effect[p][k] = Zero
      BY <1>3, <2>3 DEF Commit, OpenTransaction
    <3>2. Plus(balance[k], Zero) = balance[k]
      BY <1>4, PlusZero
    <3> QED
      BY <1>3, <2>1, <3>1, <3>2 DEF OpenTransaction, PostingInv, NeverOversold
  <2> QED
    BY <2>2, <2>3
<1>6. balance' = Applied(effect[p])
  BY <1>5 DEF Commit, Applied
<1> QED
  BY <1>1, <1>2, <1>5, <1>6 DEF Post, Admissible

\* Versions move with the rows they count.
LEMMA CommitVersions ==
    ASSUME PostingInv, NEW p \in Posters, Commit(p), NEW k \in BalanceKeys
    PROVE  /\ version[k] \in Nat /\ version'[k] \in Nat
           /\ version'[k] >= version[k]
           /\ version'[k] = version[k] => balance'[k] = balance[k]
<1>1. request[p] \in Requests
  BY DEF Commit, PostingInv, PostingTypeOK
<1>2. version[k] \in Nat /\ version'[k] = version[k] + Cardinality(LinesOn(request[p], k))
  BY DEF Commit, NextVersion, PostingInv, PostingTypeOK
<1> QED
  BY <1>1, <1>2, LinesOnCount DEF Commit

LEMMA CommitStep ==
    ASSUME PostingInv, NEW p \in Posters, Commit(p)
    PROVE  PostingInv'
<1> DEFINE t == Row(request[p], effect[p])
<1>1. PostingTypeOK'
  BY TypeStep DEF PostingNext, PostingInv
<1>2. Post(t) /\ transactions' = transactions \cup {t}
  BY CommitPosts
<1>3. /\ t.idempotencyKey = request[p].idempotencyKey
      /\ t.transactionNumber = request[p].transactionNumber
      /\ t.payloadHash = PayloadHash(request[p])
      /\ t.effect = effect[p]
  BY DEF Row
<1>4. ProjectionHolds' /\ NeverOversold'
  <2> SUFFICES ASSUME NEW k \in BalanceKeys
               PROVE  Projects(balance'[k]) /\ InStock(k, balance'[k])
    BY DEF ProjectionHolds, NeverOversold
  <2>1. /\ balance'[k] = Plus(balance[k], effect[p][k])
        /\ Projects(effect[p][k]) /\ InStock(k, balance'[k])
    BY <1>2, <1>3 DEF Post, Admissible, Applied
  <2>2. balance[k] \in Quantities /\ effect[p][k] \in Quantities /\ Projects(balance[k])
    BY DEF PostingInv, PostingTypeOK, ProjectionHolds
  <2> QED
    BY <2>1, <2>2, PlusProjects
<1>5. RecordedOnce'
  <2>1. \A u \in transactions : /\ u.idempotencyKey # t.idempotencyKey
                                /\ u.transactionNumber # t.transactionNumber
    BY <1>3 DEF Commit, Serializable
  <2> QED
    BY <1>2, <2>1 DEF RecordedOnce, PostingInv
<1>6. /\ phase' = [phase EXCEPT ![p] = "created"] /\ request' = request
  BY DEF Commit, Answer
<1>7. AnswerIsRecorded'
  <2> SUFFICES ASSUME NEW q \in Posters, phase'[q] \in {"created", "existing"}
               PROVE  \E u \in transactions' :
                         /\ u.idempotencyKey = request'[q].idempotencyKey
                         /\ u.payloadHash = PayloadHash(request'[q])
    BY DEF AnswerIsRecorded
  <2>1. CASE q = p
    BY <1>2, <1>3, <1>6, <2>1
  <2>2. CASE q # p
    <3>1. phase'[q] = phase[q]
      BY <1>6, <2>2 DEF PostingInv, PostingTypeOK
    <3> QED
      BY <1>2, <1>6, <3>1, AnswerFrame DEF PostingInv
  <2> QED
    BY <2>1, <2>2
<1>8. ASSUME NEW q \in Posters, phase'[q] = "open" PROVE OpenTransaction(q)'
  <2>1. q # p /\ phase[q] = "open"
    BY <1>6, <1>8 DEF PostingInv, PostingTypeOK
  <2>2. /\ seen'[q] = seen[q] /\ work'[q] = work[q] /\ effect'[q] = effect[q]
    BY <2>1 DEF Commit, Answer, PostingInv, PostingTypeOK
  <2> SUFFICES ASSUME NEW k \in BalanceKeys
               PROVE  /\ Projects(work[q][k]) /\ InStock(k, work[q][k])
                      /\ Projects(effect[q][k])
                      /\ LinesOn(request[q], k) = {} => effect[q][k] = Zero
                      /\ seen[q][k] <= version'[k]
                      /\ seen[q][k] = version'[k] =>
                            work[q][k] = Plus(balance'[k], effect[q][k])
    BY <1>6, <2>2 DEF OpenTransaction, LinesOn
  <2>3. OpenTransaction(q)
    BY <2>1 DEF PostingInv
  <2>4. seen[q][k] \in Nat
    BY DEF PostingInv, PostingTypeOK
  <2>5. seen[q][k] <= version'[k] /\ (seen[q][k] = version'[k] => version'[k] = version[k])
    BY <2>3, <2>4, CommitVersions DEF OpenTransaction
  <2> QED
    BY <2>3, <2>5, CommitVersions DEF OpenTransaction
<1> QED
  BY <1>1, <1>4, <1>5, <1>7, <1>8 DEF PostingInv

LEMMA PostingStep == PostingInv /\ [PostingNext]_postingVars => PostingInv'
<1> SUFFICES ASSUME PostingInv, [PostingNext]_postingVars PROVE PostingInv'
  OBVIOUS
<1>1. CASE \E p \in Posters : \E r \in Requests : Begin(p, r) \/ Replay(p, r)
  BY <1>1, BeginStep, ReplayStep
<1>2. CASE \E p \in Posters : PostLine(p) \/ Commit(p)
  BY <1>2, PostLineStep, CommitStep
<1>3. CASE \/ \E p \in Posters : RejectLine(p) \/ Abort(p) \/ Return(p)
           \/ \E k \in CountedRows : CycleCountStep(k)
           \/ UNCHANGED postingVars
  BY <1>3, QuietStep
<1> QED
  BY <1>1, <1>2, <1>3 DEF PostingNext

\* To the abstract ledger every step is one posting, or nothing.
LEMMA PostingLedgerStep == PostingInv /\ [PostingNext]_postingVars => [LedgerNext]_ledgerVars
<1> SUFFICES ASSUME PostingInv, [PostingNext]_postingVars PROVE [LedgerNext]_ledgerVars
  OBVIOUS
<1>1. ASSUME NEW p \in Posters, Commit(p) PROVE LedgerNext
  BY <1>1, CommitPosts DEF LedgerNext
<1>2. CASE ~\E p \in Posters : Commit(p)
  <2>1. UNCHANGED <<balance, transactions>>
    <3>1. CASE UNCHANGED postingVars
      BY <3>1 DEF postingVars
    <3>2. CASE \E k \in CountedRows : CycleCountStep(k)
      BY <3>2 DEF CycleCountStep
    <3>3. ASSUME NEW p \in Posters,
                 \/ \E r \in Requests : Begin(p, r) \/ Replay(p, r)
                 \/ PostLine(p) \/ RejectLine(p) \/ Abort(p) \/ Return(p)
          PROVE  UNCHANGED <<balance, transactions>>
      BY <3>3 DEF Begin, Replay, PostLine, RejectLine, Abort, Return
    <3> QED
      BY <1>2, <3>1, <3>2, <3>3 DEF PostingNext
  <2> QED
    BY <2>1 DEF ledgerVars
<1> QED
  BY <1>1, <1>2
-----------------------------------------------------------------------------
(* Posting: the sum of the ledger *)

\* What one more transaction adds to what the ledger moved.
LEMMA MovedByOneMore ==
    ASSUME IsFiniteSet(transactions), NEW k \in BalanceKeys, NEW b \in Buckets, NEW t,
           t \notin transactions, transactions' = transactions \cup {t},
           \A u \in transactions' : u.effect[k][b] \in Int
    PROVE  Moved(k, b)' = Moved(k, b) + t.effect[k][b]
<1>1. PICK f : f = [u \in transactions |-> u.effect[k][b]]
  OBVIOUS
<1>2. PICK g : g = [u \in transactions' |-> u.effect[k][b]]
  OBVIOUS
<1>3. Summable(f) /\ DOMAIN f = transactions
  BY <1>1 DEF Summable
<1>4. /\ DOMAIN g = DOMAIN f \cup {t} /\ t \notin DOMAIN f
      /\ g[t] = t.effect[k][b] /\ g[t] \in Int
      /\ \A u \in DOMAIN f : g[u] = f[u]
  BY <1>1, <1>2
<1>5. SumFunction(g) = SumFunction(f) + g[t]
  BY ONLY <1>3, <1>4, FunctionSumAdd
<1>6. Moved(k, b) = SumFunction(f)
  BY <1>1 DEF Moved
<1>7. Moved(k, b)' = SumFunction(g)
  BY <1>2 DEF Moved
<1> QED
  BY ONLY <1>4, <1>5, <1>6, <1>7, Zenon

\* Finitely many postings are recorded, and they add up to the balances.
LedgerSums == IsFiniteSet(transactions) /\ BalanceIsLedgerSum

LEMMA InitLedgerSums == PostingInit => LedgerSums
<1> SUFFICES ASSUME PostingInit PROVE LedgerSums
  OBVIOUS
<1>1. transactions = {} /\ IsFiniteSet(transactions)
  BY FS_EmptySet DEF PostingInit
<1>2. ASSUME NEW k \in BalanceKeys, NEW b \in Buckets PROVE balance[k][b] = Moved(k, b)
  <2>1. DOMAIN [t \in transactions |-> t.effect[k][b]] = {}
    BY <1>1
  <2>2. Moved(k, b) = 0
    BY <2>1, FunctionSumEmpty DEF Moved
  <2>3. balance[k][b] = 0
    BY DEF PostingInit, NoEffect, Zero
  <2> QED
    BY <2>2, <2>3
<1> QED
  BY <1>1, <1>2 DEF LedgerSums, BalanceIsLedgerSum

LEMMA LedgerSumsStep ==
    ASSUME PostingInv, PostingInv', LedgerSums, [LedgerNext]_ledgerVars
    PROVE  LedgerSums'
<1>1. CASE UNCHANGED ledgerVars
  BY <1>1 DEF ledgerVars, LedgerSums, BalanceIsLedgerSum, Moved
<1>2. CASE LedgerNext
  <2>1. PICK t : Post(t)
    BY <1>2 DEF LedgerNext
  <2>2. /\ transactions' = transactions \cup {t}
        /\ t \notin transactions
        /\ balance' = Applied(t.effect)
    BY <2>1 DEF Post, Posted
  <2>3. IsFiniteSet(transactions')
    BY <2>2, FS_AddElement DEF LedgerSums
  <2>4. \A u \in transactions' : u.effect \in [BalanceKeys -> Quantities]
    BY DEF PostingInv, PostingTypeOK
  <2>5. ASSUME NEW k \in BalanceKeys, NEW b \in Buckets
        PROVE  balance'[k][b] = Moved(k, b)'
    <3>1. \A u \in transactions' : u.effect[k][b] \in Int
      BY <2>4 DEF Quantities
    <3>2. Moved(k, b)' = Moved(k, b) + t.effect[k][b]
      BY <2>2, <3>1, MovedByOneMore DEF LedgerSums
    <3>3. balance'[k][b] = balance[k][b] + t.effect[k][b]
      BY <2>2 DEF Applied, Plus
    <3> QED
      BY <3>2, <3>3 DEF LedgerSums, BalanceIsLedgerSum
  <2> QED
    BY <2>3, <2>5 DEF LedgerSums, BalanceIsLedgerSum
<1> QED
  BY <1>1, <1>2

-----------------------------------------------------------------------------
(* Posting: the theorems *)

\* Every reachable state of any number of concurrent postings satisfies the
\* inductive invariant.
THEOREM PostingInvariant == PostingSpec => []PostingInv
<1>1. PostingInit => PostingInv
  BY InitPostingInv
<1>2. PostingInv /\ [PostingNext]_postingVars => PostingInv'
  BY PostingStep
<1> QED
  BY <1>1, <1>2, PTL DEF PostingSpec

\* The rows and the private views of open transactions keep their types.
THEOREM PostingTypes == PostingSpec => []PostingTypeOK
<1>1. PostingInv => PostingTypeOK
  BY DEF PostingInv
<1> QED
  BY <1>1, PostingInvariant, PTL

\* On-hand stock is always the sum of the buckets of goods that are there
\* (the projection check of post, under any interleaving of postings).
THEOREM PostingProjects == PostingSpec => []ProjectionHolds
<1>1. PostingInv => ProjectionHolds
  BY DEF PostingInv
<1> QED
  BY <1>1, PostingInvariant, PTL

\* No interleaving of postings oversells a row or makes a controlled bucket
\* negative, although each transaction checks its own snapshot only.
THEOREM PostingNeverOversells == PostingSpec => []NeverOversold
<1>1. PostingInv => NeverOversold
  BY DEF PostingInv
<1> QED
  BY <1>1, PostingInvariant, PTL

\* An idempotency key and a transaction number are recorded at most once.
THEOREM PostingRecordsOnce == PostingSpec => []RecordedOnce
<1>1. PostingInv => RecordedOnce
  BY DEF PostingInv
<1> QED
  BY <1>1, PostingInvariant, PTL

\* A call answered with a transaction finds its own movement in the ledger.
THEOREM PostingAnswers == PostingSpec => []AnswerIsRecorded
<1>1. PostingInv => AnswerIsRecorded
  BY DEF PostingInv
<1> QED
  BY <1>1, PostingInvariant, PTL

\* The version column tells every change of a balance row.
THEOREM PostingVersions == PostingSpec => VersionTellsChange
<1>1. PostingInv /\ [PostingNext]_postingVars =>
         [\A k \in BalanceKeys :
             /\ version'[k] >= version[k]
             /\ version'[k] = version[k] => balance'[k] = balance[k]]_postingVars
  <2> SUFFICES ASSUME PostingInv, PostingNext, NEW k \in BalanceKeys
               PROVE  /\ version'[k] >= version[k]
                      /\ version'[k] = version[k] => balance'[k] = balance[k]
    OBVIOUS
  <2>1. version[k] \in Nat
    BY DEF PostingInv, PostingTypeOK
  <2>2. CASE \E p \in Posters : Commit(p)
    BY <2>2, CommitVersions
  <2>3. CASE ~\E p \in Posters : Commit(p)
    <3>1. UNCHANGED <<balance, version>>
      BY <2>3 DEF PostingNext, Begin, Replay, PostLine, RejectLine, Abort, Return, CycleCountStep
    <3> QED
      BY <2>1, <3>1
  <2> QED
    BY <2>2, <2>3
<1> QED
  BY <1>1, PostingInvariant, PTL DEF PostingSpec, VersionTellsChange

\* The line-by-line transactions implement the atomic ledger: every step
\* either posts one admissible transaction whole or leaves the ledger alone.
THEOREM PostingImplementsLedger == PostingSpec => LedgerSpec
<1>1. PostingInit => LedgerInit
  BY InitPostingInv DEF PostingInit, LedgerInit, PostingInv, PostingTypeOK, ProjectionHolds, NeverOversold
<1>2. PostingInv /\ [PostingNext]_postingVars => [LedgerNext]_ledgerVars
  BY PostingLedgerStep
<1> QED
  BY <1>1, <1>2, PostingInvariant, PTL DEF PostingSpec, LedgerSpec

\* No concurrent posting is lost, half applied or applied twice: the balance
\* rows are at every moment what the recorded transactions add up to.
THEOREM PostingSumsUp == PostingSpec => []BalanceIsLedgerSum
<1>1. PostingInit => LedgerSums
  BY InitLedgerSums
<1>2. PostingInv /\ PostingInv' /\ [PostingNext]_postingVars /\ LedgerSums => LedgerSums'
  BY PostingLedgerStep, LedgerSumsStep
<1>3. LedgerSums => BalanceIsLedgerSum
  BY DEF LedgerSums
<1> QED
  BY <1>1, <1>2, <1>3, PostingInvariant, PTL DEF PostingSpec

-----------------------------------------------------------------------------
(* Counting: the inductive invariant *)

Documents == Counts \cup Manual

Approved(a) == adjustment[a].status \in {"APPROVED", "POSTED"}

AllCounted(lines) == \A i \in DOMAIN lines : lines[i].counted # None

Shape ==
    /\ DOMAIN count = Counts
    /\ \A n \in Counts :
          DOMAIN count[n] = {"status", "counterId", "approvedBy", "lines", "adjustment"}
    /\ DOMAIN adjustment = Documents
    /\ \A a \in Documents :
          DOMAIN adjustment[a] = {"status", "createdBy", "approvedBy", "lines"}
    /\ DOMAIN call = Calls
    /\ \A c \in Calls : DOMAIN call[c] = DOMAIN Idle

AdjustmentOK(a) ==
    /\ adjustment[a].status = "POSTED" => Posted(a)
    /\ a \in Manual /\ Approved(a) =>
          adjustment[a].approvedBy \notin {None, adjustment[a].createdBy}

CountOK(n) ==
    /\ count[n].status = "APPROVED" => count[n].approvedBy # None
    /\ adjustment[n].status # "NONE" =>
          count[n].approvedBy # None /\ AllCounted(adjustment[n].lines)

CallOK(c) ==
    LET at == call[c].at
        d == call[c].doc
    IN  /\ call[c].forCount =>
              d \in Counts /\ count[d].approvedBy # None /\ AllCounted(call[c].lines)
        /\ at \in {"adjust.check", "adjust.insert"} => call[c].forCount \/ d \in Manual
        /\ at = "adjust.approve" =>
              /\ d \in Documents /\ adjustment[d].status # "NONE"
              /\ d \in Manual => call[c].approver \notin {None, adjustment[d].createdBy}
        /\ at \in {"count.link", "post.read"} => call[c].forCount /\ Approved(d)
        /\ at \in {"post", "commit"} => d \in Movements \/ (d \in Documents /\ Approved(d))
        /\ at = "adjust.posted" => d \in Documents /\ Approved(d) /\ Posted(d)
        /\ at = "count.close" /\ call[c].lines # <<>> => Posted(d)
        /\ at \in {"count.snapshot", "count.freeze", "count.record", "count.review",
                   "count.approve", "count.close"} => d \in Counts
        /\ at = "count.approve" => call[c].by # None
        /\ at = "count.snapshot" => ~call[c].forCount

CountingInv ==
    /\ Shape
    /\ PostedAsWritten
    /\ \A a \in Documents : AdjustmentOK(a)
    /\ \A n \in Counts : CountOK(n)
    /\ \A c \in Calls : CallOK(c)

\* No step takes back what a call between two of its steps relies on.
Grows ==
    /\ \A k : Posted(k) => Posted(k)'
    /\ \A n \in Counts : count[n].approvedBy # None => count'[n].approvedBy # None
    /\ \A a \in Documents : adjustment[a].status # "NONE" =>
          /\ adjustment'[a].status # "NONE"
          /\ adjustment'[a].createdBy = adjustment[a].createdBy
          /\ Approved(a) => Approved(a)'

DocumentsOK ==
    /\ PostedAsWritten
    /\ \A a \in Documents : AdjustmentOK(a)
    /\ \A n \in Counts : CountOK(n)

StepOK(c) ==
    /\ Grows
    /\ Shape'
    /\ DocumentsOK'
    /\ CallOK(c)'
    /\ \A d \in Calls : d # c => call'[d] = call[d]

-----------------------------------------------------------------------------
(* What the steps do to a call *)

CallFields ==
    {"at", "doc", "by", "approver", "lines", "tally", "forCount", "seen"}

LEMMA StepFields ==
    ASSUME NEW at, NEW doc, NEW by
    PROVE  DOMAIN Step(at, doc, by) = CallFields
BY DEF Step, CallFields

LEMMA IdleFields == DOMAIN Idle = CallFields
BY StepFields DEF Idle

LEMMA CallSet ==
    ASSUME Shape, NEW c \in Calls, NEW r, DOMAIN r = CallFields,
           call' = [call EXCEPT ![c] = r]
    PROVE  /\ call'[c] = r
           /\ \A d \in Calls : d # c => call'[d] = call[d]
           /\ DOMAIN call' = Calls
           /\ \A d \in Calls : DOMAIN call'[d] = DOMAIN Idle
BY IdleFields DEF Shape

LEMMA Finished ==
    ASSUME Shape, NEW c \in Calls, Finish(c)
    PROVE  /\ call'[c] = Idle
           /\ \A d \in Calls : d # c => call'[d] = call[d]
           /\ DOMAIN call' = Calls
           /\ \A d \in Calls : DOMAIN call'[d] = DOMAIN Idle
BY CallSet, IdleFields DEF Finish

LEMMA Gone ==
    ASSUME Shape, NEW c \in Calls, NEW at, Goto(c, at)
    PROVE  /\ call'[c].at = at
           /\ call'[c].doc = call[c].doc
           /\ call'[c].by = call[c].by
           /\ call'[c].approver = call[c].approver
           /\ call'[c].lines = call[c].lines
           /\ call'[c].forCount = call[c].forCount
           /\ \A d \in Calls : d # c => call'[d] = call[d]
           /\ DOMAIN call' = Calls
           /\ \A d \in Calls : DOMAIN call'[d] = DOMAIN Idle
<1>1. PICK r : r = [call[c] EXCEPT !.at = at]
  OBVIOUS
<1>2. DOMAIN call[c] = CallFields
  BY IdleFields DEF Shape
<1>3. /\ DOMAIN r = CallFields
      /\ r.at = at
      /\ r.doc = call[c].doc /\ r.by = call[c].by /\ r.approver = call[c].approver
      /\ r.lines = call[c].lines /\ r.forCount = call[c].forCount
  BY <1>1, <1>2 DEF CallFields
<1>4. call' = [call EXCEPT ![c] = r]
  BY <1>1 DEF Goto
<1> QED
  BY <1>3, <1>4, CallSet

\* An idle call relies on nothing.
LEMMA IdleOK ==
    ASSUME NEW c \in Calls, call'[c] = Idle
    PROVE  CallOK(c)'
BY DEF Idle, Step, CallOK

\* Steps that only read the documents and the ledger.
LEMMA OnlyTheCall ==
    ASSUME CountingInv, UNCHANGED <<ledgerVars, documents>>,
           DOMAIN call' = Calls, \A d \in Calls : DOMAIN call'[d] = DOMAIN Idle
    PROVE  Grows /\ Shape' /\ DocumentsOK'
<1>1. /\ balance' = balance /\ transactions' = transactions
      /\ count' = count /\ adjustment' = adjustment
  BY DEF ledgerVars, documents
<1>2. Shape'
  BY <1>1 DEF CountingInv, Shape
<1>3. Grows
  BY <1>1 DEF Grows, Posted, Approved
<1>4. DocumentsOK'
  BY <1>1 DEF CountingInv, DocumentsOK, PostedAsWritten, AdjustmentOK, CountOK, Posted, Approved
<1> QED
  BY <1>2, <1>3, <1>4

LEMMA OtherCallsKeep ==
    ASSUME CountingInv, Grows, NEW c \in Calls, call'[c] = call[c]
    PROVE  CallOK(c)'
<1>1. CallOK(c)
  BY DEF CountingInv
<1>2. \A a : Approved(a) => adjustment[a].status # "NONE"
  BY DEF Approved
<1>3. Counts \subseteq Documents /\ Manual \subseteq Documents
  BY DEF Documents
<1> QED
  BY <1>1, <1>2, <1>3 DEF CallOK, Grows

\* A step of one call keeps the invariant when it keeps its own promises.
LEMMA OneCall ==
    ASSUME CountingInv, NEW c \in Calls, StepOK(c)
    PROVE  CountingInv'
BY OtherCallsKeep DEF CountingInv, StepOK, DocumentsOK

-----------------------------------------------------------------------------
(* Steps that start a call *)

LEMMA Started ==
    ASSUME CountingInv, NEW c \in Calls, NEW r, DOMAIN r = CallFields,
           Start(c, r), UNCHANGED <<ledgerVars, documents>>,
           CallOK(c)'
    PROVE  StepOK(c)
<1>1. Shape /\ call' = [call EXCEPT ![c] = r]
  BY DEF CountingInv, Start
<1> QED
  BY <1>1, CallSet, OnlyTheCall DEF StepOK

LEMMA StartedWith ==
    ASSUME CountingInv, NEW c \in Calls, NEW r, DOMAIN r = CallFields, Start(c, r)
    PROVE  call'[c] = r
<1>1. Shape /\ call' = [call EXCEPT ![c] = r]
  BY DEF CountingInv, Start
<1> QED
  BY <1>1, CallSet

LEMMA MoveStep ==
    ASSUME CountingInv, NEW c \in Calls, NEW m \in Movements, Move(c, m)
    PROVE  StepOK(c)
<1>1. PICK r : r = Step("post", m, None)
  OBVIOUS
<1>2. /\ DOMAIN r = CallFields
      /\ r.at = "post" /\ r.doc = m /\ r.forCount = FALSE
  BY <1>1, StepFields DEF Step
<1>3. Start(c, r) /\ UNCHANGED <<ledgerVars, documents>>
  BY <1>1 DEF Move
<1>4. call'[c] = r
  BY <1>2, <1>3, StartedWith
<1>5. CallOK(c)'
  BY <1>2, <1>4 DEF CallOK
<1> QED
  BY <1>2, <1>3, <1>5, Started

LEMMA FreezeCountStep ==
    ASSUME CountingInv, NEW c \in Calls, NEW n \in Counts, FreezeCount(c, n)
    PROVE  StepOK(c)
<1>1. PICK r : r = Step("count.snapshot", n, None)
  OBVIOUS
<1>2. /\ DOMAIN r = CallFields
      /\ r.at = "count.snapshot" /\ r.doc = n /\ r.forCount = FALSE
  BY <1>1, StepFields DEF Step
<1>3. Start(c, r) /\ UNCHANGED <<ledgerVars, documents>>
  BY <1>1 DEF FreezeCount
<1>4. call'[c] = r
  BY <1>2, <1>3, StartedWith
<1>5. CallOK(c)'
  BY <1>2, <1>4 DEF CallOK
<1> QED
  BY <1>2, <1>3, <1>5, Started

LEMMA RecordCountStep ==
    ASSUME CountingInv, NEW c \in Calls, NEW n \in Counts, NEW u \in Users,
           RecordCount(c, n, u)
    PROVE  StepOK(c)
<1>1. PICK tally : Start(c, [Step("count.record", n, u) EXCEPT !.tally = tally])
  BY DEF RecordCount
<1>2. PICK r : r = [Step("count.record", n, u) EXCEPT !.tally = tally]
  OBVIOUS
<1>3. /\ DOMAIN r = CallFields
      /\ r.at = "count.record" /\ r.doc = n /\ r.forCount = FALSE
  BY <1>2 DEF Step, CallFields
<1>4. Start(c, r) /\ UNCHANGED <<ledgerVars, documents>>
  BY <1>1, <1>2 DEF RecordCount
<1>5. call'[c] = r
  BY <1>3, <1>4, StartedWith
<1>6. CallOK(c)'
  BY <1>3, <1>5 DEF CallOK
<1> QED
  BY <1>3, <1>4, <1>6, Started

LEMMA ApproveCountStep ==
    ASSUME CountingInv, NEW c \in Calls, NEW n \in Counts, NEW u \in Users,
           ApproveCount(c, n, u)
    PROVE  StepOK(c)
<1>1. PICK r : r = Step("count.approve", n, u)
  OBVIOUS
<1>2. /\ DOMAIN r = CallFields
      /\ r.at = "count.approve" /\ r.doc = n /\ r.by = u /\ r.forCount = FALSE
  BY <1>1, StepFields DEF Step
<1>3. Start(c, r) /\ UNCHANGED <<ledgerVars, documents>>
  BY <1>1 DEF ApproveCount
<1>4. call'[c] = r /\ u # None
  BY <1>2, <1>3, StartedWith, CountingAssumption
<1>5. CallOK(c)'
  BY <1>2, <1>4 DEF CallOK
<1> QED
  BY <1>2, <1>3, <1>5, Started

\* The count was approved, and every line that varies has been counted.
LEMMA PostCountStep ==
    ASSUME CountingInv, NEW c \in Calls, NEW n \in Counts, NEW u \in Users,
           PostCount(c, n, u)
    PROVE  StepOK(c)
<1>1. PICK lines : lines = Varying(count[n].lines)
  OBVIOUS
<1>2. PICK at : at = IF lines = <<>> THEN "count.close" ELSE "adjust.check"
  OBVIOUS
<1>3. PICK r : r = [Step(at, n, u) EXCEPT !.lines = lines, !.approver = count[n].approvedBy,
                                          !.forCount = TRUE]
  OBVIOUS
<1>4. /\ DOMAIN r = CallFields
      /\ r.at = at /\ r.doc = n /\ r.forCount = TRUE /\ r.lines = lines
  BY <1>3 DEF Step, CallFields
<1>5. Start(c, r) /\ UNCHANGED <<ledgerVars, documents>>
  BY <1>1, <1>2, <1>3 DEF PostCount
<1>6. call'[c] = r
  BY <1>4, <1>5, StartedWith
<1>7. AllCounted(lines) /\ count[n].status = "APPROVED"
  BY <1>1 DEF PostCount, AllCounted
<1>8. count'[n].approvedBy # None
  BY <1>5, <1>7 DEF CountingInv, CountOK, documents
<1>9. CallOK(c)'
  BY <1>2, <1>4, <1>6, <1>7, <1>8 DEF CallOK
<1> QED
  BY <1>4, <1>5, <1>9, Started

LEMMA CreateAdjustmentStep ==
    ASSUME CountingInv, NEW c \in Calls, NEW a \in Manual, NEW u \in Users,
           CreateAdjustment(c, a, u)
    PROVE  StepOK(c)
<1>1. PICK r : r = [Step("adjust.check", a, u) EXCEPT !.lines = ManualLines[a]]
  OBVIOUS
<1>2. /\ DOMAIN r = CallFields
      /\ r.at = "adjust.check" /\ r.doc = a /\ r.forCount = FALSE
  BY <1>1 DEF Step, CallFields
<1>3. Start(c, r) /\ UNCHANGED <<ledgerVars, documents>>
  BY <1>1 DEF CreateAdjustment
<1>4. call'[c] = r
  BY <1>2, <1>3, StartedWith
<1>5. CallOK(c)'
  BY <1>2, <1>4 DEF CallOK
<1> QED
  BY <1>2, <1>3, <1>5, Started

\* The approver is not the creator, who stays the one the row was made by.
LEMMA ApproveAdjustmentStep ==
    ASSUME CountingInv, NEW c \in Calls, NEW a \in Documents, NEW u \in Users,
           ApproveAdjustment(c, a, u)
    PROVE  StepOK(c)
<1>1. PICK r : r = [Step("adjust.approve", a, u) EXCEPT !.approver = u]
  OBVIOUS
<1>2. /\ DOMAIN r = CallFields
      /\ r.at = "adjust.approve" /\ r.doc = a /\ r.approver = u /\ r.forCount = FALSE
  BY <1>1 DEF Step, CallFields
<1>3. Start(c, r) /\ UNCHANGED <<ledgerVars, documents>>
  BY <1>1 DEF ApproveAdjustment
<1>4. call'[c] = r /\ u # None
  BY <1>2, <1>3, StartedWith, CountingAssumption
<1>5. adjustment'[a].status # "NONE" /\ u # adjustment'[a].createdBy
  BY <1>3 DEF ApproveAdjustment, documents
<1>6. CallOK(c)'
  BY <1>2, <1>4, <1>5 DEF CallOK
<1> QED
  BY <1>2, <1>3, <1>6, Started

LEMMA PostAdjustmentStep ==
    ASSUME CountingInv, NEW c \in Calls, NEW a \in Documents, PostAdjustment(c, a)
    PROVE  StepOK(c)
<1>1. PICK r : r = Step("post", a, None)
  OBVIOUS
<1>2. /\ DOMAIN r = CallFields
      /\ r.at = "post" /\ r.doc = a /\ r.forCount = FALSE
  BY <1>1, StepFields DEF Step
<1>3. Start(c, r) /\ UNCHANGED <<ledgerVars, documents>>
  BY <1>1 DEF PostAdjustment
<1>4. call'[c] = r
  BY <1>2, <1>3, StartedWith
<1>5. Approved(a)'
  BY <1>3 DEF PostAdjustment, documents, Approved
<1>6. CallOK(c)'
  BY <1>2, <1>4, <1>5 DEF CallOK
<1> QED
  BY <1>2, <1>3, <1>6, Started

-----------------------------------------------------------------------------
(* Steps of a posting *)

\* A call whose posting is in the ledger goes on to mark its adjustment.
LEMMA AfterPostOK ==
    ASSUME CountingInv, NEW c \in Calls, AfterPost(c), Grows,
           NEW d, d = call[c].doc, Posted(d)',
           d \in Movements \/ (d \in Documents /\ Approved(d))
    PROVE  /\ CallOK(c)'
           /\ \A e \in Calls : e # c => call'[e] = call[e]
           /\ DOMAIN call' = Calls
           /\ \A e \in Calls : DOMAIN call'[e] = DOMAIN Idle
<1>0. Shape /\ CallOK(c)
  BY DEF CountingInv
<1>1. CASE d \in Movements
  <2>1. Finish(c)
    BY <1>1 DEF AfterPost
  <2> QED
    BY <1>0, <2>1, Finished, IdleOK
<1>2. CASE d \notin Movements
  <2>1. Goto(c, "adjust.posted")
    BY <1>2 DEF AfterPost
  <2>2. /\ call'[c].at = "adjust.posted"
        /\ call'[c].doc = d
        /\ call'[c].lines = call[c].lines
        /\ call'[c].forCount = call[c].forCount
        /\ \A e \in Calls : e # c => call'[e] = call[e]
        /\ DOMAIN call' = Calls
        /\ \A e \in Calls : DOMAIN call'[e] = DOMAIN Idle
    BY <1>0, <2>1, Gone
  <2>3. /\ d \in Documents
        /\ Approved(d)'
    <3>1. \A a : Approved(a) => adjustment[a].status # "NONE"
      BY DEF Approved
    <3> QED
      BY <1>2, <3>1 DEF Grows
  <2>4. call[c].forCount =>
          /\ d \in Counts /\ count'[d].approvedBy # None
          /\ AllCounted(call[c].lines)
    BY <1>0 DEF CallOK, Grows
  <2>5. CallOK(c)'
    BY <2>2, <2>3, <2>4 DEF CallOK
  <2> QED
    BY <2>2, <2>5
<1> QED
  BY <1>1, <1>2

LEMMA BeginPostStep ==
    ASSUME CountingInv, NEW c \in Calls, BeginPost(c)
    PROVE  StepOK(c)
<1>0. /\ Shape /\ CallOK(c) /\ call[c].at = "post"
      /\ UNCHANGED <<ledgerVars, documents>>
  BY DEF CountingInv, BeginPost
<1>d. PICK d : d = call[c].doc
  OBVIOUS
<1>1. d \in Movements \/ (d \in Documents /\ Approved(d))
  BY <1>0, <1>d DEF CallOK
<1>2. CASE Posted(d)
  <2>1. AfterPost(c)
    BY <1>d, <1>2 DEF BeginPost
  <2>2. Posted(d)'
    BY <1>0, <1>2 DEF ledgerVars, Posted
  <2>3. Grows
    BY <1>0 DEF Grows, ledgerVars, documents, Posted, Approved
  <2> QED
    BY <1>0, <1>d, <1>1, <2>1, <2>2, <2>3, AfterPostOK, OnlyTheCall DEF StepOK
<1>3. CASE ~Posted(d)
  <2>1. PICK r : r = [call[c] EXCEPT !.at = "commit", !.seen = History(call[c].doc)]
    OBVIOUS
  <2>2. DOMAIN call[c] = CallFields
    BY <1>0, IdleFields DEF Shape
  <2>3. /\ DOMAIN r = CallFields
        /\ r.at = "commit" /\ r.doc = d /\ r.forCount = call[c].forCount
        /\ r.lines = call[c].lines
    BY <1>d, <2>1, <2>2 DEF CallFields
  <2>4. call' = [call EXCEPT ![c] = r]
    BY <1>d, <1>3, <2>1 DEF BeginPost
  <2>5. /\ call'[c] = r
        /\ \A e \in Calls : e # c => call'[e] = call[e]
        /\ DOMAIN call' = Calls
        /\ \A e \in Calls : DOMAIN call'[e] = DOMAIN Idle
    BY <1>0, <2>3, <2>4, CallSet
  <2>6. count' = count /\ Approved(d) = Approved(d)'
    BY <1>0 DEF documents, Approved
  <2>7. CallOK(c)'
    BY <1>0, <1>d, <1>1, <2>3, <2>5, <2>6 DEF CallOK
  <2> QED
    BY <1>0, <2>5, <2>7, OnlyTheCall DEF StepOK
<1> QED
  BY <1>2, <1>3

\* The lines of an approved adjustment are those the posting moves: nobody
\* changes them after the row was inserted.
LEMMA CommitPostStep ==
    ASSUME CountingInv, NEW c \in Calls, CommitPost(c)
    PROVE  StepOK(c)
<1>d. PICK d : d = call[c].doc
  OBVIOUS
<1>t. PICK t : t = [idempotencyKey |-> d, effect |-> Effect(d)]
  OBVIOUS
<1>0. /\ Shape /\ CallOK(c) /\ call[c].at = "commit"
      /\ count' = count /\ adjustment' = adjustment
  BY DEF CountingInv, CommitPost, documents
<1>1. d \in Movements \/ (d \in Documents /\ Approved(d))
  BY <1>0, <1>d DEF CallOK
<1>2. transactions' = transactions \cup {t} /\ AfterPost(c)
  BY <1>d, <1>t DEF CommitPost, Post
<1>3. t.idempotencyKey = d /\ t.effect = Effect(d)
  BY <1>t
<1>4. \A k : Posted(k)' <=> Posted(k) \/ k = d
  BY <1>2, <1>3 DEF Posted
<1>5. Grows
  BY <1>0, <1>4 DEF Grows, Approved
<1>6. /\ CallOK(c)'
      /\ \A e \in Calls : e # c => call'[e] = call[e]
      /\ DOMAIN call' = Calls
      /\ \A e \in Calls : DOMAIN call'[e] = DOMAIN Idle
  <2>1. Posted(d)'
    BY <1>4
  <2> QED
    BY <1>d, <1>1, <1>2, <1>5, <2>1, AfterPostOK
<1>7. PostedAsWritten'
  <2>1. d \in Counts \cup Manual => Approved(d) /\ Effect(d) = Correction(adjustment[d].lines)
    BY <1>1, CountingAssumption DEF Effect, Documents
  <2>2. PostedAsWritten
    BY DEF CountingInv
  <2> QED
    BY <1>0, <1>2, <1>3, <2>1, <2>2 DEF PostedAsWritten, Approved
<1>8. (\A a \in Documents : AdjustmentOK(a)') /\ (\A n \in Counts : CountOK(n)')
  BY <1>0, <1>4 DEF CountingInv, AdjustmentOK, CountOK, Approved
<1>9. Shape'
  BY <1>0, <1>6 DEF Shape
<1> QED
  BY <1>5, <1>6, <1>7, <1>8, <1>9 DEF StepOK, DocumentsOK

-----------------------------------------------------------------------------
(* Steps of an adjustment *)

LEMMA CheckBalancesStep ==
    ASSUME CountingInv, NEW c \in Calls, CheckBalances(c)
    PROVE  StepOK(c)
<1>1. /\ Shape /\ CallOK(c) /\ call[c].at = "adjust.check"
      /\ Goto(c, "adjust.insert") /\ UNCHANGED <<ledgerVars, documents>>
  BY DEF CountingInv, CheckBalances
<1>2. /\ call'[c].at = "adjust.insert" /\ call'[c].doc = call[c].doc
      /\ call'[c].lines = call[c].lines /\ call'[c].forCount = call[c].forCount
      /\ \A e \in Calls : e # c => call'[e] = call[e]
      /\ DOMAIN call' = Calls
      /\ \A e \in Calls : DOMAIN call'[e] = DOMAIN Idle
  BY <1>1, Gone
<1>3. count' = count
  BY <1>1 DEF documents
<1>4. CallOK(c)'
  BY <1>1, <1>2, <1>3 DEF CallOK
<1> QED
  BY <1>1, <1>2, <1>4, OnlyTheCall DEF StepOK

\* The number is unique: the row is new, so nothing is posted for it yet.
LEMMA InsertAdjustmentStep ==
    ASSUME CountingInv, NEW c \in Calls, InsertAdjustment(c)
    PROVE  StepOK(c)
<1>d. PICK a : a = call[c].doc
  OBVIOUS
<1>1. /\ Shape /\ CallOK(c) /\ call[c].at = "adjust.insert" /\ adjustment[a].status = "NONE"
      /\ transactions' = transactions /\ count' = count
  BY <1>d DEF CountingInv, InsertAdjustment, ledgerVars
<1>2. /\ call[c].forCount \/ a \in Manual
      /\ call[c].forCount => /\ a \in Counts /\ count[a].approvedBy # None
                             /\ AllCounted(call[c].lines)
  BY <1>d, <1>1 DEF CallOK
<1>3. a \in Documents /\ (a \in Manual => a \notin Counts)
  BY <1>2, CountingAssumption DEF Documents
<1>4. PICK r : r = [status |-> "DRAFT", createdBy |-> call[c].by, approvedBy |-> None,
                    lines |-> call[c].lines]
  OBVIOUS
<1>5. /\ DOMAIN r = {"status", "createdBy", "approvedBy", "lines"}
      /\ r.status = "DRAFT" /\ r.lines = call[c].lines
  BY <1>4
<1>6. adjustment' = [adjustment EXCEPT ![a] = r]
  BY <1>d, <1>4 DEF InsertAdjustment
<1>7. /\ DOMAIN adjustment' = Documents
      /\ adjustment'[a] = r
      /\ \A b \in Documents : b # a => adjustment'[b] = adjustment[b]
  BY <1>1, <1>3, <1>6 DEF Shape
<1>8. /\ CallOK(c)'
      /\ \A e \in Calls : e # c => call'[e] = call[e]
      /\ DOMAIN call' = Calls
      /\ \A e \in Calls : DOMAIN call'[e] = DOMAIN Idle
  <2>1. CASE ~call[c].forCount
    <3>1. Finish(c)
      BY <2>1 DEF InsertAdjustment
    <3> QED
      BY <1>1, <3>1, Finished, IdleOK
  <2>2. CASE call[c].forCount
    <3>1. Goto(c, "adjust.approve")
      BY <2>2 DEF InsertAdjustment
    <3>2. /\ call'[c].at = "adjust.approve" /\ call'[c].doc = a
          /\ call'[c].lines = call[c].lines /\ call'[c].forCount = call[c].forCount
          /\ \A e \in Calls : e # c => call'[e] = call[e]
          /\ DOMAIN call' = Calls
          /\ \A e \in Calls : DOMAIN call'[e] = DOMAIN Idle
      BY <1>d, <1>1, <3>1, Gone
    <3>3. CallOK(c)'
      BY <1>1, <1>2, <1>3, <1>5, <1>7, <2>2, <3>2 DEF CallOK
    <3> QED
      BY <3>2, <3>3
  <2> QED
    BY <2>1, <2>2
<1>9. \A k : Posted(k)' <=> Posted(k)
  BY <1>1 DEF Posted
<1>10. ~Approved(a) /\ ~Approved(a)'
  BY <1>1, <1>5, <1>7 DEF Approved
<1>11. Grows
  BY <1>1, <1>7, <1>9, <1>10 DEF Grows, Approved
<1>12. PostedAsWritten'
  <2>1. PostedAsWritten
    BY DEF CountingInv
  <2>2. \A t \in transactions : t.idempotencyKey # a
    BY <1>1, <1>3, <2>1 DEF PostedAsWritten, Documents
  <2> QED
    BY <1>1, <1>7, <2>1, <2>2 DEF PostedAsWritten, Documents
<1>13. ASSUME NEW b \in Documents PROVE AdjustmentOK(b)'
  <2>1. AdjustmentOK(b)
    BY DEF CountingInv
  <2> QED
    BY <1>5, <1>7, <1>9, <1>10, <2>1 DEF AdjustmentOK, Approved
<1>14. ASSUME NEW n \in Counts PROVE CountOK(n)'
  <2>1. CountOK(n) /\ n \in Documents
    BY DEF CountingInv, Documents
  <2>2. CASE n = a
    <3>1. call[c].forCount
      BY <1>2, <1>3, <2>2
    <3> QED
      BY <1>1, <1>2, <1>5, <1>7, <2>1, <2>2, <3>1 DEF CountOK
  <2> QED
    BY <1>1, <1>7, <2>1, <2>2 DEF CountOK
<1>15. Shape'
  BY <1>1, <1>5, <1>7, <1>8 DEF Shape
<1> QED
  BY <1>8, <1>11, <1>12, <1>13, <1>14, <1>15 DEF StepOK, DocumentsOK

\* What the two steps have in common that set fields of an adjustment
\* which was inserted and lose no approval.
LEMMA AdjustmentMarked ==
    ASSUME CountingInv, UNCHANGED <<ledgerVars, count>>,
           NEW a \in Documents, adjustment[a].status # "NONE",
           DOMAIN adjustment' = Documents,
           \A b \in Documents : b # a => adjustment'[b] = adjustment[b],
           DOMAIN adjustment'[a] = DOMAIN adjustment[a],
           adjustment'[a].createdBy = adjustment[a].createdBy,
           adjustment'[a].lines = adjustment[a].lines,
           adjustment'[a].status \in {"APPROVED", "POSTED"},
           adjustment'[a].status = "POSTED" => Posted(a),
           a \in Manual => adjustment'[a].approvedBy \notin {None, adjustment[a].createdBy},
           DOMAIN call' = Calls, \A d \in Calls : DOMAIN call'[d] = DOMAIN Idle
    PROVE  Grows /\ Shape' /\ DocumentsOK'
<1>1. Shape /\ PostedAsWritten /\ transactions' = transactions /\ count' = count
  BY DEF CountingInv, ledgerVars
<1>2. \A k : Posted(k)' <=> Posted(k)
  BY <1>1 DEF Posted
<1>3. Approved(a)' /\ \A b \in Documents : b # a => (Approved(b)' <=> Approved(b))
  BY DEF Approved
<1>4. Grows
  BY <1>1, <1>2, <1>3 DEF Grows
<1>5. Shape'
  BY <1>1 DEF Shape
<1>6. PostedAsWritten'
  BY <1>1 DEF PostedAsWritten, Documents
<1>7. ASSUME NEW b \in Documents PROVE AdjustmentOK(b)'
  <2>1. AdjustmentOK(b)
    BY DEF CountingInv
  <2>2. CASE b = a
    BY <1>2, <2>2 DEF AdjustmentOK
  <2>3. CASE b # a
    BY <1>2, <1>3, <2>1, <2>3 DEF AdjustmentOK
  <2> QED
    BY <2>2, <2>3
<1>8. ASSUME NEW n \in Counts PROVE CountOK(n)'
  <2>1. CountOK(n) /\ n \in Documents
    BY DEF CountingInv, Documents
  <2>2. CASE n = a
    BY <1>1, <2>1, <2>2 DEF CountOK
  <2>3. CASE n # a
    BY <1>1, <2>1, <2>3 DEF CountOK
  <2> QED
    BY <2>2, <2>3
<1> QED
  BY <1>4, <1>5, <1>6, <1>7, <1>8 DEF DocumentsOK

LEMMA MarkAdjustmentApprovedStep ==
    ASSUME CountingInv, NEW c \in Calls, MarkAdjustmentApproved(c)
    PROVE  StepOK(c)
<1>d. PICK a : a = call[c].doc
  OBVIOUS
<1>1. /\ Shape /\ CallOK(c) /\ call[c].at = "adjust.approve"
      /\ UNCHANGED <<ledgerVars, count>> /\ count' = count
  BY DEF CountingInv, MarkAdjustmentApproved
<1>2. /\ a \in Documents /\ adjustment[a].status # "NONE"
      /\ a \in Manual => call[c].approver \notin {None, adjustment[a].createdBy}
      /\ call[c].forCount => /\ a \in Counts /\ count[a].approvedBy # None
                             /\ AllCounted(call[c].lines)
  BY <1>d, <1>1 DEF CallOK
<1>3. DOMAIN adjustment = Documents
      /\ DOMAIN adjustment[a] = {"status", "createdBy", "approvedBy", "lines"}
  BY <1>1, <1>2 DEF Shape
<1>4. adjustment' = [adjustment EXCEPT ![a].status = "APPROVED",
                                       ![a].approvedBy = call[c].approver]
  BY <1>d DEF MarkAdjustmentApproved
<1>5. /\ DOMAIN adjustment' = Documents
      /\ \A b \in Documents : b # a => adjustment'[b] = adjustment[b]
      /\ DOMAIN adjustment'[a] = DOMAIN adjustment[a]
      /\ adjustment'[a].createdBy = adjustment[a].createdBy
      /\ adjustment'[a].lines = adjustment[a].lines
      /\ adjustment'[a].status = "APPROVED"
      /\ adjustment'[a].approvedBy = call[c].approver
  BY <1>2, <1>3, <1>4
<1>6. /\ CallOK(c)'
      /\ \A e \in Calls : e # c => call'[e] = call[e]
      /\ DOMAIN call' = Calls
      /\ \A e \in Calls : DOMAIN call'[e] = DOMAIN Idle
  <2>1. CASE ~call[c].forCount
    <3>1. Finish(c)
      BY <2>1 DEF MarkAdjustmentApproved
    <3> QED
      BY <1>1, <3>1, Finished, IdleOK
  <2>2. CASE call[c].forCount
    <3>1. Goto(c, "count.link")
      BY <2>2 DEF MarkAdjustmentApproved
    <3>2. /\ call'[c].at = "count.link" /\ call'[c].doc = a
          /\ call'[c].lines = call[c].lines /\ call'[c].forCount = call[c].forCount
          /\ \A e \in Calls : e # c => call'[e] = call[e]
          /\ DOMAIN call' = Calls
          /\ \A e \in Calls : DOMAIN call'[e] = DOMAIN Idle
      BY <1>d, <1>1, <3>1, Gone
    <3>3. Approved(a)'
      BY <1>5 DEF Approved
    <3>4. CallOK(c)'
      BY <1>1, <1>2, <2>2, <3>2, <3>3 DEF CallOK
    <3> QED
      BY <3>2, <3>4
  <2> QED
    BY <2>1, <2>2
<1>7. Grows /\ Shape' /\ DocumentsOK'
  BY <1>1, <1>2, <1>5, <1>6, AdjustmentMarked
<1> QED
  BY <1>6, <1>7 DEF StepOK

LEMMA MarkAdjustmentPostedStep ==
    ASSUME CountingInv, NEW c \in Calls, MarkAdjustmentPosted(c)
    PROVE  StepOK(c)
<1>d. PICK a : a = call[c].doc
  OBVIOUS
<1>1. /\ Shape /\ CallOK(c) /\ call[c].at = "adjust.posted"
      /\ UNCHANGED <<ledgerVars, count>> /\ count' = count /\ transactions' = transactions
  BY DEF CountingInv, MarkAdjustmentPosted, ledgerVars
<1>2. /\ a \in Documents /\ Approved(a) /\ Posted(a)
      /\ call[c].forCount => /\ a \in Counts /\ count[a].approvedBy # None
                             /\ AllCounted(call[c].lines)
  BY <1>d, <1>1 DEF CallOK
<1>3. /\ adjustment[a].status # "NONE"
      /\ a \in Manual => adjustment[a].approvedBy \notin {None, adjustment[a].createdBy}
  BY <1>2 DEF CountingInv, AdjustmentOK, Approved
<1>4. DOMAIN adjustment = Documents
      /\ DOMAIN adjustment[a] = {"status", "createdBy", "approvedBy", "lines"}
  BY <1>1, <1>2 DEF Shape
<1>5. adjustment' = [adjustment EXCEPT ![a].status = "POSTED"]
  BY <1>d DEF MarkAdjustmentPosted
<1>6. /\ DOMAIN adjustment' = Documents
      /\ \A b \in Documents : b # a => adjustment'[b] = adjustment[b]
      /\ DOMAIN adjustment'[a] = DOMAIN adjustment[a]
      /\ adjustment'[a].createdBy = adjustment[a].createdBy
      /\ adjustment'[a].lines = adjustment[a].lines
      /\ adjustment'[a].status = "POSTED"
      /\ adjustment'[a].approvedBy = adjustment[a].approvedBy
  BY <1>2, <1>4, <1>5
<1>7. /\ CallOK(c)'
      /\ \A e \in Calls : e # c => call'[e] = call[e]
      /\ DOMAIN call' = Calls
      /\ \A e \in Calls : DOMAIN call'[e] = DOMAIN Idle
  <2>1. CASE ~call[c].forCount
    <3>1. Finish(c)
      BY <2>1 DEF MarkAdjustmentPosted
    <3> QED
      BY <1>1, <3>1, Finished, IdleOK
  <2>2. CASE call[c].forCount
    <3>1. Goto(c, "count.close")
      BY <2>2 DEF MarkAdjustmentPosted
    <3>2. /\ call'[c].at = "count.close" /\ call'[c].doc = a
          /\ call'[c].lines = call[c].lines /\ call'[c].forCount = call[c].forCount
          /\ \A e \in Calls : e # c => call'[e] = call[e]
          /\ DOMAIN call' = Calls
          /\ \A e \in Calls : DOMAIN call'[e] = DOMAIN Idle
      BY <1>d, <1>1, <3>1, Gone
    <3>3. Posted(a)'
      BY <1>1, <1>2 DEF Posted
    <3>4. CallOK(c)'
      BY <1>1, <1>2, <2>2, <3>2, <3>3 DEF CallOK
    <3> QED
      BY <3>2, <3>4
  <2> QED
    BY <2>1, <2>2
<1>8. Grows /\ Shape' /\ DocumentsOK'
  BY <1>1, <1>2, <1>3, <1>6, <1>7, AdjustmentMarked
<1> QED
  BY <1>7, <1>8 DEF StepOK

-----------------------------------------------------------------------------
(* Steps of a count *)

LEMMA SnapshotBalancesStep ==
    ASSUME CountingInv, NEW c \in Calls, SnapshotBalances(c)
    PROVE  StepOK(c)
<1>1. /\ Shape /\ CallOK(c) /\ call[c].at = "count.snapshot"
      /\ UNCHANGED <<ledgerVars, documents>> /\ count' = count
  BY DEF CountingInv, SnapshotBalances, documents
<1>2. PICK lines : call' = [call EXCEPT ![c].at = "count.freeze", ![c].lines = lines]
  BY DEF SnapshotBalances
<1>3. PICK r : r = [call[c] EXCEPT !.at = "count.freeze", !.lines = lines]
  OBVIOUS
<1>4. DOMAIN call[c] = CallFields
  BY <1>1, IdleFields DEF Shape
<1>5. /\ DOMAIN r = CallFields
      /\ r.at = "count.freeze" /\ r.doc = call[c].doc /\ r.forCount = call[c].forCount
  BY <1>3, <1>4 DEF CallFields
<1>6. call' = [call EXCEPT ![c] = r]
  BY <1>2, <1>3
<1>7. /\ call'[c] = r
      /\ \A d \in Calls : d # c => call'[d] = call[d]
      /\ DOMAIN call' = Calls
      /\ \A d \in Calls : DOMAIN call'[d] = DOMAIN Idle
  BY <1>1, <1>5, <1>6, CallSet
<1>8. CallOK(c)'
  BY <1>1, <1>5, <1>7 DEF CallOK
<1> QED
  BY <1>1, <1>7, <1>8, OnlyTheCall DEF StepOK

\* What the steps have in common that write a count and no adjustment: the
\* approval, once there, stays.
LEMMA CountMarked ==
    ASSUME CountingInv, UNCHANGED <<ledgerVars, adjustment>>,
           NEW n \in Counts, DOMAIN count' = Counts,
           \A m \in Counts : m # n => count'[m] = count[m],
           DOMAIN count'[n] = DOMAIN count[n],
           count[n].approvedBy # None => count'[n].approvedBy # None,
           count'[n].status = "APPROVED" => count'[n].approvedBy # None,
           DOMAIN call' = Calls, \A d \in Calls : DOMAIN call'[d] = DOMAIN Idle
    PROVE  Grows /\ Shape' /\ DocumentsOK'
<1>1. Shape /\ PostedAsWritten /\ transactions' = transactions /\ adjustment' = adjustment
  BY DEF CountingInv, ledgerVars
<1>2. \A k : Posted(k)' <=> Posted(k)
  BY <1>1 DEF Posted
<1>3. Grows
  BY <1>1, <1>2 DEF Grows, Approved
<1>4. Shape'
  BY <1>1 DEF Shape
<1>5. PostedAsWritten'
  BY <1>1 DEF PostedAsWritten
<1>6. \A a \in Documents : AdjustmentOK(a)'
  BY <1>1, <1>2 DEF CountingInv, AdjustmentOK, Approved
<1>7. ASSUME NEW m \in Counts PROVE CountOK(m)'
  <2>1. CountOK(m)
    BY DEF CountingInv
  <2>2. CASE m = n
    BY <1>1, <2>1, <2>2 DEF CountOK
  <2>3. CASE m # n
    BY <1>1, <2>1, <2>3 DEF CountOK
  <2> QED
    BY <2>2, <2>3
<1> QED
  BY <1>3, <1>4, <1>5, <1>6, <1>7 DEF DocumentsOK

CountFields == {"status", "counterId", "approvedBy", "lines", "adjustment"}

LEMMA MarkFrozenStep ==
    ASSUME CountingInv, NEW c \in Calls, MarkFrozen(c)
    PROVE  StepOK(c)
<1>d. PICK n : n = call[c].doc
  OBVIOUS
<1>1. /\ Shape /\ CallOK(c) /\ call[c].at = "count.freeze"
      /\ UNCHANGED <<ledgerVars, adjustment>> /\ Finish(c)
  BY DEF CountingInv, MarkFrozen
<1>2. n \in Counts
  BY <1>d, <1>1 DEF CallOK
<1>3. DOMAIN count = Counts /\ DOMAIN count[n] = CountFields
  BY <1>1, <1>2 DEF Shape, CountFields
<1>4. PICK lines : count' = [count EXCEPT ![n].status = "FROZEN", ![n].lines = lines]
  BY <1>d DEF MarkFrozen
<1>5. /\ DOMAIN count' = Counts
      /\ \A m \in Counts : m # n => count'[m] = count[m]
      /\ DOMAIN count'[n] = DOMAIN count[n]
      /\ count'[n].approvedBy = count[n].approvedBy
      /\ count'[n].status = "FROZEN"
  BY <1>2, <1>3, <1>4 DEF CountFields
<1>6. /\ CallOK(c)'
      /\ \A e \in Calls : e # c => call'[e] = call[e]
      /\ DOMAIN call' = Calls
      /\ \A e \in Calls : DOMAIN call'[e] = DOMAIN Idle
  BY <1>1, Finished, IdleOK
<1>7. Grows /\ Shape' /\ DocumentsOK'
  BY <1>1, <1>2, <1>5, <1>6, CountMarked
<1> QED
  BY <1>6, <1>7 DEF StepOK

LEMMA RecordLineStep ==
    ASSUME CountingInv, NEW c \in Calls, RecordLine(c)
    PROVE  StepOK(c)
<1>d. PICK n : n = call[c].doc
  OBVIOUS
<1>1. /\ Shape /\ CallOK(c) /\ call[c].at = "count.record"
      /\ UNCHANGED <<ledgerVars, adjustment>>
  BY DEF CountingInv, RecordLine
<1>2. n \in Counts
  BY <1>d, <1>1 DEF CallOK
<1>3. DOMAIN count = Counts /\ DOMAIN count[n] = CountFields
  BY <1>1, <1>2 DEF Shape, CountFields
<1>4. PICK i \in DOMAIN call[c].tally :
         /\ count' = [count EXCEPT ![call[c].doc].lines[i].counted = call[c].tally[i]]
         /\ call' = [call EXCEPT
               ![c].tally = [j \in DOMAIN @ \ {i} |-> @[j]],
               ![c].at = IF DOMAIN call[c].tally = {i} THEN "count.review" ELSE @]
  BY DEF RecordLine
<1>5. PICK lines : lines = [count[n].lines EXCEPT ![i].counted = call[c].tally[i]]
  OBVIOUS
<1>6. count' = [count EXCEPT ![n].lines = lines]
  BY <1>d, <1>4, <1>5
<1>7. /\ DOMAIN count' = Counts
      /\ \A m \in Counts : m # n => count'[m] = count[m]
      /\ DOMAIN count'[n] = DOMAIN count[n]
      /\ count'[n].approvedBy = count[n].approvedBy
      /\ count'[n].status = count[n].status
  BY <1>2, <1>3, <1>6 DEF CountFields
<1>8. PICK at : at = IF DOMAIN call[c].tally = {i} THEN "count.review" ELSE call[c].at
  OBVIOUS
<1>9. PICK tally : tally = [j \in DOMAIN call[c].tally \ {i} |-> call[c].tally[j]]
  OBVIOUS
<1>10. PICK r : r = [call[c] EXCEPT !.tally = tally, !.at = at]
  OBVIOUS
<1>11. DOMAIN call[c] = CallFields
  BY <1>1, IdleFields DEF Shape
<1>12. /\ DOMAIN r = CallFields
       /\ r.at \in {"count.record", "count.review"} /\ r.doc = n
       /\ r.forCount = call[c].forCount /\ r.lines = call[c].lines
  BY <1>d, <1>1, <1>8, <1>10, <1>11 DEF CallFields
<1>13. call' = [call EXCEPT ![c] = r]
  BY <1>4, <1>8, <1>9, <1>10, <1>11, <1>1 DEF CallFields, Shape
<1>14. /\ call'[c] = r
       /\ \A d \in Calls : d # c => call'[d] = call[d]
       /\ DOMAIN call' = Calls
       /\ \A d \in Calls : DOMAIN call'[d] = DOMAIN Idle
  BY <1>1, <1>12, <1>13, CallSet
<1>15. CallOK(c)'
  BY <1>d, <1>1, <1>2, <1>7, <1>12, <1>14 DEF CallOK
<1>16. count[n].status = "APPROVED" => count[n].approvedBy # None
  BY <1>2 DEF CountingInv, CountOK
<1>17. Grows /\ Shape' /\ DocumentsOK'
  BY <1>1, <1>2, <1>7, <1>14, <1>16, CountMarked
<1> QED
  BY <1>14, <1>15, <1>17 DEF StepOK

LEMMA MarkReviewStep ==
    ASSUME CountingInv, NEW c \in Calls, MarkReview(c)
    PROVE  StepOK(c)
<1>d. PICK n : n = call[c].doc
  OBVIOUS
<1>1. /\ Shape /\ CallOK(c) /\ call[c].at = "count.review"
      /\ UNCHANGED <<ledgerVars, adjustment>> /\ Finish(c)
  BY DEF CountingInv, MarkReview
<1>2. n \in Counts
  BY <1>d, <1>1 DEF CallOK
<1>3. DOMAIN count = Counts /\ DOMAIN count[n] = CountFields
  BY <1>1, <1>2 DEF Shape, CountFields
<1>4. count' = [count EXCEPT ![n].status = "REVIEW", ![n].counterId = call[c].by]
  BY <1>d DEF MarkReview
<1>5. /\ DOMAIN count' = Counts
      /\ \A m \in Counts : m # n => count'[m] = count[m]
      /\ DOMAIN count'[n] = DOMAIN count[n]
      /\ count'[n].approvedBy = count[n].approvedBy
      /\ count'[n].status = "REVIEW"
  BY <1>2, <1>3, <1>4 DEF CountFields
<1>6. /\ CallOK(c)'
      /\ \A e \in Calls : e # c => call'[e] = call[e]
      /\ DOMAIN call' = Calls
      /\ \A e \in Calls : DOMAIN call'[e] = DOMAIN Idle
  BY <1>1, Finished, IdleOK
<1>7. Grows /\ Shape' /\ DocumentsOK'
  BY <1>1, <1>2, <1>5, <1>6, CountMarked
<1> QED
  BY <1>6, <1>7 DEF StepOK

LEMMA MarkCountApprovedStep ==
    ASSUME CountingInv, NEW c \in Calls, MarkCountApproved(c)
    PROVE  StepOK(c)
<1>d. PICK n : n = call[c].doc
  OBVIOUS
<1>1. /\ Shape /\ CallOK(c) /\ call[c].at = "count.approve"
      /\ UNCHANGED <<ledgerVars, adjustment>> /\ Finish(c)
  BY DEF CountingInv, MarkCountApproved
<1>2. n \in Counts /\ call[c].by # None
  BY <1>d, <1>1 DEF CallOK
<1>3. DOMAIN count = Counts /\ DOMAIN count[n] = CountFields
  BY <1>1, <1>2 DEF Shape, CountFields
<1>4. count' = [count EXCEPT ![n].status = "APPROVED", ![n].approvedBy = call[c].by]
  BY <1>d DEF MarkCountApproved
<1>5. /\ DOMAIN count' = Counts
      /\ \A m \in Counts : m # n => count'[m] = count[m]
      /\ DOMAIN count'[n] = DOMAIN count[n]
      /\ count'[n].approvedBy = call[c].by
  BY <1>2, <1>3, <1>4 DEF CountFields
<1>6. /\ CallOK(c)'
      /\ \A e \in Calls : e # c => call'[e] = call[e]
      /\ DOMAIN call' = Calls
      /\ \A e \in Calls : DOMAIN call'[e] = DOMAIN Idle
  BY <1>1, Finished, IdleOK
<1>7. Grows /\ Shape' /\ DocumentsOK'
  BY <1>1, <1>2, <1>5, <1>6, CountMarked
<1> QED
  BY <1>6, <1>7 DEF StepOK

LEMMA LinkAdjustmentStep ==
    ASSUME CountingInv, NEW c \in Calls, LinkAdjustment(c)
    PROVE  StepOK(c)
<1>d. PICK n : n = call[c].doc
  OBVIOUS
<1>1. /\ Shape /\ CallOK(c) /\ call[c].at = "count.link"
      /\ UNCHANGED <<ledgerVars, adjustment>> /\ adjustment' = adjustment
      /\ Goto(c, "post.read")
  BY DEF CountingInv, LinkAdjustment
<1>2. /\ n \in Counts /\ count[n].approvedBy # None
      /\ call[c].forCount /\ AllCounted(call[c].lines) /\ Approved(n)
  BY <1>d, <1>1 DEF CallOK
<1>3. DOMAIN count = Counts /\ DOMAIN count[n] = CountFields
  BY <1>1, <1>2 DEF Shape, CountFields
<1>4. count' = [count EXCEPT ![n].adjustment = n]
  BY <1>d DEF LinkAdjustment
<1>5. /\ DOMAIN count' = Counts
      /\ \A m \in Counts : m # n => count'[m] = count[m]
      /\ DOMAIN count'[n] = DOMAIN count[n]
      /\ count'[n].approvedBy = count[n].approvedBy
  BY <1>2, <1>3, <1>4 DEF CountFields
<1>6. /\ call'[c].at = "post.read" /\ call'[c].doc = n
      /\ call'[c].lines = call[c].lines /\ call'[c].forCount = call[c].forCount
      /\ \A e \in Calls : e # c => call'[e] = call[e]
      /\ DOMAIN call' = Calls
      /\ \A e \in Calls : DOMAIN call'[e] = DOMAIN Idle
  BY <1>d, <1>1, Gone
<1>7. Approved(n)'
  BY <1>1, <1>2 DEF Approved
<1>8. CallOK(c)'
  BY <1>2, <1>5, <1>6, <1>7 DEF CallOK
<1>9. Grows /\ Shape' /\ DocumentsOK'
  BY <1>1, <1>2, <1>5, <1>6, CountMarked
<1> QED
  BY <1>6, <1>8, <1>9 DEF StepOK

LEMMA ReadAdjustmentStep ==
    ASSUME CountingInv, NEW c \in Calls, ReadAdjustment(c)
    PROVE  StepOK(c)
<1>d. PICK n : n = call[c].doc
  OBVIOUS
<1>1. /\ Shape /\ CallOK(c) /\ call[c].at = "post.read"
      /\ UNCHANGED <<ledgerVars, documents>>
      /\ transactions' = transactions /\ count' = count /\ adjustment' = adjustment
  BY DEF CountingInv, ReadAdjustment, ledgerVars, documents
<1>2. /\ n \in Counts /\ count[n].approvedBy # None
      /\ call[c].forCount /\ AllCounted(call[c].lines) /\ Approved(n)
  BY <1>d, <1>1 DEF CallOK
<1>3. n \in Documents
  BY <1>2 DEF Documents
<1>4. PICK at : /\ Goto(c, at)
                /\ \/ at = "count.close" /\ adjustment[n].status = "POSTED"
                   \/ at = "post"
  BY <1>d DEF ReadAdjustment
<1>5. /\ call'[c].at = at /\ call'[c].doc = n
      /\ call'[c].lines = call[c].lines /\ call'[c].forCount = call[c].forCount
      /\ \A e \in Calls : e # c => call'[e] = call[e]
      /\ DOMAIN call' = Calls
      /\ \A e \in Calls : DOMAIN call'[e] = DOMAIN Idle
  BY <1>d, <1>1, <1>4, Gone
<1>6. Approved(n)'
  BY <1>1, <1>2 DEF Approved
<1>7. at = "count.close" => Posted(n)'
  BY <1>1, <1>3, <1>4 DEF CountingInv, AdjustmentOK, Posted
<1>8. CallOK(c)'
  BY <1>1, <1>2, <1>3, <1>4, <1>5, <1>6, <1>7 DEF CallOK
<1> QED
  BY <1>1, <1>5, <1>8, OnlyTheCall DEF StepOK

LEMMA CloseCountStep ==
    ASSUME CountingInv, NEW c \in Calls, CloseCount(c)
    PROVE  StepOK(c)
<1>d. PICK n : n = call[c].doc
  OBVIOUS
<1>1. /\ Shape /\ CallOK(c) /\ call[c].at = "count.close"
      /\ UNCHANGED <<ledgerVars, adjustment>> /\ Finish(c)
  BY DEF CountingInv, CloseCount
<1>2. n \in Counts
  BY <1>d, <1>1 DEF CallOK
<1>3. DOMAIN count = Counts /\ DOMAIN count[n] = CountFields
  BY <1>1, <1>2 DEF Shape, CountFields
<1>4. PICK a : a = IF call[c].lines = <<>> THEN count[n].adjustment ELSE n
  OBVIOUS
<1>5. count' = [count EXCEPT ![n].status = "POSTED", ![n].adjustment = a]
  BY <1>d, <1>2, <1>3, <1>4 DEF CloseCount, CountFields
<1>6. /\ DOMAIN count' = Counts
      /\ \A m \in Counts : m # n => count'[m] = count[m]
      /\ DOMAIN count'[n] = DOMAIN count[n]
      /\ count'[n].approvedBy = count[n].approvedBy
      /\ count'[n].status = "POSTED"
  BY <1>2, <1>3, <1>5 DEF CountFields
<1>7. /\ CallOK(c)'
      /\ \A e \in Calls : e # c => call'[e] = call[e]
      /\ DOMAIN call' = Calls
      /\ \A e \in Calls : DOMAIN call'[e] = DOMAIN Idle
  BY <1>1, Finished, IdleOK
<1>8. Grows /\ Shape' /\ DocumentsOK'
  BY <1>1, <1>2, <1>6, <1>7, CountMarked
<1> QED
  BY <1>7, <1>8 DEF StepOK

LEMMA FailStep ==
    ASSUME CountingInv, NEW c \in Calls, Fail(c)
    PROVE  StepOK(c)
<1>1. Shape /\ Finish(c) /\ UNCHANGED <<ledgerVars, documents>>
  BY DEF CountingInv, Fail
<1>2. /\ CallOK(c)'
      /\ \A e \in Calls : e # c => call'[e] = call[e]
      /\ DOMAIN call' = Calls
      /\ \A e \in Calls : DOMAIN call'[e] = DOMAIN Idle
  BY <1>1, Finished, IdleOK
<1> QED
  BY <1>1, <1>2, OnlyTheCall DEF StepOK

\* The only step of no call.
LEMMA CreateCountStep ==
    ASSUME CountingInv, NEW n \in Counts, CreateCount(n)
    PROVE  CountingInv'
<1>1. Shape /\ UNCHANGED <<ledgerVars, adjustment>> /\ call' = call
  BY DEF CountingInv, CreateCount
<1>2. DOMAIN count = Counts /\ DOMAIN count[n] = CountFields
  BY <1>1 DEF Shape, CountFields
<1>3. count' = [count EXCEPT ![n].status = "DRAFT"]
  BY DEF CreateCount
<1>4. /\ DOMAIN count' = Counts
      /\ \A m \in Counts : m # n => count'[m] = count[m]
      /\ DOMAIN count'[n] = DOMAIN count[n]
      /\ count'[n].approvedBy = count[n].approvedBy
      /\ count'[n].status = "DRAFT"
  BY <1>2, <1>3 DEF CountFields
<1>5. DOMAIN call' = Calls /\ \A d \in Calls : DOMAIN call'[d] = DOMAIN Idle
  BY <1>1 DEF Shape
<1>6. Grows /\ Shape' /\ DocumentsOK'
  BY <1>1, <1>4, <1>5, CountMarked
<1>7. \A c \in Calls : CallOK(c)'
  BY <1>1, <1>6, OtherCallsKeep
<1> QED
  BY <1>6, <1>7 DEF CountingInv, DocumentsOK

-----------------------------------------------------------------------------
LEMMA CountingInit == Init => CountingInv
<1> SUFFICES ASSUME Init PROVE CountingInv
  OBVIOUS
<1>1. \A k : ~Posted(k)
  BY DEF Init, Posted
<1>2. Shape
  BY DEF Init, Shape, Documents
<1>3. \A n \in Counts : count[n].status = "NONE"
  BY DEF Init
<1>4. \A a \in Documents : adjustment[a].status = "NONE"
  BY DEF Init, Documents
<1>5. \A c \in Calls : call[c].at = "idle" /\ call[c].forCount = FALSE
  BY DEF Init, Idle, Step
<1>6. PostedAsWritten
  BY DEF Init, PostedAsWritten
<1>7. \A a \in Documents : AdjustmentOK(a)
  BY <1>4 DEF AdjustmentOK, Approved
<1>8. \A n \in Counts : CountOK(n)
  BY <1>3, <1>4 DEF CountOK, Documents
<1>9. \A c \in Calls : CallOK(c)
  BY <1>5 DEF CallOK
<1> QED
  BY <1>2, <1>6, <1>7, <1>8, <1>9 DEF CountingInv

LEMMA CountingNext == CountingInv /\ [Next]_vars => CountingInv'
<1> SUFFICES ASSUME CountingInv, [Next]_vars PROVE CountingInv'
  OBVIOUS
<1>1. ASSUME NEW n \in Counts, CreateCount(n) PROVE CountingInv'
  BY <1>1, CreateCountStep
<1>2. ASSUME NEW c \in Calls,
             \/ \E m \in Movements : Move(c, m)
             \/ \E n \in Counts : FreezeCount(c, n)
             \/ \E n \in Counts, u \in Users :
                   RecordCount(c, n, u) \/ ApproveCount(c, n, u) \/ PostCount(c, n, u)
             \/ \E a \in Manual, u \in Users : CreateAdjustment(c, a, u)
             \/ \E a \in Documents :
                   \/ \E u \in Users : ApproveAdjustment(c, a, u)
                   \/ PostAdjustment(c, a)
      PROVE  CountingInv'
  <2>1. StepOK(c)
    BY <1>2, MoveStep, FreezeCountStep, RecordCountStep, ApproveCountStep, PostCountStep,
       CreateAdjustmentStep, ApproveAdjustmentStep, PostAdjustmentStep
  <2> QED
    BY <2>1, OneCall
<1>3. ASSUME NEW c \in Calls,
             \/ BeginPost(c) \/ CommitPost(c)
             \/ CheckBalances(c) \/ InsertAdjustment(c)
             \/ MarkAdjustmentApproved(c) \/ MarkAdjustmentPosted(c)
             \/ SnapshotBalances(c) \/ MarkFrozen(c)
             \/ RecordLine(c) \/ MarkReview(c) \/ MarkCountApproved(c)
             \/ LinkAdjustment(c) \/ ReadAdjustment(c) \/ CloseCount(c)
             \/ Fail(c)
      PROVE  CountingInv'
  <2>1. StepOK(c)
    BY <1>3, BeginPostStep, CommitPostStep, CheckBalancesStep, InsertAdjustmentStep,
       MarkAdjustmentApprovedStep, MarkAdjustmentPostedStep, SnapshotBalancesStep,
       MarkFrozenStep, RecordLineStep, MarkReviewStep, MarkCountApprovedStep,
       LinkAdjustmentStep, ReadAdjustmentStep, CloseCountStep, FailStep
  <2> QED
    BY <2>1, OneCall
<1>4. CASE UNCHANGED vars
  <2>1. /\ UNCHANGED <<ledgerVars, documents>> /\ call' = call
        /\ transactions' = transactions /\ count' = count /\ adjustment' = adjustment
    BY <1>4 DEF vars, ledgerVars, documents
  <2>2. DOMAIN call' = Calls /\ \A d \in Calls : DOMAIN call'[d] = DOMAIN Idle
    BY <2>1 DEF CountingInv, Shape
  <2>3. Grows /\ Shape' /\ DocumentsOK'
    BY <2>1, <2>2, OnlyTheCall
  <2>4. \A c \in Calls : CallOK(c)'
    BY <2>1, <2>3, OtherCallsKeep
  <2> QED
    BY <2>3, <2>4 DEF CountingInv, DocumentsOK
<1> QED
  BY <1>1, <1>2, <1>3, <1>4 DEF Next, Documents

\* The inductive invariant itself.
THEOREM CountingInvariant == Spec => []CountingInv
BY CountingInit, CountingNext, PTL DEF Spec

\* What the ledger holds for an adjustment is what its lines say.
THEOREM PostedAsWrittenAlways == Spec => []PostedAsWritten
<1>1. CountingInv => PostedAsWritten
  BY DEF CountingInv
<1> QED
  BY <1>1, CountingInvariant, PTL

\* No adjustment made by hand is posted on its creator's approval alone.
THEOREM AdjustedOnApprovalAlways == Spec => []AdjustedOnApproval
<1>1. CountingInv => AdjustedOnApproval
  <2> SUFFICES ASSUME CountingInv, NEW a \in Manual, Posted(a)
               PROVE  adjustment[a].approvedBy \notin {None, adjustment[a].createdBy}
    BY DEF AdjustedOnApproval
  <2>1. Approved(a)
    BY DEF CountingInv, PostedAsWritten, Posted, Approved
  <2>2. AdjustmentOK(a)
    BY DEF CountingInv, Documents
  <2> QED
    BY <2>1, <2>2 DEF AdjustmentOK
<1> QED
  BY <1>1, CountingInvariant, PTL

\* A count corrects the books only after its approval, by counted quantities.
THEOREM CorrectedOnApprovalAlways == Spec => []CorrectedOnApproval
<1>1. CountingInv => CorrectedOnApproval
  BY DEF CountingInv, CountOK, CorrectedOnApproval, AllCounted
<1> QED
  BY <1>1, CountingInvariant, PTL

\* POSTED is written, and the count closed, only over a recorded posting.
THEOREM ClosedIsPostedAlways == Spec => []ClosedIsPosted
<1>1. CountingInv => ClosedIsPosted
  BY DEF CountingInv, AdjustmentOK, CallOK, ClosedIsPosted, Documents
<1> QED
  BY <1>1, CountingInvariant, PTL
=============================================================================
