---------------------------- MODULE StockPosting ----------------------------
(***************************************************************************)
(* InventoryService.post as it runs: concurrent Serializable database      *)
(* transactions, each taking a snapshot, working through the posting's     *)
(* lines one at a time on its own view of the balance rows, and trying to  *)
(* commit.  Commits follow PostgreSQL's first-committer-wins rule on the   *)
(* rows written and the unique indexes on the transaction rows.            *)
(***************************************************************************)
EXTENDS StockLedger, Sequences

CONSTANTS
    Posters,        \* concurrent calls of post
    Requests,       \* the InventoryPosting values callers may send
    Missing,        \* balance keys with no such item, active warehouse,
                    \* location, lot or serial
    Serialized,     \* balance keys that name one serial number
    CountedRows,    \* balance keys cycle counts freeze (a bound)
    NoRequest,
    NotFrozen,      \* no cycle count holds the row
    NoAdjustment    \* a cycle count without an adjustment holds it

Sources == {r.sourceId : r \in Requests}

Lines == [balanceKey : BalanceKeys, quantity : Int, delta : Quantities]

ASSUME PostingAssumption ==
    /\ \A r \in Requests :
          /\ DOMAIN r = {"idempotencyKey", "transactionNumber", "sourceId", "lines"}
          /\ r.lines \in Seq(Lines)
    /\ CountedRows \subseteq BalanceKeys
    /\ NoRequest \notin Requests
    /\ NotFrozen \notin Sources /\ NoAdjustment \notin Sources
    /\ NotFrozen # NoAdjustment

VARIABLES
    version,        \* InventoryBalance.version, 0 while there is no row
    frozenBy,       \* per row: the adjustment of the count that freezes it
    phase,          \* per poster: where its call stands
    request,        \* per poster: the posting it was called with
    nextLine,       \* per poster: the line its transaction is at
    seen,           \* per poster: the versions in its snapshot
    frozenSeen,     \* per poster: frozenBy in its snapshot
    work,           \* per poster: the balances its transaction sees
    effect          \* per poster: the transaction lines it has inserted

txVars == <<phase, request, nextLine, seen, frozenSeen, work, effect>>
postingVars == <<balance, transactions, version, frozenBy, txVars>>

Phases == {"idle", "open", "created", "existing", "mismatch", "rejected", "aborted"}

-----------------------------------------------------------------------------
(* A posting *)

\* payloadHash: the metadata and, whatever the order callers list them in,
\* the lines of every balance row.
PayloadHash(r) ==
    <<r.sourceId, [k \in BalanceKeys |->
                      SelectSeq(r.lines, LAMBDA l : l.balanceKey = k)]>>

LinesOn(r, k) == {i \in DOMAIN r.lines : r.lines[i].balanceKey = k}

Row(r, e) ==
    [idempotencyKey |-> r.idempotencyKey,
     transactionNumber |-> r.transactionNumber,
     payloadHash |-> PayloadHash(r),
     effect |-> e]

ValidLine_NoProjection(l) ==
    l.quantity > 0 /\ (l.balanceKey \in Serialized => l.quantity = 1)

\* The checks on a line before the balance row is read.
ValidLine(l) ==
    /\ l.quantity > 0
    /\ l.balanceKey \in Serialized => l.quantity = 1
    /\ Projects(l.delta)

OpenTo(frozen, l, source) == frozen[l.balanceKey] \in {NotFrozen, source}

\* The balance row the line leads to in the transaction's view.
NextRow(p, l) == Plus(work[p][l.balanceKey], l.delta)

Sufficient_ControlledOnly(p, l) ==
    \A b \in ControlledBuckets : NextRow(p, l)[b] >= 0

\* onHand and available are checked outside allowNegativeStock, the
\* controlled buckets everywhere.
Sufficient(p, l) == InStock(l.balanceKey, NextRow(p, l))

-----------------------------------------------------------------------------
PostingInit ==
    /\ balance = NoEffect
    /\ transactions = {}
    /\ version = [k \in BalanceKeys |-> 0]
    /\ frozenBy = [k \in BalanceKeys |-> NotFrozen]
    /\ phase = [p \in Posters |-> "idle"]
    /\ request = [p \in Posters |-> NoRequest]
    /\ nextLine = [p \in Posters |-> 1]
    /\ seen = [p \in Posters |-> [k \in BalanceKeys |-> 0]]
    /\ frozenSeen = [p \in Posters |-> [k \in BalanceKeys |-> NotFrozen]]
    /\ work = [p \in Posters |-> NoEffect]
    /\ effect = [p \in Posters |-> NoEffect]

\* The transaction is over and its snapshot and private view are gone.
Answer(p, outcome) ==
    /\ phase' = [phase EXCEPT ![p] = outcome]
    /\ nextLine' = [nextLine EXCEPT ![p] = 1]
    /\ seen' = [seen EXCEPT ![p] = [k \in BalanceKeys |-> 0]]
    /\ frozenSeen' = [frozenSeen EXCEPT ![p] = [k \in BalanceKeys |-> NotFrozen]]
    /\ work' = [work EXCEPT ![p] = NoEffect]
    /\ effect' = [effect EXCEPT ![p] = NoEffect]
    /\ UNCHANGED request

\* The transaction starts: its snapshot holds no row under the key, and the
\* InventoryTransaction row is inserted (visible to itself only).
Begin(p, r) ==
    /\ phase[p] = "idle"
    /\ r.lines # <<>>
    /\ ~Posted(r.idempotencyKey)
    /\ phase' = [phase EXCEPT ![p] = "open"]
    /\ request' = [request EXCEPT ![p] = r]
    /\ nextLine' = [nextLine EXCEPT ![p] = 1]
    /\ seen' = [seen EXCEPT ![p] = version]
    /\ frozenSeen' = [frozenSeen EXCEPT ![p] = frozenBy]
    /\ work' = [work EXCEPT ![p] = balance]
    /\ effect' = [effect EXCEPT ![p] = NoEffect]
    /\ UNCHANGED <<balance, transactions, version, frozenBy>>

Replay_IgnoresPayload(p, r) ==
    /\ phase[p] = "idle" /\ Posted(r.idempotencyKey)
    /\ phase' = [phase EXCEPT ![p] = "existing"]
    /\ request' = [request EXCEPT ![p] = r]
    /\ UNCHANGED <<balance, transactions, version, frozenBy,
                   nextLine, seen, frozenSeen, work, effect>>

\* The key is already recorded: the call answers with that row when the
\* payload is the same, and with a conflict when it is another.
Replay(p, r) ==
    /\ phase[p] = "idle"
    /\ r.lines # <<>>
    /\ \E t \in transactions :
          /\ t.idempotencyKey = r.idempotencyKey
          /\ phase' = [phase EXCEPT ![p] =
                          IF t.payloadHash = PayloadHash(r) THEN "existing"
                                                            ELSE "mismatch"]
    /\ request' = [request EXCEPT ![p] = r]
    /\ UNCHANGED <<balance, transactions, version, frozenBy,
                   nextLine, seen, frozenSeen, work, effect>>

\* One turn of the loop over data.lines that passes every check.
PostLine(p) ==
    /\ phase[p] = "open"
    /\ nextLine[p] \in DOMAIN request[p].lines
    /\ LET l == request[p].lines[nextLine[p]] IN
          /\ l.balanceKey \notin Missing
          /\ OpenTo(frozenSeen[p], l, request[p].sourceId)
          /\ ValidLine(l)
          /\ Sufficient(p, l)
          /\ work' = [work EXCEPT ![p][l.balanceKey] = NextRow(p, l)]
          /\ effect' = [effect EXCEPT ![p][l.balanceKey] = Plus(@, l.delta)]
    /\ nextLine' = [nextLine EXCEPT ![p] = @ + 1]
    /\ UNCHANGED <<balance, transactions, version, frozenBy,
                   phase, request, seen, frozenSeen>>

\* One that fails a check: the exception rolls the whole posting back.
RejectLine(p) ==
    /\ phase[p] = "open"
    /\ nextLine[p] \in DOMAIN request[p].lines
    /\ LET l == request[p].lines[nextLine[p]] IN
          \/ l.balanceKey \in Missing
          \/ ~OpenTo(frozenSeen[p], l, request[p].sourceId)
          \/ ~ValidLine(l)
          \/ ~Sufficient(p, l)
    /\ Answer(p, "rejected")
    /\ UNCHANGED <<balance, transactions, version, frozenBy>>

Serializable_LostUpdate(p) ==
    \A t \in transactions :
       /\ t.idempotencyKey # request[p].idempotencyKey
       /\ t.transactionNumber # request[p].transactionNumber

Serializable_NumberReused(p) ==
    /\ \A k \in BalanceKeys :
          LinesOn(request[p], k) # {} => seen[p][k] = version[k]
    /\ \A t \in transactions : t.idempotencyKey # request[p].idempotencyKey

\* Nobody committed a balance row this transaction writes since its
\* snapshot, and neither unique index of InventoryTransaction is taken.
Serializable(p) ==
    /\ \A k \in BalanceKeys :
          LinesOn(request[p], k) # {} => seen[p][k] = version[k]
    /\ \A t \in transactions :
          /\ t.idempotencyKey # request[p].idempotencyKey
          /\ t.transactionNumber # request[p].transactionNumber

\* The upsert of every line increments the version of its row.
NextVersion(p) ==
    [k \in BalanceKeys |-> version[k] + Cardinality(LinesOn(request[p], k))]

Commit(p) ==
    /\ phase[p] = "open"
    /\ nextLine[p] \notin DOMAIN request[p].lines
    /\ Serializable(p)
    /\ transactions' = transactions \cup {Row(request[p], effect[p])}
    /\ balance' = [k \in BalanceKeys |->
                      IF LinesOn(request[p], k) # {} THEN work[p][k] ELSE balance[k]]
    /\ version' = NextVersion(p)
    /\ Answer(p, "created")
    /\ UNCHANGED frozenBy

\* The database refuses the commit, or the call dies with its transaction
\* open: a lost connection, the transaction time limit, a restart.
Abort(p) ==
    /\ phase[p] = "open"
    /\ Answer(p, "aborted")
    /\ UNCHANGED <<balance, transactions, version, frozenBy>>

\* The caller has its answer; the next call may begin.
Return(p) ==
    /\ phase[p] \notin {"idle", "open"}
    /\ phase' = [phase EXCEPT ![p] = "idle"]
    /\ request' = [request EXCEPT ![p] = NoRequest]
    /\ UNCHANGED <<balance, transactions, version, frozenBy,
                   nextLine, seen, frozenSeen, work, effect>>

\* Cycle counts freeze a row, attach their adjustment to it and let it go,
\* in transactions of their own that no posting waits for.
CycleCountStep(k) ==
    /\ \/ frozenBy[k] = NotFrozen /\ frozenBy' = [frozenBy EXCEPT ![k] = NoAdjustment]
       \/ /\ frozenBy[k] = NoAdjustment
          /\ \E s \in Sources : frozenBy' = [frozenBy EXCEPT ![k] = s]
       \/ frozenBy[k] # NotFrozen /\ frozenBy' = [frozenBy EXCEPT ![k] = NotFrozen]
    /\ UNCHANGED <<balance, transactions, version, txVars>>

PostingNext ==
    \/ \E p \in Posters :
          \/ \E r \in Requests : Begin(p, r) \/ Replay(p, r)
          \/ PostLine(p) \/ RejectLine(p) \/ Commit(p) \/ Abort(p) \/ Return(p)
    \/ \E k \in CountedRows : CycleCountStep(k)

PostingSpec == PostingInit /\ [][PostingNext]_postingVars

-----------------------------------------------------------------------------
PostingTypeOK ==
    /\ balance \in [BalanceKeys -> Quantities]
    /\ \A t \in transactions :
          /\ t.effect \in [BalanceKeys -> Quantities]
          /\ \E r \in Requests : t = Row(r, t.effect)
    /\ version \in [BalanceKeys -> Nat]
    /\ frozenBy \in [BalanceKeys -> Sources \cup {NotFrozen, NoAdjustment}]
    /\ phase \in [Posters -> Phases]
    /\ request \in [Posters -> Requests \cup {NoRequest}]
    /\ \A p \in Posters : phase[p] # "idle" => request[p] \in Requests
    /\ nextLine \in [Posters -> Nat \ {0}]
    /\ seen \in [Posters -> [BalanceKeys -> Nat]]
    /\ frozenSeen \in [Posters -> [BalanceKeys -> Sources \cup {NotFrozen, NoAdjustment}]]
    /\ work \in [Posters -> [BalanceKeys -> Quantities]]
    /\ effect \in [Posters -> [BalanceKeys -> Quantities]]

\* The balance rows are exactly what the recorded postings add up to: no
\* concurrent posting is lost, half applied or applied twice.
BalanceIsLedgerSum ==
    \A k \in BalanceKeys, b \in Buckets : balance[k][b] = Moved(k, b)

\* One idempotency key and one transaction number never name two postings,
\* however many calls race to record them.
RecordedOnce ==
    \A t, u \in transactions :
       \/ t.idempotencyKey = u.idempotencyKey
       \/ t.transactionNumber = u.transactionNumber
       => t = u

\* A caller that is told its posting stands, freshly created or found under
\* its key, asked for the very movement the ledger holds.
AnswerIsRecorded ==
    \A p \in Posters :
       phase[p] \in {"created", "existing"} =>
          \E t \in transactions :
             /\ t.idempotencyKey = request[p].idempotencyKey
             /\ t.payloadHash = PayloadHash(request[p])

\* A row's version counts the lines posted to it, so a reader that finds
\* the version it knows also finds the quantities it knows.
VersionTellsChange ==
    [][\A k \in BalanceKeys :
          /\ version'[k] >= version[k]
          /\ version'[k] = version[k] => balance'[k] = balance[k]]_postingVars
=============================================================================
