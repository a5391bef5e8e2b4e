--------------------------- MODULE UploadSessions ---------------------------
(***************************************************************************)
(* One chunked upload (apps/api/src/uploads/uploads.service.ts): its       *)
(* UploadSession row and FileAsset, the files it keeps in the staging      *)
(* directory and in LOCAL storage, the requests of its owner and the       *)
(* scheduled cleaner, which are concurrent calls of ONE API process (the   *)
(* maps inFlightParts and inFlightFinalizations are local to the process), *)
(* and the crashes of that process.  A call stops at every await that lets *)
(* another call in; a transaction that locks the row is one step, except   *)
(* where it also touches files.                                            *)
(*                                                                         *)
(* A file's bytes are a token, new with every write; the content of an     *)
(* assembled object is the function from part numbers to tokens it was     *)
(* assembled from.  Each call takes its own clock reading `now`: it is due *)
(* when that reading is at or past the session's expiresAt.                *)
(***************************************************************************)
EXTENDS Integers, Functions

CONSTANTS
    Requests,   \* calls of the owner that may be in flight together
    Cleaner,    \* the scheduled cleanupStaging
    Parts,      \* part numbers, 1..totalParts
    Tokens,     \* names of part files (randomUUID)
    Claims,     \* names of the claims of completions (randomUUID)
    Recoveries, \* names of the claims of recoveries (randomUUID)
    Nil

ASSUME NilAssumption ==
    /\ Nil \notin Requests \cup {Cleaner} \cup Tokens \cup Claims \cup Recoveries
    /\ Nil \notin [Parts -> Tokens]
ASSUME ClaimsAssumption == Claims \cap Recoveries = {}
ASSUME CleanerAssumption == Cleaner \notin Requests

VARIABLES
    session,    \* the UploadSession row and the FileAsset it names; `spoiled`
                \* is history: a failed initiate released it while in use
    store,      \* files: final object, pending ones by claim, staging
    call,       \* program counter and memory of every call
    busy        \* inFlightParts and inFlightFinalizations: the call or Nil

uploadVars == <<session, store, call, busy>>

Callers == Requests \cup {Cleaner}

Contents == [Parts -> Tokens]

Writable == {"INITIATED", "UPLOADING"}
Open == Writable \cup {"FAILED"}
Gone == {"ABORTED", "EXPIRED"}

NoParts == [n \in Parts |-> Nil]
NoFile == [final |-> Nil, pending |-> [k \in Claims |-> Nil],
           staging |-> {}, assembled |-> Nil]
Resting == [pc |-> "idle", part |-> Nil, token |-> Nil, claim |-> Nil,
            row |-> Nil, kill |-> FALSE, due |-> FALSE]

UploadInit ==
    /\ session = [status |-> "NONE", parts |-> NoParts, asset |-> FALSE,
                  deleted |-> FALSE, attached |-> FALSE, claim |-> Nil,
                  leaseOld |-> FALSE, late |-> FALSE, released |-> FALSE,
                  spoiled |-> FALSE]
    /\ store = NoFile
    /\ call = [c \in Callers |-> Resting]
    /\ busy = [part |-> Nil, final |-> Nil]
-----------------------------------------------------------------------------
(* How a call moves on. *)
At(c, pc) == call[c].pc = pc

Goto(c, pc) ==
    /\ call' = [call EXCEPT ![c].pc = pc]
    /\ UNCHANGED busy

\* The call goes on to pc and needs nothing of its memory any more.
Forget(c, pc) ==
    /\ call' = [call EXCEPT ![c] = [Resting EXCEPT !.pc = pc,
                                                !.due = pc = "expire"]]
    /\ UNCHANGED busy

End(c) ==
    /\ call' = [call EXCEPT ![c] = Resting]
    /\ busy' = [m \in DOMAIN busy |-> IF busy[m] = c THEN Nil ELSE busy[m]]

\* The session gets a new expiresAt: no clock read before is past it.
Renewed(calls) == [c \in Callers |-> [calls[c] EXCEPT !.due = FALSE]]

Mine(c) == session.status = "VERIFYING" /\ session.claim = call[c].claim

Files(content) == Range(content) \ {Nil}

\* randomUUID(): a name that nothing in the system holds any more.
Kept(c) ==
    {call[c].token} \cup
    (IF call[c].pc \in {"purge", "clear", "assemble"}
     THEN Range(call[c].row) ELSE {})
UsedTokens ==
    UNION {Files(session.parts), store.staging}
    \cup UNION {Kept(c) : c \in Callers}
    \cup UNION {Range(f) : f \in
            ({store.final, store.assembled} \cup Range(store.pending)) \ {Nil}}
UsedClaims ==
    {session.claim} \cup {k \in Claims : store.pending[k] # Nil}
    \cup {call[c].claim : c \in Callers}
    \cup {call[c].row.claim : c \in
            {d \in Callers : call[d].pc \in {"owned", "sweep", "recover"}}}
\* An instance has few names: who is going to need one waits for it.
NewToken == CHOOSE t \in Tokens : t \notin UsedTokens
NewClaim == CHOOSE k \in Claims : k \notin UsedClaims
NewRecovery == CHOOSE k \in Recoveries : k \notin UsedClaims
-----------------------------------------------------------------------------
(* initiate *)
InUse == session.status \notin Gone \cup {"AVAILABLE"} /\ ~session.asset

Initiate(r) ==
    /\ At(r, "idle") /\ session.status = "NONE"
    /\ session' = [session EXCEPT !.status = "INITIATED"]
    /\ Goto(r, "mkdir")
    /\ UNCHANGED store

\* Another request may have used the session by then, because the client
\* repeated the call and was given it.  The failure of the first call aborts
\* what is still INITIATED, and releases whatever it finds.
MakeDirectory(r) ==
    /\ At(r, "mkdir")
    /\ \/ End(r) /\ UNCHANGED session
       \/ /\ session' = IF session.status = "INITIATED"
                        THEN [session EXCEPT !.status = "ABORTED"]
                        ELSE [session EXCEPT !.spoiled = @ \/ InUse]
          /\ Forget(r, "release")
    /\ UNCHANGED store
-----------------------------------------------------------------------------
(* part and writePart: the process admits one part stream of a session and *)
(* reads the row after it has.                                             *)
PartEnter(r) ==
    /\ At(r, "idle") /\ session.status # "NONE"
    /\ busy.part = Nil
    /\ Tokens \ UsedTokens # {}
    /\ busy' = [busy EXCEPT !.part = r]
    /\ call' = [call EXCEPT ![r].pc = "part"]
    /\ UNCHANGED <<session, store>>

PartRead(r) ==
    /\ At(r, "part")
    /\ IF session.status \in Writable
       THEN \E n \in Parts :
                /\ call' = [call EXCEPT ![r].pc = "purge", ![r].part = n,
                                        ![r].row = session.parts]
                /\ UNCHANGED busy
       ELSE End(r)
    /\ UNCHANGED <<session, store>>

Purged(content) ==
    [store EXCEPT !.staging = @ \cap Files(content), !.assembled = Nil]

PartPurge(r) ==
    /\ At(r, "purge")
    /\ store' = Purged(call[r].row)
    /\ Goto(r, "write")
    /\ UNCHANGED session

PartWrite(r) ==
    /\ At(r, "write")
    /\ Tokens \ UsedTokens # {}
    /\ store' = [store EXCEPT !.staging = @ \cup {NewToken}]
    /\ call' = [call EXCEPT ![r].pc = "commit", ![r].token = NewToken,
                            ![r].row = Nil]
    /\ UNCHANGED <<session, busy>>

Registered(r) ==
    [session EXCEPT !.parts[call[r].part] = call[r].token,
                    !.status = "UPLOADING"]
Dropped(t) == [store EXCEPT !.staging = @ \ {t}]

\* Variant: the transaction trusts the row that was read before the stream.
PartCommit_Unchecked(r) ==
    /\ At(r, "commit")
    /\ session' = Registered(r)
    /\ call' = [call EXCEPT ![r].pc = "old",
                            ![r].token = session.parts[call[r].part]]
    /\ UNCHANGED <<store, busy>>

PartCommit(r) ==
    /\ At(r, "commit")
    /\ IF session.status \in Writable /\ ~session.late
       THEN /\ session' = Registered(r)
            /\ call' = [call EXCEPT ![r].pc = "old",
                            ![r].token = session.parts[call[r].part]]
            /\ UNCHANGED <<store, busy>>
       ELSE /\ store' = Dropped(call[r].token)
            /\ End(r)
            /\ UNCHANGED session

PartRemoveOld(r) ==
    /\ At(r, "old")
    /\ store' = Dropped(call[r].token)
    /\ End(r)
    /\ UNCHANGED session

\* A write that fails removes its own file, and so does a commit whose answer
\* is lost although the row was written.
PartFails(r) ==
    /\ call[r].pc \in {"purge", "write", "commit", "old"}
    /\ store' = IF At(r, "commit") THEN Dropped(call[r].token) ELSE store
    /\ session' \in {session} \cup
            IF At(r, "commit") /\ session.status \in Writable /\ ~session.late
            THEN {Registered(r)} ELSE {}
    /\ End(r)
-----------------------------------------------------------------------------
(* complete and completeSession *)
CompleteStart(r) ==
    /\ At(r, "idle") /\ busy.part = Nil
    /\ \/ /\ session.status = "VERIFYING" /\ session.asset
          /\ Goto(r, "retry")
       \/ /\ session.status \in Open /\ Nil \notin Range(session.parts)
          /\ busy.final = Nil /\ Claims \ UsedClaims # {}
          /\ busy' = [busy EXCEPT !.final = r]
          /\ call' = [call EXCEPT ![r].pc = "claim"]
    /\ UNCHANGED <<session, store>>

Available ==
    [session EXCEPT !.status = "AVAILABLE", !.late = FALSE, !.claim = Nil,
                    !.leaseOld = FALSE]

MadeAvailable(r) ==
    /\ session' = Available
    /\ call' = Renewed([call EXCEPT ![r] = [Resting EXCEPT !.pc = "release"]])
    /\ UNCHANGED busy

RetryFinish(r) ==
    /\ At(r, "retry")
    /\ IF session.status = "VERIFYING"
       THEN MadeAvailable(r)
       ELSE End(r) /\ UNCHANGED session
    /\ UNCHANGED store

ClaimSession(r) ==
    /\ At(r, "claim")
    /\ IF session.status \in Open /\ ~session.late
       THEN /\ Claims \ UsedClaims # {}
            /\ session' = [session EXCEPT !.status = "VERIFYING",
                               !.claim = NewClaim, !.leaseOld = FALSE]
            /\ call' = [call EXCEPT ![r].pc = "claimed", ![r].claim = NewClaim]
            /\ UNCHANGED busy
       ELSE End(r) /\ UNCHANGED session
    /\ UNCHANGED store

\* The row is read again under the claim: from here on nobody writes parts.
LoadParts(r) ==
    call' = [call EXCEPT ![r].pc = "clear", ![r].row = session.parts]

Load(r) ==
    /\ At(r, "claimed")
    /\ LoadParts(r)
    /\ UNCHANGED <<session, store, busy>>

Clear(r) ==
    /\ At(r, "clear")
    /\ store' = Purged(call[r].row)
    /\ Goto(r, "assemble")
    /\ UNCHANGED session

Assemble(r) ==
    /\ At(r, "assemble")
    /\ IF Range(call[r].row) \subseteq store.staging
       THEN /\ store' = [store EXCEPT !.assembled = call[r].row]
            /\ call' = [call EXCEPT ![r].pc = "put", ![r].row = Nil]
            /\ UNCHANGED busy
       ELSE Goto(r, "catch") /\ UNCHANGED store
    /\ UNCHANGED session

Put(r) ==
    /\ At(r, "put")
    /\ IF store.assembled # Nil
       THEN /\ store' = [store EXCEPT
                             !.pending[call[r].claim] = store.assembled]
            /\ Goto(r, "publish")
       ELSE Goto(r, "catch") /\ UNCHANGED store
    /\ UNCHANGED session

\* The transaction that creates the FileAsset: publishPending renames the
\* file before the rows are committed, and no rollback renames it back.
Publish(r) ==
    /\ At(r, "publish")
    /\ LET k == call[r].claim IN
       IF Mine(r) /\ ~session.asset /\ store.pending[k] # Nil
       THEN /\ store' = [store EXCEPT !.final = store.pending[k],
                                      !.pending[k] = Nil]
            /\ Goto(r, "materialize")
       ELSE Goto(r, "catch") /\ UNCHANGED store
    /\ UNCHANGED session

Materialize(r) ==
    /\ At(r, "materialize")
    /\ session' = [session EXCEPT !.asset = TRUE]
    /\ Goto(r, "finish")
    /\ UNCHANGED store

Finish(r) ==
    /\ At(r, "finish")
    /\ IF Mine(r) /\ session.asset
       THEN MadeAvailable(r)
       ELSE Goto(r, "catch") /\ UNCHANGED session
    /\ UNCHANGED store

\* A step of the try block fails, or the two before it: the read of the
\* claimed row, which gives the claim back, and the purge, which does not.
CompleteFails(r) ==
    /\ \/ /\ call[r].pc \in {"assemble", "put", "publish", "materialize",
                             "finish"}
          /\ Goto(r, "catch") /\ UNCHANGED session
       \/ /\ At(r, "claimed")
          /\ session' = IF Mine(r)
                        THEN [session EXCEPT !.status = "FAILED",
                                             !.claim = Nil, !.leaseOld = FALSE]
                        ELSE session
          /\ End(r)
       \/ /\ call[r].pc \in {"retry", "claim", "clear", "catch", "fail"}
          /\ End(r) /\ UNCHANGED session
    /\ UNCHANGED store

CatchAvailable(r) ==
    /\ At(r, "catch") /\ session.status = "AVAILABLE"
    /\ Forget(r, "release")
    /\ UNCHANGED <<session, store>>

\* NotFoundException: the upload's target vanished after the FileAsset was
\* created.  Any other error leaves it for a repeated complete.
CatchMaterialized(r) ==
    /\ At(r, "catch") /\ Mine(r) /\ session.asset
    /\ \/ /\ session' = [session EXCEPT !.status = "ABORTED", !.claim = Nil,
                                        !.leaseOld = FALSE]
          /\ Forget(r, "release")
       \/ End(r) /\ UNCHANGED session
    /\ UNCHANGED store

CatchUndo(r) ==
    /\ At(r, "catch") /\ Mine(r) /\ ~session.asset
    /\ store' = [store EXCEPT !.pending[call[r].claim] = Nil,
                              !.final = Nil, !.assembled = Nil]
    /\ Goto(r, "fail")
    /\ UNCHANGED session

CatchLost(r) ==
    /\ At(r, "catch") /\ session.status # "AVAILABLE" /\ ~Mine(r)
    /\ End(r)
    /\ UNCHANGED <<session, store>>

Fail(r) ==
    /\ At(r, "fail")
    /\ session' = IF Mine(r) /\ ~session.asset
                  THEN [session EXCEPT !.status = "FAILED", !.claim = Nil,
                                       !.leaseOld = FALSE]
                  ELSE session
    /\ End(r)
    /\ UNCHANGED store
-----------------------------------------------------------------------------
(* abort, refresh, submit and recover *)
Abort(r) ==
    /\ At(r, "idle")
    /\ \/ session.status = "ABORTED"
       \/ session.status = "AVAILABLE" /\ ~session.attached
       \/ session.status \in Open
    /\ session' = [session EXCEPT !.status = "ABORTED"]
    /\ Forget(r, "release")
    /\ UNCHANGED store

\* Extends the session, or expires it at its maximum lifetime.
Refresh(r) ==
    /\ At(r, "idle") /\ session.status \in Open
    /\ \/ /\ session' = [session EXCEPT !.late = FALSE]
          /\ call' = Renewed(call)
          /\ UNCHANGED busy
       \/ /\ session' = [session EXCEPT !.status = "EXPIRED", !.late = TRUE]
          /\ Forget(r, "release")
    /\ UNCHANGED store

\* The transaction that holds the row: its clock is read before it commits.
SubmitCheck(r) ==
    /\ At(r, "idle")
    /\ session.status = "AVAILABLE" /\ session.asset /\ ~session.late
    /\ Goto(r, "submit")
    /\ UNCHANGED <<session, store>>

Submit(r) ==
    /\ At(r, "submit")
    /\ session' = IF session.status = "AVAILABLE" /\ ~session.deleted
                  THEN [session EXCEPT !.attached = TRUE] ELSE session
    /\ End(r)
    /\ UNCHANGED store

\* recover() expires what it will not list; its UPDATE reads the attachments
\* in its snapshot and the row when it gets to write it.
List(r) ==
    /\ At(r, "idle")
    /\ session.status = "AVAILABLE" /\ session.late /\ ~session.attached
    /\ call' = [call EXCEPT ![r].pc = "list", ![r].due = TRUE]
    /\ UNCHANGED <<session, store, busy>>

ListExpire(r) ==
    /\ At(r, "list")
    /\ session' = IF session.status = "AVAILABLE" /\ call[r].due
                  THEN [session EXCEPT !.status = "EXPIRED"] ELSE session
    /\ End(r)
    /\ UNCHANGED store
-----------------------------------------------------------------------------
(* What a request finds due when it reads the row (owned), and what the    *)
(* cleaner selects: both act later, on what they read.                     *)
Read(c, pc) ==
    /\ call' = [call EXCEPT ![c].pc = pc,
           ![c].due = session.late,
           ![c].row = [status |-> session.status, asset |-> session.asset,
                       claim |-> session.claim, leaseOld |-> session.leaseOld]]
    /\ UNCHANGED <<session, store, busy>>

Look(r) ==
    /\ At(r, "idle") /\ session.status \notin Gone \cup {"NONE"}
    /\ session.late \/ session.leaseOld
    /\ Read(r, "owned")

Selected ==
    \/ /\ ~session.released
       /\ \/ session.status \in Gone \cup {"AVAILABLE"}
          \/ session.status = "VERIFYING" /\ (session.asset \/ session.leaseOld)
          \/ session.status \in Open /\ session.late
    \/ /\ session.released /\ session.asset /\ ~session.attached
       /\ \/ session.status \in Gone
          \/ session.status = "AVAILABLE" /\ session.late

Select ==
    /\ At(Cleaner, "idle") /\ Selected
    /\ Read(Cleaner, "sweep")

\* recoverVerificationLease
TakeOver(c) ==
    LET row == call[c].row IN
    /\ row.status = "VERIFYING" /\ ~row.asset /\ row.leaseOld
    /\ busy.final = Nil
    /\ IF /\ session.status = "VERIFYING" /\ ~session.asset
          /\ session.claim = row.claim /\ session.leaseOld
       THEN /\ Recoveries \ UsedClaims # {}
            /\ session' = [session EXCEPT !.claim = NewRecovery,
                                          !.leaseOld = FALSE]
            /\ call' = [call EXCEPT ![c].pc = "recover",
                                    ![c].claim = NewRecovery,
                                    ![c].due = session.late]
            /\ UNCHANGED busy
       ELSE End(c) /\ UNCHANGED session
    /\ UNCHANGED store

RecoverFiles(c) ==
    /\ At(c, "recover")
    /\ store' = [store EXCEPT !.final = Nil,
           !.pending = [k \in Claims |-> IF k = call[c].row.claim THEN Nil
                                         ELSE @[k]]]
    /\ Goto(c, "recovered")
    /\ UNCHANGED session

RecoverMark(c) ==
    /\ At(c, "recovered")
    /\ LET status == IF call[c].due THEN "EXPIRED" ELSE "FAILED" IN
       IF Mine(c) /\ ~session.asset
       THEN /\ session' = [session EXCEPT !.status = status, !.claim = Nil]
            /\ IF status = "EXPIRED" THEN Forget(c, "release") ELSE End(c)
       ELSE End(c) /\ UNCHANGED session
    /\ UNCHANGED store

\* owned: a session past its time is expired, unless its file is attached in
\* the snapshot of the UPDATE.
OwnedExpire(r) ==
    /\ At(r, "owned")
    /\ call[r].row.status # "VERIFYING"
    /\ IF call[r].due /\ ~(call[r].row.status = "AVAILABLE" /\ session.attached)
       THEN Forget(r, "expire") ELSE End(r)
    /\ UNCHANGED <<session, store>>

OwnedElse(r) ==
    /\ At(r, "owned")
    /\ call[r].row.status = "VERIFYING"
    /\ call[r].row.asset \/ ~call[r].row.leaseOld \/ busy.final # Nil
    /\ End(r)
    /\ UNCHANGED <<session, store>>

OwnedTakeOver(r) == At(r, "owned") /\ TakeOver(r)

Expire(r) ==
    /\ At(r, "expire") /\ r # Cleaner
    /\ IF session.status \in Open \cup {"AVAILABLE"} /\ call[r].due
       THEN /\ session' = [session EXCEPT !.status = "EXPIRED"]
            /\ Forget(r, "release")
       ELSE End(r) /\ UNCHANGED session
    /\ UNCHANGED store

\* cleanupStagingBatch, for the row it selected
SweepSkip ==
    /\ At(Cleaner, "sweep")
    /\ busy.final # Nil \/ busy.part # Nil
    /\ End(Cleaner)
    /\ UNCHANGED <<session, store>>

SweepTakeOver ==
    At(Cleaner, "sweep") /\ busy.part = Nil /\ TakeOver(Cleaner)

SweepOpen ==
    /\ At(Cleaner, "sweep")
    /\ busy.final = Nil /\ busy.part = Nil
    /\ call[Cleaner].row.status \in Open
    /\ IF session.status = call[Cleaner].row.status /\ call[Cleaner].due
       THEN /\ session' = [session EXCEPT !.status = "EXPIRED"]
            /\ Forget(Cleaner, "release")
       ELSE End(Cleaner) /\ UNCHANGED session
    /\ UNCHANGED store

SweepRest ==
    /\ At(Cleaner, "sweep")
    /\ busy.final = Nil /\ busy.part = Nil
    /\ \/ call[Cleaner].row.status \in Gone \cup {"AVAILABLE"}
       \/ call[Cleaner].row.asset
    /\ IF /\ call[Cleaner].row.status = "AVAILABLE"
          /\ call[Cleaner].due /\ ~session.attached
       THEN Forget(Cleaner, "expire") ELSE Forget(Cleaner, "release")
    /\ UNCHANGED <<session, store>>

SweepExpire ==
    /\ At(Cleaner, "expire")
    /\ session' = IF session.status = "AVAILABLE" /\ call[Cleaner].due
                  THEN [session EXCEPT !.status = "EXPIRED"] ELSE session
    /\ Forget(Cleaner, "release")
    /\ UNCHANGED store
-----------------------------------------------------------------------------
(* releaseStaging, with retireUnsubmittedAsset *)
\* Variant: a release does not look for a part in flight.
ReleaseStart_Blind(c) ==
    /\ At(c, "release")
    /\ Goto(c, "retire")
    /\ UNCHANGED <<session, store>>

ReleaseStart(c) ==
    /\ At(c, "release")
    /\ IF busy.part = Nil THEN Goto(c, "retire") ELSE End(c)
    /\ UNCHANGED <<session, store>>

\* Variant: the attachments are not looked up again under the locks.
Retirable_Attached == session.status \in Gone /\ session.asset

Retirable ==
    session.status \in Gone /\ session.asset /\ ~session.attached

Retire(c) ==
    /\ At(c, "retire")
    /\ session' = IF Retirable
                  THEN [session EXCEPT !.deleted = TRUE, !.released = FALSE]
                  ELSE session
    /\ call' = [call EXCEPT ![c].pc = "final", ![c].kill = Retirable]
    /\ UNCHANGED <<store, busy>>

RemoveFinal(c) ==
    /\ At(c, "final")
    /\ store' = [store EXCEPT !.pending = NoFile.pending,
           !.final = IF ~session.asset \/ call[c].kill THEN Nil ELSE @]
    /\ Goto(c, "staging")
    /\ UNCHANGED session

RemoveStaging(c) ==
    /\ At(c, "staging")
    /\ store' = [store EXCEPT !.staging = {}, !.assembled = Nil]
    /\ Goto(c, "mark")
    /\ UNCHANGED session

Mark(c) ==
    /\ At(c, "mark")
    /\ session' = [session EXCEPT !.released = TRUE]
    /\ End(c)
    /\ UNCHANGED store

\* A database or file operation of a release or a recovery fails: the call
\* ends, and the next sweep finds the session again.
StepFails(c) ==
    /\ call[c].pc \in {"retire", "final", "staging", "mark", "recover",
                       "recovered", "expire", "owned", "sweep"}
    /\ End(c)
    /\ UNCHANGED <<session, store>>
-----------------------------------------------------------------------------
(* Time and crashes.  A lease is renewed every minute and old after fifteen: *)
(* it runs out only when the call that claimed it is gone.                    *)
TimePasses ==
    /\ session.status \notin Gone \cup {"NONE"} /\ ~session.late
    /\ session' = [session EXCEPT !.late = TRUE]
    /\ UNCHANGED <<store, call, busy>>

LeaseRunsOut ==
    /\ session.status = "VERIFYING" /\ ~session.asset /\ ~session.leaseOld
    /\ \A c \in Callers : call[c].claim # session.claim
    /\ session' = [session EXCEPT !.leaseOld = TRUE]
    /\ UNCHANGED <<store, call, busy>>

ProcessDies ==
    /\ \E c \in Callers : ~At(c, "idle")
    /\ call' = [c \in Callers |-> Resting]
    /\ busy' = [part |-> Nil, final |-> Nil]
    /\ UNCHANGED <<session, store>>
-----------------------------------------------------------------------------
Starts(r) ==
    \/ Initiate(r) \/ PartEnter(r) \/ CompleteStart(r) \/ Abort(r)
    \/ Refresh(r) \/ SubmitCheck(r) \/ List(r) \/ Look(r)

Releasing(c) ==
    ReleaseStart(c) \/ Retire(c) \/ RemoveFinal(c) \/ RemoveStaging(c) \/ Mark(c)

Recovering(c) == RecoverFiles(c) \/ RecoverMark(c)

Completing(r) ==
    \/ RetryFinish(r) \/ ClaimSession(r) \/ Load(r) \/ Clear(r) \/ Assemble(r)
    \/ Put(r) \/ Publish(r) \/ Materialize(r) \/ Finish(r)
    \/ CatchAvailable(r) \/ CatchMaterialized(r) \/ CatchUndo(r)
    \/ CatchLost(r) \/ Fail(r)

Continues(r) ==
    \/ MakeDirectory(r) \/ PartRead(r) \/ PartPurge(r) \/ PartWrite(r)
    \/ PartCommit(r) \/ PartRemoveOld(r) \/ Completing(r)
    \/ Submit(r) \/ ListExpire(r) \/ OwnedExpire(r) \/ OwnedElse(r)
    \/ OwnedTakeOver(r) \/ Expire(r) \/ Recovering(r) \/ Releasing(r)

Sweeps ==
    \/ SweepSkip \/ SweepTakeOver \/ SweepOpen \/ SweepRest \/ SweepExpire
    \/ Recovering(Cleaner) \/ Releasing(Cleaner)

Fault ==
    \/ \E r \in Requests : PartFails(r) \/ CompleteFails(r)
    \/ \E c \in Callers : StepFails(c)
    \/ ProcessDies

UploadNext ==
    \/ \E r \in Requests : Starts(r) \/ Continues(r)
    \/ Select \/ Sweeps
    \/ TimePasses \/ LeaseRunsOut
    \/ Fault

UploadSpec == UploadInit /\ [][UploadNext]_uploadVars
-----------------------------------------------------------------------------
\* What the upload promises its client, whatever the calls, the cleaner and
\* the crashes do (UploadPromise), until a failed initiate spoils the session:
\* the FileAsset's bytes are the final object.
Stage ==
    CASE session.attached -> "submitted"
      [] ~session.attached /\ session.status = "AVAILABLE" -> "available"
      [] ~session.attached /\ session.status \in Gone -> "withdrawn"
      [] OTHER -> "uploading"
Bytes == IF session.asset THEN store.final ELSE Nil

Promise == INSTANCE UploadPromise WITH stage <- Stage, bytes <- Bytes,
                                       void <- session.spoiled
PromiseSpec == Promise!Spec

\* A file that was not retired has as bytes exactly the registered parts: no
\* late part, recovery, undo or release of another call touched its object.
AssetIsWhole ==
    session.asset /\ ~session.deleted /\ ~session.spoiled =>
        store.final = session.parts

\* stagingReleasedAt, which ends the session's charge for staging, is only
\* set once nothing of it is on disk, and nothing is written afterwards.
ReleasedIsEmpty ==
    session.released /\ ~session.spoiled =>
        /\ store.staging = {} /\ store.assembled = Nil
        /\ store.pending = NoFile.pending
=============================================================================
