------------------------------- MODULE AiRuns -------------------------------
(***************************************************************************)
(* The runs that answer the questions of one AI conversation               *)
(* (apps/api/src/project-chat/project-ai.service.ts): the ChatAiAnswer     *)
(* rows that enqueueRun queues, the workers that tickRuns starts for them  *)
(* in every API process, the requests they send to the provider, the tools *)
(* the provider calls, the drafts these store, and the user's cancel and   *)
(* resume.                                                                 *)
(*                                                                         *)
(* ProjectChatPolicy.project holds the row of the Project FOR UPDATE, so a *)
(* transaction of `authorized` is one step; a worker may stop between any  *)
(* two of them.  A lease of 60 s is kept by a heartbeat every 20 s: it     *)
(* lapses when its worker is gone, or stalled for that long.               *)
(*                                                                         *)
(* A claim's jobToken is a random UUID written together with the next      *)
(* attempts, so the number of the attempt stands for it.                   *)
(***************************************************************************)
EXTENDS Integers

CONSTANTS
    Runs,       \* answers of the conversation, in the order of createdAt
    Wanted,     \* those whose task requests an output file at first
    Scoped,     \* those that must read their documents in full at first
    Histories,  \* rows to start with: <<asked now, left by an earlier release>>
    Workers,    \* one per API process: it runs one run of a conversation
    Calls,      \* for each run, the call ids the provider may use
    Drafts,     \* ids that call create_document or revise_draft
    Searches,   \* ids that call research_public_sources
    MaxAttempts, \* claims a run may have, 3 in the code
    None

ASSUME RunsAssumption ==
    /\ Runs \subseteq Nat /\ Wanted \subseteq Runs /\ Scoped \subseteq Runs
    /\ \A h \in Histories : h[1] \subseteq Runs /\ h[2] \subseteq Runs \ h[1]
ASSUME CallsAssumption == DOMAIN Calls = Runs /\ Drafts \cap Searches = {}
ASSUME AttemptsAssumption == MaxAttempts \in Nat \ {0}
ASSUME NoneAssumption == None \notin Runs \cup UNION {Calls[r] : r \in Runs}

VARIABLES
    run,        \* the ChatAiAnswer rows
    files,      \* drafts stored for each run, by the call they are keyed by
    receipts,   \* AI_RUN_TOOL receipts of each run in the audit log
    job,        \* what each worker does and remembers
    open        \* the claims that sent requests no checkpoint has followed,
                \* of each run, before and after the user resumed it

vars == <<run, files, receipts, job, open>>

Live == {"QUEUED", "RUNNING"}
\* FAILED stands for ACCESS_REVOKED as well: they differ in the cause only.
Settled == {"COMPLETED", "PARTIAL", "FAILED", "FAILED_UNKNOWN", "CANCELLED"}

\* The task a run is pinned to: a file to make, documents to read in full.
Pin(wanted, scoped) == [wanted |-> wanted, scoped |-> scoped]

\* A new row, or a workflow of a release that still set deadlines.
Row(status, deadline, pin) ==
    [status |-> status, error |-> "NONE", workflow |-> deadline # "none",
     deadline |-> deadline, lease |-> "none", pin |-> pin,
     attempts |-> 0, dispatch |-> "SAFE", stage |-> "NONE", pending |-> {},
     artifacts |-> {}, revised |-> FALSE, resumed |-> FALSE]

\* "asked" is the step whose request the worker sends or waits for.
Idle == [pc |-> "idle", run |-> None, token |-> 0, resumed |-> FALSE,
         pin |-> Pin(FALSE, FALSE), pending |-> {}, call |-> None,
         asked |-> "none", answer |-> {}, artifacts |-> {}, misses |-> 0,
         error |-> "NONE"]

Init ==
    /\ \E h \in Histories :
        run = [r \in Runs |-> LET pin == Pin(r \in Wanted, r \in Scoped) IN
                              IF r \in h[1] THEN Row("QUEUED", "none", pin)
                              ELSE IF r \in h[2] THEN Row("QUEUED", "ahead", pin)
                              ELSE Row("ABSENT", "none", pin)]
    /\ files = [r \in Runs |-> {}]
    /\ receipts = [r \in Runs |-> {}]
    /\ job = [w \in Workers |-> Idle]
    /\ open = [r \in Runs |-> [resumed \in BOOLEAN |-> {}]]

Late(r) == run[r].deadline = "past"
Recoverable(r) == run[r].status = "RUNNING" /\ run[r].lease = "past"

Leased(r) == run[r].status = "RUNNING" /\ run[r].lease = "live"

\* What verifyClaim demands of the row before a worker writes it.
Owns(w) ==
    LET row == run[job[w].run] IN
    Leased(job[w].run) /\ row.attempts = job[w].token /\ row.pin = job[w].pin

(* ---- the user ------------------------------------------------------- *)

\* The answer row exists; the request to run it makes it a workflow.
Enqueue(r) ==
    /\ run[r].status = "QUEUED" /\ ~run[r].workflow
    /\ run' = [run EXCEPT ![r].workflow = TRUE]
    /\ UNCHANGED <<files, receipts, job, open>>

Cancel(r) ==
    /\ run[r].status \in Live
    /\ run' = [run EXCEPT ![r].status = "CANCELLED"]
    /\ UNCHANGED <<files, receipts, job, open>>

Resumable(r) ==
    /\ run[r].status = "PARTIAL" /\ run[r].error = "RUN_DEADLINE"
    /\ run[r].attempts < MaxAttempts
    /\ run[r].stage \in {"READY", "FINAL"} /\ run[r].pending = {}

\* A clarified run gets another task, which makes a file of documents
\* that may have to be read in full.
Resume(r) ==
    /\ Resumable(r)
    /\ \E clarify, scoped \in BOOLEAN :
        /\ clarify => /\ run[r].stage = "READY" /\ run[r].artifacts = {}
                      /\ ~run[r].revised
        /\ run' = [run EXCEPT ![r] =
               [run[r] EXCEPT
                  !.status = "QUEUED", !.error = "NONE", !.deadline = "none",
                  !.lease = "none", !.dispatch = "SAFE", !.resumed = TRUE,
                  !.stage = IF clarify THEN "NONE" ELSE run[r].stage,
                  !.pin = IF clarify THEN Pin(TRUE, scoped) ELSE run[r].pin,
                  !.revised = run[r].revised \/ clarify]]
    /\ UNCHANGED <<files, receipts, job, open>>

(* ---- tickRuns and the claim ----------------------------------------- *)

Eligible(r) ==
    /\ run[r].workflow
    /\ run[r].status = "QUEUED" \/ Recoverable(r)

\* One poll: of a conversation without a job here, its first eligible run,
\* or one whose deadline has passed.
Pick(w) ==
    /\ job[w].pc = "idle"
    /\ \E r \in Runs :
        /\ Eligible(r)
        /\ Late(r) \/ \A q \in Runs : Eligible(q) => r <= q
        /\ job' = [job EXCEPT ![w] = [Idle EXCEPT !.pc = "claim", !.run = r]]
    /\ UNCHANGED <<run, files, receipts, open>>

\* Another run of the conversation is live, or an earlier one is not over.
Blocked_EarlierOnly(r) == \E q \in Runs : q < r /\ run[q].status \in Live

Blocked(r) ==
    \E q \in Runs \ {r} :
        \/ Leased(q)
        \/ q < r /\ run[q].status \in Live

Uncertain_Never(r) == FALSE

Uncertain(r) == Recoverable(r) /\ run[r].dispatch = "DISPATCHING"

Verdict(r) == IF Late(r) THEN "PARTIAL"
              ELSE IF Uncertain(r) THEN "FAILED_UNKNOWN" ELSE "FAILED"

Exhausted(r) == run[r].attempts >= MaxAttempts \/ Late(r) \/ Uncertain(r)

\* Where the claimed run goes on, by the checkpoint it saved.
Entry(stage) == CASE stage = "NONE" -> "prepare"
                  [] stage = "READY" -> "read"
                  [] stage = "TOOLS" -> "tools"
                  [] stage = "FINAL" -> "conclude"

Start(w, r) ==
    /\ run' = [run EXCEPT ![r] =
           [run[r] EXCEPT !.status = "RUNNING", !.lease = "live",
                          !.attempts = run[r].attempts + 1]]
    /\ job' = [job EXCEPT ![w] =
           [Idle EXCEPT !.pc = Entry(run[r].stage), !.run = r,
                        !.token = run[r].attempts + 1,
                        !.resumed = run[r].resumed, !.pin = run[r].pin,
                        !.pending = run[r].pending,
                        !.artifacts = run[r].artifacts]]

Claim(w) ==
    /\ job[w].pc = "claim"
    /\ LET r == job[w].run IN
       \/ /\ Eligible(r) /\ Exhausted(r)
          /\ run' = [run EXCEPT ![r] =
                 [run[r] EXCEPT
                    !.status = Verdict(r), !.lease = "none",
                    !.error = IF Late(r) THEN "RUN_DEADLINE" ELSE run[r].error]]
          /\ job' = [job EXCEPT ![w] = Idle]
       \/ /\ Eligible(r) /\ ~Exhausted(r) /\ ~Blocked(r)
          /\ Start(w, r)
       \/ /\ ~Eligible(r) \/ (~Exhausted(r) /\ Blocked(r))
          /\ job' = [job EXCEPT ![w] = Idle]
          /\ UNCHANGED run
    /\ UNCHANGED <<files, receipts, open>>

(* ---- the worker's run ----------------------------------------------- *)

\* persistCheckpoint: the row takes the worker's progress, and is SAFE.
Checkpoint(w, stage, pending) ==
    LET r == job[w].run IN
    /\ Owns(w)
    /\ run' = [run EXCEPT ![r] =
           [run[r] EXCEPT !.dispatch = "SAFE", !.stage = stage,
                          !.pending = pending, !.artifacts = job[w].artifacts]]
    /\ open' = [open EXCEPT ![r][job[w].resumed] = {}]

\* respond: the row says DISPATCHING before the request leaves.  A run
\* without a checkpoint asks for what its question has to be put with: a
\* public search first, then summaries of the turns that do not fit.
Dispatch(w) ==
    /\ job[w].pc \in {"prepare", "ask", "search"}
    /\ Owns(w)
    /\ run' = [run EXCEPT ![job[w].run].dispatch = "DISPATCHING",
                          ![job[w].run].artifacts = job[w].artifacts]
    /\ job' = [job EXCEPT ![w].pc = "send", ![w].asked = job[w].pc]
    /\ UNCHANGED <<files, receipts, open>>

Send(w) ==
    /\ job[w].pc = "send"
    /\ open' = [open EXCEPT ![job[w].run][job[w].resumed] = @ \cup {job[w].token}]
    /\ job' = [job EXCEPT ![w].pc = "wait"]
    /\ UNCHANGED <<run, files, receipts>>

\* The provider answers and respond archives that, which takes the claim.
\* An answer of a round is text, or tools to call.
Answer(w) ==
    /\ job[w].pc = "wait"
    /\ Owns(w)
    /\ \/ /\ job[w].asked = "prepare"
          /\ job' = [job EXCEPT ![w].pc = "prepare"]
       \/ /\ job[w].asked = "search"
          /\ job' = [job EXCEPT ![w].pc = "ran", ![w].asked = "none"]
       \/ /\ job[w].asked = "ask"
          /\ \E calls \in SUBSET Calls[job[w].run] :
                job' = [job EXCEPT ![w].answer = calls, ![w].asked = "none",
                           ![w].pc = IF calls = {} THEN "conclude" ELSE "called"]
    /\ UNCHANGED <<run, files, receipts, open>>

\* The sources a search found are put in the row with the worker's whole
\* workflow and task, whoever has claimed or settled the row by then.
Sources(w) ==
    /\ job[w].pc = "prepare" /\ job[w].asked = "prepare"
    /\ run' = [run EXCEPT ![job[w].run] =
           [run[job[w].run] EXCEPT
              !.attempts = job[w].token, !.dispatch = "DISPATCHING",
              !.stage = "NONE", !.pending = {}, !.pin = job[w].pin,
              !.artifacts = job[w].artifacts]]
    /\ UNCHANGED <<files, receipts, job, open>>

\* The server reads a part of the documents, or notes that it cannot.
ReadDocument(w) ==
    /\ job[w].pc \in {"prepare", "read"}
    /\ job[w].pin.scoped
    /\ Checkpoint(w, "READY", {})
    /\ job' = [job EXCEPT ![w].pc = "read", ![w].asked = "none"]
    /\ UNCHANGED <<files, receipts>>

\* The top of a round.
Ready(w) ==
    /\ job[w].pc \in {"prepare", "read", "round"}
    /\ Checkpoint(w, "READY", {})
    /\ job' = [job EXCEPT ![w].pc = "ask", ![w].asked = "none", ![w].pending = {}]
    /\ UNCHANGED <<files, receipts>>

\* A call id that has a receipt already ends the run.
TakeCalls(w) ==
    /\ job[w].pc = "called"
    /\ job[w].answer \cap receipts[job[w].run] = {}
    /\ Checkpoint(w, "TOOLS", job[w].answer)
    /\ job' = [job EXCEPT ![w].pc = "tools", ![w].pending = job[w].answer,
                          ![w].answer = {}]
    /\ UNCHANGED <<files, receipts>>

(* ---- tools ---------------------------------------------------------- *)

\* A call may end at once: a read, a search made before, or a call refused
\* with an error that the provider is told of.
NextCall(w) ==
    /\ job[w].pc = "tools"
    /\ \E c \in job[w].pending :
        \E step \in {"ran"} \cup (IF c \in Drafts THEN {"draft"} ELSE {})
                            \cup (IF c \in Searches THEN {"search"} ELSE {}) :
            job' = [job EXCEPT ![w].call = c, ![w].pc = step]
    /\ UNCHANGED <<run, files, receipts, open>>

\* draftTool: a draft recorded under this key is returned as it is.
ReplayDraft(w) ==
    /\ job[w].pc = "draft"
    /\ job[w].call \in run[job[w].run].artifacts
    /\ job' = [job EXCEPT ![w].pc = "reload"]
    /\ UNCHANGED <<run, files, receipts, open>>

\* The file, its index and the row's artifact are one transaction.
SaveDraft(w) ==
    LET r == job[w].run IN
    /\ job[w].pc = "draft"
    /\ job[w].call \notin run[r].artifacts /\ job[w].call \notin files[r]
    /\ Owns(w)
    /\ files' = [files EXCEPT ![r] = @ \cup {job[w].call}]
    /\ run' = [run EXCEPT ![r].artifacts = @ \cup {job[w].call}]
    /\ job' = [job EXCEPT ![w].pc = "reload"]
    /\ UNCHANGED <<receipts, open>>

Reload_Skipped(w) ==
    /\ job[w].pc = "reload"
    /\ job' = [job EXCEPT ![w].pc = "ran"]
    /\ UNCHANGED <<run, files, receipts, open>>

\* The worker reads back what the row lists.
Reload(w) ==
    /\ job[w].pc = "reload"
    /\ job' = [job EXCEPT ![w].pc = "ran",
                          ![w].artifacts = run[job[w].run].artifacts]
    /\ UNCHANGED <<run, files, receipts, open>>

\* archiveEvidence, a transaction before the checkpoint's.
Archive(w) ==
    /\ job[w].pc = "ran"
    /\ Owns(w)
    /\ receipts' = [receipts EXCEPT ![job[w].run] = @ \cup {job[w].call}]
    /\ job' = [job EXCEPT ![w].pc = "archived"]
    /\ UNCHANGED <<run, files, open>>

CallDone(w) ==
    /\ job[w].pc = "archived"
    /\ LET rest == job[w].pending \ {job[w].call} IN
       /\ Checkpoint(w, IF rest = {} THEN "READY" ELSE "TOOLS", rest)
       /\ job' = [job EXCEPT ![w].pending = rest, ![w].call = None,
                     ![w].pc = IF rest = {} THEN "round" ELSE "tools"]
    /\ UNCHANGED <<files, receipts>>

(* ---- the end of a run ------------------------------------------------ *)

Missing_AskedTwice(w) ==
    job[w].pin.wanted /\ job[w].artifacts = {} /\ job[w].misses < 2

Missing(w) == job[w].pin.wanted /\ job[w].artifacts = {}

\* A final text without the requested file: ask again, twice.
AskAgain(w) ==
    /\ job[w].pc = "conclude" /\ Missing(w) /\ job[w].misses < 2
    /\ job' = [job EXCEPT ![w].pc = "round", ![w].misses = @ + 1]
    /\ UNCHANGED <<run, files, receipts, open>>

Conclude(w) ==
    /\ job[w].pc = "conclude" /\ ~Missing(w)
    /\ Checkpoint(w, "FINAL", {})
    /\ job' = [job EXCEPT ![w].pc = "complete"]
    /\ UNCHANGED <<files, receipts>>

Complete(w) ==
    /\ job[w].pc = "complete"
    /\ Owns(w)
    /\ \E incomplete \in BOOLEAN :
        /\ incomplete => job[w].pin.scoped
        /\ run' = [run EXCEPT ![job[w].run] =
            [run[job[w].run] EXCEPT
               !.status = IF incomplete THEN "PARTIAL" ELSE "COMPLETED",
               !.error = IF incomplete
                         THEN "DOCUMENT_COVERAGE_INCOMPLETE" ELSE "NONE",
               !.lease = "none", !.dispatch = "SAFE",
               !.artifacts = job[w].artifacts]]
    /\ job' = [job EXCEPT ![w] = [Idle EXCEPT !.pc = "view", !.run = job[w].run]]
    /\ UNCHANGED <<files, receipts, open>>

(* ---- failures ------------------------------------------------------- *)

Working == {"prepare", "read", "round", "ask", "search", "send", "wait",
            "called", "tools", "draft", "reload", "ran", "archived",
            "conclude", "complete"}

\* What the cleanup needs of a job.
Failed(w, error) ==
    [Idle EXCEPT !.pc = "failed", !.run = job[w].run, !.token = job[w].token,
                 !.call = job[w].call, !.error = error]

\* A step throws: the claim is lost, the provider fails or is late, a tool
\* or the database fails, the deadline's signal comes, authority is gone.
Throw(w) ==
    /\ job[w].pc \in Working
    /\ job' = [job EXCEPT ![w] = Failed(w, "FAILED")]
    /\ UNCHANGED <<run, files, receipts, open>>

\* onModuleDestroy aborts the run for the next process.
Shutdown(w) ==
    /\ job[w].pc \in Working
    /\ job' = [job EXCEPT ![w] = Failed(w, "SHUTDOWN")]
    /\ UNCHANGED <<run, files, receipts, open>>

\* failureScope: it asks for the token, not for the lease.
Failing_AnyStatus(w) == run[job[w].run].attempts = job[w].token

Failing(w) == LET row == run[job[w].run] IN
    row.status = "RUNNING" /\ row.attempts = job[w].token

\* The catch of runChatGpt: a call that was under way gets its receipt, and
\* the drafts the row lists stay.
Cleanup(w) ==
    LET r == job[w].run IN
    /\ job[w].pc = "failed"
    /\ \/ /\ Failing(w)
          /\ run' = [run EXCEPT ![r] =
                IF job[w].error = "SHUTDOWN" THEN [run[r] EXCEPT !.lease = "past"]
                ELSE [run[r] EXCEPT
                        !.lease = "none",
                        !.status = IF Late(r) THEN "PARTIAL" ELSE job[w].error,
                        !.error = IF Late(r) THEN "RUN_DEADLINE" ELSE run[r].error]]
          /\ receipts' = [receipts EXCEPT ![r] = @ \cup ({job[w].call} \ {None})]
       \/ /\ ~Failing(w)
          /\ UNCHANGED <<run, receipts>>
    /\ job' = [job EXCEPT ![w] = [Idle EXCEPT !.pc = "view", !.run = job[w].run]]
    /\ UNCHANGED <<files, open>>

View(w) ==
    /\ job[w].pc = "view"
    /\ job' = [job EXCEPT ![w] = Idle]
    /\ UNCHANGED <<run, files, receipts, open>>

\* The claim or the last view throws: tickRuns fails the run if no worker
\* holds it, whoever left it so.
Refuse(w) ==
    /\ job[w].pc \in {"claim", "view"}
    /\ LET r == job[w].run IN
       /\ run[r].status = "QUEUED" \/ Recoverable(r)
       /\ run' = [run EXCEPT ![r].status = "FAILED", ![r].lease = "none"]
    /\ job' = [job EXCEPT ![w] = Idle]
    /\ UNCHANGED <<files, receipts, open>>

\* The process dies; before its claim and after its cleanup that is nothing.
Crash(w) ==
    /\ job[w].pc \in Working \cup {"failed"}
    /\ job' = [job EXCEPT ![w] = Idle]
    /\ UNCHANGED <<run, files, receipts, open>>

\* No heartbeat for 60 s.
Lapse(r) ==
    /\ Leased(r)
    /\ run' = [run EXCEPT ![r].lease = "past"]
    /\ UNCHANGED <<files, receipts, job, open>>

Overdue(r) ==
    /\ run[r].deadline = "ahead" /\ run[r].status \in Live
    /\ run' = [run EXCEPT ![r].deadline = "past"]
    /\ UNCHANGED <<files, receipts, job, open>>

(* ---- the specification ---------------------------------------------- *)

Step(w) ==
    \/ Claim(w) \/ Dispatch(w) \/ Send(w) \/ Answer(w) \/ Sources(w)
    \/ ReadDocument(w) \/ Ready(w)
    \/ TakeCalls(w) \/ NextCall(w) \/ ReplayDraft(w) \/ SaveDraft(w)
    \/ Reload(w) \/ Archive(w) \/ CallDone(w) \/ AskAgain(w) \/ Conclude(w)
    \/ Complete(w) \/ Throw(w) \/ Cleanup(w) \/ View(w)

Next ==
    \/ \E r \in Runs : Enqueue(r) \/ Cancel(r) \/ Resume(r) \/ Lapse(r)
                       \/ Overdue(r)
    \/ \E w \in Workers : Pick(w) \/ Step(w) \/ Shutdown(w) \/ Refuse(w)
                          \/ Crash(w)

Spec == Init /\ [][Next]_vars

(* ---- properties ----------------------------------------------------- *)

(***************************************************************************)
(* What a claim asked the provider and did not save is never asked again   *)
(* by another claim unless the user resumes the run: the requests that no  *)
(* checkpoint follows are of one claim.  The claim ends a recovered run    *)
(* that says DISPATCHING as FAILED_UNKNOWN, also while its former worker,  *)
(* which only stalled, is about to send, and before the first checkpoint.  *)
(***************************************************************************)
SentOnce ==
    \A r \in Runs : \A resumed \in BOOLEAN :
        \A t, u \in open[r][resumed] : t = u

(***************************************************************************)
(* At most one run of a conversation is live, also when the user resumes   *)
(* an earlier run while a later one works: the claim refuses a run beside  *)
(* a live one and behind an earlier one that is not over.                  *)
(***************************************************************************)
OneLive == \A q, r \in Runs : Leased(q) /\ Leased(r) => q = r

(***************************************************************************)
(* Every draft a run stored is listed in it: checkpoints and the terminal  *)
(* write put the worker's memory over the row, and a recovered worker      *)
(* remembers only what it read back.                                       *)
(***************************************************************************)
DraftsListed == \A r \in Runs : run[r].artifacts = files[r]

(***************************************************************************)
(* A run that had to produce a file completes with one: runChatGpt asks    *)
(* again, and then fails the run, whatever was recovered on the way.       *)
(***************************************************************************)
CompletedHasFile ==
    \A r \in Runs :
        run[r].status = "COMPLETED" /\ run[r].pin.wanted => files[r] # {}

(***************************************************************************)
(* A run that is over stays as it is, unless it is resumed from a          *)
(* checkpoint that has no call pending: late workers, their cleanup and    *)
(* the refusals of tickRuns leave it alone.                                *)
(***************************************************************************)
SettledIsFinal ==
    [][\A r \in Runs : run[r].status \in Settled =>
         \/ run'[r] = run[r] /\ files'[r] = files[r]
         \/ Resumable(r) /\ run'[r].status = "QUEUED"]_vars

=============================================================================
