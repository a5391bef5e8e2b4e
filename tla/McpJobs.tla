-------------------------------- MODULE McpJobs --------------------------------
(***************************************************************************)
(* An AI job answered by an external executor over MCP                     *)
(* (mcp.jobs.service.ts, mcp.results.service.ts): what the owner and the   *)
(* executor may do to it.                                                  *)
(*                                                                         *)
(* Every command runs in one transaction that first locks the project row  *)
(* (project-chat.policy.ts), so a command is one step.  The executor is    *)
(* remote: its requests name the attempt they belong to and may arrive     *)
(* late, twice and in any order.                                           *)
(*                                                                         *)
(* The module is the abstract specification of McpEvents, which adds how   *)
(* the executor is told.  Jobs do not interact; this is one of them.       *)
(***************************************************************************)
EXTENDS Integers, FiniteSets

CONSTANTS
    MaxGeneration,  \* bound on the notification generations
    Submissions,    \* submission ids of the executor
    Stages,         \* stages the executor reports
    MaxSubmits,     \* bound on the submits that finalize at the same time
    Parts,          \* sequence numbers of the text parts of a submission
    Callbacks,      \* the executor's event subscriptions
    None

ReportedStages == {"PROCESSING", "NEEDS_INPUT", "RECEIVING_FILES", "ERROR"}

Errors == {"REPORTED", "CALLBACK_REJECTED"}

Generations == 0..MaxGeneration

Attempt(g) == g + 1

\* The id clarify gives to the submission of the attempt it starts.
OwnSubmission(g) == Attempt(g)

ASSUME JobAssumption ==
    /\ MaxGeneration \in Nat
    /\ Submissions \subseteq Nat
    /\ \A g \in Generations : g > 0 => OwnSubmission(g) \in Submissions
    /\ Parts \subseteq Nat
    /\ Stages \subseteq ReportedStages
    /\ MaxSubmits \in Nat
    /\ None \notin Nat \cup Errors

WaitingStates == {"WAITING_SUBSCRIPTION", "WAITING_NOTIFICATION"}

JobStates ==
    WaitingStates \cup ReportedStages \cup {"NOTIFIED", "COMPLETED", "CANCELLED"}

VARIABLES
    job,         \* state, status, generation, submission, error, answer
    text,        \* the saved parts <<submission, sequence>>
    finalizing,  \* submits <<attempt, submission>> that go on to their last step
    announced    \* events <<generation, callback>> that reached a callback

jobVars == <<job, text, finalizing>>

lifecycle == <<job, text, finalizing, announced>>

TextOf(s) == {p \in text : p[1] = s}

\* Parts are numbered from 0 without a gap.
Whole(s) ==
    /\ TextOf(s) # {}
    /\ \A p \in TextOf(s) : \A n \in 0..(p[2] - 1) : <<s, n>> \in text

Created(waiting) ==
    [state |-> waiting, status |-> "RUNNING", generation |-> 0,
     submission |-> None, error |-> None, answer |-> {}]

JobInit ==
    /\ \E waiting \in WaitingStates : job = Created(waiting)
    /\ text = {}
    /\ finalizing = {}
    /\ announced = {}

-----------------------------------------------------------------------------
(* The owner: change, clarify.                                             *)

Cancel ==
    /\ job.state # "COMPLETED"
    /\ job' = [job EXCEPT !.state = "CANCELLED", !.status = "CANCELLED", !.error = None]
    /\ UNCHANGED <<text, finalizing>>

Retry(waiting) ==
    /\ job.state # "COMPLETED"
    /\ job.generation < MaxGeneration
    /\ job' = [job EXCEPT !.state = waiting, !.status = "RUNNING", !.error = None,
                          !.generation = @ + 1]
    /\ UNCHANGED <<text, finalizing>>

Clarify(attempt, waiting) ==
    /\ job.state = "NEEDS_INPUT"
    /\ attempt = Attempt(job.generation)
    /\ job.generation < MaxGeneration
    /\ job' = [job EXCEPT !.state = waiting, !.status = "RUNNING", !.error = None,
                          !.generation = @ + 1, !.answer = {},
                          !.submission = OwnSubmission(job.generation + 1)]
    /\ UNCHANGED <<text, finalizing>>

-----------------------------------------------------------------------------
(* The executor.  Current is the expectedAttempt check of checked.         *)

Current(attempt) == attempt = Attempt(job.generation)

Progress_Reopens(attempt, stage) ==
    /\ Current(attempt)
    /\ job' = [job EXCEPT !.state = stage]
    /\ UNCHANGED <<text, finalizing>>

Progress(attempt, stage) ==
    /\ Current(attempt)
    /\ job.state \notin {"COMPLETED", "CANCELLED"}
    /\ job' = [job EXCEPT !.state = stage,
                          !.error = CASE stage # "ERROR" -> None
                                      [] stage = "ERROR" /\ @ = None -> "REPORTED"
                                      [] OTHER -> @]
    /\ UNCHANGED <<text, finalizing>>

\* The check every submit starts with; a submit that finalizes goes on.
Accepted(attempt, s) ==
    /\ Current(attempt)
    /\ job.submission \in {None, s}
    /\ job.state # "CANCELLED"

GoOn(attempt, s) ==
    /\ Cardinality(finalizing) < MaxSubmits
    /\ finalizing' = finalizing \cup {<<attempt, s>>}

SubmitText(attempt, s, n) ==
    /\ Accepted(attempt, s)
    /\ <<s, n>> \notin text
    /\ job.state # "COMPLETED"
    /\ text' = text \cup {<<s, n>>}
    /\ job' = [job EXCEPT !.submission = s,
                          !.state = IF @ \in WaitingStates \cup {"NOTIFIED"}
                                    THEN "PROCESSING" ELSE @]
    /\ GoOn(attempt, s) \/ UNCHANGED finalizing

\* A submit without text, or a repeated one, only goes on to its last step.
SubmitAgain(attempt, s) ==
    /\ Accepted(attempt, s)
    /\ GoOn(attempt, s)
    /\ UNCHANGED <<job, text>>

Finalize_AnyAttempt(attempt, s) ==
    /\ <<attempt, s>> \in finalizing
    /\ Whole(s)
    /\ job.state \notin {"COMPLETED", "CANCELLED"}
    /\ job' = [job EXCEPT !.state = "COMPLETED", !.status = "COMPLETED", !.error = None,
                          !.answer = TextOf(s)]
    /\ finalizing' = finalizing \ {<<attempt, s>>}
    /\ UNCHANGED text

Finalize(attempt, s) ==
    /\ <<attempt, s>> \in finalizing
    /\ Current(attempt)
    /\ Whole(s)
    /\ job.state \notin {"COMPLETED", "CANCELLED"}
    /\ job' = [job EXCEPT !.state = "COMPLETED", !.status = "COMPLETED", !.error = None,
                          !.answer = TextOf(s)]
    /\ finalizing' = finalizing \ {<<attempt, s>>}
    /\ UNCHANGED text

\* The same answer again, or an error: the request ends and changes nothing.
EndSubmit(attempt, s) ==
    /\ <<attempt, s>> \in finalizing
    /\ finalizing' = finalizing \ {<<attempt, s>>}
    /\ UNCHANGED <<job, text>>

ExecutorStep ==
    \E g \in Generations : LET attempt == Attempt(g) IN
        \/ \E stage \in Stages : Progress(attempt, stage)
        \/ \E s \in Submissions :
              \/ \E n \in Parts : SubmitText(attempt, s, n)
              \/ SubmitAgain(attempt, s)
              \/ Finalize(attempt, s)
              \/ EndSubmit(attempt, s)

-----------------------------------------------------------------------------
(* What notification does to the job.                                      *)

Notified ==
    /\ job.state \in WaitingStates
    /\ job' = [job EXCEPT !.state = "NOTIFIED"]
    /\ UNCHANGED <<text, finalizing>>

Rejected ==
    /\ job.state \in WaitingStates
    /\ job' = [job EXCEPT !.state = "ERROR", !.status = "FAILED",
                          !.error = "CALLBACK_REJECTED"]
    /\ UNCHANGED <<text, finalizing>>

Announce(g, c) ==
    /\ g <= job.generation
    /\ announced' = announced \cup {<<g, c>>}
    /\ UNCHANGED jobVars

CurrentAnnounced == \E c \in Callbacks : <<job.generation, c>> \in announced

OwnerStep ==
    \/ Cancel
    \/ \E waiting \in WaitingStates :
          \/ Retry(waiting)
          \/ \E g \in Generations : Clarify(Attempt(g), waiting)

JobNext ==
    \/ (OwnerStep /\ UNCHANGED announced)
    \/ (ExecutorStep /\ UNCHANGED announced)
    \/ (CurrentAnnounced /\ Notified /\ UNCHANGED announced)
    \/ (Rejected /\ UNCHANGED announced)
    \/ \E g \in Generations, c \in Callbacks : Announce(g, c)

JobSpec == JobInit /\ [][JobNext]_lifecycle

-----------------------------------------------------------------------------
JobTypeOK ==
    /\ job \in [state : JobStates,
                status : {"RUNNING", "COMPLETED", "CANCELLED", "FAILED"},
                generation : Generations,
                submission : Submissions \cup {None},
                error : Errors \cup {None},
                answer : SUBSET (Submissions \X Parts)]
    /\ text \subseteq Submissions \X Parts
    /\ finalizing \subseteq Nat \X Submissions
    /\ announced \subseteq Generations \X Callbacks

(***************************************************************************)
(* The row's status, which lists, recovery and the outbox go by, agrees    *)
(* with the state in the job's metadata, which the commands go by: the job *)
(* is answered, or cancelled, in both or in neither.                       *)
(***************************************************************************)
StatusMatchesState ==
    /\ job.status = "COMPLETED" <=> job.state = "COMPLETED"
    /\ job.status = "CANCELLED" <=> job.state = "CANCELLED"

(***************************************************************************)
(* The answer of a completed job is the whole text of the submission the   *)
(* job is bound to, no more and no less: nothing of a submission that a    *)
(* clarification replaced, of a competing one, or saved after completion.  *)
(***************************************************************************)
AnswerIsSubmission ==
    job.state = "COMPLETED" =>
        /\ job.answer = TextOf(job.submission)
        /\ Whole(job.submission)

(***************************************************************************)
(* A completed job stays as it is, whatever late reports, submits, retries,*)
(* cancellations and callback rejections arrive.                           *)
(***************************************************************************)
CompletedIsFinal == [][job.state = "COMPLETED" => job' = job]_lifecycle
=============================================================================
