---------------------------- MODULE McpEventsProofs ----------------------------
(***************************************************************************)
(* The invariants of McpJobs and of McpEvents, that a delivery is ended by *)
(* its holder only, and that notification implements the job of McpJobs -  *)
(* for every number of attempts, submissions, parts, workers, callbacks    *)
(* and crashes.                                                            *)
(***************************************************************************)
EXTENDS McpEvents, TLAPS

-----------------------------------------------------------------------------
(* The job.                                                                *)

(***************************************************************************)
(* Why the last step of a submit may trust the check of its first: a       *)
(* submit of the current attempt either names the submission the job is    *)
(* bound to, or has no text and so cannot complete it.                     *)
(***************************************************************************)
Fence ==
    /\ \A f \in finalizing :
          /\ f[1] <= Attempt(job.generation)
          /\ f[1] = Attempt(job.generation) =>
                job.submission = f[2] \/ TextOf(f[2]) = {}
    /\ job.submission = None => text = {}

JobInv == JobTypeOK /\ StatusMatchesState /\ AnswerIsSubmission /\ Fence

-----------------------------------------------------------------------------
LEMMA JobInitInv == JobInit => JobInv
BY JobAssumption
   DEF JobInit, JobInv, JobTypeOK, StatusMatchesState, AnswerIsSubmission, Fence,
       Created, Generations, JobStates, WaitingStates

LEMMA OwnerStepTypes ==
    ASSUME JobTypeOK, OwnerStep, UNCHANGED announced
    PROVE  JobTypeOK'
<1>1. CASE Cancel
  BY <1>1 DEF JobTypeOK, Cancel, JobStates
<1>2. ASSUME NEW waiting \in WaitingStates, Retry(waiting)  PROVE JobTypeOK'
  <2>1. job.generation + 1 \in Generations
    BY <1>2, JobAssumption DEF Retry, JobTypeOK, Generations
  <2> QED  BY <1>2, <2>1 DEF JobTypeOK, Retry, JobStates
<1>3. ASSUME NEW waiting \in WaitingStates, NEW a, Clarify(a, waiting)
      PROVE  JobTypeOK'
  <2>1. job.generation + 1 \in Generations /\ job.generation + 1 > 0
    BY <1>3, JobAssumption DEF Clarify, JobTypeOK, Generations
  <2>2. OwnSubmission(job.generation + 1) \in Submissions
    BY <2>1, JobAssumption
  <2> QED  BY <1>3, <2>1, <2>2 DEF JobTypeOK, Clarify, JobStates
<1> QED  BY <1>1, <1>2, <1>3 DEF OwnerStep

LEMMA ExecutorStepTypes ==
    ASSUME JobTypeOK, ExecutorStep, UNCHANGED announced
    PROVE  JobTypeOK'
<1> SUFFICES ASSUME NEW a \in Nat,
                    \/ \E stage \in Stages : Progress(a, stage)
                    \/ \E s \in Submissions :
                          \/ \E n \in Parts : SubmitText(a, s, n)
                          \/ SubmitAgain(a, s)
                          \/ Finalize(a, s)
                          \/ EndSubmit(a, s)
             PROVE  JobTypeOK'
  BY JobAssumption DEF ExecutorStep, Attempt, Generations
<1>1. ASSUME NEW stage \in Stages, Progress(a, stage)  PROVE JobTypeOK'
  BY <1>1, JobAssumption DEF JobTypeOK, Progress, ReportedStages, JobStates, Errors
<1>2. ASSUME NEW s \in Submissions, NEW n \in Parts, SubmitText(a, s, n)
      PROVE  JobTypeOK'
  <2>1. text' \subseteq Submissions \X Parts /\ finalizing' \subseteq Nat \X Submissions
    <3>1. /\ text' = text \cup {<<s, n>>}
          /\ finalizing' \in {finalizing, finalizing \cup {<<a, s>>}}
      BY <1>2, ZenonT(30) DEF SubmitText, GoOn
    <3> QED  BY <3>1 DEF JobTypeOK
  <2>2. PICK state \in JobStates :
           job' = [job EXCEPT !.submission = s, !.state = state]
    <3>1. job.state \in JobStates /\ "PROCESSING" \in JobStates
      BY DEF JobTypeOK, JobStates, ReportedStages
    <3> QED  BY <1>2, <3>1 DEF SubmitText
  <2> QED  BY <2>1, <2>2 DEF JobTypeOK
<1>3. ASSUME NEW s \in Submissions, SubmitAgain(a, s)  PROVE JobTypeOK'
  BY <1>3 DEF JobTypeOK, SubmitAgain, GoOn
<1>4. ASSUME NEW s \in Submissions, Finalize(a, s)  PROVE JobTypeOK'
  <2>1. TextOf(s) \in SUBSET (Submissions \X Parts)
    BY DEF JobTypeOK, TextOf
  <2>2. job' \in [state : JobStates,
                  status : {"RUNNING", "COMPLETED", "CANCELLED", "FAILED"},
                  generation : Generations,
                  submission : Submissions \cup {None},
                  error : Errors \cup {None},
                  answer : SUBSET (Submissions \X Parts)]
    <3> DEFINE answer == TextOf(s)
    <3>1. /\ answer \in SUBSET (Submissions \X Parts)
          /\ job' = [job EXCEPT !.state = "COMPLETED", !.status = "COMPLETED",
                                !.error = None, !.answer = answer]
      BY <1>4, <2>1 DEF Finalize
    <3> HIDE DEF answer
    <3> QED  BY <3>1 DEF JobTypeOK, JobStates
  <2> QED  BY <1>4, <2>2 DEF JobTypeOK, Finalize
<1>5. ASSUME NEW s \in Submissions, EndSubmit(a, s)  PROVE JobTypeOK'
  BY <1>5 DEF JobTypeOK, EndSubmit
<1> QED  BY <1>1, <1>2, <1>3, <1>4, <1>5

LEMMA NotificationTypes ==
    ASSUME JobTypeOK,
           \/ (Notified \/ Rejected) /\ UNCHANGED announced
           \/ \E g \in Generations, c \in Callbacks : Announce(g, c)
    PROVE  JobTypeOK'
<1>1. CASE Notified /\ UNCHANGED announced
  BY <1>1 DEF JobTypeOK, Notified, JobStates
<1>2. CASE Rejected /\ UNCHANGED announced
  BY <1>2 DEF JobTypeOK, Rejected, JobStates, ReportedStages, Errors
<1>3. CASE \E g \in Generations, c \in Callbacks : Announce(g, c)
  BY <1>3 DEF JobTypeOK, Announce, jobVars
<1> QED  BY <1>1, <1>2, <1>3

LEMMA JobNextTypes == JobTypeOK /\ [JobNext]_lifecycle => JobTypeOK'
<1> SUFFICES ASSUME JobTypeOK, [JobNext]_lifecycle  PROVE JobTypeOK'
  OBVIOUS
<1>1. CASE UNCHANGED lifecycle
  BY <1>1 DEF lifecycle, JobTypeOK
<1>2. CASE JobNext
  BY <1>2, OwnerStepTypes, ExecutorStepTypes, NotificationTypes DEF JobNext
<1> QED  BY <1>1, <1>2

-----------------------------------------------------------------------------
LEMMA OwnerStepInv ==
    ASSUME JobInv, OwnerStep, JobTypeOK'
    PROVE  JobInv'
<1> USE DEF JobInv
<1>0. job.generation \in Int
  BY JobAssumption DEF JobTypeOK, Generations
<1>t. \A f \in finalizing : f[1] \in Int
  BY DEF JobTypeOK
<1>1. CASE Cancel
  BY <1>1 DEF Cancel, JobTypeOK, StatusMatchesState, AnswerIsSubmission, Fence, TextOf
<1>2. ASSUME NEW waiting \in WaitingStates, Retry(waiting)  PROVE JobInv'
  <2>1. StatusMatchesState' /\ AnswerIsSubmission'
    BY <1>2 DEF Retry, JobTypeOK, StatusMatchesState, AnswerIsSubmission, WaitingStates
  <2>2. \A f \in finalizing' : f[1] < Attempt(job.generation')
    BY <1>0, <1>t, <1>2 DEF Retry, Fence, Attempt, JobTypeOK
  <2>3. Fence'
    BY <1>0, <1>t, <1>2, <2>2 DEF Retry, Fence, Attempt, JobTypeOK
  <2> QED  BY <2>1, <2>3
<1>3. ASSUME NEW waiting \in WaitingStates, NEW a, Clarify(a, waiting)
      PROVE  JobInv'
  <2>1. StatusMatchesState' /\ AnswerIsSubmission'
    BY <1>3 DEF Clarify, JobTypeOK, StatusMatchesState, AnswerIsSubmission, WaitingStates
  <2>2. \A f \in finalizing' : f[1] < Attempt(job.generation')
    BY <1>0, <1>t, <1>3 DEF Clarify, Fence, Attempt, JobTypeOK
  <2>3. job'.submission # None
    <3>1. OwnSubmission(job.generation + 1) \in Nat
      BY JobAssumption DEF OwnSubmission, Attempt, JobTypeOK, Generations
    <3> QED  BY <1>3, <3>1, JobAssumption DEF Clarify, JobTypeOK
  <2>4. Fence'
    BY <1>0, <1>t, <1>3, <2>2, <2>3 DEF Clarify, Fence, Attempt, JobTypeOK
  <2> QED  BY <2>1, <2>4
<1> QED  BY <1>1, <1>2, <1>3 DEF OwnerStep

LEMMA SubmitTextInv ==
    ASSUME JobInv, NEW a \in Nat, NEW s \in Submissions, NEW n \in Parts,
           SubmitText(a, s, n), JobTypeOK'
    PROVE  JobInv'
<1> USE DEF JobInv
<1>1. /\ job.submission \in {None, s}
      /\ job'.submission = s
      /\ job'.generation = job.generation
      /\ a = Attempt(job.generation)
      /\ s # None
  BY JobAssumption DEF SubmitText, Accepted, Current, JobTypeOK
<1>2. StatusMatchesState'
  BY DEF SubmitText, JobTypeOK, StatusMatchesState, WaitingStates
<1>3. AnswerIsSubmission'
  BY DEF SubmitText, JobTypeOK, AnswerIsSubmission, WaitingStates
\* A submission other than s had no text before the first part of s.
<1>4. \A f \in finalizing :
         f[1] = Attempt(job.generation) => f[2] = s \/ TextOf(f[2])' = {}
  <2> SUFFICES ASSUME NEW f \in finalizing,
                      f[1] = Attempt(job.generation), f[2] # s
               PROVE  TextOf(f[2])' = {}
    OBVIOUS
  <2>1. TextOf(f[2]) = {}
    BY <1>1 DEF Fence, TextOf
  <2> QED  BY <2>1 DEF TextOf, SubmitText
<1>5. finalizing' \subseteq finalizing \cup {<<a, s>>}
  BY DEF SubmitText, GoOn
<1>6. Fence'
  <2> SUFFICES ASSUME NEW f \in finalizing'
               PROVE  /\ f[1] <= Attempt(job.generation)
                      /\ f[1] = Attempt(job.generation) =>
                            f[2] = s \/ TextOf(f[2])' = {}
    BY <1>1 DEF Fence, Attempt
  <2>1. CASE f \in finalizing
    BY <2>1, <1>4 DEF Fence
  <2>2. CASE f = <<a, s>>
    BY <2>2, <1>1
  <2> QED  BY <2>1, <2>2, <1>5
<1> QED  BY <1>2, <1>3, <1>6

LEMMA SubmitAgainInv ==
    ASSUME JobInv, NEW a \in Nat, NEW s \in Submissions,
           SubmitAgain(a, s), JobTypeOK'
    PROVE  JobInv'
<1> USE DEF JobInv
<1>1. /\ job.submission \in {None, s}
      /\ a = Attempt(job.generation)
      /\ UNCHANGED <<job, text>>
      /\ finalizing' \subseteq finalizing \cup {<<a, s>>}
  BY DEF SubmitAgain, Accepted, Current, GoOn
<1>2. job.submission = s \/ TextOf(s) = {}
  BY <1>1 DEF Fence, TextOf
<1>3. Fence'
  BY <1>1, <1>2 DEF Fence, Attempt, TextOf
<1> QED  BY <1>1, <1>3 DEF StatusMatchesState, AnswerIsSubmission, Whole, TextOf

LEMMA FinalizeInv ==
    ASSUME JobInv, NEW a \in Nat, NEW s \in Submissions,
           Finalize(a, s), JobTypeOK'
    PROVE  JobInv'
<1> USE DEF JobInv
<1>1. /\ <<a, s>> \in finalizing
      /\ a = Attempt(job.generation)
      /\ TextOf(s) # {}
  BY DEF Finalize, Current, Whole
<1>2. job.submission = s
  BY <1>1 DEF Fence
<1>3. job' = [job EXCEPT !.state = "COMPLETED", !.status = "COMPLETED",
                         !.error = None, !.answer = TextOf(s)]
      /\ text' = text /\ finalizing' \subseteq finalizing
  BY DEF Finalize
<1>4. StatusMatchesState'
  BY <1>3 DEF JobTypeOK, StatusMatchesState
<1>5. AnswerIsSubmission'
  <2>1. TextOf(s)' = TextOf(s) /\ Whole(s)'
    BY <1>3 DEF Finalize, Whole, TextOf
  <2>2. job'.submission = s /\ job'.answer = TextOf(s)
    <3> DEFINE answer == TextOf(s)
    <3>1. job' = [job EXCEPT !.state = "COMPLETED", !.status = "COMPLETED",
                             !.error = None, !.answer = answer]
      BY <1>3
    <3> HIDE DEF answer
    <3>2. job'.submission = s /\ job'.answer = answer
      BY <1>2, <3>1 DEF JobTypeOK
    <3> QED  BY <3>2 DEF answer
  <2> QED  BY <2>1, <2>2 DEF AnswerIsSubmission, Whole, TextOf
<1>6. Fence'
  BY <1>3 DEF JobTypeOK, Fence, Attempt, TextOf
<1> QED  BY <1>4, <1>5, <1>6

LEMMA ExecutorStepInv ==
    ASSUME JobInv, ExecutorStep, JobTypeOK'
    PROVE  JobInv'
<1> SUFFICES ASSUME NEW a \in Nat,
                    \/ \E stage \in Stages : Progress(a, stage)
                    \/ \E s \in Submissions :
                          \/ \E n \in Parts : SubmitText(a, s, n)
                          \/ SubmitAgain(a, s)
                          \/ Finalize(a, s)
                          \/ EndSubmit(a, s)
             PROVE  JobInv'
  BY JobAssumption DEF ExecutorStep, Attempt, Generations
<1>1. ASSUME NEW stage \in Stages, Progress(a, stage)  PROVE JobInv'
  <2>1. stage \notin {"COMPLETED", "CANCELLED"}
    BY JobAssumption DEF ReportedStages
  <2>2. /\ job'.state = stage /\ job'.status = job.status
        /\ job'.generation = job.generation /\ job'.submission = job.submission
        /\ UNCHANGED <<text, finalizing>>
    BY <1>1 DEF Progress, JobTypeOK, JobInv
  <2>3. StatusMatchesState' /\ AnswerIsSubmission'
    BY <1>1, <2>1, <2>2 DEF Progress, JobInv, StatusMatchesState, AnswerIsSubmission
  <2>4. Fence'
    BY <2>2 DEF JobInv, Fence, Attempt, TextOf
  <2> QED  BY <2>3, <2>4 DEF JobInv
<1>2. ASSUME NEW s \in Submissions, EndSubmit(a, s)  PROVE JobInv'
  BY <1>2 DEF EndSubmit, JobInv, StatusMatchesState, AnswerIsSubmission, Fence,
              Whole, TextOf, Attempt
<1> QED  BY <1>1, <1>2, SubmitTextInv, SubmitAgainInv, FinalizeInv

LEMMA NotificationInv ==
    ASSUME JobInv, JobTypeOK',
           \/ Notified \/ Rejected
           \/ \E g \in Generations, c \in Callbacks : Announce(g, c)
    PROVE  JobInv'
<1>1. UNCHANGED <<text, finalizing>> /\ job'.generation = job.generation
      /\ job'.submission = job.submission
  BY DEF JobInv, JobTypeOK, Notified, Rejected, Announce, jobVars
<1>2. StatusMatchesState' /\ AnswerIsSubmission'
  <2>1. CASE Notified
    BY <2>1 DEF Notified, JobInv, JobTypeOK, StatusMatchesState, AnswerIsSubmission, WaitingStates
  <2>2. CASE Rejected
    BY <2>2 DEF Rejected, JobInv, JobTypeOK, StatusMatchesState, AnswerIsSubmission, WaitingStates
  <2>3. CASE UNCHANGED jobVars
    BY <2>3 DEF jobVars, JobInv, StatusMatchesState, AnswerIsSubmission, Whole, TextOf
  <2> QED  BY <2>1, <2>2, <2>3 DEF Announce
<1>3. Fence'
  BY <1>1 DEF JobInv, Fence, TextOf, Attempt
<1> QED  BY <1>2, <1>3 DEF JobInv

LEMMA JobNextInv == JobInv /\ [JobNext]_lifecycle => JobInv'
<1> SUFFICES ASSUME JobInv, [JobNext]_lifecycle  PROVE JobInv'
  OBVIOUS
<1>0. JobTypeOK'
  BY JobNextTypes DEF JobInv
<1>1. CASE UNCHANGED lifecycle
  BY <1>1 DEF lifecycle, JobInv, JobTypeOK, StatusMatchesState, AnswerIsSubmission,
              Fence, Whole, TextOf, Attempt
<1>2. CASE JobNext
  BY <1>0, <1>2, OwnerStepInv, ExecutorStepInv, NotificationInv DEF JobNext
<1> QED  BY <1>1, <1>2

-----------------------------------------------------------------------------
(***************************************************************************)
(* The inductive invariant: types, agreement of status and state, the      *)
(* answer, and the fence the answer rests on.                              *)
(***************************************************************************)
THEOREM JobsInvariant == JobSpec => []JobInv
<1> QED  BY JobInitInv, JobNextInv, PTL DEF JobSpec

(***************************************************************************)
(* The job row and its metadata agree on completed and cancelled.          *)
(***************************************************************************)
THEOREM JobsStatus == JobSpec => []StatusMatchesState
<1>1. JobInv => StatusMatchesState
  BY DEF JobInv
<1> QED  BY <1>1, JobsInvariant, PTL

(***************************************************************************)
(* The answer of a completed job is the text of the one submission the job *)
(* is bound to.                                                            *)
(***************************************************************************)
THEOREM JobsAnswer == JobSpec => []AnswerIsSubmission
<1>1. JobInv => AnswerIsSubmission
  BY DEF JobInv
<1> QED  BY <1>1, JobsInvariant, PTL

(***************************************************************************)
(* No late command changes a completed job.                                *)
(***************************************************************************)
THEOREM JobsCompleted == JobSpec => CompletedIsFinal
<1>1. [JobNext]_lifecycle => [job.state = "COMPLETED" => job' = job]_lifecycle
  <2> SUFFICES ASSUME JobNext, job.state = "COMPLETED"
               PROVE  job' = job
    BY DEF lifecycle
  <2>1. CASE OwnerStep
    BY <2>1 DEF OwnerStep, Cancel, Retry, Clarify
  <2>2. CASE ExecutorStep
    BY <2>2 DEF ExecutorStep, Progress, SubmitText, SubmitAgain, Finalize, EndSubmit
  <2>3. CASE Notified \/ Rejected
    BY <2>3 DEF Notified, Rejected, WaitingStates
  <2>4. CASE \E g \in Generations, c \in Callbacks : Announce(g, c)
    BY <2>4 DEF Announce, jobVars
  <2> QED  BY <2>1, <2>2, <2>3, <2>4 DEF JobNext
<1> QED  BY <1>1, PTL DEF JobSpec, CompletedIsFinal

-----------------------------------------------------------------------------
(* Its events and their delivery.                                          *)

DeliveryRecords ==
    [state : Open \cup {"NONE", "DELIVERED", "FAILED", "CANCELLED"},
     lease : Workers \cup {None}, over : BOOLEAN]

WorkerRecords ==
    [at : {"idle", "insert", "check", "post", "acknowledge", "settle", "count", "fail"},
     generation : Generations, callback : Callbacks \cup {None},
     outcome : {None, "denied", "superseded", "retry", "rejected"}]

WellLeased(d) ==
    /\ d \in DeliveryRecords
    /\ d.lease # None <=> d.state = "DELIVERING"
    /\ d.over => d.lease # None

(***************************************************************************)
(* What the steps of a worker rest on.  It works on an event that exists;  *)
(* a worker about to acknowledge has seen the callback receive the event;  *)
(* one about to fail the job has a failed delivery of the attempt, or the  *)
(* attempt is over.                                                        *)
(***************************************************************************)
WorkerSound(w) ==
    /\ worker[w].generation <= job.generation
    /\ worker[w].at # "idle" => worker[w].callback \in Callbacks
    /\ worker[w].at = "acknowledge" =>
          <<worker[w].generation, worker[w].callback>> \in announced
    /\ worker[w].at \in {"count", "fail"} =>
          (worker[w].generation = job.generation => Delivery(w).state = "FAILED")

\* Events of attempts that have not begun have no deliveries.
Unborn ==
    \A g \in Generations, c \in Callbacks :
        g > job.generation => delivery[g][c].state = "NONE"

EventsInv ==
    /\ TypeOK
    /\ \A w \in Workers : WorkerSound(w)
    /\ Unborn
    /\ SupersededStopped
    /\ DeliveredWasReceived
    /\ NotifiedMeansDelivered
    /\ RejectionIsCurrent

-----------------------------------------------------------------------------
(* A step, seen from a job and from one delivery.                          *)

SameAttempt == job'.generation = job.generation

JobMoves ==
    /\ \/ SameAttempt /\ (job'.state \in WaitingStates => job.state \in WaitingStates)
       \/ /\ job'.generation = job.generation + 1
          /\ job'.state \in WaitingStates
          /\ job'.error = None
    /\ \/ job'.state # "NOTIFIED"
       \/ SameAttempt /\ job.state = "NOTIFIED"
       \/ \E c \in Callbacks : delivery'[job'.generation][c].state = "DELIVERED"
    /\ \/ job'.error # "CALLBACK_REJECTED"
       \/ SameAttempt /\ job.error = "CALLBACK_REJECTED"
       \/ \E c \in Callbacks : delivery'[job'.generation][c].state = "FAILED"

Ended(g, c, state) ==
    /\ SameAttempt
    /\ g = job.generation
    /\ delivery[g][c].state \in Open
    /\ delivery'[g][c].state = state

DeliveryMoves(g, c) ==
    \/ /\ delivery'[g][c].state = delivery[g][c].state
       /\ SameAttempt \/ delivery[g][c].state \notin Open
    \/ /\ delivery'[g][c].state = "CANCELLED"
       /\ g <= job.generation
       /\ g = job.generation => delivery[g][c].state \in Open \cup {"NONE"}
    \/ /\ SameAttempt
       /\ g = job.generation
       /\ delivery[g][c].state \in Open \cup {"NONE"}
       /\ delivery'[g][c].state \in Open
    \/ Ended(g, c, "FAILED")
    \/ /\ Ended(g, c, "DELIVERED")
       /\ <<g, c>> \in announced'
       /\ job'.state \notin WaitingStates

Moves ==
    /\ JobMoves
    /\ announced \subseteq announced'
    /\ delivery' \in [Generations -> [Callbacks -> DeliveryRecords]]
    /\ \A g \in Generations, c \in Callbacks :
          WellLeased(delivery'[g][c]) /\ DeliveryMoves(g, c)
    /\ worker' \in [Workers -> WorkerRecords]
    /\ subscription' \in [Callbacks -> BOOLEAN]
    /\ granted' \in BOOLEAN
    /\ crashes' \in 0..MaxCrashes

-----------------------------------------------------------------------------
\* What the job has pinned, and the events before its own.
ContextOK ==
    /\ pinned \in {"kept"} \cup Changes
    /\ behind \in [Callbacks -> BOOLEAN]

LEMMA Types ==
    TypeOK <=> /\ JobTypeOK
               /\ subscription \in [Callbacks -> BOOLEAN]
               /\ granted \in BOOLEAN
               /\ ContextOK
               /\ delivery \in [Generations -> [Callbacks -> DeliveryRecords]]
               /\ \A g \in Generations, c \in Callbacks : WellLeased(delivery[g][c])
               /\ worker \in [Workers -> WorkerRecords]
               /\ crashes \in 0..MaxCrashes
BY DEF TypeOK, ContextOK, DeliveryRecords, WellLeased, WorkerRecords

LEMMA GenerationType == JobTypeOK => job.generation \in Generations /\ job.generation \in Int
BY JobAssumption DEF JobTypeOK, Generations

LEMMA EventsInitInv == Init => EventsInv
<1> SUFFICES ASSUME Init  PROVE EventsInv
  OBVIOUS
<1>1. JobTypeOK
  BY JobInitInv DEF Init, JobInv
<1>2. job.generation = 0 /\ job.error = None /\ job.state \in WaitingStates
  BY DEF Init, JobInit, Created
<1>3. /\ \A g \in Generations, c \in Callbacks : delivery[g][c] = NoDelivery
      /\ delivery \in [Generations -> [Callbacks -> DeliveryRecords]]
      /\ \A g \in Generations, c \in Callbacks : WellLeased(delivery[g][c])
  BY DEF Init, NoDelivery, DeliveryRecords, WellLeased
<1>4. 0 \in Generations
  BY JobAssumption DEF Generations
<1>5. /\ worker \in [Workers -> WorkerRecords]
      /\ \A w \in Workers : worker[w] = Idle
  BY <1>4 DEF Init, Idle, WorkerRecords
<1>6. TypeOK
  <2>1. crashes \in 0..MaxCrashes
    BY EventAssumption DEF Init
  <2>2. subscription \in [Callbacks -> BOOLEAN] /\ granted \in BOOLEAN /\ ContextOK
    BY DEF Init, ContextOK
  <2> QED  BY <1>1, <1>3, <1>5, <2>1, <2>2, Types
<1>7. \A w \in Workers : WorkerSound(w)
  BY <1>2, <1>5 DEF WorkerSound, Idle
<1>8. Unborn /\ SupersededStopped /\ DeliveredWasReceived
  BY <1>2, <1>3 DEF Unborn, SupersededStopped, DeliveredWasReceived, NoDelivery, Open
<1>9. NotifiedMeansDelivered /\ RejectionIsCurrent
  <2>1. job.state # "NOTIFIED" /\ job.error # "CALLBACK_REJECTED"
    BY <1>2, JobAssumption DEF WaitingStates, Errors
  <2>2. \A c \in Callbacks : delivery[job.generation][c].state = "NONE"
    BY <1>2, <1>3, <1>4 DEF NoDelivery
  <2> QED  BY <2>1, <2>2 DEF NotifiedMeansDelivered, RejectionIsCurrent
<1> QED  BY <1>6, <1>7, <1>8, <1>9 DEF EventsInv

-----------------------------------------------------------------------------
(* What every step of this shape preserves.                                *)

LEMMA MovesInv ==
    ASSUME EventsInv, Moves, JobTypeOK', ContextOK'
    PROVE  /\ TypeOK'
           /\ Unborn' /\ SupersededStopped' /\ DeliveredWasReceived'
           /\ NotifiedMeansDelivered' /\ RejectionIsCurrent'
<1>1. /\ job.generation \in Generations /\ job.generation \in Int
      /\ job'.generation \in Generations /\ job'.generation \in Int
  BY JobAssumption DEF EventsInv, TypeOK, JobTypeOK, Generations
<1>2. Generations \subseteq Int
  BY DEF Generations
<1>3. \A g \in Generations, c \in Callbacks : DeliveryMoves(g, c)
  BY DEF Moves
<1>4. JobMoves
  BY DEF Moves
<1>5. TypeOK'
  <2>1. /\ subscription' \in [Callbacks -> BOOLEAN]
        /\ granted' \in BOOLEAN
        /\ crashes' \in 0..MaxCrashes
        /\ worker' \in [Workers -> WorkerRecords]
        /\ delivery' \in [Generations -> [Callbacks -> DeliveryRecords]]
        /\ \A g \in Generations, c \in Callbacks : WellLeased(delivery'[g][c])
    BY DEF Moves
  <2> QED  BY <2>1 DEF TypeOK, ContextOK, DeliveryRecords, WellLeased, WorkerRecords
<1>b. job.generation <= job'.generation
  BY <1>1, <1>4 DEF JobMoves, SameAttempt
<1>6. Unborn'
  <2> SUFFICES ASSUME NEW g \in Generations, NEW c \in Callbacks,
                      g > job'.generation
               PROVE  delivery'[g][c].state = "NONE"
    BY DEF Unborn
  <2>1. g > job.generation
    BY <1>1, <1>2, <1>b
  <2>2. delivery[g][c].state = "NONE"
    BY <2>1 DEF EventsInv, Unborn
  <2>3. ~(g <= job.generation) /\ g # job.generation
    BY <1>1, <1>2, <2>1
  <2> QED  BY <1>3, <2>2, <2>3 DEF DeliveryMoves, Ended
<1>7. SupersededStopped'
  <2> SUFFICES ASSUME NEW g \in Generations, NEW c \in Callbacks,
                      g < job'.generation, delivery'[g][c].state \in Open
               PROVE  FALSE
    BY DEF SupersededStopped
  <2>1. g < job.generation => delivery[g][c].state \notin Open
    BY DEF EventsInv, SupersededStopped
  <2>2. DeliveryMoves(g, c)
    BY <1>3
  <2>3. CASE g < job.generation
    <3>1. g # job.generation
      BY <1>1, <1>2, <2>3
    <3> QED  BY <2>1, <2>2, <2>3, <3>1 DEF DeliveryMoves, Ended, Open
  <2>4. CASE ~(g < job.generation)
    <3>1. ~SameAttempt
      BY <1>1, <1>2, <2>4 DEF SameAttempt
    <3> QED  BY <2>2, <3>1 DEF DeliveryMoves, Ended, Open
  <2> QED  BY <2>3, <2>4
<1>8. DeliveredWasReceived'
  <2> SUFFICES ASSUME NEW g \in Generations, NEW c \in Callbacks,
                      delivery'[g][c].state = "DELIVERED"
               PROVE  <<g, c>> \in announced'
    BY DEF DeliveredWasReceived
  <2>1. delivery[g][c].state = "DELIVERED" => <<g, c>> \in announced
    BY DEF EventsInv, DeliveredWasReceived
  <2> QED  BY <1>3, <2>1 DEF Moves, DeliveryMoves, Ended, Open
<1>9. NotifiedMeansDelivered'
  <2>1. \A c \in Callbacks :
           delivery[job.generation][c].state = "DELIVERED" /\ SameAttempt
             => delivery'[job'.generation][c].state = "DELIVERED"
    <3> SUFFICES ASSUME NEW c \in Callbacks, SameAttempt,
                        delivery[job.generation][c].state = "DELIVERED"
                 PROVE  delivery'[job.generation][c].state = "DELIVERED"
      BY DEF SameAttempt
    <3>1. DeliveryMoves(job.generation, c)
      BY <1>1, <1>3
    <3> QED  BY <3>1 DEF DeliveryMoves, Ended, Open
  <2>2. \A c \in Callbacks :
           (/\ SameAttempt
            /\ delivery'[job'.generation][c].state = "DELIVERED"
            /\ job'.state \in WaitingStates)
             => delivery[job.generation][c].state = "DELIVERED"
    <3>1. ASSUME NEW c \in Callbacks, SameAttempt, job'.state \in WaitingStates,
                 delivery'[job'.generation][c].state = "DELIVERED"
          PROVE  delivery[job.generation][c].state = "DELIVERED"
      <4>1. DeliveryMoves(job.generation, c)
        BY <1>1, <1>3
      <4>2. delivery'[job.generation][c].state = "DELIVERED"
        BY <3>1 DEF SameAttempt
      <4> QED  BY <3>1, <4>1, <4>2 DEF DeliveryMoves, Ended, Open
    <3> QED  BY <3>1
  <2>3. \A c \in Callbacks :
           job'.generation = job.generation + 1
             => delivery'[job'.generation][c].state # "DELIVERED"
    <3> SUFFICES ASSUME NEW c \in Callbacks, job'.generation = job.generation + 1
                 PROVE  delivery'[job'.generation][c].state # "DELIVERED"
      OBVIOUS
    <3>1. delivery[job'.generation][c].state = "NONE"
      BY <1>1 DEF EventsInv, Unborn
    <3>2. DeliveryMoves(job'.generation, c)
      BY <1>1, <1>3
    <3>3. ~SameAttempt
      BY <1>1 DEF SameAttempt
    <3> QED  BY <3>1, <3>2, <3>3 DEF DeliveryMoves, Ended
  <2>4. "NOTIFIED" \notin WaitingStates
    BY DEF WaitingStates
  <2>5. /\ job.state = "NOTIFIED" =>
              \E c \in Callbacks : delivery[job.generation][c].state = "DELIVERED"
        /\ job.state \in WaitingStates =>
              ~\E c \in Callbacks : delivery[job.generation][c].state = "DELIVERED"
    BY DEF EventsInv, NotifiedMeansDelivered
  <2>6. job'.state = "NOTIFIED" =>
           \E c \in Callbacks : delivery'[job'.generation][c].state = "DELIVERED"
    BY <1>4, <2>1, <2>5 DEF JobMoves
  <2>7. job'.state \in WaitingStates =>
           ~\E c \in Callbacks : delivery'[job'.generation][c].state = "DELIVERED"
    BY <1>4, <2>2, <2>3, <2>5 DEF JobMoves
  <2> QED  BY <2>6, <2>7 DEF NotifiedMeansDelivered
<1>10. RejectionIsCurrent'
  <2>1. \A c \in Callbacks :
           delivery[job.generation][c].state = "FAILED" /\ SameAttempt
             => delivery'[job'.generation][c].state = "FAILED"
    <3> SUFFICES ASSUME NEW c \in Callbacks, SameAttempt,
                        delivery[job.generation][c].state = "FAILED"
                 PROVE  delivery'[job.generation][c].state = "FAILED"
      BY DEF SameAttempt
    <3>1. DeliveryMoves(job.generation, c)
      BY <1>1, <1>3
    <3> QED  BY <3>1 DEF DeliveryMoves, Ended, Open
  <2>2. job.error = "CALLBACK_REJECTED" =>
           \E c \in Callbacks : delivery[job.generation][c].state = "FAILED"
    BY DEF EventsInv, RejectionIsCurrent
  <2> QED  BY <1>4, <2>1, <2>2 DEF JobMoves, RejectionIsCurrent
<1> QED  BY <1>5, <1>6, <1>7, <1>8, <1>9, <1>10

\* A worker that the step leaves alone.
LEMMA OtherWorkerSound ==
    ASSUME EventsInv, Moves, JobTypeOK', ContextOK',
           NEW w \in Workers, worker'[w] = worker[w]
    PROVE  WorkerSound(w)'
<1>1. /\ worker[w].generation \in Generations
      /\ worker[w].generation \in Int
      /\ job.generation \in Int /\ job'.generation \in Int
  BY JobAssumption DEF EventsInv, TypeOK, JobTypeOK, Generations
<1>2. WorkerSound(w)
  BY DEF EventsInv
<1>3. job.generation <= job'.generation
  BY <1>1 DEF Moves, JobMoves, SameAttempt
<1>4. ASSUME worker[w].at \in {"count", "fail"},
             worker[w].generation = job'.generation
      PROVE  delivery'[worker[w].generation][worker[w].callback].state = "FAILED"
  <2>1. worker[w].callback \in Callbacks
    BY <1>2, <1>4 DEF WorkerSound
  <2>2. worker[w].generation = job.generation
    BY <1>1, <1>2, <1>3, <1>4 DEF WorkerSound
  <2>3. delivery[worker[w].generation][worker[w].callback].state = "FAILED"
    BY <1>2, <1>4, <2>2 DEF WorkerSound, Delivery
  <2>4. DeliveryMoves(worker[w].generation, worker[w].callback)
    BY <1>1, <2>1 DEF Moves
  <2> QED  BY <2>2, <2>3, <2>4 DEF DeliveryMoves, Ended, Open
<1>5. announced \subseteq announced'
  BY DEF Moves
<1> QED  BY <1>1, <1>2, <1>3, <1>4, <1>5 DEF WorkerSound, Delivery

\* The worker of a step that leaves it idle, or works on the same delivery.
LEMMA IdleSound ==
    ASSUME JobTypeOK', NEW w \in Workers, worker'[w] = Idle
    PROVE  WorkerSound(w)'
<1>1. 0 <= job'.generation
  BY JobAssumption DEF JobTypeOK, Generations
<1> QED  BY <1>1 DEF WorkerSound, Idle

-----------------------------------------------------------------------------
(* The updates the actions are made of.                                    *)

Rest ==
    /\ announced \subseteq announced'
    /\ worker' \in [Workers -> WorkerRecords]
    /\ subscription' \in [Callbacks -> BOOLEAN]
    /\ granted' \in BOOLEAN
    /\ crashes' \in 0..MaxCrashes

OthersKeep(w) == \A v \in Workers : v # w => worker'[v] = worker[v]

LEMMA KeepsJob ==
    ASSUME UNCHANGED job
    PROVE  JobMoves /\ SameAttempt
BY DEF JobMoves, SameAttempt

LEMMA KeepsDelivery ==
    ASSUME EventsInv, JobMoves, SameAttempt, Rest, UNCHANGED delivery
    PROVE  Moves
<1>1. /\ delivery \in [Generations -> [Callbacks -> DeliveryRecords]]
      /\ \A g \in Generations, c \in Callbacks : WellLeased(delivery[g][c])
  BY Types DEF EventsInv
<1> QED  BY <1>1 DEF Moves, Rest, DeliveryMoves, WellLeased

LEMMA PutsDelivery ==
    ASSUME EventsInv, JobMoves, SameAttempt, Rest,
           NEW g \in Generations, NEW c \in Callbacks, NEW d, WellLeased(d),
           delivery' = [delivery EXCEPT ![g][c] = d],
           delivery'[g][c] = d => DeliveryMoves(g, c)
    PROVE  Moves /\ delivery'[g][c] = d
<1>1. /\ delivery \in [Generations -> [Callbacks -> DeliveryRecords]]
      /\ \A h \in Generations, e \in Callbacks : WellLeased(delivery[h][e])
  BY Types DEF EventsInv
<1>2. d \in DeliveryRecords
  BY DEF WellLeased
<1>3. delivery' \in [Generations -> [Callbacks -> DeliveryRecords]]
  BY <1>1, <1>2
<1>4. \A h \in Generations, e \in Callbacks :
         delivery'[h][e] = IF h = g /\ e = c THEN d ELSE delivery[h][e]
  BY <1>1
<1>5. \A h \in Generations, e \in Callbacks : WellLeased(delivery'[h][e])
  BY <1>1, <1>4
<1>6. delivery'[g][c] = d /\ DeliveryMoves(g, c)
  BY <1>4
<1>7. ASSUME NEW h \in Generations, NEW e \in Callbacks  PROVE DeliveryMoves(h, e)
  <2>1. CASE h = g /\ e = c
    BY <1>6, <2>1
  <2>2. CASE ~(h = g /\ e = c)
    BY <1>4, <2>2 DEF DeliveryMoves
  <2> QED  BY <2>1, <2>2
<1> QED  BY <1>3, <1>5, <1>6, <1>7 DEF Moves, Rest

LEMMA WorkerUpdate ==
    ASSUME TypeOK, NEW w \in Workers, NEW r \in WorkerRecords,
           worker' = [worker EXCEPT ![w] = r]
    PROVE  worker' \in [Workers -> WorkerRecords] /\ worker'[w] = r /\ OthersKeep(w)
<1>1. worker \in [Workers -> WorkerRecords]
  BY Types
<1> QED  BY <1>1 DEF OthersKeep

LEMMA Finished ==
    ASSUME TypeOK, NEW w \in Workers, Finish(w)
    PROVE  worker' \in [Workers -> WorkerRecords] /\ worker'[w] = Idle /\ OthersKeep(w)
<1>1. Idle \in WorkerRecords
  BY JobAssumption DEF Idle, WorkerRecords, Generations
<1> QED  BY <1>1, WorkerUpdate DEF Finish

LEMMA Gone ==
    ASSUME TypeOK, NEW w \in Workers,
           NEW at \in {"idle", "insert", "check", "post", "acknowledge", "settle",
                       "count", "fail"},
           Goto(w, at)
    PROVE  /\ worker' \in [Workers -> WorkerRecords]
           /\ worker'[w].at = at
           /\ worker'[w].generation = worker[w].generation
           /\ worker'[w].callback = worker[w].callback
           /\ OthersKeep(w)
<1>1. worker \in [Workers -> WorkerRecords]
  BY Types
<1>2. [worker[w] EXCEPT !.at = at] \in WorkerRecords
  BY <1>1 DEF WorkerRecords
<1>3. worker' = [worker EXCEPT ![w] = [worker[w] EXCEPT !.at = at]]
  BY DEF Goto
<1>4. worker'[w] = [worker[w] EXCEPT !.at = at]
  BY <1>2, <1>3, WorkerUpdate
<1>5. /\ worker'[w].at = at
      /\ worker'[w].generation = worker[w].generation
      /\ worker'[w].callback = worker[w].callback
  BY <1>1, <1>4 DEF WorkerRecords
<1> QED  BY <1>2, <1>3, <1>5, WorkerUpdate

LEMMA Settles ==
    ASSUME TypeOK, NEW w \in Workers,
           NEW outcome \in {"denied", "superseded", "retry", "rejected"},
           SettleWith(w, outcome)
    PROVE  /\ worker' \in [Workers -> WorkerRecords]
           /\ worker'[w].at = "settle"
           /\ worker'[w].generation = worker[w].generation
           /\ worker'[w].callback = worker[w].callback
           /\ OthersKeep(w)
<1>1. worker \in [Workers -> WorkerRecords]
  BY Types
<1>2. [worker[w] EXCEPT !.at = "settle", !.outcome = outcome] \in WorkerRecords
  BY <1>1 DEF WorkerRecords
<1>3. worker' = [worker EXCEPT ![w] =
                   [worker[w] EXCEPT !.at = "settle", !.outcome = outcome]]
  BY <1>1 DEF SettleWith
<1>4. worker'[w] = [worker[w] EXCEPT !.at = "settle", !.outcome = outcome]
  BY <1>2, <1>3, WorkerUpdate
<1>5. /\ worker'[w].at = "settle"
      /\ worker'[w].generation = worker[w].generation
      /\ worker'[w].callback = worker[w].callback
  BY <1>1, <1>4 DEF WorkerRecords
<1> QED  BY <1>2, <1>3, <1>5, WorkerUpdate

\* A worker that goes to a step which rests on nothing.
LEMMA GoneSound ==
    ASSUME EventsInv, SameAttempt, NEW w \in Workers,
           worker[w].at # "idle",
           worker'[w].at \in {"check", "post", "settle"},
           worker'[w].generation = worker[w].generation,
           worker'[w].callback = worker[w].callback
    PROVE  WorkerSound(w)'
BY DEF EventsInv, WorkerSound, SameAttempt

LEMMA Conclude ==
    ASSUME EventsInv, Moves, JobTypeOK', ContextOK',
           NEW w \in Workers, OthersKeep(w), WorkerSound(w)'
    PROVE  EventsInv'
<1>1. ASSUME NEW v \in Workers  PROVE WorkerSound(v)'
  BY <1>1, OtherWorkerSound DEF OthersKeep
<1> QED  BY <1>1, MovesInv DEF EventsInv

LEMMA ConcludeAlone ==
    ASSUME EventsInv, Moves, JobTypeOK', ContextOK', UNCHANGED worker
    PROVE  EventsInv'
<1>1. ASSUME NEW v \in Workers  PROVE WorkerSound(v)'
  BY <1>1, OtherWorkerSound
<1> QED  BY <1>1, MovesInv DEF EventsInv

-----------------------------------------------------------------------------
(* Notification implements the job.                                        *)

LEMMA WorkerFacts ==
    ASSUME EventsInv, NEW w \in Workers, worker[w].at # "idle"
    PROVE  /\ worker[w].generation \in Generations
           /\ worker[w].generation <= job.generation
           /\ worker[w].callback \in Callbacks
<1>1. worker \in [Workers -> WorkerRecords] /\ WorkerSound(w)
  BY Types DEF EventsInv
<1> QED  BY <1>1 DEF WorkerSound, WorkerRecords

\* What neither the owner, the executor nor a worker does.
Environment ==
    \/ AccessChanges
    \/ PinChanges
    \/ \E c \in Callbacks : Subscribes(c) \/ OthersChange(c)

LEMMA StepRefines == EventsInv /\ [Next]_vars => [JobNext]_lifecycle
<1> SUFFICES ASSUME EventsInv, [Next]_vars  PROVE [JobNext]_lifecycle
  OBVIOUS
<1>1. CASE UNCHANGED vars
  BY <1>1 DEF vars, lifecycle
<1>2. CASE OwnerCancels
  BY <1>2 DEF OwnerCancels, JobNext, OwnerStep
<1>3. CASE OwnerRetries
  <2>1. Waiting \in WaitingStates
    BY DEF Waiting, WaitingStates
  <2> QED  BY <1>3, <2>1 DEF OwnerRetries, JobNext, OwnerStep
<1>4. CASE OwnerClarifies
  <2>1. Waiting \in WaitingStates
    BY DEF Waiting, WaitingStates
  <2> QED  BY <1>4, <2>1 DEF OwnerClarifies, JobNext, OwnerStep
<1>5. CASE ExecutorActs
  BY <1>5 DEF ExecutorActs, JobNext
<1>6. CASE Environment
  BY <1>6 DEF Environment, AccessChanges, PinChanges, Subscribes, OthersChange,
              jobVars, lifecycle
<1>7. ASSUME NEW w \in Workers, Post(w) \/ PostFails(w)  PROVE [JobNext]_lifecycle
  <2>1. worker[w].at # "idle"
    BY <1>7 DEF Post, PostFails
  <2>2. CASE UNCHANGED announced
    BY <1>7, <2>2 DEF Post, PostFails, jobVars, lifecycle
  <2>3. CASE Received(w)
    BY <1>7, <2>1, <2>3, WorkerFacts
       DEF Post, PostFails, Received, Announce, jobVars, JobNext
  <2> QED  BY <1>7, <2>2, <2>3 DEF Post, PostFails
<1>8. ASSUME NEW w \in Workers, Acknowledge(w)  PROVE [JobNext]_lifecycle
  <2>1. CASE UNCHANGED jobVars
    BY <1>8, <2>1 DEF Acknowledge, jobVars, lifecycle
  <2>2. CASE Notified
    <3>1. worker[w].at = "acknowledge" /\ worker[w].generation = job.generation
      BY <1>8 DEF Acknowledge, Stale
    <3>2. <<job.generation, worker[w].callback>> \in announced
      BY <3>1 DEF EventsInv, WorkerSound
    <3>3. CurrentAnnounced
      BY <3>1, <3>2, WorkerFacts DEF CurrentAnnounced
    <3> QED  BY <1>8, <2>2, <3>3 DEF Acknowledge, JobNext
  <2> QED  BY <1>8, <2>1, <2>2 DEF Acknowledge, jobVars
<1>9. ASSUME NEW w \in Workers, FailJob(w)  PROVE [JobNext]_lifecycle
  BY <1>9 DEF FailJob, JobNext, jobVars, lifecycle
<1>10. ASSUME NEW w \in Workers,
              \/ InsertDelivery(w) \/ CheckJob(w) \/ PostRejected(w)
              \/ AcknowledgeFails(w) \/ Settle(w) \/ CountOthers(w) \/ Crash(w)
              \/ StepFails(w)
       PROVE  [JobNext]_lifecycle
  BY <1>10 DEF InsertDelivery, CheckJob, PostRejected, AcknowledgeFails, Settle,
               CountOthers, Crash, StepFails, jobVars, lifecycle
<1>11. ASSUME NEW g \in Generations, NEW c \in Callbacks,
              \/ LeaseRunsOut(g, c)
              \/ \E w \in Workers : FindEvent(w, g, c) \/ Claim(w, g, c)
       PROVE  [JobNext]_lifecycle
  BY <1>11 DEF FindEvent, Claim, LeaseRunsOut, jobVars, lifecycle
<1> QED  BY <1>1, <1>2, <1>3, <1>4, <1>5, <1>6, <1>7, <1>8, <1>9, <1>10, <1>11
            DEF Next, Step, Environment

LEMMA StepTypes == EventsInv /\ [Next]_vars => JobTypeOK'
BY StepRefines, JobNextTypes DEF EventsInv, TypeOK

LEMMA StepContext == TypeOK /\ [Next]_vars => ContextOK'
<1> SUFFICES ASSUME TypeOK, [Next]_vars  PROVE ContextOK'
  OBVIOUS
<1>1. ContextOK
  BY DEF TypeOK, ContextOK
<1>2. CASE UNCHANGED context
  BY <1>1, <1>2 DEF context, ContextOK
<1>3. CASE UNCHANGED vars
  BY <1>1, <1>3 DEF vars, ContextOK
<1>4. CASE OwnerClarifies
  BY <1>1, <1>4 DEF OwnerClarifies, ContextOK
<1>5. CASE PinChanges
  BY <1>1, <1>5 DEF PinChanges, ContextOK
<1>6. ASSUME NEW c \in Callbacks, OthersChange(c)  PROVE ContextOK'
  BY <1>1, <1>6 DEF OthersChange, ContextOK
<1>7. CASE OwnerCancels \/ OwnerRetries \/ ExecutorActs \/ AccessChanges
  BY <1>2, <1>7 DEF OwnerCancels, OwnerRetries, ExecutorActs, AccessChanges
<1>8. ASSUME NEW c \in Callbacks, Subscribes(c)  PROVE ContextOK'
  BY <1>2, <1>8 DEF Subscribes
<1>9. ASSUME NEW w \in Workers, Step(w) \/ Crash(w) \/ StepFails(w)  PROVE ContextOK'
  <2>1. UNCHANGED context
    BY <1>9 DEF Step, InsertDelivery, CheckJob, Post, PostFails, PostRejected, Acknowledge,
                AcknowledgeFails, Settle, CountOthers, FailJob, Crash, StepFails
  <2> QED  BY <1>2, <2>1
<1>10. ASSUME NEW g \in Generations, NEW c \in Callbacks,
              \/ LeaseRunsOut(g, c)
              \/ \E w \in Workers : FindEvent(w, g, c) \/ Claim(w, g, c)
       PROVE  ContextOK'
  BY <1>2, <1>10 DEF LeaseRunsOut, FindEvent, Claim
<1> QED  BY <1>3, <1>4, <1>5, <1>6, <1>7, <1>8, <1>9, <1>10 DEF Next

-----------------------------------------------------------------------------
(* The actions, one by one.                                                *)

LEMMA KeepsRest ==
    ASSUME TypeOK, announced \subseteq announced',
           worker' \in [Workers -> WorkerRecords],
           UNCHANGED <<subscription, granted, crashes>>
    PROVE  Rest
BY DEF Rest, TypeOK

LEMMA NewAttemptInv ==
    ASSUME EventsInv, JobTypeOK', ContextOK', OwnerRetries \/ OwnerClarifies
    PROVE  EventsInv'
<1> PICK waiting \in WaitingStates :
       \/ Retry(waiting)
       \/ \E g \in Generations : Clarify(Attempt(g), waiting)
  BY DEF OwnerRetries, OwnerClarifies, Waiting, WaitingStates
<1>1. /\ job'.generation = job.generation + 1
      /\ job'.state = waiting /\ job'.error = None
  <2>1. job \in [state : JobStates,
                status : {"RUNNING", "COMPLETED", "CANCELLED", "FAILED"},
                generation : Generations, submission : Submissions \cup {None},
                error : Errors \cup {None}, answer : SUBSET (Submissions \X Parts)]
    BY DEF EventsInv, TypeOK, JobTypeOK
  <2>2. CASE Retry(waiting)
    BY ONLY <2>1, <2>2 DEF Retry
  <2>3. ASSUME NEW g \in Generations, Clarify(Attempt(g), waiting)
        PROVE  /\ job'.generation = job.generation + 1
               /\ job'.state = waiting /\ job'.error = None
    BY ONLY <2>1, <2>3 DEF Clarify
  <2> QED  BY <2>2, <2>3
<1>2. JobMoves
  <2>1. job'.state \in WaitingStates /\ job'.state # "NOTIFIED" /\ job'.error # "CALLBACK_REJECTED"
    BY <1>1, JobAssumption DEF WaitingStates, Errors
  <2> QED  BY ONLY <1>1, <2>1 DEF JobMoves
<1>3. /\ delivery \in [Generations -> [Callbacks -> DeliveryRecords]]
      /\ \A h \in Generations, e \in Callbacks : WellLeased(delivery[h][e])
      /\ worker \in [Workers -> WorkerRecords]
      /\ TypeOK
  BY Types DEF EventsInv
<1>4. Rest /\ UNCHANGED worker
  BY <1>3, KeepsRest DEF OwnerRetries, OwnerClarifies
<1>5. WellLeased(Free("CANCELLED")) /\ Free("CANCELLED") \in DeliveryRecords
  BY DEF WellLeased, Free, DeliveryRecords
<1>6. Superseded
  BY DEF OwnerRetries, OwnerClarifies
<1>7. \A g \in Generations, c \in Callbacks :
         delivery'[g][c] = IF g <= job.generation /\ delivery[g][c].state \in Open
                           THEN Free("CANCELLED") ELSE delivery[g][c]
  BY <1>6 DEF Superseded
<1>8. /\ delivery' \in [Generations -> [Callbacks -> DeliveryRecords]]
      /\ \A g \in Generations, c \in Callbacks : WellLeased(delivery'[g][c])
  <2>1. delivery' \in [Generations -> [Callbacks -> DeliveryRecords]]
    BY <1>3, <1>5, <1>6 DEF Superseded
  <2> QED  BY <1>3, <1>5, <1>7, <2>1
<1>9. ASSUME NEW g \in Generations, NEW c \in Callbacks  PROVE DeliveryMoves(g, c)
  <2>1. CASE g <= job.generation /\ delivery[g][c].state \in Open
    BY <1>7, <2>1 DEF DeliveryMoves, Free
  <2>2. CASE g <= job.generation /\ delivery[g][c].state \notin Open
    BY <1>7, <2>2 DEF DeliveryMoves
  <2>3. CASE ~(g <= job.generation)
    <3>1. g > job.generation
      BY <2>3, <1>3 DEF TypeOK, JobTypeOK, Generations
    <3>2. delivery[g][c].state = "NONE"
      BY <3>1 DEF EventsInv, Unborn
    <3> QED  BY <1>7, <2>3, <3>2 DEF DeliveryMoves, Open
  <2> QED  BY <2>1, <2>2, <2>3
<1>10. Moves
  BY <1>2, <1>4, <1>8, <1>9 DEF Moves, Rest
<1> QED  BY <1>4, <1>10, ConcludeAlone

LEMMA OtherCommandInv ==
    ASSUME EventsInv, JobTypeOK', ContextOK', OwnerCancels \/ ExecutorActs
    PROVE  EventsInv'
<1>1. /\ UNCHANGED <<announced, subscription, granted, delivery, worker, crashes>>
      /\ Cancel \/ ExecutorStep
  BY DEF OwnerCancels, ExecutorActs
<1>2. JobTypeOK /\ TypeOK /\ worker \in [Workers -> WorkerRecords]
  BY Types DEF EventsInv
<1>3. JobMoves /\ SameAttempt
  <2>1. CASE Cancel
    BY <1>2, <2>1, JobAssumption
       DEF Cancel, JobMoves, SameAttempt, WaitingStates, JobTypeOK, Errors
  <2>2. ASSUME NEW a, NEW stage \in Stages, Progress(a, stage)
        PROVE  JobMoves /\ SameAttempt
    <3>1. stage \in ReportedStages
      BY JobAssumption
    <3>2. job'.state = stage /\ job'.generation = job.generation
      BY <1>2, <2>2 DEF Progress, JobTypeOK
    <3>3. job'.error \in {None, "REPORTED", job.error}
      BY <1>2, <2>2 DEF Progress, JobTypeOK
    <3>4. job'.error = "CALLBACK_REJECTED" => job.error = "CALLBACK_REJECTED"
      BY <3>3, JobAssumption DEF Errors
    <3> QED  BY <3>1, <3>2, <3>4
                DEF JobMoves, SameAttempt, ReportedStages, WaitingStates
  <2>3. ASSUME NEW a, NEW s, NEW n, SubmitText(a, s, n)
        PROVE  JobMoves /\ SameAttempt
    <3>1. job'.generation = job.generation /\ job'.error = job.error
      BY <1>2, <2>3 DEF SubmitText, JobTypeOK
    <3>2. job'.state \in {"PROCESSING", job.state}
      BY <1>2, <2>3 DEF SubmitText, JobTypeOK
    <3> QED  BY <3>1, <3>2 DEF JobMoves, SameAttempt, WaitingStates
  <2>4. ASSUME NEW a, NEW s, SubmitAgain(a, s) \/ EndSubmit(a, s)
        PROVE  JobMoves /\ SameAttempt
    BY <2>4, KeepsJob DEF SubmitAgain, EndSubmit
  <2>5. ASSUME NEW a, NEW s, Finalize(a, s)
        PROVE  JobMoves /\ SameAttempt
    <3> SUFFICES ASSUME NEW answer, answer = TextOf(s)
                 PROVE  JobMoves /\ SameAttempt
      OBVIOUS
    <3>1. job' = [job EXCEPT !.state = "COMPLETED", !.status = "COMPLETED",
                             !.error = None, !.answer = answer]
      BY <2>5 DEF Finalize
    <3>2. /\ job'.generation = job.generation
          /\ job'.state = "COMPLETED" /\ job'.error = None
      BY <1>2, <3>1 DEF JobTypeOK
    <3> QED  BY <3>2, JobAssumption DEF JobMoves, SameAttempt, WaitingStates, Errors
  <2> QED  BY <1>1, <2>1, <2>2, <2>3, <2>4, <2>5 DEF ExecutorStep
<1>4. Rest
  BY <1>1, <1>2, KeepsRest
<1>5. Moves
  BY <1>1, <1>3, <1>4, KeepsDelivery
<1> QED  BY <1>1, <1>5, ConcludeAlone

LEMMA EnvironmentInv ==
    ASSUME EventsInv, JobTypeOK', ContextOK',
           Environment
    PROVE  EventsInv'
<1>1. UNCHANGED <<job, announced, delivery, worker, crashes>>
  BY DEF Environment, AccessChanges, PinChanges, Subscribes, OthersChange, jobVars
<1>2. /\ subscription' \in [Callbacks -> BOOLEAN]
      /\ granted' \in BOOLEAN
  BY DEF EventsInv, TypeOK, Environment, AccessChanges, PinChanges, Subscribes, OthersChange
<1>3. Rest
  BY <1>1, <1>2, Types DEF EventsInv, Rest
<1>4. Moves
  BY <1>1, <1>3, KeepsJob, KeepsDelivery
<1> QED  BY <1>1, <1>4, ConcludeAlone

\* A step of one worker that writes no delivery and not the job.
LEMMA QuietStepInv ==
    ASSUME EventsInv, JobTypeOK', ContextOK', NEW w \in Workers,
           UNCHANGED <<job, delivery>>,
           Rest, OthersKeep(w), WorkerSound(w)'
    PROVE  EventsInv'
<1>1. Moves
  BY KeepsJob, KeepsDelivery
<1> QED  BY <1>1, Conclude

LEMMA FindEventInv ==
    ASSUME EventsInv, JobTypeOK', ContextOK', NEW w \in Workers,
           NEW g \in Generations, NEW c \in Callbacks, FindEvent(w, g, c)
    PROVE  EventsInv'
<1>1. Working("insert", g, c) \in WorkerRecords
  BY DEF Working, WorkerRecords
<1>2. /\ worker' \in [Workers -> WorkerRecords]
      /\ worker'[w] = Working("insert", g, c)
      /\ OthersKeep(w)
  BY <1>1, WorkerUpdate DEF FindEvent, EventsInv
<1>3. WorkerSound(w)'
  BY <1>2 DEF WorkerSound, Working, FindEvent, jobVars
<1>4. Rest
  BY <1>2, KeepsRest DEF FindEvent, EventsInv
<1> QED  BY <1>2, <1>3, <1>4, QuietStepInv DEF FindEvent, jobVars

LEMMA CheckJobInv ==
    ASSUME EventsInv, JobTypeOK', ContextOK', NEW w \in Workers, CheckJob(w)
    PROVE  EventsInv'
<1>1. UNCHANGED <<job, announced, subscription, granted, delivery, crashes>>
  BY DEF CheckJob, jobVars
<1>2. worker \in [Workers -> WorkerRecords] /\ TypeOK /\ worker[w].at = "check"
  BY Types DEF EventsInv, CheckJob
<1>3. \/ SettleWith(w, "denied") \/ SettleWith(w, "superseded")
      \/ SettleWith(w, "retry") \/ Goto(w, "post")
  BY DEF CheckJob
<1>4. /\ worker' \in [Workers -> WorkerRecords]
      /\ OthersKeep(w)
      /\ worker'[w].at \in {"post", "settle"}
      /\ worker'[w].generation = worker[w].generation
      /\ worker'[w].callback = worker[w].callback
  BY <1>2, <1>3, Gone, Settles
<1>5. WorkerSound(w)'
  BY <1>1, <1>2, <1>4, KeepsJob, GoneSound
<1>6. Rest
  BY <1>1, <1>2, <1>4, KeepsRest
<1> QED  BY <1>1, <1>4, <1>5, <1>6, QuietStepInv

LEMMA PostInv ==
    ASSUME EventsInv, JobTypeOK', ContextOK', NEW w \in Workers,
           Post(w) \/ PostFails(w) \/ PostRejected(w)
    PROVE  EventsInv'
<1>1. /\ UNCHANGED <<job, subscription, granted, delivery, crashes>>
      /\ announced \subseteq announced'
  BY DEF Post, PostFails, PostRejected, Received, jobVars
<1>2. worker \in [Workers -> WorkerRecords] /\ TypeOK /\ worker[w].at = "post"
  BY Types DEF EventsInv, Post, PostFails, PostRejected
<1>3. CASE PostFails(w) \/ PostRejected(w)
  <2>1. SettleWith(w, "retry") \/ SettleWith(w, "rejected")
    BY <1>3 DEF PostFails, PostRejected
  <2>2. /\ worker' \in [Workers -> WorkerRecords]
        /\ OthersKeep(w)
        /\ worker'[w].at = "settle"
        /\ worker'[w].generation = worker[w].generation
        /\ worker'[w].callback = worker[w].callback
    BY <1>2, <2>1, Settles
  <2>3. WorkerSound(w)'
    BY <1>1, <1>2, <2>2, KeepsJob, GoneSound
  <2> QED  BY <1>1, <1>2, <2>2, <2>3, KeepsRest, QuietStepInv
<1>4. CASE Post(w)
  <2>1. /\ worker' \in [Workers -> WorkerRecords]
        /\ OthersKeep(w)
        /\ worker'[w].at = "acknowledge"
        /\ worker'[w].generation = worker[w].generation
        /\ worker'[w].callback = worker[w].callback
    BY <1>2, <1>4, Gone DEF Post
  <2>2. <<worker[w].generation, worker[w].callback>> \in announced'
    BY <1>4 DEF Post, Received
  <2>3. WorkerSound(w)'
    BY <1>1, <1>2, <2>1, <2>2, WorkerFacts DEF WorkerSound
  <2> QED  BY <1>1, <1>2, <2>1, <2>3, KeepsRest, QuietStepInv
<1> QED  BY <1>3, <1>4

\* A step that frees a delivery the worker names.
LEMMA InsertInv ==
    ASSUME EventsInv, JobTypeOK', ContextOK', NEW w \in Workers, InsertDelivery(w)
    PROVE  EventsInv'
<1>1. /\ UNCHANGED <<job, announced, subscription, granted, crashes>>
      /\ TypeOK /\ worker[w].at = "insert" /\ Finish(w)
  BY DEF EventsInv, InsertDelivery, jobVars
<1>2. /\ worker' \in [Workers -> WorkerRecords]
      /\ OthersKeep(w) /\ WorkerSound(w)'
  BY <1>1, Finished, IdleSound
<1>3. Rest
  BY <1>1, <1>2, KeepsRest
<1>4. SUFFICES ASSUME NEW g \in Generations, NEW c \in Callbacks,
                      g = worker[w].generation, c = worker[w].callback,
                      g <= job.generation, g \in Int, job.generation \in Int
               PROVE  Moves
  <2>1. job.generation \in Int /\ Generations \subseteq Int
    BY <1>1 DEF TypeOK, JobTypeOK, Generations
  <2> QED  BY <1>1, <1>2, <2>1, WorkerFacts, Conclude
<1>5. CASE UNCHANGED delivery
  BY <1>1, <1>3, <1>5, KeepsJob, KeepsDelivery
<1>6. ASSUME NEW state \in {"PENDING", "CANCELLED"}, Put(w, Free(state)),
             \/ /\ state = "CANCELLED"
                /\ g # job.generation
             \/ /\ delivery[g][c].state = "NONE"
                /\ state = "CANCELLED" \/ g = job.generation
      PROVE  Moves
  <2>1. WellLeased(Free(state)) /\ Free(state).state = state
    BY DEF WellLeased, Free, DeliveryRecords, Open
  <2>2. delivery' = [delivery EXCEPT ![g][c] = Free(state)]
    BY <1>4, <1>6 DEF Put
  <2>3. delivery'[g][c] = Free(state) => DeliveryMoves(g, c)
    BY <1>1, <1>4, <1>6, <2>1, KeepsJob DEF DeliveryMoves, Open
  <2> QED  BY <1>1, <1>3, <2>1, <2>2, <2>3, KeepsJob, PutsDelivery
<1>7. CASE /\ Stale(w)
           /\ Put(w, Free("CANCELLED"))
  BY <1>4, <1>6, <1>7 DEF Stale
<1>8. CASE /\ Delivery(w).state = "NONE"
           /\ \/ ~Stale(w) /\ Put(w, Free("PENDING"))
              \/ Put(w, Free("CANCELLED"))
  <2>1. delivery[g][c].state = "NONE"
    BY <1>4, <1>8 DEF Delivery
  <2> QED  BY <1>4, <1>6, <1>8, <2>1 DEF Stale
<1> QED  BY <1>5, <1>7, <1>8 DEF InsertDelivery

LEMMA ClaimInv ==
    ASSUME EventsInv, JobTypeOK', ContextOK', NEW w \in Workers,
           NEW g \in Generations, NEW c \in Callbacks, Claim(w, g, c)
    PROVE  EventsInv'
<1> DEFINE claimed == [state |-> "DELIVERING", lease |-> w, over |-> FALSE]
<1>1. /\ UNCHANGED <<job, announced, subscription, granted, crashes>>
      /\ TypeOK
      /\ delivery[g][c].state \in Open
      /\ delivery' = [delivery EXCEPT ![g][c] = claimed]
  BY DEF EventsInv, Claim, jobVars
<1>2. g = job.generation
  <2>1. job.generation \in Int /\ g \in Int
    BY <1>1 DEF TypeOK, JobTypeOK, Generations
  <2>2. ~(g < job.generation) /\ ~(g > job.generation)
    BY <1>1 DEF EventsInv, SupersededStopped, Unborn, Open
  <2> QED  BY <2>1, <2>2
<1>3. Working("check", g, c) \in WorkerRecords
  BY DEF Working, WorkerRecords
<1>4. /\ worker' \in [Workers -> WorkerRecords]
      /\ worker'[w] = Working("check", g, c)
      /\ OthersKeep(w)
  BY <1>1, <1>3, WorkerUpdate DEF Claim
<1>5. WorkerSound(w)'
  <2>1. g <= job.generation
    BY <1>1, <1>2 DEF TypeOK, JobTypeOK, Generations
  <2> QED  BY <1>1, <1>4, <2>1 DEF WorkerSound, Working
<1>6. WellLeased(claimed)
  BY EventAssumption DEF WellLeased, DeliveryRecords, Open
<1>7. delivery'[g][c] = claimed => DeliveryMoves(g, c)
  BY <1>1, <1>2, KeepsJob DEF DeliveryMoves, Open
<1> HIDE DEF claimed
<1>8. Moves
  BY <1>1, <1>4, <1>6, <1>7, KeepsJob, KeepsRest, PutsDelivery
<1> QED  BY <1>4, <1>5, <1>8, Conclude

LEMMA LeaseRunsOutInv ==
    ASSUME EventsInv, JobTypeOK', ContextOK',
           NEW g \in Generations, NEW c \in Callbacks, LeaseRunsOut(g, c)
    PROVE  EventsInv'
<1>1. /\ UNCHANGED <<job, announced, subscription, granted, worker, crashes>>
      /\ TypeOK /\ worker \in [Workers -> WorkerRecords]
      /\ delivery[g][c].lease # None
  BY Types DEF EventsInv, LeaseRunsOut, jobVars
<1>2. PICK d : d = [delivery[g][c] EXCEPT !.over = TRUE]
  OBVIOUS
<1>3. WellLeased(d) /\ d.state = delivery[g][c].state
  <2>1. WellLeased(delivery[g][c])
    BY <1>1, Types
  <2> QED  BY <1>1, <1>2, <2>1 DEF WellLeased, DeliveryRecords
<1>4. delivery' = [delivery EXCEPT ![g][c] = d]
  <2>1. delivery \in [Generations -> [Callbacks -> DeliveryRecords]]
    BY <1>1, Types
  <2> QED  BY <1>2, <2>1 DEF LeaseRunsOut
<1>5. delivery'[g][c] = d => DeliveryMoves(g, c)
  BY <1>1, <1>3, KeepsJob DEF DeliveryMoves
<1>6. Moves
  BY <1>1, <1>3, <1>4, <1>5, KeepsJob, KeepsRest, PutsDelivery
<1> QED  BY <1>1, <1>6, ConcludeAlone

LEMMA CrashInv ==
    ASSUME EventsInv, JobTypeOK', ContextOK', NEW w \in Workers, Crash(w)
    PROVE  EventsInv'
<1>1. /\ UNCHANGED <<job, announced, subscription, granted, delivery>>
      /\ TypeOK /\ Finish(w)
      /\ crashes < MaxCrashes /\ crashes' = crashes + 1
  BY DEF EventsInv, Crash, jobVars
<1>2. worker' \in [Workers -> WorkerRecords] /\ OthersKeep(w) /\ WorkerSound(w)'
  BY <1>1, Finished, IdleSound
<1>3. crashes' \in 0..MaxCrashes
  BY <1>1, EventAssumption DEF TypeOK
<1>4. Rest
  BY <1>1, <1>2, <1>3 DEF Rest, TypeOK
<1> QED  BY <1>1, <1>2, <1>4, QuietStepInv

LEMMA StepFailsInv ==
    ASSUME EventsInv, JobTypeOK', ContextOK', NEW w \in Workers, StepFails(w)
    PROVE  EventsInv'
<1>1. /\ UNCHANGED <<job, announced, subscription, granted, delivery>>
      /\ worker[w].at # "idle" /\ TypeOK /\ SettleWith(w, "retry")
      /\ crashes < MaxCrashes /\ crashes' = crashes + 1
  BY DEF EventsInv, StepFails, jobVars
<1>2. /\ worker' \in [Workers -> WorkerRecords]
      /\ OthersKeep(w)
      /\ worker'[w].at = "settle"
      /\ worker'[w].generation = worker[w].generation
      /\ worker'[w].callback = worker[w].callback
  BY <1>1, Settles
<1>3. WorkerSound(w)'
  BY <1>1, <1>2, KeepsJob, GoneSound
<1>4. crashes' \in 0..MaxCrashes
  BY <1>1, EventAssumption DEF TypeOK
<1>5. Rest
  BY <1>1, <1>2, <1>4 DEF Rest, TypeOK
<1> QED  BY <1>1, <1>2, <1>3, <1>5, QuietStepInv

LEMMA AcknowledgeFailsInv ==
    ASSUME EventsInv, JobTypeOK', ContextOK', NEW w \in Workers, AcknowledgeFails(w)
    PROVE  EventsInv'
<1>1. /\ UNCHANGED <<job, announced, subscription, granted, delivery, crashes>>
      /\ worker[w].at = "acknowledge" /\ TypeOK
      /\ SettleWith(w, "denied") \/ SettleWith(w, "retry")
  BY DEF EventsInv, AcknowledgeFails, jobVars
<1>2. /\ worker' \in [Workers -> WorkerRecords]
      /\ OthersKeep(w)
      /\ worker'[w].at = "settle"
      /\ worker'[w].generation = worker[w].generation
      /\ worker'[w].callback = worker[w].callback
  BY <1>1, Settles
<1>3. WorkerSound(w)'
  BY <1>1, <1>2, KeepsJob, GoneSound
<1> QED  BY <1>1, <1>2, <1>3, KeepsRest, QuietStepInv

\* A delivery is ended as made only if it was, and the job waits no more.
MadeIfReceived(g, c, state) ==
    state = "DELIVERED" => <<g, c>> \in announced /\ job'.state \notin WaitingStates

\* A write that ends a leased delivery.
LEMMA EndMoves ==
    ASSUME EventsInv, JobMoves, SameAttempt, Rest,
           NEW g \in Generations, NEW c \in Callbacks,
           delivery[g][c].state = "DELIVERING",
           NEW state \in {"DELIVERED", "FAILED", "CANCELLED", "PENDING"},
           delivery' = [delivery EXCEPT ![g][c] = Free(state)],
           MadeIfReceived(g, c, state)
    PROVE  Moves /\ g = job.generation /\ delivery'[g][c] = Free(state)
<1>1. g = job.generation
  <2>1. job.generation \in Int /\ g \in Int
    BY DEF EventsInv, TypeOK, JobTypeOK, Generations
  <2>2. ~(g < job.generation) /\ ~(g > job.generation)
    BY DEF EventsInv, SupersededStopped, Unborn, Open
  <2> QED  BY <2>1, <2>2
<1>2. WellLeased(Free(state)) /\ Free(state).state = state
  BY DEF WellLeased, Free, DeliveryRecords, Open
<1>3. ASSUME delivery'[g][c] = Free(state)  PROVE DeliveryMoves(g, c)
  <2>1. g <= job.generation
    BY <1>1 DEF EventsInv, TypeOK, JobTypeOK, Generations
  <2>2. state = "DELIVERED" => <<g, c>> \in announced'
    BY DEF Rest, MadeIfReceived
  <2> QED  BY <1>1, <1>2, <1>3, <2>1, <2>2 DEF DeliveryMoves, Ended, Open, MadeIfReceived
<1>4. /\ EventsInv /\ JobMoves /\ SameAttempt /\ Rest
      /\ g \in Generations /\ c \in Callbacks
      /\ delivery' = [delivery EXCEPT ![g][c] = Free(state)]
  OBVIOUS
<1>5. Moves /\ delivery'[g][c] = Free(state)
  <2> DEFINE d == Free(state)
  <2>1. /\ WellLeased(d)
        /\ delivery' = [delivery EXCEPT ![g][c] = d]
        /\ delivery'[g][c] = d => DeliveryMoves(g, c)
    BY <1>2, <1>3, <1>4
  <2> HIDE DEF d
  <2>2. Moves /\ delivery'[g][c] = d
    BY ONLY <1>4, <2>1, PutsDelivery
  <2> QED  BY ONLY <2>2 DEF d
<1> QED  BY <1>1, <1>5

LEMMA HolderMoves ==
    ASSUME EventsInv, JobMoves, SameAttempt, Rest,
           NEW w \in Workers, worker[w].at # "idle", HoldsLease(w),
           NEW state \in {"DELIVERED", "FAILED", "CANCELLED", "PENDING"},
           Put(w, Free(state)),
           state = "DELIVERED" =>
               /\ <<worker[w].generation, worker[w].callback>> \in announced
               /\ job'.state \notin WaitingStates
    PROVE  /\ Moves
           /\ worker[w].generation = job.generation
           /\ delivery'[job.generation][worker[w].callback] = Free(state)
<1> PICK g \in Generations, c \in Callbacks :
        g = worker[w].generation /\ c = worker[w].callback
  BY WorkerFacts
<1>1. /\ delivery[g][c].state = "DELIVERING"
      /\ delivery' = [delivery EXCEPT ![g][c] = Free(state)]
  BY DEF HoldsLease, Delivery, Put
<1>2. MadeIfReceived(g, c, state)
  BY DEF MadeIfReceived
<1>3. /\ g \in Generations /\ c \in Callbacks
      /\ state \in {"DELIVERED", "FAILED", "CANCELLED", "PENDING"}
      /\ EventsInv /\ JobMoves /\ SameAttempt /\ Rest
  OBVIOUS
<1>4. Moves /\ g = job.generation /\ delivery'[g][c] = Free(state)
  BY ONLY <1>1, <1>2, <1>3, EndMoves
<1> QED  BY <1>4

LEMMA AcknowledgeInv ==
    ASSUME EventsInv, JobTypeOK', ContextOK', NEW w \in Workers, Acknowledge(w)
    PROVE  EventsInv'
<1>1. /\ UNCHANGED <<announced, subscription, granted, crashes>>
      /\ TypeOK /\ JobTypeOK /\ worker[w].at = "acknowledge" /\ Finish(w)
      /\ worker[w].generation = job.generation
  BY DEF EventsInv, TypeOK, Acknowledge, Stale
<1>2. /\ worker' \in [Workers -> WorkerRecords]
      /\ OthersKeep(w) /\ WorkerSound(w)'
  BY <1>1, Finished, IdleSound
<1>3. Rest
  BY <1>1, <1>2, KeepsRest
<1>4. <<worker[w].generation, worker[w].callback>> \in announced
  BY <1>1 DEF EventsInv, WorkerSound
<1>5. CASE ~HoldsLease(w)
  BY <1>2, <1>3, <1>5, QuietStepInv DEF Acknowledge, jobVars
<1>6. CASE HoldsLease(w)
  <2>1. Put(w, Free("DELIVERED"))
    BY <1>6 DEF Acknowledge
  <2>2. Notified \/ (job.state \notin WaitingStates /\ UNCHANGED jobVars)
    BY <1>6 DEF Acknowledge
  <2>3. /\ SameAttempt /\ job'.state \notin WaitingStates
        /\ job'.error = job.error
        /\ job'.state # "NOTIFIED" \/ job.state = "NOTIFIED" \/ Notified
    BY <1>1, <2>2 DEF Notified, jobVars, JobTypeOK, SameAttempt, WaitingStates
  <2>4. delivery'[job.generation][worker[w].callback] = Free("DELIVERED")
    <3>1. /\ worker[w].callback \in Callbacks /\ worker[w].generation \in Generations
          /\ delivery \in [Generations -> [Callbacks -> DeliveryRecords]]
      BY <1>1, WorkerFacts, Types
    <3> QED  BY <1>1, <2>1, <3>1 DEF Put
  <2>5. \E c \in Callbacks : delivery'[job'.generation][c].state = "DELIVERED"
    BY <1>1, <2>3, <2>4, WorkerFacts DEF SameAttempt, Free
  <2>6. JobMoves
    BY <2>3, <2>5 DEF JobMoves
  <2>7. Moves
    BY <1>1, <1>3, <1>4, <1>6, <2>1, <2>3, <2>6, HolderMoves
  <2> QED  BY <1>2, <2>7, Conclude
<1> QED  BY <1>5, <1>6

LEMMA SettleInv ==
    ASSUME EventsInv, JobTypeOK', ContextOK', NEW w \in Workers, Settle(w)
    PROVE  EventsInv'
<1>1. /\ UNCHANGED <<job, announced, subscription, granted, crashes>>
      /\ TypeOK /\ worker[w].at = "settle"
      /\ worker \in [Workers -> WorkerRecords]
  BY Types DEF EventsInv, Settle, jobVars
<1>2. CASE ~HoldsLease(w)
  <2>1. Finish(w) /\ UNCHANGED delivery
    BY <1>2 DEF Settle
  <2>2. /\ worker' \in [Workers -> WorkerRecords]
        /\ OthersKeep(w) /\ WorkerSound(w)'
    BY <1>1, <2>1, Finished, IdleSound
  <2> QED  BY <1>1, <2>1, <2>2, KeepsRest, QuietStepInv
<1>3. CASE HoldsLease(w)
  <2> PICK state : state = StateAfter(worker[w].outcome)
    OBVIOUS
  <2>1. state \in {"FAILED", "CANCELLED", "PENDING"}
    BY DEF StateAfter
  <2>2. Put(w, Free(state))
    BY <1>3 DEF Settle
  <2>3. CASE worker[w].outcome = "rejected"
    <3>1. Goto(w, "count") /\ state = "FAILED"
      BY <1>3, <2>3 DEF Settle, StateAfter
    <3>2. /\ worker' \in [Workers -> WorkerRecords]
          /\ OthersKeep(w) /\ worker'[w].at = "count"
          /\ worker'[w].generation = worker[w].generation
          /\ worker'[w].callback = worker[w].callback
      BY <1>1, <3>1, Gone
    <3>3. Rest
      BY <1>1, <3>2, KeepsRest
    <3>4. /\ Moves
          /\ worker[w].generation = job.generation
          /\ delivery'[job.generation][worker[w].callback] = Free("FAILED")
      <4>1. JobMoves /\ SameAttempt
        BY <1>1, KeepsJob
      <4>2. Put(w, Free("FAILED"))
        BY <2>2, <3>1
      <4> QED  BY <1>1, <1>3, <3>3, <4>1, <4>2, HolderMoves
    <3>5. WorkerSound(w)'
      <4>1. job'.generation = job.generation
        BY <1>1
      <4>2. Delivery(w)'.state = "FAILED"
        BY <3>2, <3>4 DEF Delivery, Free
      <4>3. worker[w].generation <= job.generation /\ worker[w].callback \in Callbacks
        BY <1>1, WorkerFacts
      <4> QED  BY <3>2, <4>1, <4>2, <4>3 DEF WorkerSound
    <3> QED  BY <3>2, <3>4, <3>5, Conclude
  <2>4. CASE worker[w].outcome # "rejected"
    <3>1. Finish(w)
      BY <1>3, <2>4 DEF Settle
    <3>2. /\ worker' \in [Workers -> WorkerRecords]
          /\ OthersKeep(w) /\ WorkerSound(w)'
      BY <1>1, <3>1, Finished, IdleSound
    <3>3. Moves
      BY <1>1, <1>3, <2>1, <2>2, <3>2, KeepsRest, KeepsJob, HolderMoves
    <3> QED  BY <3>2, <3>3, Conclude
  <2> QED  BY <2>3, <2>4
<1> QED  BY <1>2, <1>3

LEMMA CountOthersInv ==
    ASSUME EventsInv, JobTypeOK', ContextOK', NEW w \in Workers, CountOthers(w)
    PROVE  EventsInv'
<1>1. /\ UNCHANGED <<job, announced, subscription, granted, delivery, crashes>>
      /\ TypeOK /\ worker[w].at = "count"
      /\ Finish(w) \/ Goto(w, "fail")
  BY DEF EventsInv, CountOthers, jobVars
<1>2. CASE Finish(w)
  <2>1. /\ worker' \in [Workers -> WorkerRecords]
        /\ OthersKeep(w) /\ WorkerSound(w)'
    BY <1>1, <1>2, Finished, IdleSound
  <2> QED  BY <1>1, <2>1, KeepsRest, QuietStepInv
<1>3. CASE Goto(w, "fail")
  <2>1. /\ worker' \in [Workers -> WorkerRecords]
        /\ OthersKeep(w) /\ worker'[w].at = "fail"
        /\ worker'[w].generation = worker[w].generation
        /\ worker'[w].callback = worker[w].callback
    BY <1>1, <1>3, Gone
  <2>2. WorkerSound(w)'
    <3>1. WorkerSound(w)
      BY DEF EventsInv
    <3> QED  BY <1>1, <2>1, <3>1 DEF WorkerSound, Delivery
  <2> QED  BY <1>1, <2>1, <2>2, KeepsRest, QuietStepInv
<1> QED  BY <1>1, <1>2, <1>3

LEMMA FailJobInv ==
    ASSUME EventsInv, JobTypeOK', ContextOK', NEW w \in Workers, FailJob(w)
    PROVE  EventsInv'
<1>1. /\ UNCHANGED <<announced, subscription, granted, delivery, crashes>>
      /\ TypeOK /\ JobTypeOK /\ worker[w].at = "fail" /\ Finish(w)
  BY DEF EventsInv, TypeOK, FailJob
<1>2. /\ worker' \in [Workers -> WorkerRecords]
      /\ OthersKeep(w) /\ WorkerSound(w)'
  BY <1>1, Finished, IdleSound
<1>3. CASE UNCHANGED jobVars
  BY <1>1, <1>2, <1>3, KeepsRest, QuietStepInv DEF jobVars
<1>4. CASE ~Stale(w) /\ Rejected
  <2>1. SameAttempt /\ job'.state = "ERROR"
    BY <1>1, <1>4 DEF Rejected, JobTypeOK, SameAttempt
  <2>2. worker[w].generation = job.generation
    BY <1>4 DEF Stale
  <2>3. Delivery(w).state = "FAILED" /\ worker[w].callback \in Callbacks
    BY <1>1, <2>2, WorkerFacts DEF EventsInv, WorkerSound
  <2>4. delivery[job.generation][worker[w].callback].state = "FAILED"
    BY <2>2, <2>3 DEF Delivery
  <2>5. \E c \in Callbacks : delivery'[job'.generation][c].state = "FAILED"
    BY <1>1, <2>1, <2>3, <2>4 DEF SameAttempt
  <2>6. JobMoves
    BY <2>1, <2>5 DEF JobMoves, WaitingStates
  <2>7. Moves
    BY <1>1, <1>2, <2>1, <2>6, KeepsRest, KeepsDelivery
  <2> QED  BY <1>2, <2>7, Conclude
<1> QED  BY <1>3, <1>4 DEF FailJob

LEMMA EventsNextInv == EventsInv /\ [Next]_vars => EventsInv'
<1> SUFFICES ASSUME EventsInv, [Next]_vars  PROVE EventsInv'
  OBVIOUS
<1>1. JobTypeOK' /\ ContextOK'
  BY StepTypes, StepContext DEF EventsInv
<1>2. CASE UNCHANGED vars
  <2>1. Rest
    BY <1>2, Types, KeepsRest DEF EventsInv, vars
  <2>2. Moves
    BY <1>2, <2>1, KeepsJob, KeepsDelivery DEF vars
  <2> QED  BY <1>1, <1>2, <2>2, ConcludeAlone DEF vars
<1>3. CASE Next
  BY <1>1, <1>3, NewAttemptInv, OtherCommandInv, EnvironmentInv, FindEventInv,
     ClaimInv, LeaseRunsOutInv, CrashInv, InsertInv, CheckJobInv, PostInv,
     StepFailsInv, AcknowledgeInv, AcknowledgeFailsInv, SettleInv, CountOthersInv, FailJobInv
     DEF Next, Step, Environment
<1> QED  BY <1>2, <1>3

-----------------------------------------------------------------------------
(***************************************************************************)
(* The inductive invariant of delivery.                                    *)
(***************************************************************************)
THEOREM EventsInvariant == Spec => []EventsInv
<1> QED  BY EventsInitInv, EventsNextInv, PTL DEF Spec

(***************************************************************************)
(* Leases, deliveries and workers are well-formed: in particular a         *)
(* delivery has a lease exactly while it is being made.                    *)
(***************************************************************************)
THEOREM EventsTypes == Spec => []TypeOK
<1>1. EventsInv => TypeOK
  BY DEF EventsInv
<1> QED  BY <1>1, EventsInvariant, PTL

(***************************************************************************)
(* No delivery of a superseded attempt is, or becomes, open.               *)
(***************************************************************************)
THEOREM EventsSuperseded == Spec => []SupersededStopped
<1>1. EventsInv => SupersededStopped
  BY DEF EventsInv
<1> QED  BY <1>1, EventsInvariant, PTL

(***************************************************************************)
(* A delivery that is recorded as made was received.                       *)
(***************************************************************************)
THEOREM EventsReceived == Spec => []DeliveredWasReceived
<1>1. EventsInv => DeliveredWasReceived
  BY DEF EventsInv
<1> QED  BY <1>1, EventsInvariant, PTL

(***************************************************************************)
(* A notified job has a delivered event of its attempt, a waiting one none.*)
(***************************************************************************)
THEOREM EventsNotified == Spec => []NotifiedMeansDelivered
<1>1. EventsInv => NotifiedMeansDelivered
  BY DEF EventsInv
<1> QED  BY <1>1, EventsInvariant, PTL

(***************************************************************************)
(* A rejection that a job shows is one of its current attempt.             *)
(***************************************************************************)
THEOREM EventsRejection == Spec => []RejectionIsCurrent
<1>1. EventsInv => RejectionIsCurrent
  BY DEF EventsInv
<1> QED  BY <1>1, EventsInvariant, PTL

(***************************************************************************)
(* Delivery implements the job: whatever the workers, the callbacks and    *)
(* the crashes do, the job takes only the steps of McpJobs.                *)
(***************************************************************************)
THEOREM EventsImplementJob == Spec => JobSpec
<1>1. Init => JobInit
  BY DEF Init
<1> QED  BY <1>1, StepRefines, EventsInvariant, PTL DEF Spec, JobSpec

-----------------------------------------------------------------------------
\* What HolderSettles says of one delivery.
EndedByHolder(g, c) ==
    LET before == delivery[g][c] IN
    (/\ before.state \in Open
     /\ delivery'[g][c].state \in {"DELIVERED", "FAILED", "PENDING"}
     /\ delivery'[g][c] # before)
       => worker'[before.lease] # worker[before.lease]

LEMMA PutByHolder ==
    ASSUME TypeOK, NEW w \in Workers, NEW d, HoldsLease(w), Put(w, d),
           worker'[w] # worker[w], worker[w].generation \in Generations,
           worker[w].callback \in Callbacks,
           NEW g \in Generations, NEW c \in Callbacks
    PROVE  EndedByHolder(g, c)
<1>1. delivery \in [Generations -> [Callbacks -> DeliveryRecords]]
  BY Types
<1>2. CASE g = worker[w].generation /\ c = worker[w].callback
  <2>1. delivery[g][c].lease = w
    BY <1>2 DEF HoldsLease, Delivery
  <2> QED  BY <2>1 DEF EndedByHolder
<1>3. CASE ~(g = worker[w].generation /\ c = worker[w].callback)
  <2>1. delivery'[g][c] = delivery[g][c]
    BY <1>1, <1>3 DEF Put
  <2> QED  BY <2>1 DEF EndedByHolder
<1> QED  BY <1>2, <1>3

LEMMA StepEndedByHolder ==
    ASSUME EventsInv, Next, NEW g \in Generations, NEW c \in Callbacks
    PROVE  EndedByHolder(g, c)
<1> DEFINE kept == delivery'[g][c] = delivery[g][c]
<1>1. /\ TypeOK
      /\ delivery \in [Generations -> [Callbacks -> DeliveryRecords]]
      /\ worker \in [Workers -> WorkerRecords]
  BY Types DEF EventsInv
<1>2. ASSUME kept  PROVE EndedByHolder(g, c)
  BY <1>2 DEF EndedByHolder
<1>3. ASSUME delivery'[g][c].state \in {"CANCELLED", "DELIVERING"}
      PROVE  EndedByHolder(g, c)
  BY <1>3 DEF EndedByHolder
<1>4. ASSUME Superseded  PROVE EndedByHolder(g, c)
  <2>1. kept \/ delivery'[g][c] = Free("CANCELLED")
    BY <1>4 DEF Superseded
  <2>2. kept \/ delivery'[g][c].state = "CANCELLED"
    BY <2>1 DEF Free
  <2> QED  BY <1>2, <1>3, <2>2
<1>5. ASSUME UNCHANGED delivery  PROVE EndedByHolder(g, c)
  BY <1>2, <1>5
<1>6. ASSUME NEW w \in Workers, InsertDelivery(w)  PROVE EndedByHolder(g, c)
  <2>1. worker[w].generation \in Generations /\ worker[w].callback \in Callbacks
    BY <1>1, <1>6, WorkerFacts DEF InsertDelivery
  <2>2. CASE Put(w, Free("CANCELLED"))
    <3>1. kept \/ delivery'[g][c] = Free("CANCELLED")
      BY <1>1, <2>1, <2>2 DEF Put
    <3>2. kept \/ delivery'[g][c].state = "CANCELLED"
      BY <3>1 DEF Free
    <3> QED  BY <1>2, <1>3, <3>2
  <2>3. CASE Delivery(w).state = "NONE" /\ \E d : Put(w, d)
    <3>1. kept \/ (g = worker[w].generation /\ c = worker[w].callback)
      BY <1>1, <2>1, <2>3 DEF Put
    <3>2. kept \/ delivery[g][c].state = "NONE"
      BY <2>3, <3>1 DEF Delivery
    <3> QED  BY <1>2, <3>2 DEF EndedByHolder, Open
  <2>4. CASE UNCHANGED delivery
    BY <1>5, <2>4
  <2> QED  BY <1>6, <2>2, <2>3, <2>4 DEF InsertDelivery
<1>7. ASSUME NEW w \in Workers, NEW h \in Generations, NEW e \in Callbacks,
             Claim(w, h, e)
      PROVE  EndedByHolder(g, c)
  <2>1. kept \/ delivery'[g][c] = [state |-> "DELIVERING", lease |-> w, over |-> FALSE]
    BY <1>1, <1>7 DEF Claim
  <2>2. kept \/ delivery'[g][c].state = "DELIVERING"
    BY <2>1
  <2> QED  BY <1>2, <1>3, <2>2
<1>8. ASSUME NEW h \in Generations, NEW e \in Callbacks, LeaseRunsOut(h, e)
      PROVE  EndedByHolder(g, c)
  <2>1. delivery[h][e].state = "DELIVERING"
    BY <1>1, <1>8, Types DEF LeaseRunsOut, WellLeased
  <2>2. CASE g = h /\ c = e
    <3>1. delivery' = [delivery EXCEPT ![g][c] = [delivery[g][c] EXCEPT !.over = TRUE]]
      BY <1>1, <1>8, <2>2 DEF LeaseRunsOut
    <3>2. delivery'[g][c] = [delivery[g][c] EXCEPT !.over = TRUE]
      BY <1>1, <3>1
    <3>3. delivery'[g][c].state = "DELIVERING"
      BY <1>1, <2>1, <2>2, <3>2 DEF DeliveryRecords
    <3> QED  BY <1>3, <3>3
  <2>3. CASE ~(g = h /\ c = e)
    <3>1. kept
      BY <1>1, <1>8, <2>3 DEF LeaseRunsOut
    <3> QED  BY <1>2, <3>1
  <2> QED  BY <2>2, <2>3
<1>9. ASSUME NEW w \in Workers, Acknowledge(w) \/ Settle(w)
      PROVE  EndedByHolder(g, c)
  <2>1. worker[w].at \in {"acknowledge", "settle"}
    BY <1>9 DEF Acknowledge, Settle
  <2>2. worker'[w].at \in {"idle", "count"}
    <3>1. Finish(w) \/ Goto(w, "count")
      BY <1>9 DEF Acknowledge, Settle
    <3> QED  BY <1>1, <3>1, Finished, Gone DEF Idle
  <2>3. worker'[w] # worker[w]
    BY <2>1, <2>2
  <2>4. CASE UNCHANGED delivery
    BY <1>5, <2>4
  <2>5. CASE HoldsLease(w) /\ \E d : Put(w, d)
    <3>1. worker[w].generation \in Generations /\ worker[w].callback \in Callbacks
      BY <1>1, <2>1, WorkerFacts
    <3> QED  BY <1>1, <2>3, <2>5, <3>1, PutByHolder
  <2> QED  BY <1>9, <2>4, <2>5 DEF Acknowledge, Settle
<1>10. CASE OwnerRetries \/ OwnerClarifies
  BY <1>4, <1>10 DEF OwnerRetries, OwnerClarifies
<1>11. CASE \/ OwnerCancels \/ ExecutorActs \/ Environment
            \/ \E w \in Workers, h \in Generations, e \in Callbacks : FindEvent(w, h, e)
  BY <1>5, <1>11 DEF OwnerCancels, ExecutorActs, Environment, AccessChanges, PinChanges,
                     Subscribes, OthersChange, FindEvent
<1>12. CASE \E w \in Workers :
              \/ CheckJob(w) \/ Post(w) \/ PostFails(w) \/ PostRejected(w)
              \/ AcknowledgeFails(w) \/ CountOthers(w) \/ FailJob(w) \/ Crash(w)
              \/ StepFails(w)
  BY <1>5, <1>12 DEF CheckJob, Post, PostFails, PostRejected, AcknowledgeFails,
                     CountOthers, FailJob, Crash, StepFails
<1> QED  BY <1>6, <1>7, <1>8, <1>9, <1>10, <1>11, <1>12
            DEF Next, Step, Environment

(***************************************************************************)
(* A delivery ends as made, failed or to be retried only in a step of the  *)
(* worker that holds its lease.                                            *)
(***************************************************************************)
THEOREM EventsHolder == Spec => HolderSettles
<1>1. ASSUME EventsInv, [Next]_vars
      PROVE  [\A g \in Generations, c \in Callbacks :
                LET before == delivery[g][c] IN
                (/\ before.state \in Open
                 /\ delivery'[g][c].state \in {"DELIVERED", "FAILED", "PENDING"}
                 /\ delivery'[g][c] # before)
                   => worker'[before.lease] # worker[before.lease]]_vars
  BY <1>1, StepEndedByHolder DEF EndedByHolder
<1> QED  BY <1>1, EventsInvariant, PTL DEF Spec, HolderSettles
=============================================================================
