------------------------ MODULE RunsAndUploadsProofs ------------------------
(***************************************************************************)
(* The properties of the two parts that hand work on by a claim with a     *)
(* lease: AiRuns, for every number of runs, workers, calls and claims and  *)
(* every history the runs begin with, and UploadSessions, for every number *)
(* of requests and parts and every set of names.  The two share no state:  *)
(* the first half is about AiRuns, the second, which begins at Statuses,   *)
(* about UploadSessions.                                                   *)
(***************************************************************************)
EXTENDS AiRuns, UploadSessions, TLAPS

CallIds == UNION {Calls[r] : r \in Runs}

Pins == [wanted : BOOLEAN, scoped : BOOLEAN]

RunRecords ==
    [status : Live \cup Settled \cup {"ABSENT"},
     error : {"NONE", "RUN_DEADLINE", "DOCUMENT_COVERAGE_INCOMPLETE"},
     workflow : BOOLEAN, deadline : {"none", "ahead", "past"},
     lease : {"none", "live", "past"}, attempts : Nat,
     dispatch : {"SAFE", "DISPATCHING"}, pin : Pins,
     stage : {"NONE", "READY", "TOOLS", "FINAL"},
     pending : SUBSET CallIds, artifacts : SUBSET CallIds,
     revised : BOOLEAN, resumed : BOOLEAN]

JobRecords ==
    [pc : Working \cup {"idle", "claim", "failed", "view"},
     run : Runs \cup {None}, token : Nat, resumed : BOOLEAN, pin : Pins,
     asked : {"none", "prepare", "ask", "search"}, pending : SUBSET CallIds,
     call : CallIds \cup {None}, answer : SUBSET CallIds,
     artifacts : SUBSET CallIds, misses : Nat,
     error : {"NONE", "FAILED", "SHUTDOWN"}]

TypeOK ==
    /\ run \in [Runs -> RunRecords]
    /\ files \in [Runs -> SUBSET CallIds]
    /\ receipts \in [Runs -> SUBSET CallIds]
    /\ job \in [Workers -> JobRecords]
    /\ \A w \in Workers : job[w].pc # "idle" => job[w].run \in Runs
    /\ \A w \in Workers : job[w].pc \in {"draft", "reload", "ran", "search"} =>
          job[w].call # None
    /\ \A w \in Workers : job[w].pc = "failed" => job[w].error # "NONE"
    /\ open \in [Runs -> [BOOLEAN -> SUBSET Nat]]

(***************************************************************************)
(* A row: what it lists is stored; it is SAFE only while no request of it  *)
(* is open since it was last resumed, which happens once; one without a    *)
(* checkpoint has no call pending.                                         *)
(***************************************************************************)
RowOK(r) ==
    /\ run[r].status = "QUEUED" => run[r].dispatch = "SAFE"
    /\ run[r].dispatch = "SAFE" => open[r][run[r].resumed] = {}
    /\ ~run[r].resumed => open[r][TRUE] = {}
    /\ run[r].resumed => run[r].deadline = "none" /\ run[r].error # "RUN_DEADLINE"
    /\ \A resumed \in BOOLEAN : \A t, u \in open[r][resumed] : t = u
    /\ run[r].artifacts = files[r]
    /\ run[r].pin.wanted /\ run[r].status = "COMPLETED" => files[r] # {}
    /\ run[r].stage = "NONE" => run[r].pending = {}

\* The run was neither claimed nor resumed since this worker claimed it.
Current(w) ==
    /\ run[job[w].run].attempts = job[w].token
    /\ run[job[w].run].resumed = job[w].resumed

\* About to ask, where only this claim can have asked before.
Fresh(w) == job[w].pc = "prepare" /\ job[w].asked = "none"

(***************************************************************************)
(* What a worker may rely on between two steps.  While its claim is the    *)
(* last one, its memory agrees with the row; one about to send has the row *)
(* marked, unless the user resumed the run, and only its own requests are  *)
(* open.  One that asked before the first checkpoint keeps the row marked  *)
(* and without a checkpoint, so nobody claims or resumes the run.          *)
(***************************************************************************)
WorkerOK(w) ==
    LET row == run[job[w].run] IN
    job[w].pc \in Working =>
      /\ job[w].token <= row.attempts
      /\ job[w].resumed => row.resumed
      /\ row.status = "RUNNING" /\ row.attempts = job[w].token => Current(w)
      /\ Current(w) /\ (job[w].pc \in {"ask", "search", "tools", "complete"}
                         \/ Fresh(w)) => row.dispatch = "SAFE"
      /\ Current(w) /\ job[w].pc # "reload" => job[w].artifacts = row.artifacts
      /\ Current(w) => job[w].pin = row.pin
      /\ Current(w) /\ job[w].pc = "prepare" => row.stage = "NONE"
      /\ job[w].pc = "send" =>
            /\ open[job[w].run][job[w].resumed] \subseteq {job[w].token}
            /\ row.resumed = job[w].resumed =>
                  Current(w) /\ row.dispatch = "DISPATCHING"
      /\ job[w].asked = "prepare" =>
            /\ Current(w) /\ row.dispatch = "DISPATCHING" /\ row.stage = "NONE"
            /\ open[job[w].run][job[w].resumed] \subseteq {job[w].token}
      /\ job[w].asked # "none" => job[w].pc \in {"prepare", "send", "wait"}
      /\ job[w].pc = "prepare" => job[w].asked \in {"none", "prepare"}
      /\ job[w].asked = "search" => job[w].call # None
      /\ job[w].pc = "complete" /\ job[w].pin.wanted =>
            job[w].artifacts # {}

Apart(v, w) ==
    job[v].pc \in Working /\ job[w].pc \in Working /\ job[v].run = job[w].run =>
      /\ job[v].token # job[w].token
      /\ job[v].pc = "send" /\ job[w].pc = "send" => job[v].resumed # job[w].resumed

RunsInv ==
    /\ TypeOK
    /\ \A r \in Runs : RowOK(r)
    /\ \A w \in Workers : WorkerOK(w)
    /\ \A v, w \in Workers : v # w => Apart(v, w)
    /\ OneLive

-----------------------------------------------------------------------------
(* What each step does to a row and to a worker, and that types are kept.  *)

LEMMA CallsAreIds == \A r \in Runs : Calls[r] \subseteq CallIds
BY DEF CallIds

LEMMA NoneIsNothing == None \notin CallIds /\ None \notin Runs
BY NoneAssumption DEF CallIds

\* Only w's memory changes, and to j.
Becomes(w, j) ==
    /\ job' \in [Workers -> JobRecords]
    /\ job'[w] = j
    /\ \A v \in Workers \ {w} : job'[v] = job[v]

\* Only r's row changes, and to row.
Turns(r, row) ==
    /\ run' \in [Runs -> RunRecords]
    /\ run'[r] = row
    /\ \A q \in Runs \ {r} : run'[q] = run[q]

LEMMA JobTypes ==
    ASSUME TypeOK, NEW w \in Workers, NEW j \in JobRecords,
           job' = [job EXCEPT ![w] = j]
    PROVE  Becomes(w, j)
BY DEF TypeOK, Becomes

LEMMA RowTypes ==
    ASSUME TypeOK, NEW r \in Runs, NEW row \in RunRecords,
           run' = [run EXCEPT ![r] = row]
    PROVE  Turns(r, row)
BY DEF TypeOK, Turns

LEMMA IdleTypes == Idle \in JobRecords /\ Idle.pc = "idle"
BY DEF Idle, JobRecords, Pin, Pins

LEMMA TypeInit == Init => TypeOK
<1> SUFFICES ASSUME Init PROVE TypeOK  OBVIOUS
<1>1. \A d \in {"none", "ahead"}, pin \in Pins :
         Row("QUEUED", d, pin) \in RunRecords /\ Row("ABSENT", d, pin) \in RunRecords
  BY DEF Row, RunRecords, Live, Settled
<1>4. \A r \in Runs : Pin(r \in Wanted, r \in Scoped) \in Pins
  BY DEF Pin, Pins
<1>2. run \in [Runs -> RunRecords]
  BY <1>1, <1>4 DEF Init
<1>3. job \in [Workers -> JobRecords] /\ \A w \in Workers : job[w].pc = "idle"
  BY IdleTypes DEF Init
<1> QED  BY <1>2, <1>3 DEF Init, TypeOK

LEMMA TypeKept ==
    ASSUME TypeOK, NEW w \in Workers, NEW j \in JobRecords, Becomes(w, j),
           j.pc # "idle" => j.run \in Runs,
           j.pc \in {"draft", "reload", "ran", "search"} => j.call # None,
           j.pc = "failed" => j.error # "NONE",
           run' \in [Runs -> RunRecords], files' \in [Runs -> SUBSET CallIds],
           receipts' \in [Runs -> SUBSET CallIds],
           open' \in [Runs -> [BOOLEAN -> SUBSET Nat]]
    PROVE  TypeOK'
BY DEF TypeOK, Becomes

LEMMA WorkerFields ==
    ASSUME TypeOK, NEW w \in Workers, job[w].pc # "idle"
    PROVE  /\ job[w] \in JobRecords /\ job[w].run \in Runs
           /\ job[w].token \in Nat /\ job[w].resumed \in BOOLEAN
           /\ job[w].pending \in SUBSET CallIds
           /\ job[w].answer \in SUBSET CallIds
           /\ job[w].artifacts \in SUBSET CallIds /\ job[w].misses \in Nat
           /\ job[w].pin \in Pins
           /\ job[w].asked \in {"none", "prepare", "ask", "search"}
           /\ job[w].call \in CallIds \cup {None}
           /\ job[w].pc \in {"draft", "reload", "ran", "search"} =>
                 job[w].call \in CallIds
           /\ job[w].pc = "failed" => job[w].error \in {"FAILED", "SHUTDOWN"}
BY DEF TypeOK, JobRecords

LEMMA RowFields ==
    ASSUME TypeOK, NEW r \in Runs
    PROVE  /\ run[r] \in RunRecords /\ run[r].attempts \in Nat
           /\ run[r].pending \in SUBSET CallIds
           /\ run[r].artifacts \in SUBSET CallIds
           /\ run[r].resumed \in BOOLEAN /\ run[r].revised \in BOOLEAN
           /\ run[r].stage \in {"NONE", "READY", "TOOLS", "FINAL"}
           /\ run[r].dispatch \in {"SAFE", "DISPATCHING"}
           /\ run[r].pin \in Pins
           /\ open[r] \in [BOOLEAN -> SUBSET Nat]
BY DEF TypeOK, RunRecords

LEMMA AskedAgain ==
    ASSUME NEW old \in JobRecords, NEW n \in Nat
    PROVE  [old EXCEPT !.pc = "round", !.misses = n] \in JobRecords
BY DEF JobRecords, Working

LEMMA SendStep ==
    ASSUME TypeOK, NEW w \in Workers, Send(w)
    PROVE  TypeOK' /\ Becomes(w, [job[w] EXCEPT !.pc = "wait"])
<1> DEFINE j == [job[w] EXCEPT !.pc = "wait"]
<1>1. job[w].pc # "idle"
  BY DEF Send, Working
<1>2. /\ j \in JobRecords /\ j.run = job[w].run /\ j.call = job[w].call
      /\ j.pc = "failed" => j.error # "NONE"
  BY <1>1, WorkerFields, RowFields DEF JobRecords, Working
<1>3. job' = [job EXCEPT ![w] = j]
  BY <1>1, WorkerFields DEF Send, TypeOK, JobRecords
<1>4. Becomes(w, j)
  BY <1>2, <1>3, JobTypes
<1>5. TypeOK'
  BY <1>1, <1>2, <1>4, WorkerFields, RowFields DEF Becomes, TypeOK, Send
<1> QED  BY <1>4, <1>5

LEMMA ReplayDraftStep ==
    ASSUME TypeOK, NEW w \in Workers, ReplayDraft(w)
    PROVE  TypeOK' /\ Becomes(w, [job[w] EXCEPT !.pc = "reload"])
<1> DEFINE j == [job[w] EXCEPT !.pc = "reload"]
<1>1. job[w].pc # "idle"
  BY DEF ReplayDraft, Working
<1>2. /\ j \in JobRecords /\ j.run = job[w].run /\ j.call = job[w].call
      /\ j.pc = "failed" => j.error # "NONE"
  BY <1>1, WorkerFields DEF JobRecords, Working
<1>3. job' = [job EXCEPT ![w] = j]
  BY <1>1, WorkerFields DEF ReplayDraft, TypeOK, JobRecords
<1>4. Becomes(w, j)
  BY <1>2, <1>3, JobTypes
<1>5. TypeOK'
  BY <1>1, <1>2, <1>4, WorkerFields DEF Becomes, TypeOK, ReplayDraft
<1> QED  BY <1>4, <1>5

LEMMA ArchiveStep ==
    ASSUME TypeOK, NEW w \in Workers, Archive(w)
    PROVE  TypeOK' /\ Becomes(w, [job[w] EXCEPT !.pc = "archived"])
<1> DEFINE j == [job[w] EXCEPT !.pc = "archived"]
<1>1. job[w].pc # "idle"
  BY DEF Archive, Working
<1>2. /\ j \in JobRecords /\ j.run = job[w].run /\ j.call = job[w].call
      /\ j.pc = "failed" => j.error # "NONE"
  BY <1>1, WorkerFields DEF JobRecords, Working
<1>3. job' = [job EXCEPT ![w] = j]
  BY <1>1, WorkerFields DEF Archive, TypeOK, JobRecords
<1>4. Becomes(w, j)
  BY <1>2, <1>3, JobTypes
<1>5. TypeOK'
  BY <1>1, <1>2, <1>4, WorkerFields DEF Becomes, TypeOK, Archive
<1> QED  BY <1>4, <1>5

\* What the cleanup and the last view are left with.
LEMMA FailedTypes ==
    ASSUME TypeOK, NEW w \in Workers, job[w].pc # "idle",
           NEW error \in {"FAILED", "SHUTDOWN"}
    PROVE  /\ Failed(w, error) \in JobRecords /\ Failed(w, error).run = job[w].run
           /\ Failed(w, error).pc = "failed" /\ Failed(w, error).error # "NONE"
<1>1. /\ job[w].run \in Runs /\ job[w].token \in Nat
      /\ job[w].call \in CallIds \cup {None}
  BY WorkerFields
<1> QED  BY <1>1, IdleTypes DEF Failed, Idle, JobRecords

LEMMA ViewedTypes ==
    ASSUME NEW r \in Runs
    PROVE  LET j == [Idle EXCEPT !.pc = "view", !.run = r]
           IN  j \in JobRecords /\ j.run = r /\ j.pc = "view"
BY IdleTypes DEF Idle, JobRecords

LEMMA ThrowStep ==
    ASSUME TypeOK, NEW w \in Workers, Throw(w)
    PROVE  TypeOK' /\ Becomes(w, Failed(w, "FAILED"))
<1> DEFINE j == Failed(w, "FAILED")
<1>1. job[w].pc # "idle"
  BY DEF Throw, Working
<1>2. j \in JobRecords /\ j.run = job[w].run /\ j.pc = "failed" /\ j.error # "NONE"
  BY <1>1, FailedTypes
<1> HIDE DEF j
<1>3. job' = [job EXCEPT ![w] = j]
  BY DEF Throw, j
<1>4. Becomes(w, j)
  BY <1>2, <1>3, JobTypes
<1>5. TypeOK'
  BY <1>1, <1>2, <1>4, WorkerFields, TypeKept DEF TypeOK, Throw
<1> QED  BY <1>4, <1>5 DEF j

LEMMA ShutdownStep ==
    ASSUME TypeOK, NEW w \in Workers, Shutdown(w)
    PROVE  TypeOK' /\ Becomes(w, Failed(w, "SHUTDOWN"))
<1> DEFINE j == Failed(w, "SHUTDOWN")
<1>1. job[w].pc # "idle"
  BY DEF Shutdown, Working
<1>2. j \in JobRecords /\ j.run = job[w].run /\ j.pc = "failed" /\ j.error # "NONE"
  BY <1>1, FailedTypes
<1> HIDE DEF j
<1>3. job' = [job EXCEPT ![w] = j]
  BY DEF Shutdown, j
<1>4. Becomes(w, j)
  BY <1>2, <1>3, JobTypes
<1>5. TypeOK'
  BY <1>1, <1>2, <1>4, WorkerFields, TypeKept DEF TypeOK, Shutdown
<1> QED  BY <1>4, <1>5 DEF j

LEMMA ReloadStep ==
    ASSUME TypeOK, NEW w \in Workers, Reload(w)
    PROVE  /\ TypeOK'
           /\ Becomes(w, [job[w] EXCEPT !.pc = "ran",
                             !.artifacts = run[job[w].run].artifacts])
<1> DEFINE j == [job[w] EXCEPT !.pc = "ran", !.artifacts = run[job[w].run].artifacts]
<1>1. job[w].pc # "idle"
  BY DEF Reload, Working
<1>2. /\ j \in JobRecords /\ j.run = job[w].run /\ j.call = job[w].call
      /\ j.pc = "failed" => j.error # "NONE"
  BY ZenonT(40), <1>1, WorkerFields, RowFields DEF JobRecords, Working
<1>3. job' = [job EXCEPT ![w] = j]
  BY <1>1, WorkerFields DEF Reload, TypeOK, JobRecords
<1>4. Becomes(w, j)
  BY <1>2, <1>3, JobTypes
<1>5. TypeOK'
  BY <1>1, <1>2, <1>4, WorkerFields, RowFields DEF Becomes, TypeOK, Reload
<1> QED  BY <1>4, <1>5

LEMMA AskAgainStep ==
    ASSUME TypeOK, NEW w \in Workers, AskAgain(w)
    PROVE  /\ TypeOK'
           /\ Becomes(w, [job[w] EXCEPT !.pc = "round",
                             !.misses = job[w].misses + 1])
<1> DEFINE j == [job[w] EXCEPT !.pc = "round", !.misses = job[w].misses + 1]
<1>1. job[w].pc # "idle"
  BY DEF AskAgain, Working
<1>2. /\ j \in JobRecords /\ j.run = job[w].run /\ j.call = job[w].call
      /\ j.pc = "failed" => j.error # "NONE"
  <2>1. job[w].misses + 1 \in Nat
    BY <1>1, WorkerFields
  <2>2. j \in JobRecords
    BY <1>1, <2>1, WorkerFields, AskedAgain
  <2> QED  BY <1>1, <2>2, WorkerFields DEF JobRecords
<1>3. job' = [job EXCEPT ![w] = j]
  BY <1>1, WorkerFields DEF AskAgain, TypeOK, JobRecords
<1>4. Becomes(w, j)
  BY <1>2, <1>3, JobTypes
<1>5. TypeOK'
  BY <1>1, <1>2, <1>4, WorkerFields DEF Becomes, TypeOK, AskAgain
<1> QED  BY <1>4, <1>5

LEMMA AnswerStep ==
    ASSUME TypeOK, NEW w \in Workers, Answer(w),
           job[w].asked = "search" => job[w].call # None
    PROVE  /\ TypeOK'
           /\ \E p \in {"prepare", "ran", "conclude", "called"},
                 asked \in {"none", "prepare"}, a \in SUBSET CallIds :
                 /\ Becomes(w, [job[w] EXCEPT !.pc = p, !.asked = asked, !.answer = a])
                 /\ p = "prepare" => asked = "prepare" /\ job[w].asked = "prepare"
                 /\ p # "prepare" => asked = "none"
                 /\ p = "ran" => job[w].asked = "search"
<1>1. job[w].pc # "idle" /\ job[w] \in JobRecords /\ job[w].answer \in SUBSET CallIds
  BY WorkerFields DEF Answer
<1>2. PICK p \in {"prepare", "ran", "conclude", "called"},
           asked \in {"none", "prepare"}, a \in SUBSET CallIds :
         /\ job' = [job EXCEPT ![w] =
                      [job[w] EXCEPT !.pc = p, !.asked = asked, !.answer = a]]
         /\ p = "prepare" => asked = "prepare" /\ job[w].asked = "prepare"
         /\ p # "prepare" => asked = "none"
         /\ p = "ran" => job[w].asked = "search"
  <2>1. CASE job[w].asked = "prepare"
    <3>1. job' = [job EXCEPT ![w] =
             [job[w] EXCEPT !.pc = "prepare", !.asked = "prepare",
                            !.answer = job[w].answer]]
      BY <1>1, <2>1 DEF Answer, TypeOK, JobRecords
    <3> QED  BY <1>1, <2>1, <3>1
  <2>2. CASE job[w].asked = "search"
    <3>1. job' = [job EXCEPT ![w] =
             [job[w] EXCEPT !.pc = "ran", !.asked = "none",
                            !.answer = job[w].answer]]
      BY <1>1, <2>2 DEF Answer, TypeOK, JobRecords
    <3> QED  BY <1>1, <2>2, <3>1
  <2>3. CASE job[w].asked = "ask"
    <3>1. PICK calls \in SUBSET Calls[job[w].run] :
             job' = [job EXCEPT ![w].answer = calls, ![w].asked = "none",
                        ![w].pc = IF calls = {} THEN "conclude" ELSE "called"]
      BY <2>3 DEF Answer
    <3> DEFINE p == IF calls = {} THEN "conclude" ELSE "called"
    <3>2. job' = [job EXCEPT ![w] =
             [job[w] EXCEPT !.pc = p, !.asked = "none", !.answer = calls]]
      BY <1>1, <3>1 DEF TypeOK, JobRecords
    <3>3. calls \in SUBSET CallIds /\ p \in {"conclude", "called"}
      BY <1>1, WorkerFields, CallsAreIds
    <3> HIDE DEF p
    <3> QED  BY <3>2, <3>3
  <2> QED  BY <2>1, <2>2, <2>3 DEF Answer
<1> DEFINE j == [job[w] EXCEPT !.pc = p, !.asked = asked, !.answer = a]
<1>3. j \in JobRecords /\ j.run = job[w].run /\ j.call = job[w].call /\ j.pc = p
  BY ZenonT(40), <1>1 DEF JobRecords, Working
<1> HIDE DEF j
<1>4. Becomes(w, j)
  BY <1>2, <1>3, JobTypes DEF j
<1>5. p = "ran" => job[w].call # None
  BY <1>2
<1>6. TypeOK'
  BY <1>1, <1>3, <1>4, <1>5, WorkerFields, TypeKept DEF Answer, TypeOK
<1> QED  BY <1>2, <1>4, <1>6 DEF j

LEMMA NextCallStep ==
    ASSUME TypeOK, NEW w \in Workers, NextCall(w)
    PROVE  /\ TypeOK'
           /\ \E p \in {"draft", "search", "ran"}, c \in CallIds :
                 Becomes(w, [job[w] EXCEPT !.pc = p, !.call = c])
<1>1. job[w].pc # "idle" /\ job[w] \in JobRecords
  BY WorkerFields DEF NextCall
<1>2. PICK c \in job[w].pending, p \in {"draft", "search", "ran"} :
         job' = [job EXCEPT ![w].call = c, ![w].pc = p]
  BY DEF NextCall
<1> DEFINE j == [job[w] EXCEPT !.pc = p, !.call = c]
<1>3. c \in CallIds /\ c # None
  BY <1>1, WorkerFields, NoneIsNothing
<1>4. job' = [job EXCEPT ![w] = j]
  BY <1>1, <1>2 DEF TypeOK, JobRecords
<1>5. j \in JobRecords /\ j.run = job[w].run /\ j.call = c /\ j.pc = p
  BY ZenonT(40), <1>1, <1>3, WorkerFields DEF JobRecords, Working
<1>6. Becomes(w, j)
  BY <1>4, <1>5, JobTypes
<1>7. TypeOK'
  <2> HIDE DEF j
  <2> QED  BY <1>1, <1>3, <1>5, <1>6, WorkerFields, TypeKept DEF TypeOK, NextCall
<1> QED  BY <1>3, <1>6, <1>7

-----------------------------------------------------------------------------
(* Steps that write a row. *)

\* The row that a checkpoint of w leaves.
Saved(w, stage, pending) ==
    [run[job[w].run] EXCEPT !.dispatch = "SAFE", !.stage = stage,
                            !.pending = pending, !.artifacts = job[w].artifacts]

\* No request of w's run is open, since it was last resumed, or before.
Closed(w) ==
    /\ open' \in [Runs -> [BOOLEAN -> SUBSET Nat]]
    /\ open'[job[w].run][job[w].resumed] = {}
    /\ \A resumed \in BOOLEAN :
          resumed # job[w].resumed =>
             open'[job[w].run][resumed] = open[job[w].run][resumed]
    /\ \A q \in Runs \ {job[w].run} : open'[q] = open[q]

LEMMA CheckpointStep ==
    ASSUME TypeOK, NEW w \in Workers, job[w].pc # "idle",
           NEW stage \in {"NONE", "READY", "TOOLS", "FINAL"},
           NEW pending \in SUBSET CallIds, Checkpoint(w, stage, pending)
    PROVE  Turns(job[w].run, Saved(w, stage, pending)) /\ Closed(w)
<1> DEFINE r == job[w].run
<1>1. /\ r \in Runs /\ run[r] \in RunRecords
      /\ job[w].artifacts \in SUBSET CallIds /\ job[w].resumed \in BOOLEAN
  BY WorkerFields, RowFields
<1>2. Saved(w, stage, pending) \in RunRecords
  BY <1>1 DEF Saved, RunRecords
<1>3. Turns(r, Saved(w, stage, pending))
  BY <1>1, <1>2, RowTypes DEF Checkpoint, Saved
<1>4. Closed(w)
  BY <1>1 DEF Checkpoint, Closed, TypeOK
<1> QED  BY <1>3, <1>4

LEMMA ReadyStep ==
    ASSUME TypeOK, NEW w \in Workers, Ready(w)
    PROVE  /\ TypeOK' /\ Turns(job[w].run, Saved(w, "READY", {})) /\ Closed(w)
           /\ Becomes(w, [job[w] EXCEPT !.pc = "ask", !.asked = "none",
                                        !.pending = {}])
<1> DEFINE j == [job[w] EXCEPT !.pc = "ask", !.asked = "none", !.pending = {}]
<1>1. job[w].pc # "idle"
  BY DEF Ready
<1>2. Turns(job[w].run, Saved(w, "READY", {})) /\ Closed(w)
  BY <1>1, CheckpointStep DEF Ready
<1>3. j \in JobRecords /\ j.run = job[w].run /\ j.pc = "ask"
  BY ZenonT(40), <1>1, WorkerFields DEF JobRecords, Working
<1>4. job' = [job EXCEPT ![w] = j]
  BY <1>1, WorkerFields DEF Ready, TypeOK, JobRecords
<1>5. Becomes(w, j)
  BY <1>3, <1>4, JobTypes
<1> HIDE DEF j
<1>6. TypeOK'
  BY <1>1, <1>2, <1>3, <1>5, WorkerFields, TypeKept DEF Turns, Closed, Ready, TypeOK
<1> QED  BY <1>2, <1>5, <1>6 DEF j

LEMMA ReadDocumentStep ==
    ASSUME TypeOK, NEW w \in Workers, ReadDocument(w)
    PROVE  /\ TypeOK' /\ Turns(job[w].run, Saved(w, "READY", {})) /\ Closed(w)
           /\ Becomes(w, [job[w] EXCEPT !.pc = "read", !.asked = "none"])
<1> DEFINE j == [job[w] EXCEPT !.pc = "read", !.asked = "none"]
<1>1. job[w].pc # "idle"
  BY DEF ReadDocument
<1>2. Turns(job[w].run, Saved(w, "READY", {})) /\ Closed(w)
  BY <1>1, CheckpointStep DEF ReadDocument
<1>3. j \in JobRecords /\ j.run = job[w].run /\ j.pc = "read"
  BY ZenonT(40), <1>1, WorkerFields DEF JobRecords, Working
<1>4. job' = [job EXCEPT ![w] = j]
  BY <1>1, WorkerFields DEF ReadDocument, TypeOK, JobRecords
<1>5. Becomes(w, j)
  BY <1>3, <1>4, JobTypes
<1> HIDE DEF j
<1>6. TypeOK'
  BY <1>1, <1>2, <1>3, <1>5, WorkerFields, TypeKept DEF Turns, Closed, ReadDocument, TypeOK
<1> QED  BY <1>2, <1>5, <1>6 DEF j

LEMMA ConcludeStep ==
    ASSUME TypeOK, NEW w \in Workers, Conclude(w)
    PROVE  /\ TypeOK' /\ Turns(job[w].run, Saved(w, "FINAL", {})) /\ Closed(w)
           /\ Becomes(w, [job[w] EXCEPT !.pc = "complete"])
<1> DEFINE j == [job[w] EXCEPT !.pc = "complete"]
<1>1. job[w].pc # "idle"
  BY DEF Conclude
<1>2. Turns(job[w].run, Saved(w, "FINAL", {})) /\ Closed(w)
  BY <1>1, CheckpointStep DEF Conclude
<1>3. j \in JobRecords /\ j.run = job[w].run /\ j.pc = "complete"
  BY <1>1, WorkerFields DEF JobRecords, Working
<1>4. job' = [job EXCEPT ![w] = j]
  BY <1>1, WorkerFields DEF Conclude, TypeOK, JobRecords
<1>5. Becomes(w, j)
  BY <1>3, <1>4, JobTypes
<1> HIDE DEF j
<1>6. TypeOK'
  BY <1>1, <1>2, <1>3, <1>5, WorkerFields, TypeKept
    DEF Turns, Closed, Conclude, TypeOK
<1> QED  BY <1>2, <1>5, <1>6 DEF j

LEMMA TakeCallsStep ==
    ASSUME TypeOK, NEW w \in Workers, TakeCalls(w)
    PROVE  /\ TypeOK' /\ Closed(w)
           /\ Turns(job[w].run, Saved(w, "TOOLS", job[w].answer))
           /\ Becomes(w, [job[w] EXCEPT !.pc = "tools",
                             !.pending = job[w].answer, !.answer = {}])
<1> DEFINE j == [job[w] EXCEPT !.pc = "tools", !.pending = job[w].answer, !.answer = {}]
<1>1. job[w].pc # "idle"
  BY DEF TakeCalls
<1>2. Turns(job[w].run, Saved(w, "TOOLS", job[w].answer)) /\ Closed(w)
  BY <1>1, WorkerFields, CheckpointStep DEF TakeCalls
<1>3. j \in JobRecords /\ j.run = job[w].run /\ j.pc = "tools"
  BY ZenonT(40), <1>1, WorkerFields DEF JobRecords, Working
<1>4. job' = [job EXCEPT ![w] = j]
  BY <1>1, WorkerFields DEF TakeCalls, TypeOK, JobRecords
<1>5. Becomes(w, j)
  BY <1>3, <1>4, JobTypes
<1> HIDE DEF j
<1>6. TypeOK'
  BY <1>1, <1>2, <1>3, <1>5, WorkerFields, TypeKept
    DEF Turns, Closed, TakeCalls, TypeOK
<1> QED  BY <1>2, <1>5, <1>6 DEF j

LEMMA CallDoneStep ==
    ASSUME TypeOK, NEW w \in Workers, CallDone(w)
    PROVE  /\ TypeOK' /\ Closed(w)
           /\ \E stage \in {"READY", "TOOLS"}, rest \in SUBSET CallIds,
                 p \in {"round", "tools"} :
                 /\ Turns(job[w].run, Saved(w, stage, rest))
                 /\ Becomes(w, [job[w] EXCEPT !.pc = p, !.pending = rest,
                                              !.call = None])
<1> DEFINE rest == job[w].pending \ {job[w].call}
           stage == IF rest = {} THEN "READY" ELSE "TOOLS"
           p == IF rest = {} THEN "round" ELSE "tools"
           j == [job[w] EXCEPT !.pc = p, !.pending = rest, !.call = None]
<1>1. job[w].pc # "idle"
  BY DEF CallDone
<1>2. rest \in SUBSET CallIds
  BY <1>1, WorkerFields
<1>3. Checkpoint(w, stage, rest)
  BY DEF CallDone
<1>4. job' = [job EXCEPT ![w] = j]
  BY <1>1, WorkerFields DEF CallDone, TypeOK, JobRecords
<1>5. stage \in {"READY", "TOOLS"} /\ p \in {"round", "tools"}
  OBVIOUS
<1> HIDE DEF rest, stage, p
<1>6. Turns(job[w].run, Saved(w, stage, rest)) /\ Closed(w)
  BY <1>1, <1>2, <1>3, <1>5, CheckpointStep
<1>7. j \in JobRecords /\ j.run = job[w].run /\ j.pc = p
  BY ZenonT(40), <1>1, <1>2, <1>5, WorkerFields DEF JobRecords, Working
<1>8. Becomes(w, j)
  BY <1>4, <1>7, JobTypes
<1>9. TypeOK'
  <2> HIDE DEF j
  <2> QED  BY <1>1, <1>5, <1>6, <1>7, <1>8, WorkerFields, TypeKept
             DEF Turns, Closed, CallDone, TypeOK
<1> QED  BY <1>2, <1>5, <1>6, <1>8, <1>9

LEMMA DispatchStep ==
    ASSUME TypeOK, NEW w \in Workers, Dispatch(w)
    PROVE  /\ TypeOK'
           /\ Turns(job[w].run, [run[job[w].run] EXCEPT
                  !.dispatch = "DISPATCHING", !.artifacts = job[w].artifacts])
           /\ Becomes(w, [job[w] EXCEPT !.pc = "send", !.asked = job[w].pc])
<1> DEFINE r == job[w].run
           row == [run[r] EXCEPT !.dispatch = "DISPATCHING",
                                 !.artifacts = job[w].artifacts]
           j == [job[w] EXCEPT !.pc = "send", !.asked = job[w].pc]
<1>1. job[w].pc # "idle"
  BY DEF Dispatch
<1>2. run' = [run EXCEPT ![r] = row]
  BY <1>1, WorkerFields, RowFields DEF Dispatch, TypeOK, RunRecords
<1>3. row \in RunRecords
  <2>1. run[r] \in RunRecords /\ job[w].artifacts \in SUBSET CallIds
    BY <1>1, WorkerFields, RowFields
  <2> QED  BY <2>1 DEF RunRecords
<1>4. Turns(r, row)
  BY <1>1, <1>2, <1>3, WorkerFields, RowTypes
<1>5. j \in JobRecords /\ j.run = job[w].run /\ j.pc = "send"
  <2>1. job[w] \in JobRecords /\ job[w].pc \in {"prepare", "ask", "search"}
    BY <1>1, WorkerFields DEF Dispatch
  <2> QED  BY <2>1 DEF JobRecords, Working
<1>6. Becomes(w, j)
  <2>1. job' = [job EXCEPT ![w] = j]
    BY <1>1, WorkerFields DEF Dispatch, TypeOK, JobRecords
  <2> HIDE DEF j
  <2> QED  BY <1>5, <2>1, JobTypes
<1>7. TypeOK'
  <2> HIDE DEF j, row
  <2> QED  BY <1>1, <1>4, <1>5, <1>6, WorkerFields, TypeKept
             DEF Turns, Dispatch, TypeOK
<1> QED  BY <1>4, <1>6, <1>7

LEMMA SaveDraftStep ==
    ASSUME TypeOK, NEW w \in Workers, SaveDraft(w)
    PROVE  /\ TypeOK'
           /\ Turns(job[w].run, [run[job[w].run] EXCEPT
                  !.artifacts = run[job[w].run].artifacts \cup {job[w].call}])
           /\ files'[job[w].run] = files[job[w].run] \cup {job[w].call}
           /\ \A q \in Runs \ {job[w].run} : files'[q] = files[q]
           /\ Becomes(w, [job[w] EXCEPT !.pc = "reload"])
<1> DEFINE r == job[w].run
           row == [run[r] EXCEPT !.artifacts = run[r].artifacts \cup {job[w].call}]
           j == [job[w] EXCEPT !.pc = "reload"]
<1>1. job[w].pc # "idle" /\ r \in Runs /\ job[w].call \in CallIds
  BY WorkerFields DEF SaveDraft
<1>2. run' = [run EXCEPT ![r] = row]
  BY <1>1, RowFields DEF SaveDraft, TypeOK, RunRecords
<1>3. row \in RunRecords
  BY <1>1, RowFields DEF RunRecords
<1>4. Turns(r, row)
  BY <1>1, <1>2, <1>3, RowTypes
<1>5. j \in JobRecords /\ j.run = job[w].run /\ j.pc = "reload" /\ j.call = job[w].call
  BY <1>1, WorkerFields DEF JobRecords, Working
<1>6. Becomes(w, j)
  BY <1>5, JobTypes DEF SaveDraft
<1>7. /\ files' \in [Runs -> SUBSET CallIds]
      /\ files'[r] = files[r] \cup {job[w].call}
      /\ \A q \in Runs \ {r} : files'[q] = files[q]
  BY <1>1 DEF SaveDraft, TypeOK
<1>8. TypeOK'
  <2> HIDE DEF j, row
  <2> QED  BY ZenonT(40), <1>1, <1>4, <1>5, <1>6, <1>7, TypeKept, NoneIsNothing
             DEF Turns, SaveDraft, TypeOK
<1> QED  BY <1>4, <1>6, <1>7, <1>8

LEMMA CompleteStep ==
    ASSUME TypeOK, NEW w \in Workers, Complete(w)
    PROVE  /\ TypeOK'
           /\ \E status \in {"PARTIAL", "COMPLETED"},
                 error \in {"DOCUMENT_COVERAGE_INCOMPLETE", "NONE"} :
                 Turns(job[w].run, [run[job[w].run] EXCEPT
                    !.status = status, !.error = error, !.lease = "none",
                    !.dispatch = "SAFE", !.artifacts = job[w].artifacts])
           /\ Becomes(w, [Idle EXCEPT !.pc = "view", !.run = job[w].run])
<1> DEFINE r == job[w].run
           j == [Idle EXCEPT !.pc = "view", !.run = job[w].run]
<1>1. job[w].pc # "idle" /\ r \in Runs
  BY WorkerFields DEF Complete
<1>2. PICK status \in {"PARTIAL", "COMPLETED"},
           error \in {"DOCUMENT_COVERAGE_INCOMPLETE", "NONE"} :
        run' = [run EXCEPT ![r] = [run[r] EXCEPT
                  !.status = status, !.error = error, !.lease = "none",
                  !.dispatch = "SAFE", !.artifacts = job[w].artifacts]]
  BY DEF Complete
<1> DEFINE row == [run[r] EXCEPT
              !.status = status, !.error = error, !.lease = "none",
              !.dispatch = "SAFE", !.artifacts = job[w].artifacts]
<1>3. row \in RunRecords
  <2>1. run[r] \in RunRecords /\ job[w].artifacts \in SUBSET CallIds
    BY <1>1, WorkerFields, RowFields
  <2> QED  BY ZenonT(40), <2>1 DEF RunRecords, Settled
<1>4. Turns(r, row)
  BY <1>1, <1>2, <1>3, RowTypes
<1>5. j \in JobRecords /\ j.run = job[w].run /\ j.pc = "view"
  BY <1>1, ViewedTypes
<1>6. Becomes(w, j)
  BY <1>5, JobTypes DEF Complete
<1>7. TypeOK'
  <2> HIDE DEF j, row
  <2> QED  BY <1>1, <1>4, <1>5, <1>6, TypeKept DEF Turns, Complete, TypeOK
<1> QED  BY <1>4, <1>6, <1>7

LEMMA PickStep ==
    ASSUME TypeOK, NEW w \in Workers, Pick(w)
    PROVE  /\ TypeOK'
           /\ \E r \in Runs : Becomes(w, [Idle EXCEPT !.pc = "claim", !.run = r])
<1>1. PICK r \in Runs :
         job' = [job EXCEPT ![w] = [Idle EXCEPT !.pc = "claim", !.run = r]]
  BY DEF Pick
<1> DEFINE j == [Idle EXCEPT !.pc = "claim", !.run = r]
<1>2. j \in JobRecords /\ j.run = r /\ j.pc = "claim"
  BY IdleTypes DEF Idle, JobRecords
<1>3. Becomes(w, j)
  BY <1>1, <1>2, JobTypes
<1>4. TypeOK'
  <2> HIDE DEF j
  <2> QED  BY <1>2, <1>3, TypeKept DEF Pick, TypeOK
<1> QED  BY <1>3, <1>4

\* Steps that end what a worker does, and leave the rows alone.
LEMMA EndStep ==
    ASSUME TypeOK, NEW w \in Workers, job' = [job EXCEPT ![w] = Idle],
           UNCHANGED <<run, files, receipts, open>>
    PROVE  TypeOK' /\ Becomes(w, Idle)
<1>1. Becomes(w, Idle)
  BY IdleTypes, JobTypes
<1>2. TypeOK'
  BY <1>1, IdleTypes, TypeKept DEF TypeOK
<1> QED  BY <1>1, <1>2

LEMMA Claimed ==
    ASSUME NEW old \in RunRecords, NEW n \in Nat
    PROVE  [old EXCEPT !.status = "RUNNING", !.lease = "live", !.attempts = n]
              \in RunRecords
BY DEF RunRecords, Live

LEMMA StartStep ==
    ASSUME TypeOK, NEW w \in Workers, NEW r \in Runs, job[w].pc = "claim",
           job[w].run = r, Start(w, r), UNCHANGED <<files, receipts, open>>
    PROVE  /\ TypeOK'
           /\ Turns(r, [run[r] EXCEPT !.status = "RUNNING", !.lease = "live",
                                      !.attempts = run[r].attempts + 1])
           /\ \E p \in {"prepare", "read", "tools", "conclude"} :
                 /\ p = "prepare" => run[r].stage = "NONE"
                 /\ Becomes(w, [Idle EXCEPT
                       !.pc = p, !.run = r, !.token = run[r].attempts + 1,
                       !.resumed = run[r].resumed, !.pin = run[r].pin,
                       !.pending = run[r].pending,
                       !.artifacts = run[r].artifacts])
<1>1. PICK n \in Nat : n = run[r].attempts + 1
  BY RowFields
<1>2. PICK p \in {"prepare", "read", "tools", "conclude"} :
         p = Entry(run[r].stage) /\ (p = "prepare" => run[r].stage = "NONE")
  BY RowFields DEF Entry
<1> DEFINE row == [run[r] EXCEPT !.status = "RUNNING", !.lease = "live",
                                 !.attempts = n]
           j == [Idle EXCEPT
                    !.pc = p, !.run = r, !.token = n,
                    !.resumed = run[r].resumed, !.pin = run[r].pin,
                    !.pending = run[r].pending, !.artifacts = run[r].artifacts]
<1>3. row \in RunRecords
  <2>1. run[r] \in RunRecords
    BY RowFields
  <2> QED  BY <2>1, Claimed
<1>4. Turns(r, row)
  BY <1>1, <1>3, RowTypes DEF Start
<1>5. j \in JobRecords /\ j.run = r /\ j.pc = p
  <2>1. /\ Idle \in JobRecords /\ run[r].resumed \in BOOLEAN
        /\ run[r].pending \in SUBSET CallIds /\ run[r].pin \in Pins
        /\ run[r].artifacts \in SUBSET CallIds
    BY IdleTypes, RowFields
  <2> QED  BY ZenonT(40), <2>1 DEF JobRecords, Working
<1>6. Becomes(w, j)
  BY <1>1, <1>2, <1>5, JobTypes DEF Start
<1>7. TypeOK'
  <2> HIDE DEF j, row
  <2> QED  BY <1>4, <1>5, <1>6, TypeKept DEF Turns, TypeOK
<1> QED  BY <1>1, <1>2, <1>4, <1>6, <1>7

-----------------------------------------------------------------------------
(***************************************************************************)
(* Steps that no worker but its own has to notice: the row keeps what      *)
(* recovery goes by, and is neither queued, nor run, nor completed by it.  *)
(***************************************************************************)
Milder(old, new) ==
    /\ new.attempts = old.attempts /\ new.resumed = old.resumed
    /\ new.dispatch = old.dispatch /\ new.artifacts = old.artifacts
    /\ new.pin = old.pin /\ new.stage = old.stage /\ new.pending = old.pending
    /\ \A s \in {"QUEUED", "RUNNING", "COMPLETED"} :
          new.status = s => old.status = s
    /\ new.status = "RUNNING" /\ new.lease = "live" => old.lease = "live"
    /\ new.deadline # "none" => old.deadline # "none"
    /\ new.error = "RUN_DEADLINE" =>
          old.error = "RUN_DEADLINE" \/ old.deadline # "none"

Mild ==
    /\ \A r \in Runs : Milder(run[r], run'[r])
    /\ files' = files /\ open' = open

LEMMA SameIsMild ==
    ASSUME TypeOK, run' = run, files' = files, open' = open
    PROVE  Mild
BY DEF Mild, Milder

LEMMA MilderIsMild ==
    ASSUME TypeOK, NEW r \in Runs, NEW row \in RunRecords,
           Milder(run[r], row), run' = [run EXCEPT ![r] = row],
           UNCHANGED <<files, open>>
    PROVE  Mild /\ run' \in [Runs -> RunRecords]
<1>1. Turns(r, row)
  BY RowTypes
<1> QED  BY <1>1 DEF Mild, Milder, Turns

LEMMA EnqueueStep ==
    ASSUME TypeOK, NEW r \in Runs, Enqueue(r)
    PROVE  TypeOK' /\ Mild /\ job' = job
<1> DEFINE row == [run[r] EXCEPT !.workflow = TRUE]
<1>1. run[r] \in RunRecords
  BY RowFields
<1>2. row \in RunRecords
  BY <1>1 DEF RunRecords
<1>3. Milder(run[r], row)
  BY <1>1 DEF Enqueue, Milder, RunRecords
<1>4. run' = [run EXCEPT ![r] = row]
  BY DEF Enqueue, TypeOK
<1> HIDE DEF row
<1>5. Mild /\ run' \in [Runs -> RunRecords]
  BY <1>2, <1>3, <1>4, MilderIsMild DEF Enqueue
<1> QED  BY <1>5 DEF Enqueue, TypeOK

LEMMA CancelStep ==
    ASSUME TypeOK, NEW r \in Runs, Cancel(r)
    PROVE  TypeOK' /\ Mild /\ job' = job
<1> DEFINE row == [run[r] EXCEPT !.status = "CANCELLED"]
<1>1. run[r] \in RunRecords
  BY RowFields
<1>2. row \in RunRecords
  BY <1>1 DEF RunRecords, Settled
<1>3. Milder(run[r], row)
  BY <1>1 DEF Cancel, Milder, RunRecords
<1>4. run' = [run EXCEPT ![r] = row]
  BY DEF Cancel, TypeOK
<1> HIDE DEF row
<1>5. Mild /\ run' \in [Runs -> RunRecords]
  BY <1>2, <1>3, <1>4, MilderIsMild DEF Cancel
<1> QED  BY <1>5 DEF Cancel, TypeOK

LEMMA LapseStep ==
    ASSUME TypeOK, NEW r \in Runs, Lapse(r)
    PROVE  TypeOK' /\ Mild /\ job' = job
<1> DEFINE row == [run[r] EXCEPT !.lease = "past"]
<1>1. run[r] \in RunRecords
  BY RowFields
<1>2. row \in RunRecords
  BY <1>1 DEF RunRecords
<1>3. Milder(run[r], row)
  BY <1>1 DEF Lapse, Milder, RunRecords
<1>4. run' = [run EXCEPT ![r] = row]
  BY DEF Lapse, TypeOK
<1> HIDE DEF row
<1>5. Mild /\ run' \in [Runs -> RunRecords]
  BY <1>2, <1>3, <1>4, MilderIsMild DEF Lapse
<1> QED  BY <1>5 DEF Lapse, TypeOK

LEMMA OverdueStep ==
    ASSUME TypeOK, NEW r \in Runs, Overdue(r)
    PROVE  TypeOK' /\ Mild /\ job' = job
<1> DEFINE row == [run[r] EXCEPT !.deadline = "past"]
<1>1. run[r] \in RunRecords
  BY RowFields
<1>2. row \in RunRecords
  BY <1>1 DEF RunRecords
<1>3. Milder(run[r], row)
  BY <1>1 DEF Overdue, Milder, RunRecords
<1>4. run' = [run EXCEPT ![r] = row]
  BY DEF Overdue, TypeOK
<1> HIDE DEF row
<1>5. Mild /\ run' \in [Runs -> RunRecords]
  BY <1>2, <1>3, <1>4, MilderIsMild DEF Overdue
<1> QED  BY <1>5 DEF Overdue, TypeOK

\* The same, and w stops working.
Leaves(w) ==
    /\ Mild
    /\ job'[w].pc \notin Working
    /\ \A v \in Workers \ {w} : job'[v] = job[v]

LEMMA IdleLeaves ==
    ASSUME TypeOK, NEW w \in Workers, job' = [job EXCEPT ![w] = Idle], Mild,
           run' \in [Runs -> RunRecords], UNCHANGED <<files, receipts, open>>
    PROVE  TypeOK' /\ Leaves(w)
<1>1. Becomes(w, Idle)
  BY IdleTypes, JobTypes
<1>2. TypeOK'
  BY <1>1, IdleTypes, TypeKept DEF TypeOK
<1> QED  BY <1>1, <1>2, IdleTypes DEF Leaves, Becomes, Working

LEMMA ViewStep == ASSUME TypeOK, NEW w \in Workers, View(w) PROVE TypeOK' /\ Leaves(w)
BY SameIsMild, IdleLeaves DEF View, TypeOK

LEMMA CrashStep == ASSUME TypeOK, NEW w \in Workers, Crash(w) PROVE TypeOK' /\ Leaves(w)
BY SameIsMild, IdleLeaves DEF Crash, TypeOK

LEMMA RefuseStep ==
    ASSUME TypeOK, NEW w \in Workers, Refuse(w)
    PROVE  TypeOK' /\ Leaves(w)
<1> DEFINE r == job[w].run
           row == [run[r] EXCEPT !.status = "FAILED", !.lease = "none"]
<1>1. r \in Runs /\ run[r] \in RunRecords
  BY WorkerFields, RowFields DEF Refuse
<1>2. row \in RunRecords
  BY <1>1 DEF RunRecords, Settled
<1>3. Milder(run[r], row)
  BY <1>1 DEF Milder, RunRecords
<1>4. run' = [run EXCEPT ![r] = row]
  BY <1>1 DEF Refuse, TypeOK, RunRecords
<1> HIDE DEF row
<1>5. Mild /\ run' \in [Runs -> RunRecords]
  BY <1>1, <1>2, <1>3, <1>4, MilderIsMild DEF Refuse
<1> QED  BY <1>5, IdleLeaves DEF Refuse

\* The claim of a run that has no claim left.
LEMMA SettleStep ==
    ASSUME TypeOK, NEW w \in Workers, NEW r \in Runs,
           run' = [run EXCEPT ![r] =
              [run[r] EXCEPT
                 !.status = Verdict(r), !.lease = "none",
                 !.error = IF Late(r) THEN "RUN_DEADLINE" ELSE run[r].error]],
           job' = [job EXCEPT ![w] = Idle], UNCHANGED <<files, receipts, open>>
    PROVE  TypeOK' /\ Leaves(w)
<1>1. run[r] \in RunRecords
  BY RowFields
<1>2. PICK status \in {"PARTIAL", "FAILED_UNKNOWN", "FAILED"} : status = Verdict(r)
  BY DEF Verdict
<1>3. PICK error \in {"RUN_DEADLINE", run[r].error} :
         /\ error = IF Late(r) THEN "RUN_DEADLINE" ELSE run[r].error
         /\ error = "RUN_DEADLINE" => error = run[r].error \/ run[r].deadline # "none"
  BY DEF Late
<1> DEFINE row == [run[r] EXCEPT !.status = status, !.lease = "none", !.error = error]
<1>4. row \in RunRecords
  BY <1>1 DEF RunRecords, Settled
<1>5. Milder(run[r], row)
  BY <1>1, <1>3 DEF Milder, RunRecords
<1>6. run' = [run EXCEPT ![r] = row]
  BY <1>2, <1>3
<1> HIDE DEF row
<1>7. Mild /\ run' \in [Runs -> RunRecords]
  BY <1>4, <1>5, <1>6, MilderIsMild
<1> QED  BY <1>7, IdleLeaves

LEMMA CleanupStep ==
    ASSUME TypeOK, NEW w \in Workers, Cleanup(w)
    PROVE  TypeOK' /\ Leaves(w)
<1> DEFINE r == job[w].run
           j == [Idle EXCEPT !.pc = "view", !.run = job[w].run]
<1>1. job[w].pc # "idle" /\ r \in Runs /\ run[r] \in RunRecords
  BY WorkerFields, RowFields DEF Cleanup
<1>2. Mild /\ run' \in [Runs -> RunRecords]
  <2>1. CASE run' = run
    BY <2>1, SameIsMild DEF Cleanup, TypeOK
  <2>2. CASE run' = [run EXCEPT ![r] = [run[r] EXCEPT !.lease = "past"]]
    <3>1. [run[r] EXCEPT !.lease = "past"] \in RunRecords
      BY <1>1 DEF RunRecords
    <3>2. Milder(run[r], [run[r] EXCEPT !.lease = "past"])
      BY <1>1 DEF Milder, RunRecords
    <3> QED  BY <1>1, <2>2, <3>1, <3>2, MilderIsMild DEF Cleanup
  <2>3. CASE /\ job[w].error # "SHUTDOWN"
             /\ run' = [run EXCEPT ![r] = [run[r] EXCEPT
                    !.lease = "none",
                    !.status = IF Late(r) THEN "PARTIAL" ELSE job[w].error,
                    !.error = IF Late(r) THEN "RUN_DEADLINE" ELSE run[r].error]]
    <3> DEFINE status == IF Late(r) THEN "PARTIAL" ELSE job[w].error
               error == IF Late(r) THEN "RUN_DEADLINE" ELSE run[r].error
               row == [run[r] EXCEPT !.lease = "none", !.status = status,
                                     !.error = error]
    <3>1. status \in {"PARTIAL", "FAILED"}
      BY <1>1, <2>3, WorkerFields DEF Cleanup
    <3>2. /\ error \in {"RUN_DEADLINE", run[r].error}
          /\ error = "RUN_DEADLINE" => error = run[r].error \/ run[r].deadline # "none"
      BY DEF Late
    <3>3. run' = [run EXCEPT ![r] = row]
      BY <2>3
    <3> HIDE DEF status, error
    <3>4. row \in RunRecords
      BY ZenonT(40), <1>1, <3>1, <3>2 DEF RunRecords, Settled
    <3>5. Milder(run[r], row)
      BY <1>1, <3>1, <3>2 DEF Milder, RunRecords
    <3> QED  BY <1>1, <3>3, <3>4, <3>5, MilderIsMild DEF Cleanup
  <2> QED  BY <2>1, <2>2, <2>3 DEF Cleanup
<1>3. j \in JobRecords /\ j.run = r /\ j.pc = "view"
  BY <1>1, ViewedTypes
<1>4. Becomes(w, j)
  BY <1>3, JobTypes DEF Cleanup
<1>5. TypeOK'
  <2>1. receipts' \in [Runs -> SUBSET CallIds]
    <3>1. {job[w].call} \ {None} \in SUBSET CallIds
      BY <1>1, WorkerFields
    <3>2. receipts[r] \in SUBSET CallIds /\ receipts \in [Runs -> SUBSET CallIds]
      BY <1>1 DEF TypeOK
    <3>3. \/ receipts' = [receipts EXCEPT ![r] = receipts[r] \cup ({job[w].call} \ {None})]
          \/ receipts' = receipts
      BY DEF Cleanup
    <3> QED  BY <1>1, <3>1, <3>2, <3>3
  <2> HIDE DEF j
  <2> QED  BY <1>1, <1>2, <1>3, <1>4, <2>1, TypeKept DEF Cleanup, TypeOK
<1> QED  BY <1>2, <1>3, <1>4, <1>5 DEF Becomes, Leaves, Working

LEMMA ResumeStep ==
    ASSUME TypeOK, NEW r \in Runs, Resume(r)
    PROVE  /\ TypeOK' /\ job' = job
           /\ \E stage \in {"NONE", "READY", "TOOLS", "FINAL"}, pin \in Pins,
                 revised \in BOOLEAN :
                 Turns(r, [run[r] EXCEPT
                    !.status = "QUEUED", !.error = "NONE", !.deadline = "none",
                    !.lease = "none", !.dispatch = "SAFE", !.resumed = TRUE,
                    !.stage = stage, !.pin = pin, !.revised = revised])
<1>1. PICK clarify \in BOOLEAN, scoped \in BOOLEAN :
         run' = [run EXCEPT ![r] =
            [run[r] EXCEPT
               !.status = "QUEUED", !.error = "NONE", !.deadline = "none",
               !.lease = "none", !.dispatch = "SAFE", !.resumed = TRUE,
               !.stage = IF clarify THEN "NONE" ELSE run[r].stage,
               !.pin = IF clarify THEN Pin(TRUE, scoped) ELSE run[r].pin,
               !.revised = run[r].revised \/ clarify]]
  BY DEF Resume
<1>2. run[r] \in RunRecords
  BY RowFields
<1> DEFINE stage == IF clarify THEN "NONE" ELSE run[r].stage
           pin == IF clarify THEN Pin(TRUE, scoped) ELSE run[r].pin
           revised == run[r].revised \/ clarify
           row == [run[r] EXCEPT
                    !.status = "QUEUED", !.error = "NONE", !.deadline = "none",
                    !.lease = "none", !.dispatch = "SAFE", !.resumed = TRUE,
                    !.stage = stage, !.pin = pin, !.revised = revised]
<1>3. stage \in {"NONE", "READY", "TOOLS", "FINAL"}
  BY RowFields
<1>4. revised \in BOOLEAN
  BY RowFields
<1>9. pin \in Pins
  BY RowFields DEF Pin, Pins
<1>5. run' = [run EXCEPT ![r] = row]
  BY <1>1
<1> HIDE DEF stage, revised, pin
<1>6. row \in RunRecords
  BY ZenonT(40), <1>2, <1>3, <1>4, <1>9 DEF RunRecords, Live
<1>7. Turns(r, row)
  BY <1>5, <1>6, RowTypes
<1>8. TypeOK'
  <2> HIDE DEF row
  <2> QED  BY <1>7 DEF Turns, Resume, TypeOK
<1> QED  BY <1>3, <1>4, <1>7, <1>8, <1>9 DEF Resume

-----------------------------------------------------------------------------
(* The invariant. *)

LEMMA MildRow ==
    ASSUME TypeOK, NEW r \in Runs, RowOK(r), Mild
    PROVE  RowOK(r)'
BY DEF RowOK, Mild, Milder

LEMMA MildWorker ==
    ASSUME TypeOK, NEW v \in Workers, WorkerOK(v), Mild, job'[v] = job[v]
    PROVE  WorkerOK(v)'
<1> SUFFICES ASSUME job[v].pc \in Working PROVE WorkerOK(v)'
  BY DEF WorkerOK
<1>1. job[v].run \in Runs
  BY DEF TypeOK, Working
<1> QED  BY <1>1 DEF WorkerOK, Current, Fresh, Mild, Milder

LEMMA MildLive ==
    ASSUME OneLive, Mild
    PROVE  OneLive'
BY DEF OneLive, Leased, Mild, Milder

LEMMA RowKept ==
    ASSUME NEW r, RowOK(r), run'[r] = run[r], files'[r] = files[r],
           open'[r] = open[r]
    PROVE  RowOK(r)'
BY DEF RowOK

LEMMA UserInv ==
    ASSUME RunsInv, TypeOK', Mild, job' = job
    PROVE  RunsInv'
<1>1. \A r \in Runs : RowOK(r)'
  BY MildRow DEF RunsInv
<1>2. \A v \in Workers : WorkerOK(v)'
  BY MildWorker DEF RunsInv
<1>3. OneLive'
  BY MildLive DEF RunsInv
<1>4. \A v, w \in Workers : v # w => Apart(v, w)'
  BY DEF RunsInv, Apart
<1> QED  BY <1>1, <1>2, <1>3, <1>4 DEF RunsInv

LEMMA LeaveInv ==
    ASSUME RunsInv, TypeOK', NEW w \in Workers, Leaves(w)
    PROVE  RunsInv'
<1>1. \A r \in Runs : RowOK(r)'
  BY MildRow DEF RunsInv, Leaves
<1>2. \A v \in Workers : WorkerOK(v)'
  <2> TAKE v \in Workers
  <2>1. CASE v = w
    BY <2>1 DEF WorkerOK, Leaves
  <2>2. CASE v # w
    BY <2>2, MildWorker DEF RunsInv, Leaves
  <2> QED  BY <2>1, <2>2
<1>3. OneLive'
  BY MildLive DEF RunsInv, Leaves
<1>4. ASSUME NEW u \in Workers, NEW v \in Workers, u # v PROVE Apart(u, v)'
  BY <1>4 DEF RunsInv, Apart, Leaves
<1> QED  BY <1>1, <1>2, <1>3, <1>4 DEF RunsInv

(***************************************************************************)
(* w goes on with its run, from the same claim, and is not about to send.  *)
(***************************************************************************)
GoesOn(w) ==
    /\ job[w].pc \in Working
    /\ \A v \in Workers \ {w} : job'[v] = job[v]
    /\ job'[w].run = job[w].run /\ job'[w].token = job[w].token
    /\ job'[w].resumed = job[w].resumed
    /\ job'[w].pc # "send"

LEMMA GoesOnApart ==
    ASSUME RunsInv, NEW w \in Workers, GoesOn(w),
           NEW u \in Workers, NEW v \in Workers, u # v
    PROVE  Apart(u, v)'
BY DEF RunsInv, Apart, GoesOn

LEMMA QuietInv ==
    ASSUME RunsInv, TypeOK', NEW w \in Workers, Mild, GoesOn(w), WorkerOK(w)'
    PROVE  RunsInv'
<1>1. \A r \in Runs : RowOK(r)'
  BY MildRow DEF RunsInv
<1>2. \A v \in Workers : WorkerOK(v)'
  BY MildWorker DEF RunsInv, GoesOn
<1>3. OneLive'
  BY MildLive DEF RunsInv
<1>4. ASSUME NEW u \in Workers, NEW v \in Workers, u # v PROVE Apart(u, v)'
  BY <1>4, GoesOnApart
<1> QED  BY <1>1, <1>2, <1>3, <1>4 DEF RunsInv

(***************************************************************************)
(* The owner writes its run's row: nobody else holds the last claim, so no *)
(* other worker relies on more than the row's attempts and resumed.        *)
(***************************************************************************)
Writes(w) ==
    LET r == job[w].run IN
    /\ Owns(w) /\ job[w].pc \in Working /\ r \in Runs
    /\ run'[r].attempts = run[r].attempts /\ run'[r].resumed = run[r].resumed
    /\ \A resumed \in BOOLEAN : open'[r][resumed] \in {{}, open[r][resumed]}
    /\ \A q \in Runs \ {r} :
          run'[q] = run[q] /\ files'[q] = files[q] /\ open'[q] = open[q]

LEMMA OwnerIsCurrent ==
    ASSUME RunsInv, NEW w \in Workers, Owns(w), job[w].pc \in Working
    PROVE  /\ Current(w)
           /\ \A v \in Workers \ {w} :
                 job[v].pc \in Working /\ job[v].run = job[w].run =>
                    job[v].token # run[job[w].run].attempts
BY DEF RunsInv, WorkerOK, Apart, Owns, Leased

LEMMA OthersKeep ==
    ASSUME RunsInv, NEW w \in Workers, Writes(w), NEW v \in Workers \ {w},
           job'[v] = job[v]
    PROVE  WorkerOK(v)'
<1> SUFFICES ASSUME job[v].pc \in Working PROVE WorkerOK(v)'
  BY DEF WorkerOK
<1>1. job[v].run \in Runs /\ job[v].resumed \in BOOLEAN
  BY WorkerFields DEF RunsInv, Working
<1>2. CASE job[v].run # job[w].run
  BY SMTT(30), <1>1, <1>2 DEF RunsInv, WorkerOK, Current, Fresh, Writes
<1>3. CASE job[v].run = job[w].run
  <2>1. job[v].token # run[job[v].run].attempts
    BY <1>3, OwnerIsCurrent DEF Writes
  <2>2. WorkerOK(v)
    BY DEF RunsInv
  <2> QED  BY <1>1, <1>3, <2>1, <2>2 DEF WorkerOK, Current, Fresh, Writes
<1> QED  BY <1>2, <1>3

LEMMA OwnerInv ==
    ASSUME RunsInv, TypeOK', NEW w \in Workers, Writes(w),
           NEW r \in Runs, r = job[w].run, RowOK(r)', WorkerOK(w)',
           \A v \in Workers \ {w} : job'[v] = job[v],
           \A u, v \in Workers : u # v => Apart(u, v)'
    PROVE  RunsInv'
<1>1. ASSUME NEW q \in Runs PROVE RowOK(q)'
  <2>1. CASE q = r
    BY <2>1
  <2>2. CASE q # r
    <3>1. RowOK(q)
      BY DEF RunsInv
    <3>2. run'[q] = run[q] /\ files'[q] = files[q] /\ open'[q] = open[q]
      BY <2>2 DEF Writes
    <3> QED  BY <3>1, <3>2, RowKept
  <2> QED  BY <2>1, <2>2
<1>2. \A v \in Workers : WorkerOK(v)'
  BY OthersKeep
<1>3. OneLive'
  BY DEF RunsInv, OneLive, Leased, Writes, Owns
<1> QED  BY <1>1, <1>2, <1>3 DEF RunsInv

LEMMA ReplayDraftInv == ASSUME RunsInv, NEW w \in Workers, ReplayDraft(w) PROVE RunsInv'
<1> DEFINE j == [job[w] EXCEPT !.pc = "reload"]
<1>1. TypeOK' /\ Becomes(w, j)
  BY ReplayDraftStep DEF RunsInv
<1>2. job[w].pc \in Working /\ job[w].run \in Runs /\ job[w] \in JobRecords
  BY WorkerFields DEF RunsInv, ReplayDraft, Working
<1>3. Mild
  BY SameIsMild DEF RunsInv, ReplayDraft
<1>4. GoesOn(w)
  BY <1>1, <1>2 DEF GoesOn, Becomes, JobRecords
<1>5. WorkerOK(w)'
  BY <1>1, <1>2 DEF RunsInv, WorkerOK, Current, Fresh, Becomes, ReplayDraft, JobRecords
<1> QED  BY <1>1, <1>3, <1>4, <1>5, QuietInv

LEMMA ArchiveInv == ASSUME RunsInv, NEW w \in Workers, Archive(w) PROVE RunsInv'
<1> DEFINE j == [job[w] EXCEPT !.pc = "archived"]
<1>1. TypeOK' /\ Becomes(w, j)
  BY ArchiveStep DEF RunsInv
<1>2. job[w].pc \in Working /\ job[w].run \in Runs /\ job[w] \in JobRecords
  BY WorkerFields DEF RunsInv, Archive, Working
<1>3. Mild
  BY SameIsMild DEF RunsInv, Archive
<1>4. GoesOn(w)
  BY <1>1, <1>2 DEF GoesOn, Becomes, JobRecords
<1>5. WorkerOK(w)'
  BY <1>1, <1>2 DEF RunsInv, WorkerOK, Current, Fresh, Becomes, Archive, JobRecords
<1> QED  BY <1>1, <1>3, <1>4, <1>5, QuietInv

LEMMA AskAgainInv == ASSUME RunsInv, NEW w \in Workers, AskAgain(w) PROVE RunsInv'
<1> DEFINE j == [job[w] EXCEPT !.pc = "round", !.misses = job[w].misses + 1]
<1>1. TypeOK' /\ Becomes(w, j)
  BY AskAgainStep DEF RunsInv
<1>2. job[w].pc \in Working /\ job[w].run \in Runs /\ job[w] \in JobRecords
  BY WorkerFields DEF RunsInv, AskAgain, Working
<1>3. Mild
  BY SameIsMild DEF RunsInv, AskAgain
<1>4. GoesOn(w)
  BY <1>1, <1>2 DEF GoesOn, Becomes, JobRecords
<1>5. WorkerOK(w)'
  BY SMTT(30), <1>1, <1>2
    DEF RunsInv, WorkerOK, Current, Fresh, Becomes, AskAgain, JobRecords
<1> QED  BY <1>1, <1>3, <1>4, <1>5, QuietInv

LEMMA ReloadInv == ASSUME RunsInv, NEW w \in Workers, Reload(w) PROVE RunsInv'
<1> DEFINE j == [job[w] EXCEPT !.pc = "ran", !.artifacts = run[job[w].run].artifacts]
<1>1. TypeOK' /\ Becomes(w, j)
  BY ReloadStep DEF RunsInv
<1>2. job[w].pc \in Working /\ job[w].run \in Runs /\ job[w] \in JobRecords
  BY WorkerFields DEF RunsInv, Reload, Working
<1>3. Mild
  BY SameIsMild DEF RunsInv, Reload
<1>4. GoesOn(w)
  BY <1>1, <1>2 DEF GoesOn, Becomes, JobRecords
<1>5. WorkerOK(w)'
  <2>1. /\ job'[w].pc = "ran" /\ job'[w].asked = job[w].asked
        /\ job'[w].run = job[w].run /\ job'[w].token = job[w].token
        /\ job'[w].resumed = job[w].resumed /\ job'[w].pin = job[w].pin
        /\ job'[w].artifacts = run[job[w].run].artifacts
        /\ run' = run /\ open' = open /\ job[w].pc = "reload"
    BY <1>1, <1>2 DEF Becomes, Reload, JobRecords
  <2>2. WorkerOK(w)
    BY DEF RunsInv
  <2> QED  BY SMTT(30), <1>2, <2>1, <2>2 DEF WorkerOK, Current, Fresh
<1> QED  BY <1>1, <1>3, <1>4, <1>5, QuietInv

LEMMA AnswerInv == ASSUME RunsInv, NEW w \in Workers, Answer(w) PROVE RunsInv'
<1>1. job[w].pc \in Working /\ job[w].run \in Runs /\ job[w] \in JobRecords
  BY WorkerFields DEF RunsInv, Answer, Working
<1>2. job[w].asked = "search" => job[w].call # None
  BY <1>1 DEF RunsInv, WorkerOK
<1>3. PICK p \in {"prepare", "ran", "conclude", "called"},
           asked \in {"none", "prepare"}, a \in SUBSET CallIds :
         /\ Becomes(w, [job[w] EXCEPT !.pc = p, !.asked = asked, !.answer = a])
         /\ p = "prepare" => asked = "prepare" /\ job[w].asked = "prepare"
         /\ p # "prepare" => asked = "none"
         /\ p = "ran" => job[w].asked = "search"
  BY <1>2, AnswerStep DEF RunsInv
<1>4. TypeOK' /\ Mild
  BY <1>2, AnswerStep, SameIsMild DEF RunsInv, Answer
<1>5. GoesOn(w)
  BY <1>1, <1>3 DEF GoesOn, Becomes, JobRecords
<1>6. WorkerOK(w)'
  <2>1. /\ job'[w].pc = p /\ job'[w].asked = asked /\ job'[w].run = job[w].run
        /\ job'[w].token = job[w].token /\ job'[w].resumed = job[w].resumed
        /\ job'[w].pin = job[w].pin /\ job'[w].artifacts = job[w].artifacts
        /\ run' = run /\ open' = open /\ job[w].pc = "wait"
    BY <1>1, <1>3 DEF Becomes, Answer, JobRecords
  <2>2. WorkerOK(w)
    BY DEF RunsInv
  <2> QED  BY SMTT(30), <1>1, <1>3, <2>1, <2>2 DEF WorkerOK, Current, Fresh
<1> QED  BY <1>4, <1>5, <1>6, QuietInv

LEMMA NextCallInv == ASSUME RunsInv, NEW w \in Workers, NextCall(w) PROVE RunsInv'
<1>1. PICK p \in {"draft", "search", "ran"}, c \in CallIds :
         Becomes(w, [job[w] EXCEPT !.pc = p, !.call = c])
  BY NextCallStep DEF RunsInv
<1>2. job[w].pc \in Working /\ job[w].run \in Runs /\ job[w] \in JobRecords
  BY WorkerFields DEF RunsInv, NextCall, Working
<1>3. TypeOK' /\ Mild
  BY NextCallStep, SameIsMild DEF RunsInv, NextCall
<1>4. GoesOn(w)
  BY <1>1, <1>2 DEF GoesOn, Becomes, JobRecords
<1>5. WorkerOK(w)'
  BY SMTT(30), <1>1, <1>2
    DEF RunsInv, WorkerOK, Current, Fresh, Becomes, NextCall, JobRecords
<1> QED  BY <1>3, <1>4, <1>5, QuietInv

LEMMA ThrowInv == ASSUME RunsInv, NEW w \in Workers, Throw(w) PROVE RunsInv'
<1>1. TypeOK' /\ Becomes(w, Failed(w, "FAILED"))
  BY ThrowStep DEF RunsInv
<1>2. Failed(w, "FAILED").pc = "failed"
  BY DEF Failed, Idle
<1>3. Leaves(w)
  BY <1>1, <1>2, SameIsMild DEF RunsInv, Throw, Leaves, Becomes, Working
<1> QED  BY <1>1, <1>3, LeaveInv

LEMMA ShutdownInv == ASSUME RunsInv, NEW w \in Workers, Shutdown(w) PROVE RunsInv'
<1>1. TypeOK' /\ Becomes(w, Failed(w, "SHUTDOWN"))
  BY ShutdownStep DEF RunsInv
<1>2. Failed(w, "SHUTDOWN").pc = "failed"
  BY DEF Failed, Idle
<1>3. Leaves(w)
  BY <1>1, <1>2, SameIsMild
    DEF RunsInv, Shutdown, Leaves, Becomes, Working
<1> QED  BY <1>1, <1>3, LeaveInv

LEMMA PickInv == ASSUME RunsInv, NEW w \in Workers, Pick(w) PROVE RunsInv'
<1>1. PICK r \in Runs : Becomes(w, [Idle EXCEPT !.pc = "claim", !.run = r])
  BY PickStep DEF RunsInv
<1>2. TypeOK' /\ Leaves(w)
  BY <1>1, PickStep, SameIsMild DEF RunsInv, Pick, Leaves, Becomes, Idle, Working
<1> QED  BY <1>2, LeaveInv

LEMMA SendInv == ASSUME RunsInv, NEW w \in Workers, Send(w) PROVE RunsInv'
<1> DEFINE r == job[w].run
           b == job[w].resumed
<1>1. /\ TypeOK' /\ Becomes(w, [job[w] EXCEPT !.pc = "wait"])
      /\ job[w] \in JobRecords /\ r \in Runs /\ b \in BOOLEAN
  BY SendStep, WorkerFields DEF RunsInv, Send
<1>2. /\ open[r][b] \subseteq {job[w].token} /\ open'[r][b] \subseteq {job[w].token}
      /\ \A c \in BOOLEAN : c # b => open'[r][c] = open[r][c]
      /\ \A q \in Runs \ {r} : open'[q] = open[q]
  <2>1. open[r][b] \subseteq {job[w].token}
    BY DEF RunsInv, WorkerOK, Send, Working
  <2>2. open \in [Runs -> [BOOLEAN -> SUBSET Nat]]
    BY DEF RunsInv, TypeOK
  <2> QED  BY <1>1, <2>1, <2>2 DEF Send
<1>3. run[r].resumed = b => Current(w) /\ run[r].dispatch = "DISPATCHING"
  BY DEF RunsInv, WorkerOK, Send, Working
<1>4. b => run[r].resumed
  BY DEF RunsInv, WorkerOK, Send, Working
<1>5. /\ job'[w].pc = "wait" /\ job'[w].run = r /\ job'[w].token = job[w].token
      /\ job'[w].resumed = b /\ job'[w].artifacts = job[w].artifacts
      /\ job'[w].pin = job[w].pin /\ job'[w].asked = job[w].asked
      /\ job'[w].call = job[w].call
      /\ \A v \in Workers \ {w} : job'[v] = job[v]
      /\ job[w].pc = "send"
  BY <1>1 DEF Becomes, JobRecords, Send
<1>6. ASSUME NEW q \in Runs PROVE RowOK(q)'
  <2>1. CASE q = r
    <3>1. RowOK(r) /\ run' = run /\ files' = files /\ run[r].resumed \in BOOLEAN
      BY <1>1, RowFields DEF RunsInv, Send
    <3>2. run[r].dispatch = "SAFE" => open'[r][run[r].resumed] = {}
      BY <1>2, <1>3, <3>1 DEF RowOK
    <3>3. ~run[r].resumed => open'[r][TRUE] = {}
      <4>1. CASE b = TRUE
        BY <1>4, <4>1
      <4>2. CASE b = FALSE
        BY <1>2, <3>1, <4>2 DEF RowOK
      <4> QED  BY <1>1, <4>1, <4>2
    <3>4. \A c \in BOOLEAN : \A t, u \in open'[r][c] : t = u
      <4> TAKE c \in BOOLEAN
      <4>1. CASE c = b
        BY <1>2, <4>1
      <4>2. CASE c # b
        BY <1>2, <3>1, <4>2 DEF RowOK
      <4> QED  BY <4>1, <4>2
    <3>5. /\ RowOK(q) /\ run'[q] = run[q] /\ files'[q] = files[q]
          /\ run[q].dispatch = "SAFE" => open'[q][run[q].resumed] = {}
          /\ ~run[q].resumed => open'[q][TRUE] = {}
          /\ \A c \in BOOLEAN : \A t, u \in open'[q][c] : t = u
      BY <2>1, <3>1, <3>2, <3>3, <3>4
    <3> HIDE DEF b, r
    <3> QED  BY <3>5 DEF RowOK
  <2>2. CASE q # r
    <3>1. RowOK(q) /\ run'[q] = run[q] /\ files'[q] = files[q] /\ open'[q] = open[q]
      BY <1>2, <2>2 DEF RunsInv, Send
    <3> QED  BY <3>1, RowKept
  <2> QED  BY <2>1, <2>2
<1>7. ASSUME NEW v \in Workers PROVE WorkerOK(v)'
  <2>1. CASE v = w
    <3>1. WorkerOK(w) /\ run' = run
      BY DEF RunsInv, Send
    <3>2. WorkerOK(w)'
      BY <1>1, <1>2, <1>5, <3>1 DEF WorkerOK, Current, Fresh, Working
    <3> QED  BY <2>1, <3>2
  <2>2. CASE v # w
    <3> SUFFICES ASSUME job[v].pc \in Working PROVE WorkerOK(v)'
      BY <1>5, <2>2 DEF WorkerOK
    <3>1. job[v].run \in Runs /\ job[v].resumed \in BOOLEAN /\ WorkerOK(v)
      BY WorkerFields DEF RunsInv, Working
    <3>2. job[v].pc = "send" /\ job[v].run = r => job[v].resumed # b
      BY <1>5, <2>2 DEF RunsInv, Apart, Working
    <3>3. job[v].asked = "prepare" /\ job[v].run = r => job[v].resumed # b
      <4>1. job[v].asked = "prepare" => Current(v)
        BY <3>1 DEF WorkerOK
      <4>2. job[v].run = r => job[v].token # job[w].token
        BY <1>5, <2>2 DEF RunsInv, Apart, Working
      <4> QED  BY <1>3, <4>1, <4>2 DEF Current
    <3>4. job[v].pc = "send" \/ job[v].asked = "prepare" =>
            open'[job[v].run][job[v].resumed] = open[job[v].run][job[v].resumed]
      BY <1>2, <3>1, <3>2, <3>3
    <3>5. job'[v] = job[v] /\ run' = run
      BY <1>5, <2>2 DEF Send
    <3> QED  BY <3>1, <3>4, <3>5 DEF WorkerOK, Current, Fresh
  <2> QED  BY <2>1, <2>2
<1>8. ASSUME NEW u \in Workers, NEW v \in Workers, u # v PROVE Apart(u, v)'
  BY <1>5, <1>8 DEF RunsInv, Apart, Working
<1>9. OneLive'
  BY DEF RunsInv, OneLive, Leased, Send
<1> QED  BY <1>1, <1>6, <1>7, <1>8, <1>9 DEF RunsInv
\* The row after a checkpoint of its owner.
LEMMA SavedRow ==
    ASSUME RunsInv, NEW w \in Workers, NEW r \in Runs, r = job[w].run,
           Owns(w), job[w].pc \in Working \ {"reload"},
           NEW stage, NEW pending, stage # "NONE", Turns(r, Saved(w, stage, pending)),
           Closed(w), files' = files
    PROVE  /\ Writes(w) /\ RowOK(r)'
           /\ run'[r].pin = run[r].pin
           /\ run'[r].dispatch = "SAFE" /\ run'[r].artifacts = job[w].artifacts
           /\ run'[r].resumed = job[w].resumed
<1>1. /\ run[r] \in RunRecords /\ job[w].resumed \in BOOLEAN
      /\ run[r].resumed \in BOOLEAN
  BY WorkerFields, RowFields DEF RunsInv, Working
<1>2. /\ run'[r].dispatch = "SAFE" /\ run'[r].artifacts = job[w].artifacts
      /\ run'[r].attempts = run[r].attempts /\ run'[r].resumed = run[r].resumed
      /\ run'[r].status = run[r].status /\ run'[r].deadline = run[r].deadline
      /\ run'[r].error = run[r].error /\ run'[r].pin = run[r].pin
      /\ run'[r].stage = stage
      /\ \A q \in Runs \ {r} : run'[q] = run[q]
  BY <1>1 DEF Turns, Saved, RunRecords
<1>3. run[r].resumed = job[w].resumed /\ job[w].artifacts = run[r].artifacts
  BY OwnerIsCurrent DEF RunsInv, WorkerOK, Current, Fresh
<1>4. run[r].status = "RUNNING" /\ RowOK(r)
  BY DEF RunsInv, Owns, Leased
<1>5. /\ open'[r][run[r].resumed] = {}
      /\ \A c \in BOOLEAN : open'[r][c] \in {{}, open[r][c]}
      /\ \A q \in Runs \ {r} : open'[q] = open[q]
  BY <1>3 DEF Closed
<1>6. RowOK(r)'
  <2>1. \A c \in BOOLEAN : \A t, u \in open'[r][c] : t = u
    BY <1>4, <1>5 DEF RowOK
  <2>2. ~run[r].resumed => open'[r][TRUE] = {}
    BY <1>4, <1>5 DEF RowOK
  <2> QED  BY <1>2, <1>3, <1>4, <1>5, <2>1, <2>2 DEF RowOK
<1>7. Writes(w)
  BY <1>2, <1>5 DEF Writes
<1> QED  BY <1>2, <1>3, <1>6, <1>7

\* What is left to show of a step in which the owner goes on.
LEMMA OwnerGoesOn ==
    ASSUME RunsInv, TypeOK', NEW w \in Workers, NEW r \in Runs, r = job[w].run,
           Writes(w), RowOK(r)', GoesOn(w), WorkerOK(w)'
    PROVE  RunsInv'
<1>1. \A u, v \in Workers : u # v => Apart(u, v)'
  BY GoesOnApart
<1> QED  BY <1>1, OwnerInv DEF GoesOn

\* A worker that owns its run relies on what it just wrote.
LEMMA OwnerRelies ==
    ASSUME RunsInv, NEW w \in Workers, NEW r \in Runs, r = job[w].run,
           Owns(w), job[w].pc \in Working,
           job'[w].run = r, job'[w].token = job[w].token,
           job'[w].resumed = job[w].resumed,
           job'[w].pin = job[w].pin, job'[w].asked = "none",
           run'[r].attempts = run[r].attempts, run'[r].resumed = run[r].resumed,
           run'[r].pin = run[r].pin, job'[w].pc \notin {"send", "prepare"},
           job'[w].pc # "reload" => job'[w].artifacts = run'[r].artifacts,
           job'[w].pc \in {"ask", "search", "tools", "complete"} =>
              run'[r].dispatch = "SAFE",
           job'[w].pc = "complete" /\ job[w].pin.wanted => job'[w].artifacts # {}
    PROVE  WorkerOK(w)'
<1>1. /\ run[r].attempts = job[w].token /\ run[r].resumed = job[w].resumed
      /\ run[r].pin = job[w].pin
  BY OwnerIsCurrent DEF Current, RunsInv, WorkerOK
<1>2. /\ job[w].token \in Nat /\ run[r].attempts \in Nat
      /\ job[w].resumed \in BOOLEAN
  BY WorkerFields, RowFields DEF RunsInv, Working
<1> QED  BY <1>1, <1>2 DEF WorkerOK, Current, Fresh

LEMMA ReadyInv == ASSUME RunsInv, NEW w \in Workers, Ready(w) PROVE RunsInv'
<1>1. /\ job[w].pc \in Working \ {"reload"} /\ job[w].run \in Runs
      /\ job[w] \in JobRecords /\ Owns(w) /\ files' = files
  BY WorkerFields DEF RunsInv, Ready, Checkpoint, Working
<1>2. PICK r \in Runs : r = job[w].run
  BY <1>1
<1>3. /\ TypeOK' /\ Turns(r, Saved(w, "READY", {})) /\ Closed(w)
      /\ Becomes(w, [job[w] EXCEPT !.pc = "ask", !.asked = "none", !.pending = {}])
  BY <1>2, ReadyStep DEF RunsInv
<1>4. /\ Writes(w) /\ RowOK(r)'
      /\ run'[r].dispatch = "SAFE" /\ run'[r].artifacts = job[w].artifacts
      /\ run'[r].pin = run[r].pin
      /\ run'[r].resumed = job[w].resumed
  BY <1>1, <1>2, <1>3, SavedRow
<1>5. /\ GoesOn(w) /\ job'[w].artifacts = job[w].artifacts
      /\ job'[w].pc = "ask" /\ job'[w].pin = job[w].pin
      /\ job'[w].asked = "none"
  BY <1>1, <1>3 DEF GoesOn, Becomes, JobRecords
<1>7. WorkerOK(w)'
  <2>1. /\ job'[w].run = r /\ job'[w].token = job[w].token
        /\ job'[w].resumed = job[w].resumed
        /\ run'[r].attempts = run[r].attempts /\ run'[r].resumed = run[r].resumed
    BY <1>2, <1>4, <1>5 DEF GoesOn, Writes
  <2> QED  BY <1>1, <1>2, <1>4, <1>5, <2>1, OwnerRelies
<1> QED  BY <1>2, <1>3, <1>4, <1>5, <1>7, OwnerGoesOn

LEMMA ReadDocumentInv == ASSUME RunsInv, NEW w \in Workers, ReadDocument(w) PROVE RunsInv'
<1>1. /\ job[w].pc \in Working \ {"reload"} /\ job[w].run \in Runs
      /\ job[w] \in JobRecords /\ Owns(w) /\ files' = files
  BY WorkerFields DEF RunsInv, ReadDocument, Checkpoint, Working
<1>2. PICK r \in Runs : r = job[w].run
  BY <1>1
<1>3. /\ TypeOK' /\ Turns(r, Saved(w, "READY", {})) /\ Closed(w)
      /\ Becomes(w, [job[w] EXCEPT !.pc = "read", !.asked = "none"])
  BY <1>2, ReadDocumentStep DEF RunsInv
<1>4. /\ Writes(w) /\ RowOK(r)'
      /\ run'[r].dispatch = "SAFE" /\ run'[r].artifacts = job[w].artifacts
      /\ run'[r].pin = run[r].pin
      /\ run'[r].resumed = job[w].resumed
  BY <1>1, <1>2, <1>3, SavedRow
<1>5. /\ GoesOn(w) /\ job'[w].artifacts = job[w].artifacts
      /\ job'[w].pc = "read" /\ job'[w].pin = job[w].pin
      /\ job'[w].asked = "none"
  BY <1>1, <1>3 DEF GoesOn, Becomes, JobRecords
<1>7. WorkerOK(w)'
  <2>1. /\ job'[w].run = r /\ job'[w].token = job[w].token
        /\ job'[w].resumed = job[w].resumed
        /\ run'[r].attempts = run[r].attempts /\ run'[r].resumed = run[r].resumed
    BY <1>2, <1>4, <1>5 DEF GoesOn, Writes
  <2> QED  BY <1>1, <1>2, <1>4, <1>5, <2>1, OwnerRelies
<1> QED  BY <1>2, <1>3, <1>4, <1>5, <1>7, OwnerGoesOn

(***************************************************************************)
(* The write that asks for no claim finds the row as it would leave it: a  *)
(* worker that has asked before its first checkpoint keeps it marked, and  *)
(* nobody else claims, resumes or checkpoints a marked row.                *)
(***************************************************************************)
LEMMA SourcesStep ==
    ASSUME RunsInv, NEW w \in Workers, Sources(w)
    PROVE  UNCHANGED vars
<1>1. PICK r \in Runs : r = job[w].run
  BY WorkerFields DEF RunsInv, Sources
<1>2. run[r] \in RunRecords /\ RowOK(r) /\ run \in [Runs -> RunRecords]
  BY RowFields DEF RunsInv, TypeOK
<1>3. /\ run[r].attempts = job[w].token /\ run[r].dispatch = "DISPATCHING"
      /\ run[r].stage = "NONE" /\ run[r].pin = job[w].pin
      /\ run[r].artifacts = job[w].artifacts
  BY <1>1 DEF RunsInv, WorkerOK, Current, Sources, Working
<1>4. run[r].pending = {}
  BY <1>2, <1>3 DEF RowOK
<1> DEFINE row == [run[r] EXCEPT
              !.attempts = job[w].token, !.dispatch = "DISPATCHING",
              !.stage = "NONE", !.pending = {}, !.pin = job[w].pin,
              !.artifacts = job[w].artifacts]
<1>5. row = run[r]
  BY <1>2, <1>3, <1>4 DEF RunRecords
<1>6. run' = [run EXCEPT ![r] = row]
  BY <1>1 DEF Sources
<1> HIDE DEF row
<1>7. run' = run
  BY <1>2, <1>5, <1>6
<1> QED  BY <1>7 DEF Sources, vars

LEMMA SourcesInv == ASSUME RunsInv, NEW w \in Workers, Sources(w) PROVE RunsInv'
BY SourcesStep, SameIsMild, UserInv DEF vars, RunsInv, TypeOK

LEMMA ConcludeInv == ASSUME RunsInv, NEW w \in Workers, Conclude(w) PROVE RunsInv'
<1>0. job[w].asked = "none"
  BY DEF RunsInv, WorkerOK, Conclude, Working
<1>1. /\ job[w].pc \in Working \ {"reload"} /\ job[w].run \in Runs
      /\ job[w] \in JobRecords /\ Owns(w) /\ files' = files
  BY WorkerFields DEF RunsInv, Conclude, Checkpoint, Working
<1>2. PICK r \in Runs : r = job[w].run
  BY <1>1
<1>3. /\ TypeOK' /\ Turns(r, Saved(w, "FINAL", {})) /\ Closed(w)
      /\ Becomes(w, [job[w] EXCEPT !.pc = "complete"])
  BY <1>2, ConcludeStep DEF RunsInv
<1>4. /\ Writes(w) /\ RowOK(r)'
      /\ run'[r].dispatch = "SAFE" /\ run'[r].artifacts = job[w].artifacts
      /\ run'[r].pin = run[r].pin
      /\ run'[r].resumed = job[w].resumed
  BY <1>1, <1>2, <1>3, SavedRow
<1>5. /\ GoesOn(w) /\ job'[w].artifacts = job[w].artifacts
      /\ job'[w].pc = "complete" /\ job'[w].pin = job[w].pin
      /\ job'[w].asked = "none"
  BY <1>0, <1>1, <1>3 DEF GoesOn, Becomes, JobRecords
<1>6. job[w].pin.wanted => job[w].artifacts # {}
  BY DEF Conclude, Missing
<1>7. WorkerOK(w)'
  <2>1. /\ job'[w].run = r /\ job'[w].token = job[w].token
        /\ job'[w].resumed = job[w].resumed
        /\ run'[r].attempts = run[r].attempts /\ run'[r].resumed = run[r].resumed
    BY <1>2, <1>4, <1>5 DEF GoesOn, Writes
  <2> QED  BY <1>1, <1>2, <1>4, <1>5, <1>6, <2>1, OwnerRelies
<1> QED  BY <1>2, <1>3, <1>4, <1>5, <1>7, OwnerGoesOn

LEMMA TakeCallsInv == ASSUME RunsInv, NEW w \in Workers, TakeCalls(w) PROVE RunsInv'
<1>0. job[w].asked = "none"
  BY DEF RunsInv, WorkerOK, TakeCalls, Working
<1>1. /\ job[w].pc \in Working \ {"reload"} /\ job[w].run \in Runs
      /\ job[w] \in JobRecords /\ Owns(w) /\ files' = files
  BY WorkerFields DEF RunsInv, TakeCalls, Checkpoint, Working
<1>2. PICK r \in Runs : r = job[w].run
  BY <1>1
<1>3. /\ TypeOK' /\ Turns(r, Saved(w, "TOOLS", job[w].answer)) /\ Closed(w)
      /\ Becomes(w, [job[w] EXCEPT !.pc = "tools",
                       !.pending = job[w].answer, !.answer = {}])
  BY <1>2, TakeCallsStep DEF RunsInv
<1>4. /\ Writes(w) /\ RowOK(r)'
      /\ run'[r].dispatch = "SAFE" /\ run'[r].artifacts = job[w].artifacts
      /\ run'[r].pin = run[r].pin
      /\ run'[r].resumed = job[w].resumed
  BY <1>1, <1>2, <1>3, SavedRow
<1>5. /\ GoesOn(w) /\ job'[w].artifacts = job[w].artifacts
      /\ job'[w].pc = "tools" /\ job'[w].pin = job[w].pin
      /\ job'[w].asked = "none"
  BY <1>0, <1>1, <1>3 DEF GoesOn, Becomes, JobRecords
<1>7. WorkerOK(w)'
  <2>1. /\ job'[w].run = r /\ job'[w].token = job[w].token
        /\ job'[w].resumed = job[w].resumed
        /\ run'[r].attempts = run[r].attempts /\ run'[r].resumed = run[r].resumed
    BY <1>2, <1>4, <1>5 DEF GoesOn, Writes
  <2> QED  BY <1>1, <1>2, <1>4, <1>5, <2>1, OwnerRelies
<1> QED  BY <1>2, <1>3, <1>4, <1>5, <1>7, OwnerGoesOn

LEMMA CallDoneInv == ASSUME RunsInv, NEW w \in Workers, CallDone(w) PROVE RunsInv'
<1>0. job[w].asked = "none"
  BY DEF RunsInv, WorkerOK, CallDone, Working
<1>1. /\ job[w].pc \in Working \ {"reload"} /\ job[w].run \in Runs
      /\ job[w] \in JobRecords /\ Owns(w) /\ files' = files
  BY WorkerFields DEF RunsInv, CallDone, Checkpoint, Working
<1>2. PICK r \in Runs : r = job[w].run
  BY <1>1
<1>3. PICK stage \in {"READY", "TOOLS"}, rest \in SUBSET CallIds,
           p \in {"round", "tools"} :
         /\ Turns(r, Saved(w, stage, rest))
         /\ Becomes(w, [job[w] EXCEPT !.pc = p, !.pending = rest, !.call = None])
  BY <1>2, CallDoneStep DEF RunsInv
<1>4. /\ TypeOK' /\ Closed(w) /\ Writes(w) /\ RowOK(r)'
      /\ run'[r].dispatch = "SAFE" /\ run'[r].artifacts = job[w].artifacts
      /\ run'[r].pin = run[r].pin
      /\ run'[r].resumed = job[w].resumed
  BY <1>1, <1>2, <1>3, CallDoneStep, SavedRow DEF RunsInv
<1>5. /\ GoesOn(w) /\ job'[w].artifacts = job[w].artifacts /\ job'[w].pc = p
      /\ job'[w].pin = job[w].pin /\ job'[w].asked = "none"
  BY <1>0, <1>1, <1>3 DEF GoesOn, Becomes, JobRecords
<1>6. WorkerOK(w)'
  <2>1. /\ job'[w].run = r /\ job'[w].token = job[w].token
        /\ job'[w].resumed = job[w].resumed
        /\ run'[r].attempts = run[r].attempts /\ run'[r].resumed = run[r].resumed
    BY <1>2, <1>4, <1>5 DEF GoesOn, Writes
  <2> QED  BY <1>1, <1>2, <1>4, <1>5, <2>1, OwnerRelies
<1> QED  BY <1>2, <1>4, <1>5, <1>6, OwnerGoesOn

LEMMA DispatchInv == ASSUME RunsInv, NEW w \in Workers, Dispatch(w) PROVE RunsInv'
<1>1. /\ job[w].pc \in {"prepare", "ask", "search"} /\ job[w].pc \in Working
      /\ job[w] \in JobRecords /\ job[w].run \in Runs
      /\ job[w].resumed \in BOOLEAN
      /\ Owns(w) /\ files' = files /\ open' = open
  BY WorkerFields DEF RunsInv, Dispatch, Working
<1>2. PICK r \in Runs : r = job[w].run
  BY <1>1
<1>3. PICK b \in BOOLEAN : b = job[w].resumed
  BY <1>1
<1>4. /\ TypeOK' /\ Becomes(w, [job[w] EXCEPT !.pc = "send", !.asked = job[w].pc])
      /\ Turns(r, [run[r] EXCEPT !.dispatch = "DISPATCHING",
                                 !.artifacts = job[w].artifacts])
  BY <1>2, DispatchStep DEF RunsInv
<1>5. /\ job'[w].pc = "send" /\ job'[w].run = r /\ job'[w].token = job[w].token
      /\ job'[w].resumed = b /\ job'[w].artifacts = job[w].artifacts
      /\ job'[w].pin = job[w].pin /\ job'[w].asked = job[w].pc
      /\ job'[w].call = job[w].call
      /\ \A v \in Workers \ {w} : job'[v] = job[v]
  BY <1>1, <1>2, <1>3, <1>4 DEF Becomes, JobRecords
<1>6. /\ run[r].attempts = job[w].token /\ run[r].resumed = b
      /\ run[r].artifacts = job[w].artifacts /\ run[r].pin = job[w].pin
      /\ job[w].pc = "prepare" => run[r].stage = "NONE"
      /\ job[w].asked # "prepare" => run[r].dispatch = "SAFE"
      /\ job[w].asked = "prepare" => open[r][b] \subseteq {job[w].token}
  BY <1>1, <1>2, <1>3, OwnerIsCurrent DEF RunsInv, WorkerOK, Current, Fresh
<1>7. open[r][b] \subseteq {job[w].token} /\ RowOK(r)
  BY <1>6 DEF RunsInv, RowOK
<1>8. /\ run'[r].dispatch = "DISPATCHING" /\ run'[r].artifacts = run[r].artifacts
      /\ run'[r].attempts = run[r].attempts /\ run'[r].resumed = run[r].resumed
      /\ run'[r].status = run[r].status /\ run'[r].deadline = run[r].deadline
      /\ run'[r].error = run[r].error /\ run[r].status = "RUNNING"
      /\ run'[r].pin = run[r].pin /\ run'[r].stage = run[r].stage
      /\ run'[r].pending = run[r].pending
      /\ \A q \in Runs \ {r} : run'[q] = run[q]
  <2>1. run[r] \in RunRecords
    BY RowFields DEF RunsInv
  <2> QED  BY <1>1, <1>2, <1>4, <1>6, <2>1 DEF Turns, RunRecords, Owns, Leased
<1>9. RowOK(r)'
  BY <1>1, <1>7, <1>8 DEF RowOK
<1>10. Writes(w)
  BY <1>1, <1>2, <1>8 DEF Writes
<1>11. WorkerOK(w)'
  <2>1. job[w].token \in Nat /\ (job[w].pc = "search" => job[w].call # None)
    BY <1>1 DEF JobRecords, RunsInv, TypeOK
  <2> QED  BY <1>1, <1>5, <1>6, <1>7, <1>8, <2>1 DEF WorkerOK, Current, Fresh
<1>12. ASSUME NEW v \in Workers, v # w, job[v].pc = "send", job[v].run = r
       PROVE  job[v].resumed # b
  <2>1. job[v].token # job[w].token
    BY <1>1, <1>2, <1>12 DEF RunsInv, Apart, Working
  <2>2. run[r].resumed = job[v].resumed => Current(v)
    BY <1>12 DEF RunsInv, WorkerOK, Working
  <2> QED  BY <1>6, <1>12, <2>1, <2>2 DEF Current
<1>13. ASSUME NEW u \in Workers, NEW v \in Workers, u # v PROVE Apart(u, v)'
  <2>1. CASE u = w
    <3>1. job'[v] = job[v] /\ Apart(w, v)
      BY <1>5, <1>13, <2>1 DEF RunsInv
    <3>2. job[v].pc = "send" /\ job[v].run = r => job[v].resumed # b
      BY <1>12, <1>13, <2>1
    <3> QED  BY <1>1, <1>2, <1>5, <2>1, <3>1, <3>2 DEF Apart
  <2>2. CASE v = w
    <3>1. job'[u] = job[u] /\ Apart(u, w)
      BY <1>5, <1>13, <2>2 DEF RunsInv
    <3>2. job[u].pc = "send" /\ job[u].run = r => job[u].resumed # b
      BY <1>12, <1>13, <2>2
    <3> QED  BY <1>1, <1>2, <1>5, <2>2, <3>1, <3>2 DEF Apart
  <2>3. CASE u # w /\ v # w
    BY <1>5, <1>13, <2>3 DEF RunsInv, Apart
  <2> QED  BY <2>1, <2>2, <2>3
<1> QED  BY <1>2, <1>4, <1>5, <1>9, <1>10, <1>11, <1>13, OwnerInv

LEMMA SaveDraftInv == ASSUME RunsInv, NEW w \in Workers, SaveDraft(w) PROVE RunsInv'
<1>1. /\ job[w].pc \in Working /\ job[w].run \in Runs /\ job[w] \in JobRecords
      /\ Owns(w) /\ open' = open
  BY WorkerFields DEF RunsInv, SaveDraft, Working
<1>2. PICK r \in Runs : r = job[w].run
  BY <1>1
<1>3. PICK c \in CallIds \cup {None} : c = job[w].call
  BY <1>1 DEF JobRecords
<1>4. /\ TypeOK' /\ Becomes(w, [job[w] EXCEPT !.pc = "reload"])
      /\ Turns(r, [run[r] EXCEPT !.artifacts = run[r].artifacts \cup {c}])
      /\ files'[r] = files[r] \cup {c}
      /\ \A q \in Runs \ {r} : files'[q] = files[q]
  BY <1>2, <1>3, SaveDraftStep DEF RunsInv
<1>5. run[r] \in RunRecords /\ RowOK(r)
  BY RowFields DEF RunsInv
<1>6. /\ run'[r].artifacts = run[r].artifacts \cup {c}
      /\ run'[r].dispatch = run[r].dispatch
      /\ run'[r].attempts = run[r].attempts /\ run'[r].resumed = run[r].resumed
      /\ run'[r].status = run[r].status /\ run'[r].deadline = run[r].deadline
      /\ run'[r].error = run[r].error /\ run'[r].pin = run[r].pin
      /\ run'[r].stage = run[r].stage /\ run'[r].pending = run[r].pending
      /\ run[r].status = "RUNNING"
      /\ \A q \in Runs \ {r} : run'[q] = run[q]
  BY <1>1, <1>2, <1>4, <1>5 DEF Turns, RunRecords, Owns, Leased
<1>7. Writes(w)
  BY <1>1, <1>2, <1>4, <1>6 DEF Writes
<1>8. RowOK(r)'
  BY <1>1, <1>4, <1>5, <1>6 DEF RowOK
<1>0. job[w].asked = "none"
  BY DEF RunsInv, WorkerOK, SaveDraft, Working
<1>9. /\ GoesOn(w) /\ job'[w].pc = "reload" /\ job'[w].pin = job[w].pin
      /\ job'[w].asked = "none"
  BY <1>0, <1>1, <1>4 DEF GoesOn, Becomes, JobRecords
<1>10. WorkerOK(w)'
  BY <1>1, <1>2, <1>6, <1>9, OwnerRelies DEF GoesOn
<1> QED  BY <1>2, <1>4, <1>7, <1>8, <1>9, <1>10, OwnerGoesOn

LEMMA CompleteInv == ASSUME RunsInv, NEW w \in Workers, Complete(w) PROVE RunsInv'
<1>1. /\ job[w].pc = "complete" /\ job[w].pc \in Working /\ job[w].run \in Runs
      /\ job[w] \in JobRecords /\ Owns(w) /\ files' = files /\ open' = open
  BY WorkerFields DEF RunsInv, Complete, Working
<1>2. PICK r \in Runs : r = job[w].run
  BY <1>1
<1>3. PICK status \in {"PARTIAL", "COMPLETED"},
           error \in {"DOCUMENT_COVERAGE_INCOMPLETE", "NONE"} :
        Turns(r, [run[r] EXCEPT
           !.status = status, !.error = error, !.lease = "none",
           !.dispatch = "SAFE", !.artifacts = job[w].artifacts])
  BY <1>2, CompleteStep DEF RunsInv
<1>4. TypeOK' /\ Becomes(w, [Idle EXCEPT !.pc = "view", !.run = job[w].run])
  BY CompleteStep DEF RunsInv
<1>5. /\ run[r].dispatch = "SAFE" /\ run[r].artifacts = job[w].artifacts
      /\ run[r].pin.wanted => job[w].artifacts # {}
  BY <1>1, <1>2, OwnerIsCurrent DEF RunsInv, WorkerOK, Current, Fresh
<1>6. run[r] \in RunRecords /\ RowOK(r)
  BY RowFields DEF RunsInv
<1>7. /\ run'[r].status = status /\ run'[r].error = error
      /\ run'[r].dispatch = "SAFE" /\ run'[r].artifacts = job[w].artifacts
      /\ run'[r].attempts = run[r].attempts /\ run'[r].resumed = run[r].resumed
      /\ run'[r].deadline = run[r].deadline /\ run'[r].pin = run[r].pin
      /\ run'[r].stage = run[r].stage /\ run'[r].pending = run[r].pending
      /\ \A q \in Runs \ {r} : run'[q] = run[q]
  BY <1>3, <1>6 DEF Turns, RunRecords
<1>8. RowOK(r)'
  BY <1>1, <1>5, <1>6, <1>7 DEF RowOK
<1>9. Writes(w)
  BY <1>1, <1>2, <1>7 DEF Writes
<1>10. /\ job'[w].pc = "view"
       /\ \A v \in Workers \ {w} : job'[v] = job[v]
  BY <1>4 DEF Becomes, Idle
<1>11. WorkerOK(w)'
  BY <1>10 DEF WorkerOK, Working
<1>12. ASSUME NEW u \in Workers, NEW v \in Workers, u # v PROVE Apart(u, v)'
  BY <1>10, <1>12 DEF RunsInv, Apart, Working
<1> QED  BY <1>2, <1>4, <1>8, <1>9, <1>10, <1>11, <1>12, OwnerInv

LEMMA ResumeInv == ASSUME RunsInv, NEW r \in Runs, Resume(r) PROVE RunsInv'
<1>1. PICK stage \in {"NONE", "READY", "TOOLS", "FINAL"}, pin \in Pins,
           revised \in BOOLEAN :
        Turns(r, [run[r] EXCEPT
           !.status = "QUEUED", !.error = "NONE", !.deadline = "none",
           !.lease = "none", !.dispatch = "SAFE", !.resumed = TRUE,
           !.stage = stage, !.pin = pin, !.revised = revised])
  BY ResumeStep DEF RunsInv
<1>2. TypeOK' /\ job' = job /\ files' = files /\ open' = open
  BY ResumeStep DEF RunsInv, Resume
<1>3. /\ run[r] \in RunRecords /\ RowOK(r)
      /\ run[r].error = "RUN_DEADLINE" /\ run[r].status = "PARTIAL"
      /\ run[r].stage # "NONE" /\ run[r].pending = {}
  BY RowFields DEF RunsInv, Resume, Resumable
<1>4. ~run[r].resumed /\ open[r][TRUE] = {}
  BY <1>3 DEF RowOK, RunRecords
<1>5. /\ run'[r].status = "QUEUED" /\ run'[r].error = "NONE"
      /\ run'[r].deadline = "none" /\ run'[r].dispatch = "SAFE"
      /\ run'[r].resumed = TRUE /\ run'[r].artifacts = run[r].artifacts
      /\ run'[r].attempts = run[r].attempts /\ run'[r].pending = {}
      /\ \A q \in Runs \ {r} : run'[q] = run[q]
  BY <1>1, <1>3 DEF Turns, RunRecords
<1>6. ASSUME NEW q \in Runs PROVE RowOK(q)'
  <2>1. CASE q = r
    <3>1. RowOK(r)'
      BY <1>2, <1>3, <1>4, <1>5 DEF RowOK
    <3> QED  BY <2>1, <3>1
  <2>2. CASE q # r
    <3>1. RowOK(q) /\ run'[q] = run[q] /\ files' = files /\ open' = open
      BY <1>2, <1>5, <2>2 DEF RunsInv
    <3> QED  BY <3>1 DEF RowOK
  <2> QED  BY <2>1, <2>2
<1>7. ASSUME NEW v \in Workers PROVE WorkerOK(v)'
  <2> SUFFICES ASSUME job[v].pc \in Working PROVE WorkerOK(v)'
    BY <1>2 DEF WorkerOK
  <2>1. job[v].run \in Runs /\ job[v].resumed \in BOOLEAN /\ WorkerOK(v)
    BY WorkerFields DEF RunsInv, Working
  <2>2. CASE job[v].run = r
    <3>1. job[v].resumed = FALSE /\ job[v].asked # "prepare"
      BY <1>3, <1>4, <2>1, <2>2 DEF WorkerOK
    <3> QED  BY <1>2, <1>5, <2>1, <2>2, <3>1 DEF WorkerOK, Current, Fresh
  <2>3. CASE job[v].run # r
    BY <1>2, <1>5, <2>1, <2>3 DEF WorkerOK, Current, Fresh
  <2> QED  BY <2>2, <2>3
<1>8. \A u, v \in Workers : u # v => Apart(u, v)'
  BY <1>2 DEF RunsInv, Apart
<1>9. OneLive'
  <2>1. \A q \in Runs : Leased(q)' => Leased(q)
    BY <1>5 DEF Leased
  <2> QED  BY <2>1 DEF RunsInv, OneLive
<1> QED  BY <1>2, <1>6, <1>7, <1>8, <1>9 DEF RunsInv

(***************************************************************************)
(* A claim: the new token is above that of every worker that stalled, the  *)
(* claimed row is SAFE, and no other run of the conversation is live.      *)
(***************************************************************************)
LEMMA StartInv ==
    ASSUME RunsInv, NEW w \in Workers, NEW r \in Runs, job[w].pc = "claim",
           job[w].run = r, Eligible(r), ~Exhausted(r), ~Blocked(r),
           Start(w, r), UNCHANGED <<files, receipts, open>>
    PROVE  RunsInv'
<1>1. /\ run[r] \in RunRecords /\ RowOK(r) /\ job[w] \in JobRecords
      /\ run[r].attempts \in Nat /\ run[r].resumed \in BOOLEAN
  BY RowFields, WorkerFields DEF RunsInv
<1>2. PICK n \in Nat : n = run[r].attempts + 1
  BY <1>1
<1>3. TypeOK' /\ Turns(r, [run[r] EXCEPT !.status = "RUNNING", !.lease = "live",
                                         !.attempts = n])
  BY <1>2, StartStep DEF RunsInv
<1>4. PICK p \in {"prepare", "read", "tools", "conclude"} :
         /\ p = "prepare" => run[r].stage = "NONE"
         /\ Becomes(w, [Idle EXCEPT
               !.pc = p, !.run = r, !.token = n,
               !.resumed = run[r].resumed, !.pin = run[r].pin,
               !.pending = run[r].pending, !.artifacts = run[r].artifacts])
  BY <1>2, StartStep DEF RunsInv
<1>5. run[r].dispatch = "SAFE"
  BY <1>1 DEF Eligible, Exhausted, Uncertain, RowOK, RunRecords
<1>6. /\ run'[r].status = "RUNNING" /\ run'[r].attempts = n
      /\ run'[r].dispatch = "SAFE" /\ run'[r].resumed = run[r].resumed
      /\ run'[r].artifacts = run[r].artifacts
      /\ run'[r].deadline = run[r].deadline /\ run'[r].error = run[r].error
      /\ run'[r].pin = run[r].pin /\ run'[r].stage = run[r].stage
      /\ run'[r].pending = run[r].pending
      /\ \A q \in Runs \ {r} : run'[q] = run[q]
  BY <1>1, <1>3, <1>5 DEF Turns, RunRecords
<1>7. /\ job'[w].pc = p /\ job'[w].run = r /\ job'[w].token = n
      /\ job'[w].resumed = run[r].resumed /\ job'[w].artifacts = run[r].artifacts
      /\ job'[w].pin = run[r].pin /\ job'[w].asked = "none"
      /\ \A v \in Workers \ {w} : job'[v] = job[v]
  BY <1>4 DEF Becomes, Idle
<1>8. ASSUME NEW q \in Runs PROVE RowOK(q)'
  <2>1. CASE q = r
    <3>1. RowOK(r)'
      BY <1>1, <1>5, <1>6 DEF RowOK
    <3> QED  BY <2>1, <3>1
  <2>2. CASE q # r
    <3>1. RowOK(q) /\ run'[q] = run[q] /\ files' = files /\ open' = open
      BY <1>6, <2>2 DEF RunsInv
    <3> QED  BY <3>1 DEF RowOK
  <2> QED  BY <2>1, <2>2
<1>9. ASSUME NEW v \in Workers, job[v].pc \in Working, job[v].run = r
      PROVE  job[v].token \in Nat /\ job[v].token < n
  <2>1. job[v].token \in Nat /\ job[v].token <= run[r].attempts
    BY <1>9, WorkerFields DEF RunsInv, WorkerOK, Working
  <2> QED  BY <1>1, <1>2, <2>1
<1>10. ASSUME NEW v \in Workers PROVE WorkerOK(v)'
  <2>1. CASE v = w
    <3>1. WorkerOK(w)'
      BY <1>4, <1>5, <1>6, <1>7 DEF WorkerOK, Current, Fresh
    <3> QED  BY <2>1, <3>1
  <2>2. CASE v # w
    <3> SUFFICES ASSUME job[v].pc \in Working PROVE WorkerOK(v)'
      BY <1>7, <2>2 DEF WorkerOK
    <3>1. job[v].run \in Runs /\ job'[v] = job[v] /\ WorkerOK(v)
      BY <1>7, <2>2, WorkerFields DEF RunsInv, Working
    <3>2. CASE job[v].run = r
      <4>1. job[v].token \in Nat /\ job[v].token < n
        BY <1>9, <3>2
      <4>2. job[v].resumed => run[r].resumed
        BY <3>1, <3>2 DEF WorkerOK
      <4>3. job[v].pc = "send" =>
              /\ open'[r][job[v].resumed] \subseteq {job[v].token}
              /\ run[r].resumed # job[v].resumed
        BY <1>5, <3>1, <3>2 DEF WorkerOK
      <4>6. job[v].asked # "prepare"
        BY <1>5, <3>1, <3>2 DEF WorkerOK
      <4>4. job[v].pc = "complete" /\ job[v].pin.wanted => job[v].artifacts # {}
        BY <3>1, <3>2 DEF WorkerOK
      <4>5. job'[v].run = r /\ run'[r].attempts # job[v].token
        BY <1>6, <3>1, <3>2, <4>1
      <4> QED  BY <1>6, <3>1, <3>2, <4>1, <4>2, <4>3, <4>4, <4>5, <4>6
                 DEF WorkerOK, Current, Fresh
    <3>3. CASE job[v].run # r
      BY <1>6, <3>1, <3>3 DEF WorkerOK, Current, Fresh
    <3> QED  BY <3>2, <3>3
  <2> QED  BY <2>1, <2>2
<1>11. ASSUME NEW u \in Workers, NEW v \in Workers, u # v PROVE Apart(u, v)'
  <2>1. CASE u = w
    <3>1. /\ job'[v] = job[v]
          /\ job[v].pc \in Working /\ job[v].run = r => job[v].token # n
      BY <1>7, <1>9, <1>11, <2>1
    <3> QED  BY <1>7, <2>1, <3>1 DEF Apart
  <2>2. CASE v = w
    <3>1. /\ job'[u] = job[u]
          /\ job[u].pc \in Working /\ job[u].run = r => job[u].token # n
      BY <1>7, <1>9, <1>11, <2>2
    <3> QED  BY <1>7, <2>2, <3>1 DEF Apart
  <2>3. CASE u # w /\ v # w
    BY <1>7, <1>11, <2>3 DEF RunsInv, Apart
  <2> QED  BY <2>1, <2>2, <2>3
<1>12. OneLive'
  <2>1. \A q \in Runs \ {r} : ~Leased(q)'
    BY <1>6 DEF Blocked, Leased
  <2> QED  BY <2>1 DEF OneLive
<1> QED  BY <1>3, <1>8, <1>10, <1>11, <1>12 DEF RunsInv

LEMMA ClaimInv == ASSUME RunsInv, NEW w \in Workers, Claim(w) PROVE RunsInv'
<1>1. PICK r \in Runs : r = job[w].run
  BY WorkerFields DEF RunsInv, Claim
<1>2. CASE Eligible(r) /\ ~Exhausted(r) /\ ~Blocked(r) /\ Start(w, r)
  BY <1>1, <1>2, StartInv DEF Claim
<1>3. CASE /\ run' = [run EXCEPT ![r] =
                [run[r] EXCEPT
                   !.status = Verdict(r), !.lease = "none",
                   !.error = IF Late(r) THEN "RUN_DEADLINE" ELSE run[r].error]]
           /\ job' = [job EXCEPT ![w] = Idle]
  BY <1>3, SettleStep, LeaveInv DEF Claim, RunsInv
<1>4. CASE job' = [job EXCEPT ![w] = Idle] /\ run' = run
  BY <1>4, SameIsMild, IdleLeaves, LeaveInv DEF Claim, RunsInv, TypeOK
<1> QED  BY <1>1, <1>2, <1>3, <1>4 DEF Claim

LEMMA InitInv == Init => RunsInv
<1> SUFFICES ASSUME Init PROVE RunsInv  OBVIOUS
<1>1. TypeOK
  BY TypeInit
<1>2. \A w \in Workers : job[w].pc = "idle"
  BY DEF Init, Idle
<1>3. ASSUME NEW r \in Runs PROVE RowOK(r) /\ ~Leased(r)
  <2>1. PICK s \in {"QUEUED", "ABSENT"}, d \in {"none", "ahead"}, pin \in Pins :
         run[r] = Row(s, d, pin)
    <3>1. Pin(r \in Wanted, r \in Scoped) \in Pins
      BY DEF Pin, Pins
    <3> QED  BY <3>1 DEF Init
  <2>2. /\ run[r].status = s /\ run[r].dispatch = "SAFE" /\ run[r].pending = {}
        /\ run[r].artifacts = {} /\ run[r].resumed = FALSE /\ run[r].lease = "none"
    BY <2>1 DEF Row
  <2>3. files[r] = {} /\ open[r] = [resumed \in BOOLEAN |-> {}]
    BY DEF Init
  <2> QED  BY <2>2, <2>3 DEF RowOK, Leased
<1> QED  BY <1>1, <1>2, <1>3 DEF RunsInv, WorkerOK, Apart, Working, OneLive

LEMMA StepInv == ASSUME RunsInv, NEW w \in Workers, Step(w) PROVE RunsInv'
<1>1. CASE Claim(w)  BY <1>1, ClaimInv
<1>2. CASE Ready(w)  BY <1>2, ReadyInv
<1>3. CASE Dispatch(w)  BY <1>3, DispatchInv
<1>4. CASE Send(w)  BY <1>4, SendInv
<1>5. CASE Answer(w)  BY <1>5, AnswerInv
<1>6. CASE TakeCalls(w)  BY <1>6, TakeCallsInv
<1>7. CASE NextCall(w)  BY <1>7, NextCallInv
<1>8. CASE ReplayDraft(w)  BY <1>8, ReplayDraftInv
<1>9. CASE SaveDraft(w)  BY <1>9, SaveDraftInv
<1>10. CASE Reload(w)  BY <1>10, ReloadInv
<1>11. CASE Archive(w)  BY <1>11, ArchiveInv
<1>12. CASE CallDone(w)  BY <1>12, CallDoneInv
<1>13. CASE AskAgain(w)  BY <1>13, AskAgainInv
<1>14. CASE Conclude(w)  BY <1>14, ConcludeInv
<1>15. CASE Complete(w)  BY <1>15, CompleteInv
<1>16. CASE Throw(w)  BY <1>16, ThrowInv
<1>17. CASE Cleanup(w)  BY <1>17, CleanupStep, LeaveInv DEF RunsInv
<1>18. CASE View(w)  BY <1>18, ViewStep, LeaveInv DEF RunsInv
<1>19. CASE Sources(w)  BY <1>19, SourcesInv
<1>20. CASE ReadDocument(w)  BY <1>20, ReadDocumentInv
<1> QED  BY <1>1, <1>2, <1>3, <1>4, <1>5, <1>6, <1>7, <1>8, <1>9, <1>10,
            <1>11, <1>12, <1>13, <1>14, <1>15, <1>16, <1>17, <1>18, <1>19,
            <1>20 DEF Step

LEMMA NextInv == RunsInv /\ [Next]_vars => RunsInv'
<1> SUFFICES ASSUME RunsInv, [Next]_vars PROVE RunsInv'  OBVIOUS
<1>1. CASE UNCHANGED vars
  BY <1>1, SameIsMild, UserInv DEF vars, RunsInv, TypeOK
<1>2. ASSUME NEW r \in Runs, Enqueue(r) \/ Cancel(r) \/ Lapse(r) \/ Overdue(r)
      PROVE  RunsInv'
  BY <1>2, EnqueueStep, CancelStep, LapseStep, OverdueStep, UserInv DEF RunsInv
<1>3. ASSUME NEW r \in Runs, Resume(r) PROVE RunsInv'
  BY <1>3, ResumeInv
<1>4. ASSUME NEW w \in Workers, Pick(w) \/ Step(w) \/ Shutdown(w) PROVE RunsInv'
  BY <1>4, PickInv, StepInv, ShutdownInv
<1>5. ASSUME NEW w \in Workers, Refuse(w) \/ Crash(w) PROVE RunsInv'
  BY <1>5, RefuseStep, CrashStep, LeaveInv DEF RunsInv
<1> QED  BY <1>1, <1>2, <1>3, <1>4, <1>5 DEF Next

-----------------------------------------------------------------------------
(* The theorems. *)

(***************************************************************************)
(* The rows, what the workers remember, and what they owe one another hold *)
(* together in every reachable state.                                      *)
(***************************************************************************)
THEOREM RunsInvariant == Spec => []RunsInv
BY InitInv, NextInv, PTL DEF Spec

(***************************************************************************)
(* The rows, the memories and the counts keep their types; a worker that   *)
(* is not idle has a run, one that runs a tool has a call.                 *)
(***************************************************************************)
THEOREM RunsTypes == Spec => []TypeOK
<1>1. RunsInv => TypeOK
  BY DEF RunsInv
<1> QED  BY <1>1, RunsInvariant, PTL

(***************************************************************************)
(* The requests of a run that no checkpoint has followed are of one claim, *)
(* before the user resumes the run and after it, those sent before the     *)
(* first checkpoint included: respond marks the row first, and the claim   *)
(* does not go on from a marked row.                                       *)
(***************************************************************************)
THEOREM RunsSentOnce == Spec => []SentOnce
<1>1. RunsInv => SentOnce
  BY DEF RunsInv, RowOK, SentOnce
<1> QED  BY <1>1, RunsInvariant, PTL

(***************************************************************************)
(* No two runs of a conversation are live at once, by the check that the   *)
(* claim makes in the transaction that writes the lease.                   *)
(***************************************************************************)
THEOREM RunsOneLive == Spec => []OneLive
<1>1. RunsInv => OneLive
  BY DEF RunsInv
<1> QED  BY <1>1, RunsInvariant, PTL

(***************************************************************************)
(* No write of a worker's memory over the row loses a stored draft.        *)
(***************************************************************************)
THEOREM RunsListTheirDrafts == Spec => []DraftsListed
<1>1. RunsInv => DraftsListed
  BY DEF RunsInv, RowOK, DraftsListed
<1> QED  BY <1>1, RunsInvariant, PTL

(***************************************************************************)
(* A run that had to produce a file is not COMPLETED without one.          *)
(***************************************************************************)
THEOREM RunsCompleteWithFile == Spec => []CompletedHasFile
<1>1. RunsInv => CompletedHasFile
  BY DEF RunsInv, RowOK, CompletedHasFile
<1> QED  BY <1>1, RunsInvariant, PTL

LEMMA SettledStays ==
    ASSUME RunsInv, [Next]_vars, NEW r \in Runs, run[r].status \in Settled
    PROVE  \/ run'[r] = run[r] /\ files'[r] = files[r]
           \/ Resumable(r) /\ run'[r].status = "QUEUED"
<1>0. run[r].status \notin Live /\ TypeOK
  BY DEF Settled, Live, RunsInv
<1>1. CASE UNCHANGED vars
  BY <1>1 DEF vars
<1>2. ASSUME NEW q \in Runs, Enqueue(q) \/ Cancel(q) \/ Lapse(q) \/ Overdue(q)
      PROVE  run'[r] = run[r] /\ files'[r] = files[r]
  <2>1. q # r /\ files' = files
    BY <1>0, <1>2 DEF Enqueue, Cancel, Lapse, Overdue, Leased, Live
  <2> QED  BY <1>0, <1>2, <2>1 DEF Enqueue, Cancel, Lapse, Overdue, TypeOK
<1>3. ASSUME NEW q \in Runs, Resume(q), q # r
      PROVE  run'[r] = run[r] /\ files'[r] = files[r]
  BY <1>0, <1>3 DEF Resume, TypeOK
<1>4. CASE Resume(r)
  <2>1. PICK stage \in {"NONE", "READY", "TOOLS", "FINAL"}, pin \in Pins,
             revised \in BOOLEAN :
          Turns(r, [run[r] EXCEPT
             !.status = "QUEUED", !.error = "NONE", !.deadline = "none",
             !.lease = "none", !.dispatch = "SAFE", !.resumed = TRUE,
             !.stage = stage, !.pin = pin, !.revised = revised])
    BY <1>0, <1>4, ResumeStep
  <2>2. run[r] \in RunRecords
    BY <1>0, RowFields
  <2> QED  BY <1>4, <2>1, <2>2 DEF Turns, RunRecords, Resume
<1>5. ASSUME NEW w \in Workers,
             \/ Pick(w) \/ Send(w) \/ Answer(w) \/ NextCall(w) \/ ReplayDraft(w)
             \/ Reload(w) \/ Archive(w) \/ AskAgain(w) \/ Throw(w) \/ View(w)
             \/ Shutdown(w) \/ Crash(w)
      PROVE  run'[r] = run[r] /\ files'[r] = files[r]
  BY <1>5 DEF Pick, Send, Answer, NextCall, ReplayDraft, Reload, Archive,
              AskAgain, Throw, View, Shutdown, Crash
<1>6. ASSUME NEW w \in Workers,
             \/ ReadDocument(w) \/ Ready(w) \/ Dispatch(w) \/ TakeCalls(w) \/ SaveDraft(w)
             \/ CallDone(w) \/ Conclude(w) \/ Complete(w)
      PROVE  run'[r] = run[r] /\ files'[r] = files[r]
  <2>1. Owns(w)
    BY <1>6 DEF ReadDocument, Ready, Dispatch, TakeCalls, SaveDraft,
                CallDone, Conclude, Complete, Checkpoint
  <2>2. job[w].run # r
    BY <1>0, <2>1 DEF Owns, Leased, Live
  <2>3. run'[r] = run[r]
    BY <1>0, <1>6, <2>2 DEF ReadDocument, Ready, Dispatch, TakeCalls, SaveDraft,
                      CallDone, Conclude, Complete, Checkpoint, TypeOK
  <2>4. files'[r] = files[r]
    BY <1>0, <1>6, <2>2 DEF ReadDocument, Ready, Dispatch, TakeCalls, SaveDraft,
                      CallDone, Conclude, Complete, TypeOK
  <2> QED  BY <2>3, <2>4
<1>7. ASSUME NEW w \in Workers, Claim(w) \/ Cleanup(w) \/ Refuse(w)
      PROVE  run'[r] = run[r] /\ files'[r] = files[r]
  <2>1. files' = files
    BY <1>7 DEF Claim, Cleanup, Refuse
  <2>2. CASE job[w].run = r
    <3>1. ~Eligible(r) /\ ~Recoverable(r) /\ run[r].status # "QUEUED"
      BY <1>0 DEF Eligible, Recoverable, Live
    <3>2. ~Failing(w)
      BY <1>0, <2>2 DEF Failing, Live
    <3> QED  BY <1>7, <2>1, <2>2, <3>1, <3>2 DEF Claim, Cleanup, Refuse
  <2>3. CASE job[w].run # r
    BY <1>0, <1>7, <2>1, <2>3 DEF Claim, Start, Cleanup, Refuse, TypeOK
  <2> QED  BY <2>2, <2>3
<1>8. ASSUME NEW w \in Workers, Sources(w)
      PROVE  run'[r] = run[r] /\ files'[r] = files[r]
  BY <1>8, SourcesStep DEF vars
<1> QED  BY <1>1, <1>2, <1>3, <1>4, <1>5, <1>6, <1>7, <1>8 DEF Next, Step

(***************************************************************************)
(* A run that is over stays so, in its row and its files, but for a resume *)
(* the code offers: late workers and late refusals find a guard.           *)
(***************************************************************************)
THEOREM RunsSettledFinal == Spec => SettledIsFinal
<1>1. RunsInv /\ [Next]_vars =>
        [\A r \in Runs : run[r].status \in Settled =>
           \/ run'[r] = run[r] /\ files'[r] = files[r]
           \/ Resumable(r) /\ run'[r].status = "QUEUED"]_vars
  BY SettledStays
<1> QED  BY <1>1, RunsInvariant, PTL DEF Spec, SettledIsFinal

-----------------------------------------------------------------------------
(* UploadSessions *)

Statuses == Writable \cup Gone \cup {"NONE", "FAILED", "VERIFYING", "AVAILABLE"}

InPart == {"part", "purge", "write", "commit", "old"}
Holding == {"claimed", "clear", "assemble", "put", "publish", "materialize"}
InCompletion == Holding \cup {"claim", "finish", "catch", "fail"}
InRecovery == {"recover", "recovered"}
InRemoval == {"retire", "final", "staging", "mark"}
InRelease == InRemoval \cup {"release"}
Steps == {"idle", "mkdir", "retry", "submit", "list", "owned", "sweep", "expire"}
             \cup InPart \cup InCompletion \cup InRecovery \cup InRelease

ClaimNames == Claims \cup Recoveries \cup {Nil}
MaybeParts == [Parts -> Tokens \cup {Nil}]

SessionRecord ==
    [status : Statuses, parts : MaybeParts, asset : BOOLEAN, deleted : BOOLEAN,
     attached : BOOLEAN, claim : ClaimNames, leaseOld : BOOLEAN, late : BOOLEAN,
     released : BOOLEAN, spoiled : BOOLEAN]
StoreRecord ==
    [final : Contents \cup {Nil}, pending : [Claims -> Contents \cup {Nil}],
     staging : SUBSET Tokens, assembled : Contents \cup {Nil}]
RowSeen == [status : Statuses, asset : BOOLEAN, claim : ClaimNames, leaseOld : BOOLEAN]
CallRecord ==
    [pc : Steps, part : Parts \cup {Nil}, token : Tokens \cup {Nil},
     claim : ClaimNames, row : {Nil} \cup MaybeParts \cup RowSeen,
     kill : BOOLEAN, due : BOOLEAN]

UploadTypes ==
    /\ session \in SessionRecord /\ store \in StoreRecord
    /\ call \in [Callers -> CallRecord]
    /\ busy \in [part : Callers \cup {Nil}, final : Callers \cup {Nil}]

\* Nothing is assembled any more: the session is over or its file is there.
Over == session.status \in Gone \cup {"AVAILABLE"} \/ session.asset

Swept == store.pending = NoFile.pending
Empty == Swept /\ store.staging = {} /\ store.assembled = Nil

SessionOK ==
    /\ session.asset => /\ session.status \in Gone \cup {"VERIFYING", "AVAILABLE"}
                        /\ session.parts \in Contents
    /\ session.attached => session.status \in Gone \cup {"AVAILABLE"}
    /\ session.deleted => session.status \in Gone /\ ~session.attached
    /\ session.asset /\ ~session.deleted => store.final = session.parts
    /\ session.released => Over /\ Empty

Holder(c) == call[c].pc \in Holding \cup InRecovery

CallerOK(c) ==
    LET d == call[c] IN
    /\ d.pc \in InPart => busy.part = c
    /\ d.pc \in InCompletion => busy.final = c
    /\ d.pc \in {"purge", "write", "commit"} => d.part \in Parts
    /\ d.pc = "commit" => d.token \in Tokens
    /\ d.pc \in InCompletion \ {"claim"} => d.claim \in Claims
    /\ d.pc \in InRecovery => d.claim \in Recoveries
    /\ Holder(c) => Mine(c) /\ ~session.asset /\ ~session.leaseOld
    /\ d.pc \in {"clear", "assemble"} => d.row = session.parts
    /\ d.pc = "put" => store.assembled \in {Nil, session.parts}
    /\ d.pc = "publish" => store.pending[d.claim] \in {Nil, session.parts}
    /\ d.pc = "materialize" => store.final = session.parts /\ session.parts \in Contents
    /\ d.pc = "retry" => session.asset
    /\ d.pc \in {"owned", "sweep"} =>
          /\ d.row \in RowSeen
          /\ d.row.status \in Gone \cup {"AVAILABLE"} \/ d.row.asset => Over
    /\ d.pc \in InRelease => Over
    /\ d.pc = "expire" /\ c = Cleaner => Over
    /\ d.pc = "final" /\ d.kill => session.deleted
    /\ d.pc = "staging" => Swept
    /\ d.pc = "mark" => Empty

\* At most one call holds the claim.
Alone == \A c, d \in Callers : Holder(c) /\ Holder(d) => c = d

\* Files of the session are being removed, or have been.
Sweeping == session.released \/ \E d \in Callers : call[d].pc \in InRemoval

\* No part is on its way to the disk that a release has looked for already.
NoneLeft == Sweeping => \A c \in Callers : call[c].pc \notin {"purge", "write"}

UploadInv ==
    /\ UploadTypes /\ SessionOK /\ Alone /\ NoneLeft
    /\ \A c \in Callers : CallerOK(c)

-----------------------------------------------------------------------------
(* A step of one call *)

Fewer ==
    /\ store'.assembled \in {Nil, store.assembled}
    /\ \A k \in Claims : store'.pending[k] \in {Nil, store.pending[k]}

Shrinks == Fewer /\ store'.staging \subseteq store.staging

\* What a call with the claim relies on.
Undisturbed ==
    /\ session'.status = session.status /\ session'.claim = session.claim
    /\ session'.asset = session.asset /\ session'.leaseOld = session.leaseOld
    /\ session'.parts = session.parts /\ store'.final = store.final
    /\ Fewer

\* Only time tells a call that it goes on as it is.
Stays(d) ==
    /\ call'[d].pc = call[d].pc /\ call'[d].part = call[d].part
    /\ call'[d].token = call[d].token /\ call'[d].claim = call[d].claim
    /\ call'[d].row = call[d].row /\ call'[d].kill = call[d].kill
    /\ busy.part = d => busy'.part = d
    /\ busy.final = d => busy'.final = d

Lasts ==
    /\ Over => Over'
    /\ session.asset => session'.asset
    /\ session.deleted => session'.deleted
    /\ Sweeping => Shrinks

Sound(c) ==
    /\ UploadTypes' /\ SessionOK' /\ CallerOK(c)' /\ Lasts
    /\ \A d \in Callers \ {c} : Stays(d) /\ (Holder(d) => Undisturbed)
    /\ Holder(c)' => Holder(c) \/ \A d \in Callers : ~Holder(d)
    /\ call'[c].pc \in {"purge", "write"} => call[c].pc = "purge" \/ ~Sweeping
    /\ call'[c].pc \in InRemoval => Sweeping \/ busy.part = Nil
    /\ session'.released => Sweeping

LEMMA HolderKnows ==
    ASSUME UploadInv, NEW d \in Callers, Holder(d)
    PROVE  /\ session.status = "VERIFYING" /\ ~session.asset /\ ~Over
           /\ session.claim = call[d].claim /\ ~session.leaseOld
           /\ call[d].pc \in InCompletion => busy.final = d /\ call[d].claim \in Claims
           /\ call[d].pc \in InRecovery => call[d].claim \in Recoveries
<1>1. CallerOK(d)
  BY DEF UploadInv
<1>2. Mine(d) /\ ~session.asset /\ ~session.leaseOld
  BY <1>1 DEF CallerOK
<1>3. /\ call[d].pc \in InCompletion => busy.final = d
      /\ call[d].pc \in InCompletion \ {"claim"} => call[d].claim \in Claims
      /\ call[d].pc \in InRecovery => call[d].claim \in Recoveries
  BY <1>1 DEF CallerOK
<1> QED
  BY <1>2, <1>3 DEF Mine, Over, Gone, Holder, Holding, InCompletion, InRecovery

LEMMA SweepingIsClosed ==
    ASSUME UploadInv, Sweeping
    PROVE  Over /\ \A d \in Callers : ~Holder(d)
<1>1. Over
  BY DEF UploadInv, Sweeping, SessionOK, CallerOK, InRelease
<1> QED
  BY <1>1, HolderKnows

\* A call that stays keeps what it relies on.
LEMMA StaysSound ==
    ASSUME UploadInv, Lasts, NEW d \in Callers, Stays(d), Holder(d) => Undisturbed,
           UploadTypes'
    PROVE  CallerOK(d)'
<1>0. CallerOK(d) /\ Stays(d) /\ Lasts
  BY DEF UploadInv
<1> DEFINE pc == call[d].pc
<1>1. /\ call'[d].pc \in InPart => busy'.part = d
      /\ call'[d].pc \in InCompletion => busy'.final = d
      /\ call'[d].pc \in {"purge", "write", "commit"} => call'[d].part \in Parts
      /\ call'[d].pc = "commit" => call'[d].token \in Tokens
      /\ call'[d].pc \in InCompletion \ {"claim"} => call'[d].claim \in Claims
      /\ call'[d].pc \in InRecovery => call'[d].claim \in Recoveries
  BY <1>0 DEF CallerOK, Stays
<1>2. Holder(d)' <=> Holder(d)
  BY <1>0 DEF Holder, Stays
<1>3. Holder(d)' => (Mine(d) /\ ~session.asset /\ ~session.leaseOld)'
  BY <1>0, <1>2 DEF CallerOK, Stays, Undisturbed, Mine
<1>4. /\ call'[d].pc \in {"clear", "assemble"} => call'[d].row = session'.parts
      /\ call'[d].pc = "put" => store'.assembled \in {Nil, session'.parts}
      /\ call'[d].pc = "publish" => store'.pending[call'[d].claim] \in {Nil, session'.parts}
      /\ call'[d].pc = "materialize" =>
            store'.final = session'.parts /\ session'.parts \in Contents
  <2>1. CASE ~Holder(d)
    BY <1>0, <2>1 DEF Stays, Holder, Holding
  <2>2. CASE Holder(d)
    <3>1. Undisturbed /\ Fewer
      BY <2>2 DEF Undisturbed
    <3>2. call[d].pc = "publish" => call[d].claim \in Claims
      BY <1>0 DEF CallerOK, InCompletion, Holding
    <3> QED
      BY <1>0, <3>1, <3>2 DEF CallerOK, Stays, Undisturbed, Fewer
  <2> QED
    BY <2>1, <2>2
<1>5. /\ call'[d].pc = "retry" => session'.asset
      /\ call'[d].pc \in {"owned", "sweep"} =>
            /\ call'[d].row \in RowSeen
            /\ call'[d].row.status \in Gone \cup {"AVAILABLE"} \/ call'[d].row.asset => Over'
      /\ call'[d].pc \in InRelease => Over'
      /\ call'[d].pc = "expire" /\ d = Cleaner => Over'
      /\ call'[d].pc = "final" /\ call'[d].kill => session'.deleted
  BY <1>0 DEF CallerOK, Stays, Lasts
<1>6. /\ call'[d].pc = "staging" => Swept'
      /\ call'[d].pc = "mark" => Empty'
  <2>1. CASE call[d].pc \notin InRemoval
    BY <1>0, <2>1 DEF Stays, InRemoval
  <2>2. CASE call[d].pc \in InRemoval
    <3>1. Shrinks
      BY <1>0, <2>2 DEF Lasts, Sweeping
    <3>2. store \in StoreRecord /\ store' \in StoreRecord
      BY DEF UploadInv, UploadTypes
    <3>3. Swept => Swept'
      BY <3>1, <3>2 DEF Swept, Shrinks, Fewer, NoFile, StoreRecord
    <3>4. Empty => Empty'
      BY <3>1, <3>3 DEF Empty, Shrinks, Fewer
    <3> QED
      BY <1>0, <3>3, <3>4 DEF CallerOK, Stays
  <2> QED
    BY <2>1, <2>2
<1> QED
  BY <1>1, <1>3, <1>4, <1>5, <1>6 DEF CallerOK

LEMMA SoundStep ==
    ASSUME UploadInv, NEW c \in Callers, Sound(c)
    PROVE  UploadInv'
<1>1. ASSUME NEW d \in Callers
      PROVE  CallerOK(d)'
  <2>1. CASE d = c
    BY <2>1 DEF Sound
  <2>2. CASE d # c
    BY <2>2, StaysSound DEF Sound
  <2> QED
    BY <2>1, <2>2
<1>2. \A d \in Callers \ {c} : call'[d].pc = call[d].pc
  BY DEF Sound, Stays
<1>3. Alone'
  <2>1. Alone
    BY DEF UploadInv
  <2>2. \A d \in Callers \ {c} : Holder(d)' <=> Holder(d)
    BY <1>2 DEF Holder
  <2>3. Holder(c)' => Holder(c) \/ \A d \in Callers : ~Holder(d)
    BY DEF Sound
  <2> QED
    BY <2>1, <2>2, <2>3 DEF Alone
<1>4. NoneLeft'
  <2> SUFFICES ASSUME Sweeping', NEW e \in Callers, call'[e].pc \in {"purge", "write"}
               PROVE  FALSE
    BY DEF NoneLeft
  <2>1. call'[e].pc \notin InRemoval
    BY DEF InRemoval
  <2>2. CASE Sweeping
    <3>1. \A d \in Callers : call[d].pc \notin {"purge", "write"}
      BY <2>2 DEF UploadInv, NoneLeft
    <3> QED
      BY <1>2, <2>2, <3>1 DEF Sound
  <2>3. CASE ~Sweeping
    <3>1. ~session'.released
      BY <2>3 DEF Sound
    <3>2. PICK d \in Callers : call'[d].pc \in InRemoval
      BY <3>1 DEF Sweeping
    <3>3. d = c
      BY <1>2, <2>3, <3>2 DEF Sweeping
    <3>4. busy.part = Nil
      BY <2>3, <3>2, <3>3 DEF Sound
    <3>5. e # c /\ call[e].pc \in {"purge", "write"}
      BY <1>2, <2>1, <3>2, <3>3
    <3>6. busy.part = e
      BY <3>5 DEF UploadInv, CallerOK, InPart
    <3> QED
      BY <3>4, <3>6, NilAssumption DEF Callers
  <2> QED
    BY <2>2, <2>3
<1> QED
  BY <1>1, <1>3, <1>4 DEF Sound, UploadInv

-----------------------------------------------------------------------------
(* How a call moves on *)

Others(c) == \A d \in Callers \ {c} : Stays(d)

CallTypes == call \in [Callers -> CallRecord]
BusyTypes == busy \in [part : Callers \cup {Nil}, final : Callers \cup {Nil}]

LEMMA CallSet ==
    ASSUME CallTypes, NEW c \in Callers, NEW x \in CallRecord,
           call' = [call EXCEPT ![c] = x]
    PROVE  /\ CallTypes' /\ call'[c] = x
           /\ \A d \in Callers \ {c} : call'[d] = call[d]
BY DEF CallTypes

LEMMA RestingType == Resting \in CallRecord /\ Resting.pc = "idle"
BY DEF Resting, CallRecord, Steps, ClaimNames

LEMMA CallEnds ==
    ASSUME CallTypes, BusyTypes, NEW c \in Callers, End(c)
    PROVE  CallTypes' /\ BusyTypes' /\ Others(c) /\ call'[c] = Resting
<1>1. CallTypes' /\ call'[c] = Resting /\ \A d \in Callers \ {c} : call'[d] = call[d]
  BY CallSet, RestingType DEF End
<1>2. DOMAIN busy = {"part", "final"}
  BY DEF BusyTypes
<1>3. busy' = [m \in {"part", "final"} |-> IF busy[m] = c THEN Nil ELSE busy[m]]
  BY <1>2 DEF End
<1>4. /\ busy'.part = IF busy.part = c THEN Nil ELSE busy.part
      /\ busy'.final = IF busy.final = c THEN Nil ELSE busy.final
  BY <1>3
<1>5. BusyTypes'
  BY <1>3, <1>4 DEF BusyTypes
<1> QED
  BY <1>1, <1>4, <1>5 DEF Others, Stays

\* The call of c becomes x, and busy stays as it is.
LEMMA CallStep ==
    ASSUME CallTypes, BusyTypes, NEW c \in Callers, NEW x \in CallRecord,
           call' = [call EXCEPT ![c] = x], UNCHANGED busy
    PROVE  CallTypes' /\ BusyTypes' /\ Others(c) /\ call'[c] = x
<1>1. CallTypes' /\ call'[c] = x /\ \A d \in Callers \ {c} : call'[d] = call[d]
  BY CallSet
<1> QED
  BY <1>1 DEF BusyTypes, Others, Stays

LEMMA GotoStep ==
    ASSUME CallTypes, BusyTypes, NEW c \in Callers, NEW pc \in Steps, Goto(c, pc)
    PROVE  /\ CallTypes' /\ BusyTypes' /\ Others(c)
           /\ call'[c] \in CallRecord /\ call'[c].pc = pc
           /\ call'[c].part = call[c].part /\ call'[c].token = call[c].token
           /\ call'[c].claim = call[c].claim /\ call'[c].row = call[c].row
           /\ call'[c].kill = call[c].kill /\ UNCHANGED busy
<1>1. PICK x : x = [call[c] EXCEPT !.pc = pc]
  OBVIOUS
<1>2. call[c] \in CallRecord
  BY DEF CallTypes
<1>3. /\ x \in CallRecord /\ x.pc = pc /\ x.part = call[c].part /\ x.token = call[c].token
      /\ x.claim = call[c].claim /\ x.row = call[c].row /\ x.kill = call[c].kill
  BY <1>1, <1>2 DEF CallRecord
<1>4. call' = [call EXCEPT ![c] = x] /\ UNCHANGED busy
  BY <1>1 DEF Goto
<1> QED
  BY <1>3, <1>4, CallStep

LEMMA ForgetStep ==
    ASSUME CallTypes, BusyTypes, NEW c \in Callers, NEW pc \in Steps, Forget(c, pc)
    PROVE  /\ CallTypes' /\ BusyTypes' /\ Others(c)
           /\ call'[c] \in CallRecord /\ call'[c].pc = pc
           /\ call'[c].kill = FALSE /\ UNCHANGED busy
<1>0. PICK b \in BOOLEAN : b = (pc = "expire")
  OBVIOUS
<1>1. PICK x : x = [Resting EXCEPT !.pc = pc, !.due = b]
  OBVIOUS
<1>2. x \in CallRecord /\ x.pc = pc /\ x.kill = FALSE
  BY <1>1 DEF Resting, CallRecord, ClaimNames
<1>3. call' = [call EXCEPT ![c] = x] /\ UNCHANGED busy
  BY <1>0, <1>1 DEF Forget
<1> QED
  BY <1>2, <1>3, CallStep

\* A call that is at rest, or is told nothing that it must rely on.
LEMMA NothingToKnow ==
    ASSUME NEW c, call'[c].pc \in {"idle", "mkdir", "submit", "list"}
    PROVE  CallerOK(c)' /\ ~Holder(c)'
BY DEF CallerOK, Holder, Holding, InRecovery, InPart, InCompletion, InRelease, InRemoval

LEMMA ReleasesClosed ==
    ASSUME NEW c, call'[c].pc = "release", Over'
    PROVE  CallerOK(c)' /\ ~Holder(c)'
BY DEF CallerOK, Holder, Holding, InRecovery, InPart, InCompletion, InRelease, InRemoval

\* A step that leaves the row alone, and at most removes files.
LEMMA QuietSound ==
    ASSUME UploadInv, NEW c \in Callers, UNCHANGED session, store' \in StoreRecord,
           Shrinks, store'.final = store.final,
           CallTypes', BusyTypes', Others(c), CallerOK(c)', Holder(c)' => Holder(c),
           call'[c].pc \in {"purge", "write"} => call[c].pc = "purge" \/ ~Sweeping,
           call'[c].pc \in InRemoval => call[c].pc \in InRemoval \/ busy.part = Nil
    PROVE  Sound(c)
<1>1. UploadTypes'
  BY DEF UploadInv, UploadTypes, CallTypes, BusyTypes
<1>2. /\ Lasts /\ Over' = Over
  BY DEF Lasts, Over
<1>3. Empty => Empty'
  <2>1. store \in StoreRecord
    BY DEF UploadInv, UploadTypes
  <2> QED
    BY <2>1 DEF Empty, Swept, Shrinks, Fewer, NoFile, StoreRecord
<1>4. SessionOK'
  BY <1>2, <1>3 DEF UploadInv, SessionOK
<1>5. Undisturbed
  BY DEF Undisturbed, Shrinks
<1>6. session'.released => Sweeping
  BY DEF Sweeping
<1>7. call'[c].pc \in InRemoval => Sweeping \/ busy.part = Nil
  BY DEF Sweeping
<1> QED
  BY <1>1, <1>2, <1>4, <1>5, <1>6, <1>7 DEF Sound, Others

LEMMA InvTypes ==
    ASSUME UploadInv
    PROVE  /\ CallTypes /\ BusyTypes /\ session \in SessionRecord /\ store \in StoreRecord
           /\ store.final \in Contents \cup {Nil} /\ store.staging \subseteq Tokens
           /\ store.assembled \in Contents \cup {Nil}
           /\ store.pending \in [Claims -> Contents \cup {Nil}]
           /\ session.parts \in MaybeParts /\ session.status \in Statuses
           /\ session.claim \in ClaimNames
           /\ \A c \in Callers : CallerOK(c) /\ call[c] \in CallRecord
BY DEF UploadInv, UploadTypes, CallTypes, BusyTypes, StoreRecord, SessionRecord

\* A step that writes nothing.
LEMMA SilentSound ==
    ASSUME UploadInv, NEW c \in Callers, UNCHANGED <<session, store>>,
           CallTypes', BusyTypes', Others(c), CallerOK(c)', Holder(c)' => Holder(c),
           call'[c].pc \in {"purge", "write"} => call[c].pc = "purge" \/ ~Sweeping,
           call'[c].pc \in InRemoval => call[c].pc \in InRemoval \/ busy.part = Nil
    PROVE  Sound(c)
BY InvTypes, QuietSound DEF Shrinks, Fewer

LEMMA EndsSilently ==
    ASSUME UploadInv, NEW c \in Callers, UNCHANGED <<session, store>>, End(c)
    PROVE  Sound(c) /\ call'[c].pc = "idle"
<1>1. CallTypes' /\ BusyTypes' /\ Others(c) /\ call'[c].pc = "idle"
  BY InvTypes, CallEnds, RestingType
<1>2. CallerOK(c)' /\ ~Holder(c)'
  BY <1>1, NothingToKnow
<1> QED
  BY <1>1, <1>2, SilentSound DEF InRemoval

-----------------------------------------------------------------------------
(* Parts *)

LEMMA PartEnterSound ==
    ASSUME UploadInv, NEW r \in Requests, PartEnter(r)
    PROVE  Sound(r)
<1>0. r \in Callers /\ CallTypes /\ BusyTypes /\ call[r] \in CallRecord /\ busy.part = Nil
  BY InvTypes DEF Callers, PartEnter
<1>1. PICK x : x = [call[r] EXCEPT !.pc = "part"]
  OBVIOUS
<1>2. x \in CallRecord /\ x.pc = "part"
  BY <1>0, <1>1 DEF CallRecord, Steps, InPart
<1>3. call' = [call EXCEPT ![r] = x] /\ busy' = [busy EXCEPT !.part = r]
  BY <1>1 DEF PartEnter
<1>4. CallTypes' /\ call'[r] = x /\ \A d \in Callers \ {r} : call'[d] = call[d]
  BY <1>0, <1>2, <1>3, CallSet
<1>5. BusyTypes' /\ busy'.part = r /\ busy'.final = busy.final
  BY <1>0, <1>3 DEF BusyTypes
<1>6. Others(r)
  BY <1>0, <1>4, <1>5, NilAssumption DEF Others, Stays, Callers
<1>7. CallerOK(r)' /\ ~Holder(r)'
  BY <1>2, <1>4, <1>5 DEF CallerOK, Holder, Holding, InRecovery, InPart, InCompletion,
                          InRelease, InRemoval
<1>8. UNCHANGED <<session, store>>
  BY DEF PartEnter
<1> QED
  BY <1>0, <1>2, <1>4, <1>5, <1>6, <1>7, <1>8, SilentSound DEF InRemoval

LEMMA PartReadSound ==
    ASSUME UploadInv, NEW r \in Requests, PartRead(r)
    PROVE  Sound(r)
<1>0. /\ r \in Callers /\ CallTypes /\ BusyTypes /\ call[r] \in CallRecord
      /\ call[r].pc = "part" /\ UNCHANGED <<session, store>>
      /\ CallerOK(r) /\ session.parts \in MaybeParts
  BY InvTypes DEF Callers, PartRead, At
<1>1. CASE End(r)
  BY <1>0, <1>1, EndsSilently
<1>2. ASSUME NEW n \in Parts, session.status \in Writable, UNCHANGED busy,
             call' = [call EXCEPT ![r].pc = "purge", ![r].part = n, ![r].row = session.parts]
      PROVE  Sound(r)
  <2>1. PICK x : x = [call[r] EXCEPT !.pc = "purge", !.part = n, !.row = session.parts]
    OBVIOUS
  <2>2. x \in CallRecord /\ x.pc = "purge" /\ x.part = n
    BY <1>0, <2>1 DEF CallRecord, Steps, InPart
  <2>3. call' = [call EXCEPT ![r] = x]
    BY <1>2, <2>1
  <2>4. CallTypes' /\ BusyTypes' /\ Others(r) /\ call'[r] = x
    BY <1>0, <1>2, <2>2, <2>3, CallStep
  <2>5. CallerOK(r)' /\ ~Holder(r)'
    BY <1>0, <1>2, <2>2, <2>4 DEF CallerOK, Holder, Holding, InRecovery, InPart,
                                  InCompletion, InRelease, InRemoval
  <2>6. ~Over
    BY <1>2 DEF UploadInv, SessionOK, Over, Writable, Gone
  <2>7. ~Sweeping
    BY <2>6, SweepingIsClosed
  <2> QED
    BY <1>0, <2>2, <2>4, <2>5, <2>7, SilentSound DEF InRemoval
<1> QED
  BY <1>1, <1>2 DEF PartRead

LEMMA PurgedShrinks ==
    ASSUME UploadInv, NEW row, store' = Purged(row)
    PROVE  store' \in StoreRecord /\ Shrinks /\ store'.final = store.final
           /\ store'.assembled = Nil /\ store'.pending = store.pending
<1>1. store \in StoreRecord
  BY InvTypes
<1> QED
  BY <1>1 DEF Purged, StoreRecord, Shrinks, Fewer

LEMMA PartPurgeSound ==
    ASSUME UploadInv, NEW r \in Requests, PartPurge(r)
    PROVE  Sound(r)
<1>0. /\ r \in Callers /\ CallTypes /\ BusyTypes /\ CallerOK(r)
      /\ call[r].pc = "purge" /\ UNCHANGED session /\ Goto(r, "write")
      /\ "write" \in Steps
  BY InvTypes DEF Callers, PartPurge, At, Steps, InPart
<1>1. store' \in StoreRecord /\ Shrinks /\ store'.final = store.final
  BY PurgedShrinks DEF PartPurge
<1>2. /\ CallTypes' /\ BusyTypes' /\ Others(r) /\ call'[r].pc = "write"
      /\ call'[r].part = call[r].part /\ UNCHANGED busy
  BY <1>0, GotoStep
<1>3. CallerOK(r)' /\ ~Holder(r)'
  BY <1>0, <1>2 DEF CallerOK, Holder, Holding, InRecovery, InPart, InCompletion,
                    InRelease, InRemoval
<1> QED
  BY <1>0, <1>1, <1>2, <1>3, QuietSound DEF InRemoval

LEMMA PartWriteSound ==
    ASSUME UploadInv, NEW r \in Requests, PartWrite(r)
    PROVE  Sound(r)
<1>0. /\ r \in Callers /\ CallTypes /\ BusyTypes /\ CallerOK(r) /\ call[r] \in CallRecord
      /\ call[r].pc = "write" /\ UNCHANGED <<session, busy>>
      /\ store \in StoreRecord
  BY InvTypes DEF Callers, PartWrite, At
<1>1. PICK t \in Tokens : t = NewToken
  BY DEF PartWrite, NewToken
<1>2. PICK x : x = [call[r] EXCEPT !.pc = "commit", !.token = t, !.row = Nil]
  OBVIOUS
<1>3. x \in CallRecord /\ x.pc = "commit" /\ x.token = t /\ x.part = call[r].part
  BY <1>0, <1>2 DEF CallRecord, Steps, InPart
<1>4. call' = [call EXCEPT ![r] = x] /\ store' = [store EXCEPT !.staging = @ \cup {t}]
  BY <1>1, <1>2 DEF PartWrite
<1>5. CallTypes' /\ BusyTypes' /\ Others(r) /\ call'[r] = x
  BY <1>0, <1>3, <1>4, CallStep
<1>6. /\ store' \in StoreRecord /\ store'.final = store.final
      /\ store'.assembled = store.assembled /\ store'.pending = store.pending
  BY <1>0, <1>4 DEF StoreRecord
<1>7. CallerOK(r)' /\ ~Holder(r)'
  BY <1>0, <1>3, <1>5 DEF CallerOK, Holder, Holding, InRecovery, InPart, InCompletion,
                          InRelease, InRemoval
<1>8. ~Sweeping
  BY <1>0 DEF UploadInv, NoneLeft
<1>9. Lasts /\ Over' = Over
  BY <1>0, <1>8 DEF Lasts, Over
<1>10. SessionOK'
  BY <1>0, <1>6, <1>8, <1>9 DEF UploadInv, SessionOK, Sweeping
<1>11. Undisturbed
  BY <1>0, <1>6 DEF Undisturbed, Fewer
<1>12. UploadTypes'
  BY <1>0, <1>5, <1>6 DEF UploadInv, UploadTypes, CallTypes, BusyTypes
<1>13. ~session'.released
  BY <1>0, <1>8 DEF Sweeping
<1> QED
  BY <1>3, <1>5, <1>7, <1>9, <1>10, <1>11, <1>12, <1>13 DEF Sound, Others, InRemoval

LEMMA DroppedShrinks ==
    ASSUME UploadInv, NEW t, store' = Dropped(t)
    PROVE  store' \in StoreRecord /\ Shrinks /\ store'.final = store.final
<1>1. store \in StoreRecord
  BY InvTypes
<1> QED
  BY <1>1 DEF Dropped, StoreRecord, Shrinks, Fewer

LEMMA EndsDropping ==
    ASSUME UploadInv, NEW c \in Callers, UNCHANGED session, End(c),
           store' = store \/ \E t : store' = Dropped(t)
    PROVE  Sound(c)
<1>0. CallTypes' /\ BusyTypes' /\ Others(c) /\ call'[c].pc = "idle"
  BY InvTypes, CallEnds, RestingType
<1>1. CallerOK(c)' /\ ~Holder(c)'
  BY <1>0, NothingToKnow
<1>2. CASE store' = store
  BY <1>2, EndsSilently
<1>3. ASSUME NEW t, store' = Dropped(t)
      PROVE  Sound(c)
  BY <1>0, <1>1, <1>3, DroppedShrinks, QuietSound DEF InRemoval
<1> QED
  BY <1>2, <1>3

LEMMA PartRemoveOldSound ==
    ASSUME UploadInv, NEW r \in Requests, PartRemoveOld(r)
    PROVE  Sound(r)
BY EndsDropping DEF PartRemoveOld, Callers

\* A part is registered while the session is writable, when nobody has a
\* claim and nothing was released.
LEMMA RegisteredKeeps ==
    ASSUME UploadInv, NEW r \in Requests, call[r].pc = "commit",
           session.status \in Writable, session' = Registered(r),
           store' \in StoreRecord, store'.final = store.final
    PROVE  /\ session' \in SessionRecord /\ SessionOK' /\ Lasts /\ ~session'.released
           /\ \A d \in Callers : ~Holder(d)
           /\ session'.status = "UPLOADING"
<1>0. /\ r \in Callers /\ session \in SessionRecord
      /\ CallerOK(r) /\ session.parts \in MaybeParts
  BY InvTypes DEF Callers
<1>1. call[r].part \in Parts /\ call[r].token \in Tokens
  BY <1>0 DEF CallerOK
<1>2. PICK f : f = [session.parts EXCEPT ![call[r].part] = call[r].token]
  OBVIOUS
<1>3. f \in MaybeParts
  BY <1>0, <1>1, <1>2 DEF MaybeParts
<1>4. session' = [session EXCEPT !.parts = f, !.status = "UPLOADING"]
  BY <1>2 DEF Registered
<1>5. /\ session' \in SessionRecord /\ session'.status = "UPLOADING"
      /\ session'.asset = session.asset /\ session'.attached = session.attached
      /\ session'.deleted = session.deleted /\ session'.released = session.released
  BY <1>0, <1>3, <1>4 DEF SessionRecord, Statuses, Writable
<1>6. /\ ~session.asset /\ ~session.attached /\ ~session.deleted /\ ~Over
  BY DEF UploadInv, SessionOK, Over, Writable, Gone
<1>7. ~Sweeping /\ ~session.released
  BY <1>6, SweepingIsClosed DEF Sweeping
<1>8. SessionOK'
  BY <1>5, <1>6, <1>7 DEF SessionOK
<1>9. \A d \in Callers : ~Holder(d)
  BY HolderKnows DEF Writable
<1> QED
  BY <1>5, <1>6, <1>7, <1>8, <1>9 DEF Lasts

LEMMA PartCommitSound ==
    ASSUME UploadInv, NEW r \in Requests, PartCommit(r)
    PROVE  Sound(r)
<1>0. /\ r \in Callers /\ CallTypes /\ BusyTypes /\ CallerOK(r) /\ call[r] \in CallRecord
      /\ call[r].pc = "commit" /\ session.parts \in MaybeParts
      /\ store \in StoreRecord
  BY InvTypes DEF Callers, PartCommit, At
<1>1. CASE session.status \in Writable /\ ~session.late
  <2>1. /\ session' = Registered(r) /\ UNCHANGED <<store, busy>>
        /\ call' = [call EXCEPT ![r].pc = "old", ![r].token = session.parts[call[r].part]]
    BY <1>1 DEF PartCommit
  <2>2. PICK t \in Tokens \cup {Nil} : t = session.parts[call[r].part]
    BY <1>0 DEF CallerOK, MaybeParts
  <2>3. PICK x : x = [call[r] EXCEPT !.pc = "old", !.token = t]
    OBVIOUS
  <2>4. x \in CallRecord /\ x.pc = "old"
    BY <1>0, <2>2, <2>3 DEF CallRecord, Steps, InPart
  <2>5. call' = [call EXCEPT ![r] = x]
    BY <2>1, <2>2, <2>3
  <2>6. CallTypes' /\ BusyTypes' /\ Others(r) /\ call'[r] = x
    BY <1>0, <2>1, <2>4, <2>5, CallStep
  <2>7. CallerOK(r)' /\ ~Holder(r)'
    BY <1>0, <2>1, <2>4, <2>6 DEF CallerOK, Holder, Holding, InRecovery, InPart,
                                  InCompletion, InRelease, InRemoval
  <2>8. /\ session' \in SessionRecord /\ SessionOK' /\ Lasts /\ ~session'.released
        /\ \A d \in Callers : ~Holder(d)
    BY <1>0, <1>1, <2>1, RegisteredKeeps
  <2>9. UploadTypes'
    BY <1>0, <2>1, <2>6, <2>8 DEF UploadTypes, CallTypes, BusyTypes
  <2> QED
    BY <2>4, <2>6, <2>7, <2>8, <2>9 DEF Sound, Others, InRemoval
<1>2. CASE ~(session.status \in Writable /\ ~session.late)
  BY <1>0, <1>2, EndsDropping DEF PartCommit
<1> QED
  BY <1>1, <1>2

LEMMA PartFailsSound ==
    ASSUME UploadInv, NEW r \in Requests, PartFails(r)
    PROVE  Sound(r)
<1>0. /\ r \in Callers /\ End(r) /\ CallTypes /\ BusyTypes /\ store \in StoreRecord
      /\ store' = store \/ \E t : store' = Dropped(t)
  BY InvTypes DEF Callers, PartFails
<1>1. CASE session' = session
  BY <1>0, <1>1, EndsDropping
<1>2. CASE session' # session
  <2>1. call[r].pc = "commit" /\ session.status \in Writable /\ session' = Registered(r)
    BY <1>2 DEF PartFails, At
  <2>2. store' \in StoreRecord /\ store'.final = store.final
    BY <1>0, DroppedShrinks
  <2>3. /\ session' \in SessionRecord /\ SessionOK' /\ Lasts /\ ~session'.released
        /\ \A d \in Callers : ~Holder(d)
    BY <2>1, <2>2, RegisteredKeeps
  <2>4. CallTypes' /\ BusyTypes' /\ Others(r) /\ call'[r].pc = "idle"
    BY <1>0, CallEnds, RestingType
  <2>5. CallerOK(r)' /\ ~Holder(r)'
    BY <2>4, NothingToKnow
  <2>6. UploadTypes'
    BY <2>2, <2>3, <2>4 DEF UploadTypes, CallTypes, BusyTypes
  <2> QED
    BY <2>3, <2>4, <2>5, <2>6 DEF Sound, Others, InRemoval
<1> QED
  BY <1>1, <1>2

-----------------------------------------------------------------------------
(* Steps that move the session on *)

SameFile ==
    /\ session'.parts = session.parts /\ session'.asset = session.asset
    /\ session'.deleted = session.deleted /\ session'.attached = session.attached
    /\ session'.released = session.released

\* Where a status may go without breaking what is known of the file.
MovesOn ==
    /\ session.deleted => session'.status \in Gone
    /\ Over => \/ session'.status \in Gone \cup {"AVAILABLE"}
                 \/ session'.status = session.status

LEMMA MovesOnOK ==
    ASSUME UploadInv, UNCHANGED store, session' \in SessionRecord, SameFile, MovesOn
    PROVE  SessionOK' /\ Lasts
<1>0. SessionOK
  BY DEF UploadInv
<1>1. Over => Over'
  BY DEF MovesOn, Over, SameFile
<1>2. session.asset \/ session.attached \/ session.released => Over
  BY <1>0 DEF SessionOK, Over
<1>3. Empty' = Empty
  BY DEF Empty, Swept
<1>4. session.attached => session'.status \in Gone \cup {"AVAILABLE"}
  BY <1>0, <1>2 DEF SessionOK, MovesOn
<1>5. session.asset => session'.status \in Gone \cup {"VERIFYING", "AVAILABLE"}
  BY <1>0, <1>2 DEF SessionOK, MovesOn
<1>6. SessionOK'
  BY <1>0, <1>1, <1>3, <1>4, <1>5 DEF SessionOK, SameFile, MovesOn
<1> QED
  BY <1>1, <1>6, InvTypes DEF Lasts, SameFile, Shrinks, Fewer

LEMMA StatusSound ==
    ASSUME UploadInv, NEW c \in Callers, UNCHANGED store, session' \in SessionRecord,
           SameFile, MovesOn, \A d \in Callers \ {c} : ~Holder(d),
           CallTypes', BusyTypes', Others(c), CallerOK(c)',
           call'[c].pc \notin {"purge", "write"} \cup InRemoval
    PROVE  Sound(c)
<1>1. SessionOK' /\ Lasts
  BY MovesOnOK
<1>2. UploadTypes'
  BY InvTypes DEF UploadTypes, CallTypes, BusyTypes
<1>3. session'.released => Sweeping
  BY DEF SameFile, Sweeping
<1>4. Holder(c) \/ \A d \in Callers : ~Holder(d)
  OBVIOUS
<1> QED
  BY <1>1, <1>2, <1>3, <1>4 DEF Sound, Others

\* The call ends with it, or goes on to a release.
LEMMA StatusEnds ==
    ASSUME UploadInv, NEW c \in Callers, UNCHANGED store, session' \in SessionRecord,
           SameFile, MovesOn, \A d \in Callers \ {c} : ~Holder(d), End(c)
    PROVE  Sound(c) /\ call'[c].pc = "idle"
<1>1. CallTypes' /\ BusyTypes' /\ Others(c) /\ call'[c].pc = "idle"
  BY InvTypes, CallEnds, RestingType
<1>2. CallerOK(c)'
  BY <1>1, NothingToKnow
<1> QED
  BY <1>1, <1>2, StatusSound DEF InRemoval

LEMMA StatusReleases ==
    ASSUME UploadInv, NEW c \in Callers, UNCHANGED store, session' \in SessionRecord,
           SameFile, MovesOn, \A d \in Callers \ {c} : ~Holder(d),
           Over', Forget(c, "release")
    PROVE  Sound(c) /\ call'[c].pc = "release"
<1>0. "release" \in Steps
  BY DEF Steps, InRelease
<1>1. CallTypes' /\ BusyTypes' /\ Others(c) /\ call'[c].pc = "release"
  BY <1>0, InvTypes, ForgetStep
<1>2. CallerOK(c)'
  BY <1>1, ReleasesClosed
<1> QED
  BY <1>1, <1>2, StatusSound DEF InRemoval

LEMMA RenewedStep ==
    ASSUME CallTypes, BusyTypes, NEW c \in Callers, NEW x \in CallRecord,
           call' = Renewed([call EXCEPT ![c] = x]), UNCHANGED busy
    PROVE  CallTypes' /\ BusyTypes' /\ Others(c) /\ call'[c] = [x EXCEPT !.due = FALSE]
<1>1. PICK f : f = [call EXCEPT ![c] = x]
  OBVIOUS
<1>2. f \in [Callers -> CallRecord] /\ f[c] = x /\ \A d \in Callers \ {c} : f[d] = call[d]
  BY <1>1 DEF CallTypes
<1>3. call' = [d \in Callers |-> [f[d] EXCEPT !.due = FALSE]]
  BY <1>1 DEF Renewed
<1>4. \A y \in CallRecord : [y EXCEPT !.due = FALSE] \in CallRecord
  BY DEF CallRecord
<1>5. CallTypes'
  BY <1>2, <1>3, <1>4 DEF CallTypes
<1>6. \A y \in CallRecord : LET z == [y EXCEPT !.due = FALSE] IN
         /\ z.pc = y.pc /\ z.part = y.part /\ z.token = y.token
         /\ z.claim = y.claim /\ z.row = y.row /\ z.kill = y.kill
  BY DEF CallRecord
<1>7. \A d \in Callers \ {c} : call'[d] = [call[d] EXCEPT !.due = FALSE]
  BY <1>2, <1>3
<1>8. ASSUME NEW d \in Callers \ {c}
      PROVE  Stays(d)
  <2>1. PICK y \in CallRecord : y = call[d]
    BY DEF CallTypes
  <2>2. call'[d] = [y EXCEPT !.due = FALSE]
    BY <1>7, <2>1
  <2> QED
    BY <1>6, <2>1, <2>2 DEF Stays
<1> QED
  BY <1>2, <1>3, <1>5, <1>8 DEF BusyTypes, Others

-----------------------------------------------------------------------------
(* Completions *)

LEMMA MadeAvailableSound ==
    ASSUME UploadInv, NEW r \in Requests, MadeAvailable(r), UNCHANGED store,
           session.status = "VERIFYING", session.asset
    PROVE  Sound(r) /\ call'[r].pc = "release" /\ session'.status = "AVAILABLE"
<1>0. /\ r \in Callers /\ CallTypes /\ BusyTypes /\ session \in SessionRecord
  BY InvTypes DEF Callers
<1>1. PICK x : x = [Resting EXCEPT !.pc = "release"]
  OBVIOUS
<1>2. x \in CallRecord /\ x.pc = "release" /\ [x EXCEPT !.due = FALSE].pc = "release"
  BY <1>1 DEF Resting, CallRecord, ClaimNames, Steps, InRelease
<1>3. /\ CallTypes' /\ BusyTypes' /\ Others(r) /\ call'[r].pc = "release"
  <2>1. call' = Renewed([call EXCEPT ![r] = x]) /\ UNCHANGED busy
    BY <1>1 DEF MadeAvailable
  <2> QED
    BY <1>0, <1>2, <2>1, RenewedStep
<1>4. /\ session' \in SessionRecord /\ SameFile /\ session'.status = "AVAILABLE"
  BY <1>0 DEF MadeAvailable, Available, SessionRecord, SameFile, Statuses, ClaimNames
<1>5. ~session.deleted
  BY DEF UploadInv, SessionOK, Gone
<1>6. MovesOn /\ Over'
  BY <1>4, <1>5 DEF MovesOn, Over
<1>7. \A d \in Callers : ~Holder(d)
  BY HolderKnows
<1>8. CallerOK(r)'
  BY <1>3, <1>6, ReleasesClosed
<1> QED
  BY <1>0, <1>3, <1>4, <1>6, <1>7, <1>8, StatusSound DEF InRemoval

LEMMA CompleteStartSound ==
    ASSUME UploadInv, NEW r \in Requests, CompleteStart(r)
    PROVE  Sound(r)
<1>0. /\ r \in Callers /\ CallTypes /\ BusyTypes /\ call[r] \in CallRecord
      /\ UNCHANGED <<session, store>>
  BY InvTypes DEF Callers, CompleteStart
<1>1. CASE session.asset /\ Goto(r, "retry")
  <2>1. CallTypes' /\ BusyTypes' /\ Others(r) /\ call'[r].pc = "retry"
    BY <1>0, <1>1, GotoStep DEF Steps
  <2>2. CallerOK(r)' /\ ~Holder(r)'
    BY <1>0, <1>1, <2>1 DEF CallerOK, Holder, Holding, InRecovery, InPart, InCompletion,
                            InRelease, InRemoval
  <2> QED
    BY <1>0, <2>1, <2>2, SilentSound DEF InRemoval
<1>2. CASE busy.final = Nil /\ busy' = [busy EXCEPT !.final = r]
           /\ call' = [call EXCEPT ![r].pc = "claim"]
  <2>1. PICK x : x = [call[r] EXCEPT !.pc = "claim"]
    OBVIOUS
  <2>2. x \in CallRecord /\ x.pc = "claim"
    BY <1>0, <2>1 DEF CallRecord, Steps, InCompletion
  <2>3. call' = [call EXCEPT ![r] = x]
    BY <1>2, <2>1
  <2>4. CallTypes' /\ call'[r] = x /\ \A d \in Callers \ {r} : call'[d] = call[d]
    BY <1>0, <2>2, <2>3, CallSet
  <2>5. BusyTypes' /\ busy'.final = r /\ busy'.part = busy.part
    BY <1>0, <1>2 DEF BusyTypes
  <2>6. Others(r)
    BY <1>0, <1>2, <2>4, <2>5, NilAssumption DEF Others, Stays, Callers
  <2>7. CallerOK(r)' /\ ~Holder(r)'
    BY <2>2, <2>4, <2>5 DEF CallerOK, Holder, Holding, InRecovery, InPart, InCompletion,
                            InRelease, InRemoval
  <2> QED
    BY <1>0, <2>2, <2>4, <2>5, <2>6, <2>7, SilentSound DEF InRemoval
<1> QED
  BY <1>1, <1>2 DEF CompleteStart

LEMMA RetryFinishSound ==
    ASSUME UploadInv, NEW r \in Requests, RetryFinish(r)
    PROVE  Sound(r)
<1>0. r \in Callers /\ CallerOK(r) /\ call[r].pc = "retry" /\ UNCHANGED store
  BY InvTypes DEF Callers, RetryFinish, At
<1>1. session.asset
  BY <1>0 DEF CallerOK
<1>2. CASE session.status = "VERIFYING"
  BY <1>0, <1>1, <1>2, MadeAvailableSound DEF RetryFinish
<1>3. CASE session.status # "VERIFYING"
  BY <1>0, <1>3, EndsSilently DEF RetryFinish
<1> QED
  BY <1>2, <1>3

LEMMA ClaimSessionSound ==
    ASSUME UploadInv, NEW r \in Requests, ClaimSession(r)
    PROVE  Sound(r)
<1>0. /\ r \in Callers /\ CallTypes /\ BusyTypes /\ call[r] \in CallRecord
      /\ CallerOK(r) /\ call[r].pc = "claim" /\ UNCHANGED store
      /\ session \in SessionRecord
  BY InvTypes DEF Callers, ClaimSession, At
<1>1. CASE session.status \in Open /\ ~session.late
  <2>1. PICK k \in Claims : k = NewClaim
    BY <1>1 DEF ClaimSession, NewClaim
  <2>2. PICK x : x = [call[r] EXCEPT !.pc = "claimed", !.claim = k]
    OBVIOUS
  <2>3. x \in CallRecord /\ x.pc = "claimed" /\ x.claim = k
    BY <1>0, <2>2 DEF CallRecord, Steps, InCompletion, Holding, ClaimNames
  <2>4. call' = [call EXCEPT ![r] = x] /\ UNCHANGED busy
    BY <1>1, <2>1, <2>2 DEF ClaimSession
  <2>5. CallTypes' /\ BusyTypes' /\ Others(r) /\ call'[r] = x
    BY <1>0, <2>3, <2>4, CallStep
  <2>6. session' = [session EXCEPT !.status = "VERIFYING", !.claim = k, !.leaseOld = FALSE]
    BY <1>1, <2>1 DEF ClaimSession
  <2>7. /\ session' \in SessionRecord /\ SameFile /\ session'.status = "VERIFYING"
        /\ session'.claim = k /\ session'.leaseOld = FALSE
    BY <1>0, <2>6 DEF SessionRecord, SameFile, Statuses, ClaimNames
  <2>8. ~Over /\ ~session.deleted /\ ~session.asset
    BY <1>1 DEF UploadInv, SessionOK, Over, Gone, Open, Writable
  <2>9. MovesOn
    BY <2>8 DEF MovesOn
  <2>10. \A d \in Callers : ~Holder(d)
    BY <1>1, HolderKnows DEF Open, Writable
  <2>11. busy'.final = r
    BY <1>0, <2>4 DEF CallerOK, InCompletion
  <2>12. CallerOK(r)'
    BY <2>3, <2>5, <2>7, <2>8, <2>11 DEF CallerOK, Mine, Holder, Holding, InRecovery, InPart,
                                    InCompletion, InRelease, InRemoval, SameFile
  <2> QED
    BY <1>0, <2>3, <2>5, <2>7, <2>9, <2>10, <2>12, StatusSound DEF InRemoval
<1>2. CASE ~(session.status \in Open /\ ~session.late)
  BY <1>0, <1>2, EndsSilently DEF ClaimSession
<1> QED
  BY <1>1, <1>2

LEMMA LoadSound ==
    ASSUME UploadInv, NEW r \in Requests, Load(r)
    PROVE  Sound(r)
<1>0. /\ r \in Callers /\ CallTypes /\ BusyTypes /\ call[r] \in CallRecord
      /\ CallerOK(r) /\ call[r].pc = "claimed" /\ UNCHANGED <<session, store, busy>>
      /\ session.parts \in MaybeParts
  BY InvTypes DEF Callers, Load, At
<1>1. PICK x : x = [call[r] EXCEPT !.pc = "clear", !.row = session.parts]
  OBVIOUS
<1>2. /\ x \in CallRecord /\ x.pc = "clear" /\ x.row = session.parts
      /\ x.claim = call[r].claim
  BY <1>0, <1>1 DEF CallRecord, Steps, InCompletion, Holding
<1>3. CallTypes' /\ BusyTypes' /\ Others(r) /\ call'[r] = x
  <2>1. call' = [call EXCEPT ![r] = x]
    BY <1>1 DEF Load, LoadParts
  <2> QED
    BY <1>0, <1>2, <2>1, CallStep
<1>4. Holder(r) /\ Mine(r)' /\ ~session.asset /\ ~session.leaseOld
  BY <1>0, <1>2, <1>3 DEF CallerOK, Holder, Holding, Mine
<1>5. CallerOK(r)'
  BY <1>0, <1>2, <1>3, <1>4 DEF CallerOK, Holder, Holding, InRecovery, InPart,
                                InCompletion, InRelease, InRemoval
<1> QED
  BY <1>0, <1>2, <1>3, <1>4, <1>5, SilentSound DEF InRemoval

LEMMA ClearSound ==
    ASSUME UploadInv, NEW r \in Requests, Clear(r)
    PROVE  Sound(r)
<1>0. /\ r \in Callers /\ CallTypes /\ BusyTypes /\ CallerOK(r)
      /\ call[r].pc = "clear" /\ UNCHANGED session /\ Goto(r, "assemble")
      /\ "assemble" \in Steps
  BY InvTypes DEF Callers, Clear, At, Steps, InCompletion, Holding
<1>1. store' \in StoreRecord /\ Shrinks /\ store'.final = store.final
  BY PurgedShrinks DEF Clear
<1>2. /\ CallTypes' /\ BusyTypes' /\ Others(r) /\ call'[r].pc = "assemble"
      /\ call'[r].row = call[r].row /\ call'[r].claim = call[r].claim /\ UNCHANGED busy
  BY <1>0, GotoStep
<1>3. Holder(r) /\ Mine(r)' /\ ~session.asset /\ ~session.leaseOld
  BY <1>0, <1>2 DEF CallerOK, Holder, Holding, Mine
<1>4. CallerOK(r)'
  BY <1>0, <1>2, <1>3 DEF CallerOK, Holder, Holding, InRecovery, InPart, InCompletion,
                    InRelease, InRemoval
<1> QED
  BY <1>0, <1>1, <1>2, <1>3, <1>4, QuietSound DEF InRemoval

\* A call that has the claim is the only one that has it.
LEMMA ClaimantAlone ==
    ASSUME UploadInv, NEW c \in Callers,
           \/ Holder(c)
           \/ call[c].pc \in InCompletion \ {"claim"} /\ Mine(c)
    PROVE  \A d \in Callers \ {c} : ~Holder(d)
<1>1. CASE Holder(c)
  BY <1>1 DEF UploadInv, Alone
<1>2. CASE call[c].pc \in InCompletion \ {"claim"} /\ Mine(c)
  <2> SUFFICES ASSUME NEW d \in Callers \ {c}, Holder(d)
               PROVE  FALSE
    OBVIOUS
  <2>1. busy.final = c /\ call[c].claim \in Claims /\ session.claim = call[c].claim
    BY <1>2, InvTypes DEF CallerOK, Mine
  <2>2. session.claim = call[d].claim
    BY HolderKnows
  <2>3. CASE call[d].pc \in InCompletion
    BY <2>1, <2>3, HolderKnows
  <2>4. CASE call[d].pc \in InRecovery
    BY <2>1, <2>2, <2>4, HolderKnows, ClaimsAssumption
  <2> QED
    BY <2>3, <2>4 DEF Holder, InCompletion
<1> QED
  BY <1>1, <1>2

\* Files change while nothing is being removed and nobody else relies on them.
LEMMA FilesSound ==
    ASSUME UploadInv, NEW c \in Callers, UNCHANGED session, store' \in StoreRecord,
           ~Over, \A d \in Callers \ {c} : ~Holder(d),
           CallTypes', BusyTypes', Others(c), CallerOK(c)',
           call'[c].pc \notin {"purge", "write"} \cup InRemoval
    PROVE  Sound(c)
<1>1. ~Sweeping /\ ~session.released
  BY SweepingIsClosed DEF Sweeping
<1>2. Lasts
  BY <1>1 DEF Lasts, Over
<1>3. ~session.asset
  BY DEF Over
<1>4. SessionOK'
  BY <1>1, <1>3 DEF UploadInv, SessionOK
<1>5. UploadTypes'
  BY InvTypes DEF UploadTypes, CallTypes, BusyTypes
<1>6. Holder(c) \/ \A d \in Callers : ~Holder(d)
  OBVIOUS
<1> QED
  BY <1>1, <1>2, <1>4, <1>5, <1>6 DEF Sound, Others

LEMMA GoesToCatch ==
    ASSUME UploadInv, NEW c \in Callers, call[c].pc \in InCompletion \ {"claim"},
           UNCHANGED <<session, store>>, Goto(c, "catch")
    PROVE  Sound(c) /\ call'[c].pc = "catch"
<1>0. CallTypes /\ BusyTypes /\ CallerOK(c) /\ "catch" \in Steps
  BY InvTypes DEF Steps, InCompletion
<1>1. /\ CallTypes' /\ BusyTypes' /\ Others(c) /\ call'[c].pc = "catch"
      /\ call'[c].claim = call[c].claim /\ UNCHANGED busy
  BY <1>0, GotoStep
<1>2. CallerOK(c)' /\ ~Holder(c)'
  BY <1>0, <1>1 DEF CallerOK, Holder, Holding, InRecovery, InPart, InCompletion,
                    InRelease, InRemoval
<1> QED
  BY <1>0, <1>1, <1>2, SilentSound DEF InRemoval

LEMMA AssembleSound ==
    ASSUME UploadInv, NEW r \in Requests, Assemble(r)
    PROVE  Sound(r)
<1>0. /\ r \in Callers /\ CallTypes /\ BusyTypes /\ CallerOK(r) /\ call[r] \in CallRecord
      /\ call[r].pc = "assemble" /\ UNCHANGED session /\ store \in StoreRecord
      /\ session.parts \in MaybeParts
  BY InvTypes DEF Callers, Assemble, At
<1>1. Holder(r) /\ call[r].row = session.parts
  BY <1>0 DEF CallerOK, Holder, Holding
<1>2. CASE Range(call[r].row) \subseteq store.staging
  <2>1. call[r].row \in Contents
    BY <1>0, <1>1, <1>2 DEF MaybeParts, Contents, Range, StoreRecord
  <2>2. PICK x : x = [call[r] EXCEPT !.pc = "put", !.row = Nil]
    OBVIOUS
  <2>3. x \in CallRecord /\ x.pc = "put" /\ x.claim = call[r].claim
    BY <1>0, <2>2 DEF CallRecord, Steps, InCompletion, Holding
  <2>4. /\ call' = [call EXCEPT ![r] = x] /\ UNCHANGED busy
        /\ store' = [store EXCEPT !.assembled = call[r].row]
    BY <1>2, <2>2 DEF Assemble
  <2>5. CallTypes' /\ BusyTypes' /\ Others(r) /\ call'[r] = x
    BY <1>0, <2>3, <2>4, CallStep
  <2>6. store' \in StoreRecord /\ store'.assembled = session.parts
    BY <1>0, <1>1, <2>1, <2>4 DEF StoreRecord
  <2>7. Mine(r)' /\ ~session.asset /\ ~session.leaseOld
    BY <1>0, <1>1, <2>3, <2>5 DEF CallerOK, Mine
  <2>8. CallerOK(r)'
    BY <1>0, <2>3, <2>4, <2>5, <2>6, <2>7 DEF CallerOK, Holder, Holding, InRecovery,
           InPart, InCompletion, InRelease, InRemoval
  <2> QED
    BY <1>0, <1>1, <2>3, <2>5, <2>6, <2>8, HolderKnows, ClaimantAlone, FilesSound
       DEF InRemoval
<1>3. CASE ~(Range(call[r].row) \subseteq store.staging)
  BY <1>0, <1>3, GoesToCatch DEF Assemble, InCompletion, Holding
<1> QED
  BY <1>2, <1>3

LEMMA PutSound ==
    ASSUME UploadInv, NEW r \in Requests, Put(r)
    PROVE  Sound(r)
<1>0. /\ r \in Callers /\ CallTypes /\ BusyTypes /\ CallerOK(r)
      /\ call[r].pc = "put" /\ UNCHANGED session /\ store \in StoreRecord
  BY InvTypes DEF Callers, Put, At
<1>1. /\ Holder(r) /\ store.assembled \in {Nil, session.parts} /\ call[r].claim \in Claims
  BY <1>0 DEF CallerOK, Holder, Holding, InCompletion
<1>2. CASE store.assembled # Nil
  <2>0. "publish" \in Steps
    BY DEF Steps, InCompletion, Holding
  <2>1. /\ Goto(r, "publish")
        /\ store' = [store EXCEPT !.pending[call[r].claim] = store.assembled]
    BY <1>2 DEF Put
  <2>2. /\ CallTypes' /\ BusyTypes' /\ Others(r) /\ call'[r].pc = "publish"
        /\ call'[r].claim = call[r].claim /\ UNCHANGED busy
    BY <1>0, <2>0, <2>1, GotoStep
  <2>3. PICK f : f = [store.pending EXCEPT ![call[r].claim] = store.assembled]
    OBVIOUS
  <2>4. f \in [Claims -> Contents \cup {Nil}] /\ f[call[r].claim] = store.assembled
    BY <1>0, <1>1, <2>3 DEF StoreRecord
  <2>5. store' = [store EXCEPT !.pending = f]
    BY <2>1, <2>3
  <2>6. store' \in StoreRecord /\ store'.pending[call[r].claim] = store.assembled
    BY <1>0, <2>4, <2>5 DEF StoreRecord
  <2>7. Mine(r)' /\ ~session.asset /\ ~session.leaseOld
    BY <1>0, <1>1, <2>2 DEF CallerOK, Mine
  <2>8. CallerOK(r)'
    BY <1>0, <1>1, <2>2, <2>6, <2>7 DEF CallerOK, Holder, Holding, InRecovery,
           InPart, InCompletion, InRelease, InRemoval
  <2> QED
    BY <1>0, <1>1, <2>2, <2>6, <2>8, HolderKnows, ClaimantAlone, FilesSound
       DEF InRemoval
<1>3. CASE store.assembled = Nil
  BY <1>0, <1>3, GoesToCatch DEF Put, InCompletion, Holding
<1> QED
  BY <1>2, <1>3

LEMMA PublishSound ==
    ASSUME UploadInv, NEW r \in Requests, Publish(r)
    PROVE  Sound(r)
<1>0. /\ r \in Callers /\ CallTypes /\ BusyTypes /\ CallerOK(r)
      /\ call[r].pc = "publish" /\ UNCHANGED session /\ store \in StoreRecord
  BY InvTypes DEF Callers, Publish, At
<1>1. /\ Holder(r) /\ call[r].claim \in Claims
      /\ store.pending[call[r].claim] \in {Nil, session.parts}
  BY <1>0 DEF CallerOK, Holder, Holding, InCompletion
<1>2. CASE Mine(r) /\ ~session.asset /\ store.pending[call[r].claim] # Nil
  <2>0. "materialize" \in Steps
    BY DEF Steps, InCompletion, Holding
  <2>1. /\ Goto(r, "materialize")
        /\ store' = [store EXCEPT !.final = store.pending[call[r].claim],
                                  !.pending[call[r].claim] = Nil]
    BY <1>2 DEF Publish
  <2>2. /\ CallTypes' /\ BusyTypes' /\ Others(r) /\ call'[r].pc = "materialize"
        /\ call'[r].claim = call[r].claim /\ UNCHANGED busy
    BY <1>0, <2>0, <2>1, GotoStep
  <2>3. PICK f : f = [store.pending EXCEPT ![call[r].claim] = Nil]
    OBVIOUS
  <2>4. f \in [Claims -> Contents \cup {Nil}]
    BY <1>0, <1>1, <2>3 DEF StoreRecord
  <2>5. store' = [store EXCEPT !.final = session.parts, !.pending = f]
    BY <1>1, <1>2, <2>1, <2>3
  <2>6. session.parts \in Contents
    BY <1>0, <1>1, <1>2 DEF StoreRecord
  <2>7. store' \in StoreRecord /\ store'.final = session.parts
    BY <1>0, <2>4, <2>5, <2>6 DEF StoreRecord
  <2>8. Mine(r)' /\ ~session.asset /\ ~session.leaseOld
    BY <1>0, <1>1, <2>2 DEF CallerOK, Mine
  <2>9. CallerOK(r)'
    BY <1>0, <1>1, <2>2, <2>6, <2>7, <2>8 DEF CallerOK, Holder, Holding, InRecovery,
           InPart, InCompletion, InRelease, InRemoval
  <2> QED
    BY <1>0, <1>1, <2>2, <2>7, <2>9, HolderKnows, ClaimantAlone, FilesSound
       DEF InRemoval
<1>3. CASE ~(Mine(r) /\ ~session.asset /\ store.pending[call[r].claim] # Nil)
  BY <1>0, <1>3, GoesToCatch DEF Publish, InCompletion, Holding
<1> QED
  BY <1>2, <1>3

LEMMA MaterializeSound ==
    ASSUME UploadInv, NEW r \in Requests, Materialize(r)
    PROVE  Sound(r) /\ session.status = "VERIFYING"
<1>0. /\ r \in Callers /\ CallTypes /\ BusyTypes /\ CallerOK(r)
      /\ call[r].pc = "materialize" /\ UNCHANGED store /\ store \in StoreRecord
      /\ session \in SessionRecord /\ Goto(r, "finish") /\ "finish" \in Steps
      /\ session' = [session EXCEPT !.asset = TRUE]
  BY InvTypes DEF Callers, Materialize, At, Steps, InCompletion
<1>1. /\ Holder(r) /\ call[r].claim \in Claims
      /\ store.final = session.parts /\ session.parts \in Contents
  BY <1>0 DEF CallerOK, Holder, Holding, InCompletion
<1>2. session.status = "VERIFYING" /\ ~Over
  BY <1>0, <1>1, HolderKnows
<1>3. ~Sweeping /\ ~session.released
  BY <1>2, SweepingIsClosed DEF Sweeping
<1>4. /\ CallTypes' /\ BusyTypes' /\ Others(r) /\ call'[r].pc = "finish"
      /\ call'[r].claim = call[r].claim /\ UNCHANGED busy
  BY <1>0, GotoStep
<1>5. /\ session' \in SessionRecord /\ session'.asset /\ session'.status = session.status
      /\ session'.parts = session.parts /\ session'.deleted = session.deleted
      /\ session'.attached = session.attached /\ session'.released = session.released
  BY <1>0 DEF SessionRecord
<1>6. SessionOK'
  BY <1>0, <1>1, <1>2, <1>3, <1>5 DEF UploadInv, SessionOK, Gone
<1>7. Lasts
  BY <1>3, <1>5 DEF Lasts, Over
<1>8. CallerOK(r)'
  BY <1>0, <1>1, <1>4 DEF CallerOK, Holder, Holding, InRecovery,
         InPart, InCompletion, InRelease, InRemoval
<1>9. \A d \in Callers \ {r} : ~Holder(d)
  BY <1>0, <1>1, ClaimantAlone
<1>10. UploadTypes'
  BY <1>0, <1>4, <1>5 DEF UploadTypes, CallTypes, BusyTypes
<1> QED
  BY <1>1, <1>2, <1>3, <1>4, <1>5, <1>6, <1>7, <1>8, <1>9, <1>10 DEF Sound, Others, InRemoval

LEMMA FinishSound ==
    ASSUME UploadInv, NEW r \in Requests, Finish(r)
    PROVE  Sound(r)
<1>0. r \in Callers /\ call[r].pc = "finish" /\ UNCHANGED store
  BY DEF Callers, Finish, At
<1>1. CASE Mine(r) /\ session.asset
  BY <1>0, <1>1, MadeAvailableSound DEF Finish, Mine
<1>2. CASE ~(Mine(r) /\ session.asset)
  BY <1>0, <1>2, GoesToCatch DEF Finish, InCompletion
<1> QED
  BY <1>1, <1>2

\* A claim given up before the file is there: back to FAILED, or given up.
LEMMA GivesUp ==
    ASSUME UploadInv, NEW r \in Callers, Mine(r), ~session.asset,
           NEW s \in {"FAILED", "EXPIRED"}, UNCHANGED store,
           session' = [session EXCEPT !.status = s, !.claim = Nil, !.leaseOld = FALSE]
    PROVE  session' \in SessionRecord /\ SameFile /\ MovesOn /\ session'.status = s
<1>0. session \in SessionRecord
  BY InvTypes
<1>1. session' \in SessionRecord /\ SameFile /\ session'.status = s
  BY <1>0 DEF SessionRecord, SameFile, Statuses, Gone, ClaimNames
<1>2. ~Over /\ ~session.deleted
  BY DEF UploadInv, SessionOK, Over, Mine, Gone
<1> QED
  BY <1>1, <1>2 DEF MovesOn

LEMMA CompleteFailsSound ==
    ASSUME UploadInv, NEW r \in Requests, CompleteFails(r)
    PROVE  Sound(r)
<1>0. r \in Callers /\ UNCHANGED store
  BY DEF Callers, CompleteFails
<1>1. CASE /\ call[r].pc \in {"assemble", "put", "publish", "materialize", "finish"}
           /\ Goto(r, "catch") /\ UNCHANGED session
  BY <1>0, <1>1, GoesToCatch DEF InCompletion, Holding
<1>2. CASE /\ At(r, "claimed") /\ End(r)
           /\ session' = IF Mine(r)
                         THEN [session EXCEPT !.status = "FAILED",
                                              !.claim = Nil, !.leaseOld = FALSE]
                         ELSE session
  <2>1. Holder(r) /\ CallerOK(r)
    BY <1>0, <1>2, InvTypes DEF At, Holder, Holding
  <2>2. Mine(r) /\ ~session.asset
    BY <2>1 DEF CallerOK
  <2>3. session' = [session EXCEPT !.status = "FAILED", !.claim = Nil, !.leaseOld = FALSE]
    BY <1>2, <2>2
  <2>4. session' \in SessionRecord /\ SameFile /\ MovesOn
    BY <1>0, <2>2, <2>3, GivesUp
  <2> QED
    BY <1>0, <1>2, <2>1, <2>4, ClaimantAlone, StatusEnds
<1>3. CASE End(r) /\ UNCHANGED session
  BY <1>0, <1>3, EndsSilently
<1> QED
  BY <1>1, <1>2, <1>3 DEF CompleteFails

\* A call goes to a release of a session that is over.
LEMMA GoesToRelease ==
    ASSUME UploadInv, NEW c \in Callers, UNCHANGED <<session, store>>,
           Forget(c, "release"), Over
    PROVE  Sound(c) /\ call'[c].pc = "release"
<1>0. "release" \in Steps /\ CallTypes /\ BusyTypes
  BY InvTypes DEF Steps, InRelease
<1>1. CallTypes' /\ BusyTypes' /\ Others(c) /\ call'[c].pc = "release"
  BY <1>0, ForgetStep
<1>2. CallerOK(c)' /\ ~Holder(c)'
  BY <1>1, ReleasesClosed DEF Over
<1> QED
  BY <1>1, <1>2, SilentSound DEF InRemoval

LEMMA CatchAvailableSound ==
    ASSUME UploadInv, NEW r \in Requests, CatchAvailable(r)
    PROVE  Sound(r)
BY GoesToRelease DEF CatchAvailable, Callers, Over

LEMMA CatchMaterializedSound ==
    ASSUME UploadInv, NEW r \in Requests, CatchMaterialized(r)
    PROVE  Sound(r)
<1>0. /\ r \in Callers /\ UNCHANGED store /\ session \in SessionRecord
      /\ session.status = "VERIFYING" /\ session.asset
  BY InvTypes DEF Callers, CatchMaterialized, Mine
<1>1. CASE /\ session' = [session EXCEPT !.status = "ABORTED", !.claim = Nil, !.leaseOld = FALSE]
           /\ Forget(r, "release")
  <2>1. session' \in SessionRecord /\ SameFile /\ session'.status = "ABORTED"
    BY <1>0, <1>1 DEF SessionRecord, SameFile, Statuses, Gone, ClaimNames
  <2>2. MovesOn /\ Over'
    BY <2>1 DEF MovesOn, Over, Gone
  <2>3. \A d \in Callers \ {r} : ~Holder(d)
    BY <1>0, HolderKnows
  <2> QED
    BY <1>0, <1>1, <2>1, <2>2, <2>3, StatusReleases
<1>2. CASE End(r) /\ UNCHANGED session
  BY <1>0, <1>2, EndsSilently
<1> QED
  BY <1>1, <1>2 DEF CatchMaterialized

LEMMA CatchUndoSound ==
    ASSUME UploadInv, NEW r \in Requests, CatchUndo(r)
    PROVE  Sound(r)
<1>0. /\ r \in Callers /\ CallTypes /\ BusyTypes /\ CallerOK(r) /\ store \in StoreRecord
      /\ call[r].pc = "catch" /\ UNCHANGED session /\ Goto(r, "fail") /\ "fail" \in Steps
      /\ Mine(r) /\ ~session.asset
  BY InvTypes DEF Callers, CatchUndo, At, Steps, InCompletion
<1>1. call[r].claim \in Claims /\ call[r].pc \in InCompletion \ {"claim"}
  BY <1>0 DEF CallerOK, InCompletion
<1>2. /\ CallTypes' /\ BusyTypes' /\ Others(r) /\ call'[r].pc = "fail"
      /\ call'[r].claim = call[r].claim /\ UNCHANGED busy
  BY <1>0, GotoStep
<1>3. PICK f : f = [store.pending EXCEPT ![call[r].claim] = Nil]
  OBVIOUS
<1>4. f \in [Claims -> Contents \cup {Nil}]
  BY <1>0, <1>1, <1>3 DEF StoreRecord
<1>5. store' = [store EXCEPT !.pending = f, !.final = Nil, !.assembled = Nil]
  BY <1>3 DEF CatchUndo
<1>6. store' \in StoreRecord
  BY <1>0, <1>4, <1>5 DEF StoreRecord
<1>7. CallerOK(r)'
  BY <1>0, <1>1, <1>2 DEF CallerOK, Holder, Holding, InRecovery,
         InPart, InCompletion, InRelease, InRemoval
<1>8. ~Over
  BY <1>0 DEF Mine, Over, Gone
<1> QED
  BY <1>0, <1>1, <1>2, <1>6, <1>7, <1>8, ClaimantAlone, FilesSound DEF InRemoval

LEMMA CatchLostSound ==
    ASSUME UploadInv, NEW r \in Requests, CatchLost(r)
    PROVE  Sound(r)
BY EndsSilently DEF CatchLost, Callers

LEMMA FailSound ==
    ASSUME UploadInv, NEW r \in Requests, Fail(r)
    PROVE  Sound(r)
<1>0. r \in Callers /\ call[r].pc = "fail" /\ UNCHANGED store /\ End(r)
  BY DEF Callers, Fail, At
<1>1. CASE Mine(r) /\ ~session.asset
  <2>1. session' = [session EXCEPT !.status = "FAILED", !.claim = Nil, !.leaseOld = FALSE]
    BY <1>1 DEF Fail
  <2>2. session' \in SessionRecord /\ SameFile /\ MovesOn
    BY <1>0, <1>1, <2>1, GivesUp
  <2>3. \A d \in Callers \ {r} : ~Holder(d)
    BY <1>0, <1>1, ClaimantAlone DEF InCompletion
  <2> QED
    BY <1>0, <2>2, <2>3, StatusEnds
<1>2. CASE ~(Mine(r) /\ ~session.asset)
  BY <1>0, <1>2, EndsSilently DEF Fail
<1> QED
  BY <1>1, <1>2

-----------------------------------------------------------------------------
(* abort, refresh, submit, recover *)

LEMMA NobodyHolds ==
    ASSUME UploadInv, session.status # "VERIFYING" \/ session.asset
    PROVE  \A d \in Callers : ~Holder(d)
BY HolderKnows

LEMMA StatusSet ==
    ASSUME session \in SessionRecord, NEW s \in Statuses,
           session' = [session EXCEPT !.status = s]
    PROVE  /\ session' \in SessionRecord /\ SameFile /\ session'.status = s
           /\ session'.claim = session.claim /\ session'.leaseOld = session.leaseOld
BY DEF SessionRecord, SameFile

LEMMA AbortSound ==
    ASSUME UploadInv, NEW r \in Requests, Abort(r)
    PROVE  Sound(r)
<1>0. /\ r \in Callers /\ UNCHANGED store /\ session \in SessionRecord
      /\ session.status # "VERIFYING" /\ Forget(r, "release") /\ "ABORTED" \in Statuses
      /\ session' = [session EXCEPT !.status = "ABORTED"]
  BY InvTypes DEF Callers, Abort, Open, Writable, Statuses, Gone
<1>1. session' \in SessionRecord /\ SameFile /\ session'.status = "ABORTED"
  BY <1>0, StatusSet
<1>2. MovesOn /\ Over'
  BY <1>1 DEF MovesOn, Over, Gone
<1> QED
  BY <1>0, <1>1, <1>2, NobodyHolds, StatusReleases

LEMMA RefreshSound ==
    ASSUME UploadInv, NEW r \in Requests, Refresh(r)
    PROVE  Sound(r) /\ call[r].pc = "idle" /\ session.status \in Open
<1>0. /\ r \in Callers /\ UNCHANGED store /\ session \in SessionRecord /\ CallerOK(r)
      /\ session.status # "VERIFYING" /\ CallTypes /\ BusyTypes
      /\ call[r].pc = "idle" /\ session.status \in Open
  BY InvTypes DEF Callers, Refresh, Open, Writable, At
<1>1. CASE /\ session' = [session EXCEPT !.late = FALSE] /\ call' = Renewed(call)
           /\ UNCHANGED busy
  <2>1. PICK x \in CallRecord : x = call[r]
    BY <1>0 DEF CallTypes
  <2>2. call = [call EXCEPT ![r] = x]
    BY <1>0, <2>1 DEF CallTypes
  <2>3. CallTypes' /\ BusyTypes' /\ Others(r) /\ call'[r] = [x EXCEPT !.due = FALSE]
    <3>1. call' = Renewed([call EXCEPT ![r] = x]) /\ UNCHANGED busy
      BY <1>1, <2>2
    <3> QED
      BY <1>0, <3>1, RenewedStep
  <2>4. call'[r].pc = "idle"
    BY <1>0, <2>1, <2>3 DEF CallRecord
  <2>5. session' \in SessionRecord /\ SameFile /\ session'.status = session.status
    BY <1>0, <1>1 DEF SessionRecord, SameFile
  <2>6. MovesOn
    BY <2>5 DEF MovesOn, UploadInv, SessionOK
  <2>7. CallerOK(r)' /\ call'[r].pc \notin {"purge", "write"} \cup InRemoval
    BY <2>4, NothingToKnow DEF InRemoval
  <2>8. \A d \in Callers \ {r} : ~Holder(d)
    BY <1>0, NobodyHolds
  <2>9. Sound(r)
    BY <1>0, <2>3, <2>5, <2>6, <2>7, <2>8, StatusSound
  <2> QED
    BY <1>0, <2>9
<1>2. CASE /\ session' = [session EXCEPT !.status = "EXPIRED", !.late = TRUE]
           /\ Forget(r, "release")
  <2>1. session' \in SessionRecord /\ SameFile /\ session'.status = "EXPIRED"
    BY <1>0, <1>2 DEF SessionRecord, SameFile, Statuses, Gone
  <2>2. MovesOn /\ Over'
    BY <2>1 DEF MovesOn, Over, Gone
  <2> QED
    BY <1>0, <1>2, <2>1, <2>2, NobodyHolds, StatusReleases
<1> QED
  BY <1>0, <1>1, <1>2 DEF Refresh

\* A call that is told nothing goes on to read or to write the row.
LEMMA ToldNothing ==
    ASSUME UploadInv, NEW c \in Callers, NEW pc \in {"submit", "list", "idle"},
           UNCHANGED <<session, store, busy>>, CallTypes', Others(c), call'[c].pc = pc
    PROVE  Sound(c)
<1>1. BusyTypes' /\ CallerOK(c)' /\ ~Holder(c)'
  BY InvTypes, NothingToKnow DEF BusyTypes
<1> QED
  BY <1>1, SilentSound DEF InRemoval

LEMMA SubmitCheckSound ==
    ASSUME UploadInv, NEW r \in Requests, SubmitCheck(r)
    PROVE  Sound(r)
<1>0. /\ r \in Callers /\ CallTypes /\ BusyTypes /\ UNCHANGED <<session, store>>
      /\ Goto(r, "submit") /\ "submit" \in Steps
  BY InvTypes DEF Callers, SubmitCheck, Steps
<1>1. CallTypes' /\ Others(r) /\ call'[r].pc = "submit" /\ UNCHANGED busy
  BY <1>0, GotoStep
<1> QED
  BY <1>0, <1>1, ToldNothing

LEMMA ListSound ==
    ASSUME UploadInv, NEW r \in Requests, List(r)
    PROVE  Sound(r)
<1>0. /\ r \in Callers /\ CallTypes /\ BusyTypes /\ UNCHANGED <<session, store, busy>>
      /\ call[r] \in CallRecord
  BY InvTypes DEF Callers, List
<1>1. PICK x : x = [call[r] EXCEPT !.pc = "list", !.due = TRUE]
  OBVIOUS
<1>2. x \in CallRecord /\ x.pc = "list"
  BY <1>0, <1>1 DEF CallRecord, Steps
<1>3. call' = [call EXCEPT ![r] = x]
  BY <1>1 DEF List
<1>4. CallTypes' /\ Others(r) /\ call'[r].pc = "list"
  BY <1>0, <1>2, <1>3, CallStep
<1> QED
  BY <1>0, <1>4, ToldNothing

LEMMA SubmitSound ==
    ASSUME UploadInv, NEW r \in Requests, Submit(r)
    PROVE  Sound(r)
<1>0. /\ r \in Callers /\ UNCHANGED store /\ session \in SessionRecord /\ End(r)
      /\ CallTypes /\ BusyTypes /\ store \in StoreRecord
  BY InvTypes DEF Callers, Submit
<1>1. CASE session.status = "AVAILABLE" /\ ~session.deleted
  <2>1. session' = [session EXCEPT !.attached = TRUE]
    BY <1>1 DEF Submit
  <2>2. /\ session' \in SessionRecord /\ session'.status = session.status
        /\ session'.parts = session.parts /\ session'.asset = session.asset
        /\ session'.deleted = session.deleted /\ session'.released = session.released
    BY <1>0, <2>1 DEF SessionRecord
  <2>3. Over /\ Over'
    BY <1>1, <2>2 DEF Over
  <2>4. SessionOK'
    BY <1>0, <1>1, <2>2, <2>3 DEF UploadInv, SessionOK, Empty, Swept
  <2>5. Lasts
    BY <1>0, <2>2, <2>3 DEF Lasts, Shrinks, Fewer
  <2>6. CallTypes' /\ BusyTypes' /\ Others(r) /\ call'[r].pc = "idle"
    BY <1>0, CallEnds, RestingType
  <2>7. CallerOK(r)' /\ ~Holder(r)'
    BY <2>6, NothingToKnow
  <2>8. \A d \in Callers : ~Holder(d)
    BY <1>1, NobodyHolds
  <2>9. UploadTypes'
    BY <1>0, <2>2, <2>6 DEF UploadTypes, CallTypes, BusyTypes
  <2> QED
    BY <2>2, <2>4, <2>5, <2>6, <2>7, <2>8, <2>9 DEF Sound, Others, InRemoval, Sweeping
<1>2. CASE ~(session.status = "AVAILABLE" /\ ~session.deleted)
  BY <1>0, <1>2, EndsSilently DEF Submit
<1> QED
  BY <1>1, <1>2

\* The row is expired: a session past its time, or nothing of it is left open.
LEMMA Expires ==
    ASSUME UploadInv, session.status # "VERIFYING", UNCHANGED store,
           session' = [session EXCEPT !.status = "EXPIRED"]
    PROVE  /\ session' \in SessionRecord /\ SameFile /\ MovesOn /\ Over'
           /\ session'.status = "EXPIRED" /\ \A d \in Callers : ~Holder(d)
<1>0. session \in SessionRecord /\ "EXPIRED" \in Statuses
  BY InvTypes DEF Statuses, Gone
<1>1. session' \in SessionRecord /\ SameFile /\ session'.status = "EXPIRED"
  BY <1>0, StatusSet
<1>2. MovesOn /\ Over'
  BY <1>1 DEF MovesOn, Over, Gone
<1> QED
  BY <1>1, <1>2, NobodyHolds

LEMMA ListExpireSound ==
    ASSUME UploadInv, NEW r \in Requests, ListExpire(r)
    PROVE  Sound(r)
<1>0. r \in Callers /\ UNCHANGED store /\ End(r)
  BY DEF Callers, ListExpire
<1>1. CASE session.status = "AVAILABLE" /\ call[r].due
  BY <1>0, <1>1, Expires, StatusEnds DEF ListExpire
<1>2. CASE ~(session.status = "AVAILABLE" /\ call[r].due)
  BY <1>0, <1>2, EndsSilently DEF ListExpire
<1> QED
  BY <1>1, <1>2

-----------------------------------------------------------------------------
(* What a call has read, and the recovery of a claim whose call is gone *)

LEMMA ReadSound ==
    ASSUME UploadInv, NEW c \in Callers, NEW pc \in {"owned", "sweep"}, Read(c, pc)
    PROVE  Sound(c) /\ call'[c].pc = pc
<1>0. /\ CallTypes /\ BusyTypes /\ call[c] \in CallRecord /\ session \in SessionRecord
      /\ UNCHANGED <<session, store, busy>>
  BY InvTypes DEF Read
<1>1. PICK w : w = [status |-> session.status, asset |-> session.asset,
                    claim |-> session.claim, leaseOld |-> session.leaseOld]
  OBVIOUS
<1>2. w \in RowSeen /\ w.status = session.status /\ w.asset = session.asset
  BY <1>0, <1>1 DEF RowSeen, SessionRecord
<1>3. PICK x : x = [call[c] EXCEPT !.pc = pc, !.due = session.late, !.row = w]
  OBVIOUS
<1>4. x \in CallRecord /\ x.pc = pc /\ x.row = w
  <2>1. session.late \in BOOLEAN
    BY <1>0 DEF SessionRecord
  <2> QED
    BY <1>0, <1>2, <1>3, <2>1 DEF CallRecord, Steps
<1>5. call' = [call EXCEPT ![c] = x]
  BY <1>1, <1>3 DEF Read
<1>6. CallTypes' /\ BusyTypes' /\ Others(c) /\ call'[c] = x
  BY <1>0, <1>4, <1>5, CallStep
<1>7. CallerOK(c)' /\ ~Holder(c)'
  BY <1>0, <1>2, <1>4, <1>6 DEF CallerOK, Holder, Holding, InRecovery, InPart,
         InCompletion, InRelease, InRemoval, Over
<1> QED
  BY <1>0, <1>4, <1>6, <1>7, SilentSound DEF InRemoval

LEMMA LookSound ==
    ASSUME UploadInv, NEW r \in Requests, Look(r)
    PROVE  Sound(r)
BY ReadSound DEF Look, Callers

LEMMA SelectSound ==
    ASSUME UploadInv, Select
    PROVE  Sound(Cleaner)
BY ReadSound DEF Select, Callers

LEMMA TakeOverSound ==
    ASSUME UploadInv, NEW c \in Callers, TakeOver(c)
    PROVE  Sound(c) /\ UNCHANGED session.status
<1>0. /\ CallTypes /\ BusyTypes /\ call[c] \in CallRecord /\ session \in SessionRecord
      /\ UNCHANGED store /\ CallerOK(c)
  BY InvTypes DEF TakeOver
<1>1. CASE /\ session.status = "VERIFYING" /\ ~session.asset
           /\ session.claim = call[c].row.claim /\ session.leaseOld
  <2>1. PICK k \in Recoveries : k = NewRecovery
    BY <1>1 DEF TakeOver, NewRecovery
  <2>2. PICK b \in BOOLEAN : b = session.late
    BY <1>0 DEF SessionRecord
  <2>3. PICK x : x = [call[c] EXCEPT !.pc = "recover", !.claim = k, !.due = b]
    OBVIOUS
  <2>4. x \in CallRecord /\ x.pc = "recover" /\ x.claim = k
    BY <1>0, <2>3 DEF CallRecord, Steps, InRecovery, ClaimNames
  <2>5. call' = [call EXCEPT ![c] = x] /\ UNCHANGED busy
    BY <1>1, <2>1, <2>2, <2>3 DEF TakeOver
  <2>6. CallTypes' /\ BusyTypes' /\ Others(c) /\ call'[c] = x
    BY <1>0, <2>4, <2>5, CallStep
  <2>7. session' = [session EXCEPT !.claim = k, !.leaseOld = FALSE]
    BY <1>1, <2>1 DEF TakeOver
  <2>8. /\ session' \in SessionRecord /\ SameFile /\ session'.status = session.status
        /\ session'.claim = k /\ session'.leaseOld = FALSE
    BY <1>0, <2>7 DEF SessionRecord, SameFile, ClaimNames
  <2>9. \A d \in Callers : ~Holder(d)
    BY <1>1, HolderKnows
  <2>10. MovesOn
    BY <1>1, <2>8 DEF MovesOn, UploadInv, SessionOK
  <2>11. CallerOK(c)'
    BY <1>1, <2>4, <2>6, <2>8 DEF CallerOK, Mine, Holder, Holding, InRecovery, InPart,
                                    InCompletion, InRelease, InRemoval, SameFile
  <2>12. call'[c].pc \notin {"purge", "write"} \cup InRemoval
    BY <2>4, <2>6 DEF InRemoval
  <2>13. Sound(c)
    BY <1>0, <2>6, <2>8, <2>9, <2>10, <2>11, <2>12, StatusSound
  <2> QED
    BY <2>8, <2>13
<1>2. CASE ~(/\ session.status = "VERIFYING" /\ ~session.asset
             /\ session.claim = call[c].row.claim /\ session.leaseOld)
  BY <1>0, <1>2, EndsSilently DEF TakeOver
<1> QED
  BY <1>1, <1>2

LEMMA RecoverFilesSound ==
    ASSUME UploadInv, NEW c \in Callers, RecoverFiles(c)
    PROVE  Sound(c) /\ call'[c].pc # "mkdir"
<1>0. /\ CallTypes /\ BusyTypes /\ CallerOK(c) /\ store \in StoreRecord
      /\ call[c].pc = "recover" /\ UNCHANGED session /\ Goto(c, "recovered")
      /\ "recovered" \in Steps
  BY InvTypes DEF RecoverFiles, At, Steps, InRecovery
<1>1. Holder(c) /\ Mine(c) /\ ~session.asset /\ ~session.leaseOld /\ call[c].claim \in Recoveries
  BY <1>0 DEF Holder, InRecovery, CallerOK
<1>2. /\ CallTypes' /\ BusyTypes' /\ Others(c) /\ call'[c].pc = "recovered"
      /\ call'[c].claim = call[c].claim /\ UNCHANGED busy
  BY <1>0, GotoStep
<1>3. PICK f : f = [k \in Claims |-> IF k = call[c].row.claim THEN Nil
                                     ELSE store.pending[k]]
  OBVIOUS
<1>4. f \in [Claims -> Contents \cup {Nil}]
  BY <1>0, <1>3 DEF StoreRecord
<1>5. store' = [store EXCEPT !.final = Nil, !.pending = f]
  BY <1>3 DEF RecoverFiles
<1>6. store' \in StoreRecord
  BY <1>0, <1>4, <1>5 DEF StoreRecord
<1>7. Mine(c)'
  BY <1>0, <1>1, <1>2 DEF Mine
<1>8. CallerOK(c)'
  BY <1>0, <1>1, <1>2, <1>7 DEF CallerOK, Holder, Holding, InRecovery,
         InPart, InCompletion, InRelease, InRemoval
<1>9. ~Over /\ \A d \in Callers \ {c} : ~Holder(d)
  BY <1>1, HolderKnows, ClaimantAlone
<1> QED
  BY <1>0, <1>2, <1>6, <1>8, <1>9, FilesSound DEF InRemoval

LEMMA RecoverMarkSound ==
    ASSUME UploadInv, NEW c \in Callers, RecoverMark(c)
    PROVE  Sound(c) /\ call'[c].pc # "mkdir"
<1>0. CallerOK(c) /\ call[c].pc = "recovered" /\ UNCHANGED store /\ session \in SessionRecord
  BY InvTypes DEF RecoverMark, At
<1>1. Holder(c) /\ Mine(c) /\ ~session.asset /\ ~session.leaseOld
  BY <1>0 DEF Holder, InRecovery, CallerOK
<1>2. PICK s : s = IF call[c].due THEN "EXPIRED" ELSE "FAILED"
  OBVIOUS
<1>3. /\ s \in {"FAILED", "EXPIRED"} /\ session' = [session EXCEPT !.status = s, !.claim = Nil]
      /\ IF s = "EXPIRED" THEN Forget(c, "release") ELSE End(c)
  BY <1>1, <1>2 DEF RecoverMark
<1>4. session' \in SessionRecord /\ SameFile /\ session'.status = s
  BY <1>0, <1>3 DEF SessionRecord, SameFile, Statuses, Gone, ClaimNames
<1>5. ~Over /\ ~session.deleted /\ \A d \in Callers \ {c} : ~Holder(d)
  BY <1>1, HolderKnows, ClaimantAlone DEF UploadInv, SessionOK, Gone, Mine
<1>6. MovesOn
  BY <1>5 DEF MovesOn
<1>7. CASE s = "EXPIRED"
  BY <1>0, <1>3, <1>4, <1>5, <1>6, <1>7, StatusReleases DEF Over, Gone
<1>8. CASE s = "FAILED"
  BY <1>0, <1>3, <1>4, <1>5, <1>6, <1>8, StatusEnds
<1> QED
  BY <1>3, <1>7, <1>8

-----------------------------------------------------------------------------
(* What an owner and the cleaner find due *)

\* A call goes on to expire the session.
LEMMA GoesToExpire ==
    ASSUME UploadInv, NEW c \in Callers, UNCHANGED <<session, store>>,
           Forget(c, "expire"), c = Cleaner => Over
    PROVE  Sound(c) /\ call'[c].pc = "expire"
<1>0. "expire" \in Steps /\ CallTypes /\ BusyTypes
  BY InvTypes DEF Steps
<1>1. CallTypes' /\ BusyTypes' /\ Others(c) /\ call'[c].pc = "expire"
  BY <1>0, ForgetStep
<1>2. CallerOK(c)' /\ ~Holder(c)'
  BY <1>1 DEF CallerOK, Holder, Holding, InRecovery, InPart, InCompletion,
              InRelease, InRemoval, Over
<1> QED
  BY <1>1, <1>2, SilentSound DEF InRemoval

LEMMA OwnedExpireSound ==
    ASSUME UploadInv, NEW r \in Requests, OwnedExpire(r)
    PROVE  Sound(r)
BY GoesToExpire, EndsSilently, CleanerAssumption DEF OwnedExpire, Callers

LEMMA OwnedElseSound ==
    ASSUME UploadInv, NEW r \in Requests, OwnedElse(r)
    PROVE  Sound(r)
BY EndsSilently DEF OwnedElse, Callers

LEMMA ExpireSound ==
    ASSUME UploadInv, NEW r \in Requests, Expire(r)
    PROVE  Sound(r)
<1>0. r \in Callers /\ UNCHANGED store
  BY DEF Callers, Expire
<1>1. CASE session.status \in Open \cup {"AVAILABLE"} /\ call[r].due
  BY <1>0, <1>1, Expires, StatusReleases DEF Expire, Open, Writable
<1>2. CASE ~(session.status \in Open \cup {"AVAILABLE"} /\ call[r].due)
  BY <1>0, <1>2, EndsSilently DEF Expire
<1> QED
  BY <1>1, <1>2

LEMMA SweepSkipSound ==
    ASSUME UploadInv, SweepSkip
    PROVE  Sound(Cleaner) /\ call'[Cleaner].pc = "idle"
BY EndsSilently DEF SweepSkip, Callers

LEMMA SweepOpenSound ==
    ASSUME UploadInv, SweepOpen
    PROVE  Sound(Cleaner) /\ call'[Cleaner].pc # "mkdir"
<1>0. /\ Cleaner \in Callers /\ UNCHANGED store
      /\ call[Cleaner].row.status \in Open
  BY DEF Callers, SweepOpen
<1>1. CASE session.status = call[Cleaner].row.status /\ call[Cleaner].due
  BY <1>0, <1>1, Expires, StatusReleases DEF SweepOpen, Open, Writable
<1>2. CASE ~(session.status = call[Cleaner].row.status /\ call[Cleaner].due)
  BY <1>0, <1>2, EndsSilently DEF SweepOpen
<1> QED
  BY <1>1, <1>2

LEMMA SweepRestSound ==
    ASSUME UploadInv, SweepRest
    PROVE  Sound(Cleaner) /\ call'[Cleaner].pc # "mkdir"
<1>0. Cleaner \in Callers /\ CallerOK(Cleaner) /\ call[Cleaner].pc = "sweep"
  BY InvTypes DEF Callers, SweepRest, At
<1>1. Over
  BY <1>0 DEF CallerOK, SweepRest
<1> QED
  BY <1>0, <1>1, GoesToExpire, GoesToRelease DEF SweepRest

LEMMA SweepExpireSound ==
    ASSUME UploadInv, SweepExpire
    PROVE  Sound(Cleaner) /\ call'[Cleaner].pc # "mkdir"
<1>0. /\ Cleaner \in Callers /\ CallerOK(Cleaner) /\ call[Cleaner].pc = "expire"
      /\ UNCHANGED store /\ Forget(Cleaner, "release")
  BY InvTypes DEF Callers, SweepExpire, At
<1>1. Over
  BY <1>0 DEF CallerOK
<1>2. CASE session.status = "AVAILABLE" /\ call[Cleaner].due
  BY <1>0, <1>2, Expires, StatusReleases DEF SweepExpire
<1>3. CASE ~(session.status = "AVAILABLE" /\ call[Cleaner].due)
  BY <1>0, <1>1, <1>3, GoesToRelease DEF SweepExpire
<1> QED
  BY <1>2, <1>3

-----------------------------------------------------------------------------
(* Releases *)

LEMMA ReleaseStartSound ==
    ASSUME UploadInv, NEW c \in Callers, ReleaseStart(c)
    PROVE  Sound(c) /\ call'[c].pc # "mkdir"
<1>0. /\ CallTypes /\ BusyTypes /\ CallerOK(c) /\ call[c].pc = "release"
      /\ UNCHANGED <<session, store>> /\ "retire" \in Steps
  BY InvTypes DEF ReleaseStart, At, Steps, InRelease, InRemoval
<1>1. CASE busy.part = Nil /\ Goto(c, "retire")
  <2>1. CallTypes' /\ BusyTypes' /\ Others(c) /\ call'[c].pc = "retire"
    BY <1>0, <1>1, GotoStep
  <2>2. Over
    BY <1>0 DEF CallerOK, InRelease
  <2>3. CallerOK(c)' /\ ~Holder(c)'
    BY <1>0, <2>1, <2>2 DEF CallerOK, Holder, Holding, InRecovery, InPart, InCompletion,
                InRelease, InRemoval, Over
  <2> QED
    BY <1>0, <1>1, <2>1, <2>3, SilentSound
<1>2. CASE End(c)
  BY <1>0, <1>2, EndsSilently
<1> QED
  BY <1>1, <1>2 DEF ReleaseStart

LEMMA RetireSound ==
    ASSUME UploadInv, NEW c \in Callers, Retire(c)
    PROVE  Sound(c) /\ UNCHANGED session.status /\ call'[c].pc # "mkdir"
<1>0. /\ CallTypes /\ BusyTypes /\ CallerOK(c) /\ call[c].pc = "retire"
      /\ UNCHANGED <<store, busy>> /\ session \in SessionRecord /\ call[c] \in CallRecord
      /\ store \in StoreRecord
  BY InvTypes DEF Retire, At
<1>1. PICK b \in BOOLEAN : b = Retirable
  BY DEF Retirable
<1>2. PICK x : x = [call[c] EXCEPT !.pc = "final", !.kill = b]
  OBVIOUS
<1>3. x \in CallRecord /\ x.pc = "final" /\ x.kill = b
  BY <1>0, <1>2 DEF CallRecord, Steps, InRelease, InRemoval
<1>4. call' = [call EXCEPT ![c] = x]
  BY <1>1, <1>2 DEF Retire
<1>5. CallTypes' /\ BusyTypes' /\ Others(c) /\ call'[c] = x
  BY <1>0, <1>3, <1>4, CallStep
<1>6. Over
  BY <1>0 DEF CallerOK, InRelease, InRemoval
<1>7. Sweeping
  BY <1>0 DEF Sweeping, InRemoval
<1>8. \A d \in Callers : ~Holder(d)
  BY <1>7, SweepingIsClosed
<1>9. /\ session' \in SessionRecord /\ session'.status = session.status
      /\ session'.asset = session.asset /\ session'.parts = session.parts
      /\ session'.attached = session.attached
      /\ session.deleted => session'.deleted
      /\ session'.deleted => session.deleted \/ Retirable
      /\ session'.released => session.released
      /\ Retirable => session'.deleted
  <2>1. CASE Retirable
    <3>1. session' = [session EXCEPT !.deleted = TRUE, !.released = FALSE]
      BY <2>1 DEF Retire
    <3> QED
      BY <1>0, <2>1, <3>1 DEF SessionRecord
  <2>2. CASE ~Retirable
    BY <1>0, <2>2 DEF Retire
  <2> QED
    BY <2>1, <2>2
<1>10. Over'
  BY <1>6, <1>9 DEF Over
<1>11. CallerOK(c)'
  BY <1>1, <1>3, <1>5, <1>9, <1>10 DEF CallerOK, Holder, Holding, InRecovery, InPart,
         InCompletion, InRelease, InRemoval
<1>12. SessionOK'
  BY <1>0, <1>9, <1>10 DEF UploadInv, SessionOK, Retirable, Empty, Swept
<1>13. Lasts
  BY <1>0, <1>9, <1>10 DEF Lasts, Shrinks, Fewer
<1>14. UploadTypes'
  BY <1>0, <1>5, <1>9 DEF UploadTypes, CallTypes, BusyTypes
<1> QED
  BY <1>3, <1>5, <1>7, <1>8, <1>9, <1>11, <1>12, <1>13, <1>14 DEF Sound, Others

\* A release removes files that nobody needs any more.
LEMMA RemovalSound ==
    ASSUME UploadInv, NEW c \in Callers, Sweeping, UNCHANGED session,
           store' \in StoreRecord, Shrinks,
           session.asset /\ ~session.deleted => store'.final = store.final,
           CallTypes', BusyTypes', Others(c), CallerOK(c)',
           call'[c].pc \notin {"purge", "write"}
    PROVE  Sound(c)
<1>1. \A d \in Callers : ~Holder(d)
  BY SweepingIsClosed
<1>2. /\ Lasts /\ Over' = Over
  BY DEF Lasts, Over
<1>3. Empty => Empty'
  <2>1. store \in StoreRecord
    BY InvTypes
  <2> QED
    BY <2>1 DEF Empty, Swept, Shrinks, Fewer, NoFile, StoreRecord
<1>4. SessionOK'
  BY <1>2, <1>3 DEF UploadInv, SessionOK
<1>5. UploadTypes'
  BY InvTypes DEF UploadTypes, CallTypes, BusyTypes
<1> QED
  BY <1>1, <1>2, <1>4, <1>5 DEF Sound, Others

LEMMA RemoveFinalSound ==
    ASSUME UploadInv, NEW c \in Callers, RemoveFinal(c)
    PROVE  Sound(c) /\ call'[c].pc # "mkdir"
<1>0. /\ CallTypes /\ BusyTypes /\ CallerOK(c) /\ call[c].pc = "final"
      /\ UNCHANGED session /\ store \in StoreRecord /\ Goto(c, "staging")
      /\ "staging" \in Steps
  BY InvTypes DEF RemoveFinal, At, Steps, InRelease, InRemoval
<1>1. CallTypes' /\ BusyTypes' /\ Others(c) /\ call'[c].pc = "staging"
  BY <1>0, GotoStep
<1>2. Sweeping /\ Over
  BY <1>0 DEF Sweeping, CallerOK, InRelease, InRemoval
<1>3. PICK w : w = IF ~session.asset \/ call[c].kill THEN Nil ELSE store.final
  OBVIOUS
<1>4. w \in Contents \cup {Nil}
  BY <1>0, <1>3 DEF StoreRecord
<1>5. store' = [store EXCEPT !.pending = NoFile.pending, !.final = w]
  BY <1>3 DEF RemoveFinal
<1>6. /\ store' \in StoreRecord /\ Swept' /\ store'.final = w
      /\ store'.staging = store.staging /\ store'.assembled = store.assembled
  BY <1>0, <1>4, <1>5 DEF StoreRecord, Swept, NoFile
<1>7. Shrinks
  BY <1>6 DEF Shrinks, Fewer, Swept, NoFile
<1>8. session.asset /\ ~session.deleted => store'.final = store.final
  BY <1>0, <1>3, <1>6 DEF CallerOK
<1>9. CallerOK(c)'
  BY <1>0, <1>1, <1>2, <1>6 DEF CallerOK, Holder, Holding, InRecovery, InPart,
         InCompletion, InRelease, InRemoval, Over
<1> QED
  BY <1>0, <1>1, <1>2, <1>6, <1>7, <1>8, <1>9, RemovalSound

LEMMA RemoveStagingSound ==
    ASSUME UploadInv, NEW c \in Callers, RemoveStaging(c)
    PROVE  Sound(c) /\ call'[c].pc # "mkdir"
<1>0. /\ CallTypes /\ BusyTypes /\ CallerOK(c) /\ call[c].pc = "staging"
      /\ UNCHANGED session /\ store \in StoreRecord /\ Goto(c, "mark")
      /\ "mark" \in Steps
  BY InvTypes DEF RemoveStaging, At, Steps, InRelease, InRemoval
<1>1. CallTypes' /\ BusyTypes' /\ Others(c) /\ call'[c].pc = "mark"
  BY <1>0, GotoStep
<1>2. Sweeping /\ Over /\ Swept
  BY <1>0 DEF Sweeping, CallerOK, InRelease, InRemoval
<1>3. store' = [store EXCEPT !.staging = {}, !.assembled = Nil]
  BY DEF RemoveStaging
<1>4. /\ store' \in StoreRecord /\ Empty' /\ store'.final = store.final
      /\ store'.pending = store.pending /\ store'.staging = {} /\ store'.assembled = Nil
  BY <1>0, <1>2, <1>3 DEF StoreRecord, Swept, Empty
<1>5. Shrinks
  BY <1>4 DEF Shrinks, Fewer
<1>6. CallerOK(c)'
  BY <1>0, <1>1, <1>2, <1>4 DEF CallerOK, Holder, Holding, InRecovery, InPart,
         InCompletion, InRelease, InRemoval, Over
<1> QED
  BY <1>0, <1>1, <1>2, <1>4, <1>5, <1>6, RemovalSound

LEMMA MarkSound ==
    ASSUME UploadInv, NEW c \in Callers, Mark(c)
    PROVE  Sound(c) /\ UNCHANGED session.status /\ call'[c].pc = "idle"
<1>0. /\ CallTypes /\ BusyTypes /\ CallerOK(c) /\ call[c].pc = "mark" /\ End(c)
      /\ UNCHANGED store /\ session \in SessionRecord /\ store \in StoreRecord
      /\ session' = [session EXCEPT !.released = TRUE]
  BY InvTypes DEF Mark, At
<1>1. CallTypes' /\ BusyTypes' /\ Others(c) /\ call'[c].pc = "idle"
  BY <1>0, CallEnds, RestingType
<1>2. Sweeping /\ Over /\ Empty
  BY <1>0 DEF Sweeping, CallerOK, InRelease, InRemoval
<1>3. /\ session' \in SessionRecord /\ session'.status = session.status
      /\ session'.asset = session.asset /\ session'.parts = session.parts
      /\ session'.attached = session.attached /\ session'.deleted = session.deleted
  BY <1>0 DEF SessionRecord
<1>4. Over' /\ Empty'
  BY <1>0, <1>2, <1>3 DEF Over, Empty, Swept
<1>5. SessionOK'
  BY <1>0, <1>3, <1>4 DEF UploadInv, SessionOK
<1>6. Lasts
  BY <1>0, <1>3, <1>4 DEF Lasts, Shrinks, Fewer
<1>7. CallerOK(c)'
  BY <1>1, NothingToKnow
<1>8. \A d \in Callers : ~Holder(d)
  BY <1>2, SweepingIsClosed
<1>9. UploadTypes'
  BY <1>0, <1>1, <1>3 DEF UploadTypes, CallTypes, BusyTypes
<1> QED
  BY <1>1, <1>2, <1>3, <1>5, <1>6, <1>7, <1>8, <1>9 DEF Sound, Others, InRemoval

LEMMA StepFailsSound ==
    ASSUME UploadInv, NEW c \in Callers, StepFails(c)
    PROVE  Sound(c) /\ call'[c].pc = "idle"
BY EndsSilently DEF StepFails

-----------------------------------------------------------------------------
(* initiate *)

LEMMA InitiateSound ==
    ASSUME UploadInv, NEW r \in Requests, Initiate(r)
    PROVE  Sound(r)
<1>0. /\ r \in Callers /\ CallTypes /\ BusyTypes /\ UNCHANGED store
      /\ session \in SessionRecord /\ Goto(r, "mkdir") /\ {"mkdir"} \subseteq Steps
      /\ session.status = "NONE" /\ "INITIATED" \in Statuses
      /\ session' = [session EXCEPT !.status = "INITIATED"]
  BY InvTypes DEF Callers, Initiate, Steps, Statuses, Writable
<1>1. CallTypes' /\ BusyTypes' /\ Others(r) /\ call'[r].pc = "mkdir"
  BY <1>0, GotoStep
<1>2. session' \in SessionRecord /\ SameFile /\ session'.status = "INITIATED"
  BY <1>0, StatusSet
<1>3. MovesOn
  BY <1>0 DEF MovesOn, UploadInv, SessionOK, Over, Gone
<1>4. CallerOK(r)' /\ \A d \in Callers \ {r} : ~Holder(d)
  BY <1>0, <1>1, NothingToKnow, NobodyHolds
<1>5. call'[r].pc \notin {"purge", "write"} \cup InRemoval
  BY <1>1 DEF InRemoval
<1> QED
  BY <1>0, <1>1, <1>2, <1>3, <1>4, <1>5, StatusSound

\* The failure does not spoil what is over already.
LEMMA MakeDirectorySound ==
    ASSUME UploadInv, NEW r \in Requests, MakeDirectory(r), ~session'.spoiled
    PROVE  Sound(r)
<1>0. /\ r \in Callers /\ UNCHANGED store /\ session \in SessionRecord
  BY InvTypes DEF Callers, MakeDirectory
<1>1. CASE End(r) /\ UNCHANGED session
  BY <1>0, <1>1, EndsSilently
<1>2. CASE session.status = "INITIATED" /\ Forget(r, "release")
           /\ session' = [session EXCEPT !.status = "ABORTED"]
  <2>0. "ABORTED" \in Statuses
    BY DEF Statuses, Gone
  <2>1. session' \in SessionRecord /\ SameFile /\ session'.status = "ABORTED"
    BY <1>0, <1>2, <2>0, StatusSet
  <2>2. MovesOn /\ Over' /\ session'.status \in Gone
    BY <2>1 DEF MovesOn, Over, Gone
  <2>3. \A d \in Callers \ {r} : ~Holder(d)
    BY <1>2, NobodyHolds
  <2> QED
    BY <1>0, <1>2, <2>1, <2>2, <2>3, StatusReleases
<1>3. CASE Forget(r, "release")
           /\ session' = [session EXCEPT !.spoiled = @ \/ InUse]
  <2>1. ~session.spoiled /\ ~InUse
    BY <1>0, <1>3 DEF SessionRecord
  <2>2. session' = session
    BY <1>0, <1>3, <2>1 DEF SessionRecord
  <2>3. Over
    BY <2>1 DEF InUse, Over
  <2> QED
    BY <1>0, <1>3, <2>2, <2>3, GoesToRelease
<1> QED
  BY <1>1, <1>2, <1>3 DEF MakeDirectory

-----------------------------------------------------------------------------
(* Every step keeps the invariant, until the session is spoiled *)

LEMMA CompletingSound ==
    ASSUME UploadInv, NEW r \in Requests, Completing(r) \/ CompleteFails(r)
    PROVE  Sound(r)
BY RetryFinishSound, ClaimSessionSound, LoadSound, ClearSound, AssembleSound, PutSound,
   PublishSound, MaterializeSound, FinishSound, CatchAvailableSound,
   CatchMaterializedSound, CatchUndoSound, CatchLostSound, FailSound, CompleteFailsSound
   DEF Completing

LEMMA RestSound ==
    ASSUME UploadInv, NEW c \in Callers, Recovering(c) \/ Releasing(c) \/ StepFails(c)
    PROVE  Sound(c)
BY RecoverFilesSound, RecoverMarkSound, ReleaseStartSound, RetireSound, RemoveFinalSound,
   RemoveStagingSound, MarkSound, StepFailsSound DEF Recovering, Releasing

\* A call that is under way.
LEMMA ContinuesInv ==
    ASSUME UploadInv, NEW r \in Requests, ~session'.spoiled,
           Continues(r) \/ PartFails(r) \/ CompleteFails(r)
    PROVE  UploadInv'
<1>1. r \in Callers
  BY DEF Callers
<1>2. Sound(r)
  BY <1>1, MakeDirectorySound, PartReadSound, PartPurgeSound, PartWriteSound,
     PartCommitSound, PartRemoveOldSound, PartFailsSound, CompletingSound, RestSound,
     SubmitSound, ListExpireSound, OwnedExpireSound, OwnedElseSound, TakeOverSound,
     ExpireSound DEF Continues, OwnedTakeOver
<1> QED
  BY <1>1, <1>2, SoundStep

LEMMA StartsInv ==
    ASSUME UploadInv, NEW r \in Requests, Starts(r)
    PROVE  UploadInv'
<1>1. r \in Callers
  BY DEF Callers
<1>2. Sound(r)
  BY InitiateSound, PartEnterSound, CompleteStartSound, AbortSound, RefreshSound,
     SubmitCheckSound, ListSound, LookSound DEF Starts
<1> QED
  BY <1>1, <1>2, SoundStep

LEMMA CleanerInv ==
    ASSUME UploadInv, Select \/ Sweeps
    PROVE  UploadInv'
<1>1. Cleaner \in Callers
  BY DEF Callers
<1>2. Sound(Cleaner)
  BY <1>1, SelectSound, SweepSkipSound, TakeOverSound, SweepOpenSound, SweepRestSound,
     SweepExpireSound, RestSound DEF Sweeps, SweepTakeOver
<1> QED
  BY <1>1, <1>2, SoundStep

\* Time: only the lease of a claim whose call is gone runs out.
LEMMA TimeInv ==
    ASSUME UploadInv, TimePasses \/ LeaseRunsOut
    PROVE  UploadInv'
<1>0. /\ session \in SessionRecord /\ UNCHANGED <<store, call, busy>>
      /\ UploadTypes /\ SessionOK /\ Alone /\ NoneLeft
  BY InvTypes DEF UploadInv, TimePasses, LeaseRunsOut
<1>1. /\ session' \in SessionRecord /\ SameFile /\ session'.status = session.status
      /\ session'.claim = session.claim
      /\ LeaseRunsOut \/ session'.leaseOld = session.leaseOld
  <2>1. CASE TimePasses
    BY <1>0, <2>1 DEF TimePasses, SessionRecord, SameFile
  <2>2. CASE LeaseRunsOut
    BY <1>0, <2>2 DEF LeaseRunsOut, SessionRecord, SameFile
  <2> QED
    BY <2>1, <2>2
<1>2. MovesOn
  BY <1>0, <1>1 DEF MovesOn, SessionOK
<1>3. SessionOK' /\ Lasts
  BY <1>0, <1>1, <1>2, MovesOnOK
<1>4. UploadTypes'
  BY <1>0, <1>1 DEF UploadTypes
<1>5. ASSUME NEW d \in Callers
      PROVE  CallerOK(d)'
  <2>1. Stays(d)
    BY <1>0 DEF Stays
  <2>2. Holder(d) => Undisturbed
    <3>1. CASE LeaseRunsOut
      BY <3>1, HolderKnows DEF LeaseRunsOut
    <3>2. CASE ~LeaseRunsOut
      BY <1>0, <1>1, <3>2 DEF Undisturbed, SameFile, Fewer
    <3> QED
      BY <3>1, <3>2
  <2> QED
    BY <1>3, <1>4, <2>1, <2>2, StaysSound
<1>6. Alone' /\ NoneLeft'
  BY <1>0, <1>1 DEF Alone, Holder, NoneLeft, Sweeping, SameFile
<1> QED
  BY <1>3, <1>4, <1>5, <1>6 DEF UploadInv

LEMMA ProcessDiesInv ==
    ASSUME UploadInv, ProcessDies
    PROVE  UploadInv'
<1>0. /\ UNCHANGED <<session, store>> /\ UploadTypes /\ SessionOK
      /\ call' = [c \in Callers |-> Resting] /\ busy' = [part |-> Nil, final |-> Nil]
  BY DEF UploadInv, ProcessDies
<1>1. \A c \in Callers : call'[c].pc = "idle"
  BY <1>0, RestingType
<1>2. CallTypes' /\ BusyTypes'
  BY <1>0, RestingType DEF CallTypes, BusyTypes
<1>3. UploadTypes'
  BY <1>0, <1>2 DEF UploadTypes, CallTypes, BusyTypes
<1>4. \A c \in Callers : CallerOK(c)' /\ ~Holder(c)'
  BY <1>1, NothingToKnow
<1>5. SessionOK'
  BY <1>0 DEF SessionOK, Over, Empty, Swept
<1>6. Alone' /\ NoneLeft'
  BY <1>1, <1>4 DEF Alone, NoneLeft
<1> QED
  BY <1>3, <1>4, <1>5, <1>6 DEF UploadInv

LEMMA UploadInitInv ==
    ASSUME UploadInit
    PROVE  UploadInv
<1>1. NoParts \in MaybeParts
  BY DEF NoParts, MaybeParts
<1>2. session \in SessionRecord
  BY <1>1 DEF UploadInit, SessionRecord, Statuses, ClaimNames
<1>3. store \in StoreRecord
  BY DEF UploadInit, NoFile, StoreRecord
<1>4. CallTypes /\ BusyTypes /\ \A c \in Callers : call[c].pc = "idle"
  BY RestingType DEF UploadInit, CallTypes, BusyTypes
<1>5. UploadTypes
  BY <1>2, <1>3, <1>4 DEF UploadTypes, CallTypes, BusyTypes
<1>6. \A c \in Callers : CallerOK(c) /\ ~Holder(c)
  BY <1>4 DEF CallerOK, Holder, Holding, InRecovery, InPart, InCompletion, InRelease, InRemoval
<1>7. SessionOK
  BY DEF UploadInit, SessionOK
<1>8. Alone /\ NoneLeft
  BY <1>4, <1>6 DEF Alone, NoneLeft
<1> QED
  BY <1>5, <1>6, <1>7, <1>8 DEF UploadInv

LEMMA UploadNextInv ==
    ASSUME UploadInv, ~session'.spoiled, [UploadNext]_uploadVars
    PROVE  UploadInv'
<1>1. ASSUME NEW r \in Requests, Starts(r)
      PROVE  UploadInv'
  BY <1>1, StartsInv
<1>2. ASSUME NEW r \in Requests, Continues(r) \/ PartFails(r) \/ CompleteFails(r)
      PROVE  UploadInv'
  BY <1>2, ContinuesInv
<1>3. CASE Select \/ Sweeps
  BY <1>3, CleanerInv
<1>4. ASSUME NEW c \in Callers, StepFails(c)
      PROVE  UploadInv'
  BY <1>4, RestSound, SoundStep
<1>5. CASE TimePasses \/ LeaseRunsOut
  BY <1>5, TimeInv
<1>6. CASE ProcessDies
  BY <1>6, ProcessDiesInv
<1>7. CASE UNCHANGED uploadVars
  BY <1>7 DEF uploadVars, UploadInv, UploadTypes, SessionOK, Alone, NoneLeft,
              CallerOK, Holder, Sweeping, Over, Empty, Swept, Mine
<1> QED
  BY <1>1, <1>2, <1>3, <1>4, <1>5, <1>6, <1>7 DEF UploadNext, Fault

\* A session that was spoiled stays so.
HasHistory == "spoiled" \in DOMAIN session
StaysSpoiled == HasHistory' /\ (session.spoiled => session'.spoiled)

LEMMA StaysSpoiledSame ==
    ASSUME HasHistory, UNCHANGED session
    PROVE  StaysSpoiled
BY DEF HasHistory, StaysSpoiled

LEMMA StartsSpoiled ==
    ASSUME HasHistory, NEW r, Starts(r)
    PROVE  StaysSpoiled
BY DEF HasHistory, StaysSpoiled, Starts, Initiate, PartEnter, CompleteStart, Abort,
       Refresh, SubmitCheck, List, Look, Read

LEMMA PartsSpoiled ==
    ASSUME HasHistory, NEW r,
           \/ MakeDirectory(r) \/ PartRead(r) \/ PartPurge(r) \/ PartWrite(r)
           \/ PartCommit(r) \/ PartRemoveOld(r) \/ PartFails(r)
    PROVE  StaysSpoiled
BY DEF HasHistory, StaysSpoiled, MakeDirectory, PartRead, PartPurge, PartWrite,
       PartCommit, PartRemoveOld, PartFails, Registered

LEMMA CompletingSpoiled ==
    ASSUME HasHistory, NEW r, Completing(r) \/ CompleteFails(r)
    PROVE  StaysSpoiled
<1>1. CASE \/ ClaimSession(r) \/ Load(r) \/ Clear(r) \/ Assemble(r) \/ Put(r)
           \/ Publish(r) \/ Materialize(r)
  BY <1>1 DEF HasHistory, StaysSpoiled, ClaimSession, Load, Clear, Assemble, Put,
              Publish, Materialize
<1>2. CASE RetryFinish(r) \/ Finish(r)
  BY <1>2 DEF HasHistory, StaysSpoiled, RetryFinish, Finish, MadeAvailable, Available
<1>3. CASE \/ CatchAvailable(r) \/ CatchMaterialized(r) \/ CatchUndo(r) \/ CatchLost(r)
           \/ Fail(r) \/ CompleteFails(r)
  BY <1>3 DEF HasHistory, StaysSpoiled, CatchAvailable, CatchMaterialized, CatchUndo,
              CatchLost, Fail, CompleteFails
<1> QED
  BY <1>1, <1>2, <1>3 DEF Completing

LEMMA ExpiresSpoiled ==
    ASSUME HasHistory, NEW c,
           \/ Submit(c) \/ ListExpire(c) \/ OwnedExpire(c) \/ OwnedElse(c) \/ TakeOver(c)
           \/ Expire(c) \/ Select \/ SweepSkip \/ SweepOpen \/ SweepRest \/ SweepExpire
    PROVE  StaysSpoiled
BY DEF HasHistory, StaysSpoiled, Submit, ListExpire, OwnedExpire, OwnedElse, TakeOver,
       Expire, Select, Read, SweepSkip, SweepOpen, SweepRest, SweepExpire

LEMMA ReleasesSpoiled ==
    ASSUME HasHistory, NEW c, Recovering(c) \/ Releasing(c) \/ StepFails(c)
    PROVE  StaysSpoiled
BY DEF HasHistory, StaysSpoiled, Recovering, Releasing, RecoverFiles, RecoverMark,
       ReleaseStart, Retire, RemoveFinal, RemoveStaging, Mark, StepFails

LEMMA NextSpoiled ==
    ASSUME HasHistory, [UploadNext]_uploadVars
    PROVE  StaysSpoiled
<1>1. ASSUME NEW r \in Requests, Continues(r)
      PROVE  StaysSpoiled
  BY <1>1, PartsSpoiled, CompletingSpoiled, ExpiresSpoiled, ReleasesSpoiled
     DEF Continues, OwnedTakeOver
<1>2. CASE Select \/ Sweeps
  BY <1>2, ExpiresSpoiled, ReleasesSpoiled DEF Sweeps, SweepTakeOver
<1>3. CASE TimePasses \/ LeaseRunsOut
  BY <1>3 DEF HasHistory, StaysSpoiled, TimePasses, LeaseRunsOut
<1>4. CASE Fault
  BY <1>4, PartsSpoiled, CompletingSpoiled, ReleasesSpoiled, StaysSpoiledSame
     DEF Fault, ProcessDies
<1>5. CASE UNCHANGED uploadVars
  BY <1>5, StaysSpoiledSame DEF uploadVars
<1> QED
  BY <1>1, <1>2, <1>3, <1>4, <1>5, StartsSpoiled DEF UploadNext

-----------------------------------------------------------------------------
(* The theorems *)

UploadKept == HasHistory /\ (session.spoiled \/ UploadInv)

(* apps/api/src/uploads/uploads.service.ts: the inductive invariant, who     *)
(* holds the claim, what it has read, what a release has looked for.  It     *)
(* holds until a failed initiate releases a session that others use.         *)
THEOREM UploadInvariant == UploadSpec => []UploadKept
<1>1. UploadInit => UploadKept
  BY UploadInitInv DEF UploadKept, HasHistory, UploadInit
<1>2. UploadKept /\ [UploadNext]_uploadVars => UploadKept'
  BY UploadNextInv, NextSpoiled DEF UploadKept, StaysSpoiled
<1> QED
  BY <1>1, <1>2, PTL DEF UploadSpec

(* completeSession, recoverVerificationLease, releaseStaging: a file that    *)
(* was not retired has as bytes exactly the registered parts.                *)
THEOREM UploadsAreWhole == UploadSpec => []AssetIsWhole
<1>1. UploadKept => AssetIsWhole
  BY DEF UploadKept, UploadInv, SessionOK, AssetIsWhole
<1> QED
  BY <1>1, UploadInvariant, PTL

(* releaseStaging: stagingReleasedAt is only set once nothing of the         *)
(* session's staging is on disk, and nothing is written afterwards.          *)
THEOREM UploadsReleaseEmpty == UploadSpec => []ReleasedIsEmpty
<1>1. UploadKept => ReleasedIsEmpty
  BY DEF UploadKept, UploadInv, SessionOK, Empty, Swept, ReleasedIsEmpty
<1> QED
  BY <1>1, UploadInvariant, PTL

-----------------------------------------------------------------------------
(* The implementation of UploadPromise *)

LEMMA StageIs ==
    /\ session.attached => Stage = "submitted"
    /\ ~session.attached /\ session.status = "AVAILABLE" => Stage = "available"
    /\ ~session.attached /\ session.status \in Gone => Stage = "withdrawn"
    /\ ~session.attached /\ session.status \notin Gone \cup {"AVAILABLE"} =>
          Stage = "uploading"
BY DEF Stage, Gone

LEMMA NextStageIs ==
    /\ session'.attached => Stage' = "submitted"
    /\ ~session'.attached /\ session'.status = "AVAILABLE" => Stage' = "available"
    /\ ~session'.attached /\ session'.status \in Gone => Stage' = "withdrawn"
    /\ ~session'.attached /\ session'.status \notin Gone \cup {"AVAILABLE"} =>
          Stage' = "uploading"
BY DEF Stage, Gone

Promised ==
    \/ Promise!Materialize \/ Promise!Complete \/ Promise!Submit
    \/ Promise!Withdraw \/ Promise!Purge \/ UNCHANGED <<Stage, Bytes>>

\* The file stays as it is, and the session goes no way back.
FileKept ==
    /\ session'.asset = session.asset /\ session'.attached = session.attached
    /\ session.asset => store'.final = store.final

NoWayBack ==
    \/ session'.status = session.status \/ session'.status \in Gone
    \/ {session.status, session'.status} \cap (Gone \cup {"AVAILABLE"}) = {}

LEMMA KeptPromise ==
    ASSUME FileKept, NoWayBack
    PROVE  Promised
<1>1. Bytes' = Bytes
  BY DEF FileKept, Bytes
<1>2. CASE session.attached
  BY <1>1, <1>2, StageIs, NextStageIs DEF FileKept, Promised
<1>3. CASE ~session.attached
  <2>1. ~session'.attached
    BY <1>3 DEF FileKept
  <2>2. CASE session'.status = session.status
    <3>1. Stage' = Stage
      BY <1>3, <2>1, <2>2 DEF Stage
    <3> QED
      BY <1>1, <3>1 DEF Promised
  <2>3. CASE session'.status \in Gone
    <3>1. Stage' = "withdrawn"
      BY <2>1, <2>3, NextStageIs
    <3>2. Stage \in {"uploading", "available", "withdrawn"}
      BY <1>3, StageIs
    <3> QED
      BY <1>1, <3>1, <3>2 DEF Promised, Promise!Withdraw
  <2>4. CASE {session.status, session'.status} \cap (Gone \cup {"AVAILABLE"}) = {}
    <3>1. Stage = "uploading" /\ Stage' = "uploading"
      BY <1>3, <2>1, <2>4, StageIs, NextStageIs
    <3> QED
      BY <1>1, <3>1 DEF Promised
  <2> QED
    BY <2>2, <2>3, <2>4 DEF NoWayBack
<1> QED
  BY <1>2, <1>3

LEMMA SilentPromise ==
    ASSUME UNCHANGED session, session.asset => store'.final = store.final
    PROVE  Promised
BY KeptPromise DEF FileKept, NoWayBack

\* The status is set, and the claim with it; no file of it changes.
LEMMA StatusPromise ==
    ASSUME session \in SessionRecord, UNCHANGED store, NEW s \in Statuses,
           \/ session' = session
           \/ session' = [session EXCEPT !.status = s]
           \/ \E k \in ClaimNames : session' = [session EXCEPT !.status = s, !.claim = k]
           \/ \E k \in ClaimNames, b \in BOOLEAN :
                 session' = [session EXCEPT !.status = s, !.claim = k, !.leaseOld = b]
           \/ \E b \in BOOLEAN : session' = [session EXCEPT !.status = s, !.late = b],
           \/ s \in Gone \/ s = session.status
           \/ {session.status, s} \cap (Gone \cup {"AVAILABLE"}) = {}
    PROVE  Promised
<1>1. CASE session' = session
  BY <1>1, SilentPromise
<1>2. CASE session' # session
  <2>1. /\ session'.status = s /\ session'.asset = session.asset
        /\ session'.attached = session.attached
    BY <1>2 DEF SessionRecord
  <2> QED
    BY <2>1, KeptPromise DEF FileKept, NoWayBack
<1> QED
  BY <1>1, <1>2

LEMMA AvailablePromise ==
    ASSUME UploadInv, NEW r, MadeAvailable(r), UNCHANGED store,
           session.status = "VERIFYING", session.asset
    PROVE  Promised
<1>0. session \in SessionRecord /\ SessionOK
  BY InvTypes DEF UploadInv
<1>1. /\ session'.status = "AVAILABLE" /\ session'.asset = session.asset
      /\ session'.attached = session.attached
  BY <1>0 DEF MadeAvailable, Available, SessionRecord
<1>2. ~session.attached /\ ~session.deleted
  BY <1>0 DEF SessionOK, Gone
<1>3. store.final \in Contents /\ store.final # Nil
  BY <1>0, <1>2, NilAssumption DEF SessionOK, Contents
<1>4. Bytes' = Bytes /\ Bytes # Nil
  BY <1>1, <1>3 DEF Bytes
<1>5. Stage = "uploading" /\ Stage' = "available"
  BY <1>1, <1>2, StageIs, NextStageIs DEF Gone
<1> QED
  BY <1>4, <1>5 DEF Promised, Promise!Complete

LEMMA MaterializePromise ==
    ASSUME UploadInv, NEW r \in Requests, Materialize(r)
    PROVE  Promised
<1>0. /\ session \in SessionRecord /\ SessionOK /\ CallerOK(r) /\ call[r].pc = "materialize"
      /\ session' = [session EXCEPT !.asset = TRUE] /\ UNCHANGED store
      /\ session.status = "VERIFYING"
  BY InvTypes, MaterializeSound DEF UploadInv, Callers, Materialize, At
<1>1. /\ ~session.asset /\ store.final \in Contents
  BY <1>0 DEF CallerOK, Holder, Holding
<1>2. /\ session'.status = session.status /\ session'.asset
      /\ session'.attached = session.attached
  BY <1>0 DEF SessionRecord
<1>3. ~session.attached
  BY <1>0 DEF SessionOK, Gone
<1>4. Bytes = Nil /\ Bytes' \in Contents
  BY <1>0, <1>1, <1>2 DEF Bytes
<1>5. Stage = "uploading" /\ Stage' = "uploading"
  BY <1>0, <1>2, <1>3, StageIs, NextStageIs DEF Gone
<1> QED
  BY <1>4, <1>5 DEF Promised, Promise!Materialize

LEMMA SubmitPromise ==
    ASSUME UploadInv, NEW r \in Requests, Submit(r)
    PROVE  Promised
<1>0. session \in SessionRecord /\ UNCHANGED store
  BY InvTypes DEF Submit
<1>1. CASE session.status = "AVAILABLE" /\ ~session.deleted
  <2>1. /\ session'.status = session.status /\ session'.asset = session.asset
        /\ session'.attached
    BY <1>0, <1>1 DEF Submit, SessionRecord
  <2>2. Bytes' = Bytes
    BY <1>0, <2>1 DEF Bytes
  <2>3. Stage \in {"available", "submitted"} /\ Stage' = "submitted"
    BY <1>1, <2>1, StageIs, NextStageIs
  <2> QED
    BY <2>2, <2>3 DEF Promised, Promise!Submit
<1>2. CASE ~(session.status = "AVAILABLE" /\ ~session.deleted)
  BY <1>0, <1>2, SilentPromise DEF Submit
<1> QED
  BY <1>1, <1>2

LEMMA RemoveFinalPromise ==
    ASSUME UploadInv, NEW c \in Callers, RemoveFinal(c)
    PROVE  Promised
<1>0. /\ store \in StoreRecord /\ SessionOK /\ CallerOK(c) /\ call[c].pc = "final"
      /\ UNCHANGED session
  BY InvTypes DEF UploadInv, RemoveFinal, At
<1>1. store'.final = IF ~session.asset \/ call[c].kill THEN Nil ELSE store.final
  BY <1>0 DEF RemoveFinal, StoreRecord
<1>2. CASE session.asset /\ call[c].kill
  <2>1. session.status \in Gone /\ ~session.attached
    BY <1>0, <1>2 DEF CallerOK, SessionOK
  <2>2. Stage = "withdrawn" /\ Stage' = "withdrawn"
    BY <1>0, <2>1, StageIs, NextStageIs
  <2>3. Bytes' = Nil
    BY <1>0, <1>1, <1>2 DEF Bytes
  <2> QED
    BY <2>2, <2>3 DEF Promised, Promise!Purge
<1>3. CASE ~(session.asset /\ call[c].kill)
  BY <1>0, <1>1, <1>3, SilentPromise
<1> QED
  BY <1>2, <1>3

\* Steps that write nothing.
LEMMA ReadersPromise ==
    ASSUME UploadInv, NEW c \in Callers,
           \/ PartEnter(c) \/ PartRead(c) \/ CompleteStart(c) \/ SubmitCheck(c) \/ List(c)
           \/ Look(c) \/ Select \/ Load(c) \/ CatchAvailable(c) \/ CatchLost(c)
           \/ OwnedExpire(c) \/ OwnedElse(c) \/ SweepSkip \/ SweepRest \/ ReleaseStart(c)
           \/ StepFails(c) \/ ProcessDies
    PROVE  Promised
<1>1. UNCHANGED <<session, store>>
  BY DEF PartEnter, PartRead, CompleteStart, SubmitCheck, List, Look, Select, Read, Load,
         CatchAvailable, CatchLost, OwnedExpire, OwnedElse, SweepSkip, SweepRest,
         ReleaseStart, StepFails, ProcessDies
<1> QED
  BY <1>1, SilentPromise

\* Steps on files.
LEMMA FilesPromise ==
    ASSUME UploadInv, NEW c \in Callers,
           \/ PartPurge(c) \/ PartWrite(c) \/ PartRemoveOld(c) \/ Clear(c) \/ Assemble(c)
           \/ Put(c) \/ Publish(c) \/ CatchUndo(c) \/ RecoverFiles(c) \/ RemoveStaging(c)
    PROVE  Promised
<1>0. store \in StoreRecord /\ CallerOK(c)
  BY InvTypes
<1>1. CASE PartPurge(c)
  BY <1>0, <1>1, SilentPromise DEF PartPurge, Purged, StoreRecord
<1>2. CASE PartWrite(c)
  BY <1>0, <1>2, SilentPromise DEF PartWrite, StoreRecord
<1>3. CASE PartRemoveOld(c)
  BY <1>0, <1>3, SilentPromise DEF PartRemoveOld, Dropped, StoreRecord
<1>4. CASE Clear(c)
  BY <1>0, <1>4, SilentPromise DEF Clear, Purged, StoreRecord
<1>5. CASE Assemble(c)
  BY <1>0, <1>5, SilentPromise DEF Assemble, StoreRecord
<1>6. CASE Put(c)
  BY <1>0, <1>6, SilentPromise DEF Put, StoreRecord
<1>7. CASE Publish(c)
  BY <1>0, <1>7, SilentPromise DEF Publish, StoreRecord
<1>8. CASE CatchUndo(c)
  BY <1>0, <1>8, SilentPromise DEF CatchUndo, StoreRecord
<1>9. CASE RecoverFiles(c)
  <2>1. ~session.asset
    BY <1>0, <1>9 DEF RecoverFiles, At, CallerOK, Holder, InRecovery
  <2> QED
    BY <1>9, <2>1, SilentPromise DEF RecoverFiles
<1>10. CASE RemoveStaging(c)
  BY <1>0, <1>10, SilentPromise DEF RemoveStaging, StoreRecord
<1> QED
  BY <1>1, <1>2, <1>3, <1>4, <1>5, <1>6, <1>7, <1>8, <1>9, <1>10

\* Steps on the row.
LEMMA RowsPromise ==
    ASSUME UploadInv, NEW c \in Callers,
           \/ Initiate(c) \/ MakeDirectory(c) \/ PartCommit(c) \/ PartFails(c)
           \/ ClaimSession(c) \/ Fail(c) \/ CompleteFails(c) \/ TakeOver(c)
           \/ RecoverMark(c) \/ Retire(c) \/ Mark(c) \/ TimePasses \/ LeaseRunsOut
    PROVE  Promised
<1>0. session \in SessionRecord /\ store \in StoreRecord /\ CallerOK(c)
  BY InvTypes
<1>1. session' = Registered(c) /\ session.status \in Writable =>
         /\ session'.asset = session.asset /\ session'.attached = session.attached
         /\ {session.status, session'.status} \cap (Gone \cup {"AVAILABLE"}) = {}
  BY <1>0 DEF Registered, SessionRecord, Writable, Gone
<1>2. CASE Initiate(c)
  <2>1. /\ session'.asset = session.asset /\ session'.attached = session.attached
        /\ session'.status = "INITIATED"
    BY <1>0, <1>2 DEF Initiate, SessionRecord
  <2> QED
    BY <1>2, <2>1, KeptPromise DEF Initiate, FileKept, NoWayBack, Gone
<1>3. CASE MakeDirectory(c)
  <2>1. /\ session'.asset = session.asset /\ session'.attached = session.attached
        /\ session'.status \in {session.status, "ABORTED"} /\ UNCHANGED store
    BY <1>0, <1>3 DEF MakeDirectory, SessionRecord
  <2> QED
    BY <2>1, KeptPromise DEF FileKept, NoWayBack, Gone
<1>4. CASE PartCommit(c)
  <2>1. CASE session.status \in Writable /\ ~session.late
    BY <1>1, <1>4, <2>1, KeptPromise DEF PartCommit, FileKept, NoWayBack
  <2>2. CASE ~(session.status \in Writable /\ ~session.late)
    BY <1>0, <1>4, <2>2, SilentPromise DEF PartCommit, Dropped, StoreRecord
  <2> QED
    BY <2>1, <2>2
<1>5. CASE PartFails(c)
  <2>1. store'.final = store.final
    BY <1>0, <1>5 DEF PartFails, Dropped, StoreRecord
  <2>2. \/ session' = session
        \/ session' = Registered(c) /\ session.status \in Writable
    BY <1>5 DEF PartFails
  <2> QED
    BY <1>1, <2>1, <2>2, SilentPromise, KeptPromise DEF FileKept, NoWayBack
<1>6. CASE ClaimSession(c)
  <2>1. CASE session.status \in Open /\ ~session.late
    <3>1. /\ session'.asset = session.asset /\ session'.attached = session.attached
          /\ session'.status = "VERIFYING"
      BY <1>0, <1>6, <2>1 DEF ClaimSession, SessionRecord
    <3> QED
      BY <1>6, <2>1, <3>1, KeptPromise DEF ClaimSession, FileKept, NoWayBack, Gone, Open, Writable
  <2>2. CASE ~(session.status \in Open /\ ~session.late)
    BY <1>6, <2>2, SilentPromise DEF ClaimSession
  <2> QED
    BY <2>1, <2>2
<1>7. ASSUME Mine(c), UNCHANGED store, NEW s \in {"FAILED", "EXPIRED"},
             \/ session' = [session EXCEPT !.status = s, !.claim = Nil, !.leaseOld = FALSE]
             \/ session' = [session EXCEPT !.status = s, !.claim = Nil]
      PROVE  Promised
  <2>1. /\ session'.asset = session.asset /\ session'.attached = session.attached
        /\ session'.status = s
    BY <1>0, <1>7 DEF SessionRecord
  <2> QED
    BY <1>7, <2>1, KeptPromise DEF FileKept, NoWayBack, Gone, Mine
<1>8. CASE Fail(c)
  BY <1>7, <1>8, SilentPromise DEF Fail
<1>9. CASE CompleteFails(c)
  BY <1>7, <1>9, SilentPromise DEF CompleteFails
<1>10. CASE TakeOver(c)
  <2>1. /\ session'.asset = session.asset /\ session'.attached = session.attached
        /\ session'.status = session.status
    BY <1>0, <1>10 DEF TakeOver, SessionRecord
  <2> QED
    BY <1>10, <2>1, KeptPromise DEF TakeOver, FileKept, NoWayBack
<1>11. CASE RecoverMark(c)
  BY <1>7, <1>11, SilentPromise DEF RecoverMark
<1>12. CASE Retire(c) \/ Mark(c) \/ TimePasses \/ LeaseRunsOut
  <2>1. /\ session'.asset = session.asset /\ session'.attached = session.attached
        /\ session'.status = session.status /\ UNCHANGED store
    BY <1>0, <1>12 DEF Retire, Mark, TimePasses, LeaseRunsOut, SessionRecord
  <2> QED
    BY <2>1, KeptPromise DEF FileKept, NoWayBack
<1> QED
  BY <1>2, <1>3, <1>4, <1>5, <1>6, <1>8, <1>9, <1>10, <1>11, <1>12

\* Steps that make the file available, and that withdraw it.
LEMMA EndsPromise ==
    ASSUME UploadInv, NEW c \in Callers,
           \/ RetryFinish(c) \/ Finish(c) \/ CatchMaterialized(c) \/ Abort(c) \/ Refresh(c)
           \/ ListExpire(c) \/ Expire(c) \/ SweepOpen \/ SweepExpire
    PROVE  Promised
<1>0. session \in SessionRecord /\ CallerOK(c)
  BY InvTypes
<1>1. ASSUME UNCHANGED store, session'.status \in Gone, session'.asset = session.asset,
             session'.attached = session.attached
      PROVE  Promised
  BY <1>1, KeptPromise DEF FileKept, NoWayBack
<1>2. ASSUME NEW s \in Gone, session' = [session EXCEPT !.status = s], UNCHANGED store
      PROVE  Promised
  <2>1. /\ session'.status = s /\ session'.asset = session.asset
        /\ session'.attached = session.attached
    BY <1>0, <1>2 DEF SessionRecord
  <2> QED
    BY <1>1, <1>2, <2>1
<1>3. "EXPIRED" \in Gone /\ "ABORTED" \in Gone
  BY DEF Gone
<1>4. CASE RetryFinish(c)
  <2>1. session.asset
    BY <1>0, <1>4 DEF RetryFinish, At, CallerOK
  <2> QED
    BY <1>4, <2>1, AvailablePromise, SilentPromise DEF RetryFinish
<1>5. CASE Finish(c)
  BY <1>5, AvailablePromise, SilentPromise DEF Finish, Mine
<1>6. CASE CatchMaterialized(c)
  <2>1. CASE session' = [session EXCEPT !.status = "ABORTED", !.claim = Nil, !.leaseOld = FALSE]
    <3>1. /\ session'.status = "ABORTED" /\ session'.asset = session.asset
          /\ session'.attached = session.attached
      BY <1>0, <2>1 DEF SessionRecord
    <3> QED
      BY <1>1, <1>3, <1>6, <3>1 DEF CatchMaterialized
  <2>2. CASE UNCHANGED session
    BY <1>6, <2>2, SilentPromise DEF CatchMaterialized
  <2> QED
    BY <1>6, <2>1, <2>2 DEF CatchMaterialized
<1>7. CASE Abort(c)
  BY <1>2, <1>3, <1>7 DEF Abort
<1>8. CASE Refresh(c)
  <2>1. /\ session'.asset = session.asset /\ session'.attached = session.attached
        /\ session'.status = session.status \/ session'.status = "EXPIRED"
    BY <1>0, <1>8 DEF Refresh, SessionRecord
  <2> QED
    BY <1>3, <1>8, <2>1, KeptPromise DEF Refresh, FileKept, NoWayBack
<1>9. CASE ListExpire(c)
  BY <1>2, <1>3, <1>9, SilentPromise DEF ListExpire
<1>10. CASE Expire(c)
  BY <1>2, <1>3, <1>10, SilentPromise DEF Expire
<1>11. CASE SweepOpen
  BY <1>2, <1>3, <1>11, SilentPromise DEF SweepOpen
<1>12. CASE SweepExpire
  BY <1>2, <1>3, <1>12, SilentPromise DEF SweepExpire
<1> QED
  BY <1>4, <1>5, <1>6, <1>7, <1>8, <1>9, <1>10, <1>11, <1>12

LEMMA StepPromise ==
    ASSUME UploadInv, [UploadNext]_uploadVars
    PROVE  Promised
<1>0. Cleaner \in Callers /\ \A r \in Requests : r \in Callers
  BY DEF Callers
<1>1. ASSUME NEW r \in Requests, Starts(r)
      PROVE  Promised
  BY <1>0, <1>1, ReadersPromise, RowsPromise, EndsPromise DEF Starts
<1>2. ASSUME NEW r \in Callers, Recovering(r) \/ Releasing(r)
      PROVE  Promised
  BY <1>2, ReadersPromise, FilesPromise, RowsPromise, RemoveFinalPromise
     DEF Recovering, Releasing
<1>3. ASSUME NEW r \in Requests, Completing(r)
      PROVE  Promised
  BY <1>0, <1>3, ReadersPromise, FilesPromise, RowsPromise, EndsPromise, MaterializePromise
     DEF Completing
<1>4. ASSUME NEW r \in Requests, Continues(r)
      PROVE  Promised
  BY <1>0, <1>2, <1>3, <1>4, ReadersPromise, FilesPromise, RowsPromise, EndsPromise,
     SubmitPromise DEF Continues, OwnedTakeOver
<1>5. CASE Select \/ Sweeps
  BY <1>0, <1>2, <1>5, ReadersPromise, RowsPromise, EndsPromise DEF Sweeps, SweepTakeOver
<1>6. CASE TimePasses \/ LeaseRunsOut \/ Fault
  BY <1>0, <1>6, ReadersPromise, RowsPromise DEF Fault
<1>7. CASE UNCHANGED uploadVars
  BY <1>7, SilentPromise DEF uploadVars
<1> QED
  BY <1>1, <1>4, <1>5, <1>6, <1>7 DEF UploadNext

(* A chunked upload implements UploadPromise: the bytes are fixed when the   *)
(* file is materialized, it is available only with them, a submitted file    *)
(* keeps them, and they go only after the upload was withdrawn.              *)
THEOREM UploadKeepsPromise == UploadSpec => PromiseSpec
<1>1. UploadInit => Promise!Init
  BY DEF UploadInit, Promise!Init, Stage, Bytes, Gone
<1>2. ASSUME UploadKept, UploadKept', [UploadNext]_uploadVars
      PROVE  [Promise!Next]_<<Stage, Bytes, session.spoiled>>
  <2>1. CASE session'.spoiled
    BY <2>1 DEF Promise!Next, Promise!Void
  <2>2. CASE ~session'.spoiled
    <3>1. ~session.spoiled
      BY <1>2, <2>2, NextSpoiled DEF UploadKept, StaysSpoiled
    <3>2. UploadInv /\ UploadInv'
      BY <1>2, <2>2, <3>1 DEF UploadKept
    <3>3. Promised
      BY <1>2, <3>2, StepPromise
    <3>4. session.spoiled \in BOOLEAN /\ session'.spoiled \in BOOLEAN
      BY <3>2 DEF UploadInv, UploadTypes, SessionRecord
    <3>5. session'.spoiled = session.spoiled
      BY <2>2, <3>1, <3>4
    <3> QED
      BY <2>2, <3>3, <3>5 DEF Promised, Promise!Next
  <2> QED
    BY <2>1, <2>2
<1> QED
  BY <1>1, <1>2, UploadInvariant, PTL DEF UploadSpec, PromiseSpec, Promise!Spec
=============================================================================
