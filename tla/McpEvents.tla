------------------------------- MODULE McpEvents -------------------------------
(***************************************************************************)
(* How the executor of an AI job is told about it (mcp.events.service.ts): *)
(* an outbox event per attempt, a delivery row per event and subscription, *)
(* and in every API process a worker that posts the deliveries it leases.  *)
(*                                                                         *)
(* A worker holds nothing but its lease between the steps of a delivery:   *)
(* claim, check the job, post, acknowledge (or settle what went wrong) are *)
(* separate transactions, between which the owner cancels, retries and     *)
(* clarifies, the executor reports, access comes and goes, the lease runs  *)
(* out and the process dies.                                               *)
(*                                                                         *)
(* The event of generation g exists from the transaction that starts g.    *)
(* A worker's identity stands for the lease token of its claim: it works   *)
(* on one delivery at a time, and a token it lost is overwritten by        *)
(* another worker's, or by its own next claim after it died.               *)
(***************************************************************************)
EXTENDS McpJobs

CONSTANTS
    Workers,     \* one per API process
    MaxCrashes,  \* bound on the workers that die and the steps that fail
    MayStall,    \* may a lease run out while its holder still works?
    Changes,     \* what may change of what the job has pinned
    Obstructed   \* the callbacks that other jobs may keep events from

ASSUME EventAssumption ==
    /\ None \notin Workers \cup Callbacks
    /\ MaxCrashes \in Nat
    /\ MayStall \in BOOLEAN
    /\ Changes \subseteq {"note", "source"}
    /\ Obstructed \subseteq Callbacks

VARIABLES
    subscription,  \* per callback: is it subscribed, unrevoked, unexpired
    granted,       \* may the owner (still) use AI in the project
    pinned,        \* what the job has pinned: is it "kept", or has a "note"
                   \* without sources, or another "source", a new version
    behind,        \* per callback: is there an earlier event, of another job,
                   \* that has no delivery and cannot get one
    delivery,      \* per generation and callback: state, lease, is it over
    worker,        \* per worker: its step, the delivery it works on
    crashes

vars == <<job, text, finalizing, announced,
          subscription, granted, pinned, behind, delivery, worker, crashes>>

context == <<pinned, behind>>

NoDelivery == [state |-> "NONE", lease |-> None, over |-> FALSE]

Free(state) == [state |-> state, lease |-> None, over |-> FALSE]

Open == {"PENDING", "DELIVERING"}

Idle == [at |-> "idle", generation |-> 0, callback |-> None, outcome |-> None]

Working(at, g, c) == [at |-> at, generation |-> g, callback |-> c, outcome |-> None]

Goto(w, at) == worker' = [worker EXCEPT ![w].at = at]

SettleWith(w, outcome) ==
    worker' = [worker EXCEPT ![w].at = "settle", ![w].outcome = outcome]

Finish(w) == worker' = [worker EXCEPT ![w] = Idle]

Delivery(w) == delivery[worker[w].generation][worker[w].callback]

Put(w, d) ==
    delivery' = [delivery EXCEPT ![worker[w].generation][worker[w].callback] = d]

Stale(w) == worker[w].generation # job.generation

HoldsLease_AnyLease(w) == Delivery(w).state = "DELIVERING"

\* The where clause of every write that ends a delivery.
HoldsLease(w) == Delivery(w).state = "DELIVERING" /\ Delivery(w).lease = w

\* waitingState
Waiting ==
    IF \E c \in Callbacks : subscription[c]
    THEN "WAITING_NOTIFICATION" ELSE "WAITING_SUBSCRIPTION"

Init ==
    /\ JobInit
    /\ subscription \in [Callbacks -> BOOLEAN]
    /\ job.state = Waiting
    /\ granted = TRUE
    /\ pinned = "kept"
    /\ behind \in [Callbacks -> BOOLEAN]
    /\ \A c \in Callbacks : behind[c] => c \in Obstructed
    /\ delivery = [g \in Generations |-> [c \in Callbacks |-> NoDelivery]]
    /\ worker = [w \in Workers |-> Idle]
    /\ crashes = 0

-----------------------------------------------------------------------------
(* The owner and the executor.                                             *)

Superseded_PendingOnly ==
    delivery' = [g \in Generations |-> [c \in Callbacks |->
        IF g <= job.generation /\ delivery[g][c].state = "PENDING"
        THEN Free("CANCELLED") ELSE delivery[g][c]]]

\* What a new attempt does to the deliveries of the earlier ones.
Superseded ==
    delivery' = [g \in Generations |-> [c \in Callbacks |->
        IF g <= job.generation /\ delivery[g][c].state \in Open
        THEN Free("CANCELLED") ELSE delivery[g][c]]]

\* workspaceCheck: access, and the pinned versions are still the newest.
Checked == granted /\ pinned = "kept"

OwnerCancels ==
    /\ Checked
    /\ Cancel
    /\ UNCHANGED <<announced, subscription, granted, context, delivery, worker, crashes>>

OwnerRetries ==
    /\ Checked
    /\ Retry(Waiting)
    /\ Superseded
    /\ UNCHANGED <<announced, subscription, granted, context, worker, crashes>>

\* A clarification pins the newest notes instead of those without sources.
OwnerClarifies ==
    /\ granted
    /\ pinned \in {"kept", "note"}
    /\ \E g \in Generations : Clarify(Attempt(g), Waiting)
    /\ Superseded
    /\ pinned' = "kept"
    /\ UNCHANGED <<announced, subscription, granted, behind, worker, crashes>>

ExecutorActs ==
    /\ Checked
    /\ ExecutorStep
    /\ UNCHANGED <<announced, subscription, granted, context, delivery, worker, crashes>>

\* subscribe (verified); unsubscribe, revocation by tick, and expiry.
Subscribes(c) ==
    /\ subscription' = [subscription EXCEPT ![c] = ~@]
    /\ UNCHANGED <<jobVars, announced, granted, context, delivery, worker, crashes>>

AccessChanges ==
    /\ granted' = ~granted
    /\ UNCHANGED <<jobVars, announced, subscription, context, delivery, worker, crashes>>

\* Somebody saves a new version of what the job has pinned: there is no way back.
PinChanges ==
    /\ pinned' \in Changes
    /\ pinned # "source"
    /\ UNCHANGED <<jobVars, announced, subscription, granted, behind, delivery,
                   worker, crashes>>

\* The same happens to another job of the owner, or that one comes to an end.
OthersChange(c) ==
    /\ c \in Obstructed
    /\ behind' = [behind EXCEPT ![c] = ~@]
    /\ UNCHANGED <<jobVars, announced, subscription, granted, pinned, delivery,
                   worker, crashes>>

-----------------------------------------------------------------------------
(* reconcile: a delivery for every event a subscription has none for.      *)

FindEvent(w, g, c) ==
    /\ worker[w] = Idle
    /\ subscription[c]
    /\ g <= job.generation
    /\ job.status = "RUNNING"
    /\ delivery[g][c].state = "NONE"
    /\ worker' = [worker EXCEPT ![w] = Working("insert", g, c)]
    /\ UNCHANGED <<jobVars, announced, subscription, granted, context, delivery, crashes>>

\* The upsert: another worker may have inserted the row, or used it.  The loop
\* over the events ends at the first whose job has a pin that changed.
InsertDelivery(w) ==
    /\ worker[w].at = "insert"
    /\ \/ /\ Checked
          /\ Stale(w)
          /\ Put(w, Free("CANCELLED"))
       \/ /\ Checked
          /\ ~Stale(w)
          /\ Delivery(w).state = "NONE"
          /\ Put(w, Free("PENDING"))
       \/ /\ ~granted
          /\ Delivery(w).state = "NONE"
          /\ Put(w, Free("CANCELLED"))
       \/ /\ \/ pinned # "kept" \/ behind[worker[w].callback]
             \/ ~(Checked /\ Stale(w)) /\ Delivery(w).state # "NONE"
          /\ UNCHANGED delivery
    /\ Finish(w)
    /\ UNCHANGED <<jobVars, announced, subscription, granted, context, crashes>>

-----------------------------------------------------------------------------
(* tick: one delivery.                                                     *)

Claim_PendingOnly(w, g, c) ==
    /\ worker[w] = Idle
    /\ delivery[g][c].state = "PENDING"
    /\ delivery' = [delivery EXCEPT ![g][c] =
                      [state |-> "DELIVERING", lease |-> w, over |-> FALSE]]
    /\ worker' = [worker EXCEPT ![w] = Working("check", g, c)]
    /\ UNCHANGED <<jobVars, announced, subscription, granted, context, crashes>>

Claim(w, g, c) ==
    /\ worker[w] = Idle
    /\ delivery[g][c].state \in Open
    /\ delivery[g][c].lease = None \/ delivery[g][c].over
    /\ delivery' = [delivery EXCEPT ![g][c] =
                      [state |-> "DELIVERING", lease |-> w, over |-> FALSE]]
    /\ worker' = [worker EXCEPT ![w] = Working("check", g, c)]
    /\ UNCHANGED <<jobVars, announced, subscription, granted, context, crashes>>

\* The subscription, then the job under the project's lock.  A pin that changed
\* is a conflict, on every try.
CheckJob(w) ==
    /\ worker[w].at = "check"
    /\ LET subscribed == subscription[worker[w].callback]
           live == subscribed /\ Checked IN
       \/ /\ ~(subscribed /\ granted)
          /\ SettleWith(w, "denied")
       \/ /\ subscribed
          /\ pinned # "kept"
          /\ SettleWith(w, "retry")
       \/ /\ live
          /\ Stale(w)
          /\ SettleWith(w, "superseded")
       \/ /\ live
          /\ ~Stale(w)
          /\ job.state \in {"COMPLETED", "CANCELLED"}
          /\ SettleWith(w, "denied")
       \/ /\ live
          /\ ~Stale(w)
          /\ job.state \notin {"COMPLETED", "CANCELLED"}
          /\ Goto(w, "post")
    /\ UNCHANGED <<jobVars, announced, subscription, granted, context, delivery, crashes>>

Received(w) ==
    announced' = announced \cup {<<worker[w].generation, worker[w].callback>>}

\* The callback has the event and says so.
Post(w) ==
    /\ worker[w].at = "post"
    /\ Received(w)
    /\ Goto(w, "acknowledge")
    /\ UNCHANGED <<jobVars, subscription, granted, context, delivery, crashes>>

PostFails_Acknowledged(w) ==
    /\ worker[w].at = "post"
    /\ Received(w) \/ UNCHANGED announced
    /\ Goto(w, "acknowledge")
    /\ UNCHANGED <<jobVars, subscription, granted, context, delivery, crashes>>

\* No answer in time, or an answer to try again: the event may have arrived.
PostFails(w) ==
    /\ worker[w].at = "post"
    /\ Received(w) \/ UNCHANGED announced
    /\ SettleWith(w, "retry")
    /\ UNCHANGED <<jobVars, subscription, granted, context, delivery, crashes>>

\* A 4xx answer other than 408 and 429.
PostRejected(w) ==
    /\ worker[w].at = "post"
    /\ SettleWith(w, "rejected")
    /\ UNCHANGED <<jobVars, announced, subscription, granted, context, delivery, crashes>>

Acknowledge_IgnoresLease(w) ==
    /\ worker[w].at = "acknowledge"
    /\ Checked
    /\ ~Stale(w)
    /\ IF HoldsLease(w) THEN Put(w, Free("DELIVERED")) ELSE UNCHANGED delivery
    /\ Notified \/ (job.state \notin WaitingStates /\ UNCHANGED jobVars)
    /\ Finish(w)
    /\ UNCHANGED <<announced, subscription, granted, context, crashes>>

Acknowledge(w) ==
    /\ worker[w].at = "acknowledge"
    /\ Checked
    /\ ~Stale(w)
    /\ IF HoldsLease(w)
       THEN /\ Put(w, Free("DELIVERED"))
            /\ Notified \/ (job.state \notin WaitingStates /\ UNCHANGED jobVars)
       ELSE UNCHANGED <<jobVars, delivery>>
    /\ Finish(w)
    /\ UNCHANGED <<announced, subscription, granted, context, crashes>>

\* checked throws: access is gone, a pin changed or the attempt was superseded.
AcknowledgeFails(w) ==
    /\ worker[w].at = "acknowledge"
    /\ \/ ~granted /\ SettleWith(w, "denied")
       \/ pinned # "kept" /\ SettleWith(w, "retry")
       \/ Checked /\ Stale(w) /\ SettleWith(w, "retry")
    /\ UNCHANGED <<jobVars, announced, subscription, granted, context, delivery, crashes>>

StateAfter(outcome) ==
    CASE outcome \in {"denied", "superseded"} -> "CANCELLED"
      [] outcome = "rejected" -> "FAILED"
      [] OTHER -> "PENDING"

Settle(w) ==
    /\ worker[w].at = "settle"
    /\ IF HoldsLease(w)
       THEN /\ Put(w, Free(StateAfter(worker[w].outcome)))
            /\ IF worker[w].outcome = "rejected" THEN Goto(w, "count") ELSE Finish(w)
       ELSE UNCHANGED delivery /\ Finish(w)
    /\ UNCHANGED <<jobVars, announced, subscription, granted, context, crashes>>

\* Is there another delivery of the event that may or did succeed?
CountOthers(w) ==
    /\ worker[w].at = "count"
    /\ IF \E c \in Callbacks :
             delivery[worker[w].generation][c].state \in Open \cup {"DELIVERED"}
       THEN Finish(w) ELSE Goto(w, "fail")
    /\ UNCHANGED <<jobVars, announced, subscription, granted, context, delivery, crashes>>

FailJob_AnyAttempt(w) ==
    /\ worker[w].at = "fail"
    /\ IF granted /\ job.state \in WaitingStates
       THEN Rejected ELSE UNCHANGED jobVars
    /\ Finish(w)
    /\ UNCHANGED <<announced, subscription, granted, context, delivery, crashes>>

FailJob(w) ==
    /\ worker[w].at = "fail"
    /\ IF granted /\ ~Stale(w) /\ job.state \in WaitingStates
       THEN Rejected ELSE UNCHANGED jobVars
    /\ Finish(w)
    /\ UNCHANGED <<announced, subscription, granted, context, delivery, crashes>>

-----------------------------------------------------------------------------
\* A process stops or an exception ends its tick: it forgets the delivery.
Crash(w) ==
    /\ worker[w] # Idle
    /\ crashes < MaxCrashes
    /\ crashes' = crashes + 1
    /\ Finish(w)
    /\ UNCHANGED <<jobVars, announced, subscription, granted, context, delivery>>

\* The database refuses a step: the delivery is to be tried again.
StepFails(w) ==
    /\ worker[w].at \in {"check", "acknowledge"}
    /\ crashes < MaxCrashes
    /\ crashes' = crashes + 1
    /\ SettleWith(w, "retry")
    /\ UNCHANGED <<jobVars, announced, subscription, granted, context, delivery>>

Abandoned(g, c) ==
    LET holder == worker[delivery[g][c].lease] IN
    \/ holder.at \in {"idle", "insert"}
    \/ <<holder.generation, holder.callback>> # <<g, c>>

\* Two minutes after the claim.
LeaseRunsOut(g, c) ==
    /\ delivery[g][c].lease # None
    /\ MayStall \/ Abandoned(g, c)
    /\ ~delivery[g][c].over
    /\ delivery' = [delivery EXCEPT ![g][c].over = TRUE]
    /\ UNCHANGED <<jobVars, announced, subscription, granted, context, worker, crashes>>

Step(w) ==
    \/ InsertDelivery(w)
    \/ CheckJob(w)
    \/ Post(w)
    \/ PostFails(w)
    \/ PostRejected(w)
    \/ Acknowledge(w)
    \/ AcknowledgeFails(w)
    \/ Settle(w)
    \/ CountOthers(w)
    \/ FailJob(w)

Next ==
    \/ OwnerCancels
    \/ OwnerRetries
    \/ OwnerClarifies
    \/ ExecutorActs
    \/ AccessChanges
    \/ PinChanges
    \/ \E c \in Callbacks : Subscribes(c) \/ OthersChange(c)
    \/ \E w \in Workers :
          \/ Step(w)
          \/ Crash(w)
          \/ StepFails(w)
          \/ \E g \in Generations, c \in Callbacks : FindEvent(w, g, c) \/ Claim(w, g, c)
    \/ \E g \in Generations, c \in Callbacks : LeaseRunsOut(g, c)

Spec == Init /\ [][Next]_vars

\* The workers' ticks go on, an abandoned lease runs out, and a callback that
\* is asked again and again answers in the end.
Fairness ==
    /\ \A w \in Workers : WF_vars(Step(w)) /\ SF_vars(Post(w))
    /\ \A g \in Generations, c \in Callbacks :
          /\ WF_vars(LeaseRunsOut(g, c))
          /\ SF_vars(\E w \in Workers : FindEvent(w, g, c))
          /\ SF_vars(\E w \in Workers : Claim(w, g, c))

FairSpec == Spec /\ Fairness

-----------------------------------------------------------------------------
TypeOK ==
    /\ JobTypeOK
    /\ subscription \in [Callbacks -> BOOLEAN]
    /\ granted \in BOOLEAN
    /\ pinned \in {"kept"} \cup Changes
    /\ behind \in [Callbacks -> BOOLEAN]
    /\ delivery \in [Generations -> [Callbacks ->
          [state : Open \cup {"NONE", "DELIVERED", "FAILED", "CANCELLED"},
           lease : Workers \cup {None}, over : BOOLEAN]]]
    /\ \A g \in Generations, c \in Callbacks :
          /\ delivery[g][c].lease # None <=> delivery[g][c].state = "DELIVERING"
          /\ delivery[g][c].over => delivery[g][c].lease # None
    /\ worker \in [Workers ->
          [at : {"idle", "insert", "check", "post", "acknowledge", "settle",
                 "count", "fail"},
           generation : Generations, callback : Callbacks \cup {None},
           outcome : {None, "denied", "superseded", "retry", "rejected"}]]
    /\ crashes \in 0..MaxCrashes

(***************************************************************************)
(* Once the owner has started a new attempt, no delivery of an earlier one *)
(* is pending or leased, and none becomes so: neither by a worker that     *)
(* read the outbox before, nor by one that settles its failed post later.  *)
(***************************************************************************)
SupersededStopped ==
    \A g \in Generations, c \in Callbacks :
        g < job.generation => delivery[g][c].state \notin Open

(***************************************************************************)
(* A delivery that is recorded as made was received at that callback,      *)
(* whatever leases ran out on the way.                                     *)
(***************************************************************************)
DeliveredWasReceived ==
    \A g \in Generations, c \in Callbacks :
        delivery[g][c].state = "DELIVERED" => <<g, c>> \in announced

(***************************************************************************)
(* What the owner sees and what was delivered agree: a notified job has a  *)
(* delivered event of its current attempt, a waiting job has none: what    *)
(* the worker writes to the row and to the job cannot fall apart.          *)
(***************************************************************************)
NotifiedMeansDelivered ==
    LET delivered == \E c \in Callbacks : delivery[job.generation][c].state = "DELIVERED" IN
    /\ job.state = "NOTIFIED" => delivered
    /\ job.state \in WaitingStates => ~delivered

(***************************************************************************)
(* A job whose error is the rejection by its callback was rejected in its  *)
(* current attempt: a late rejection of an earlier one leaves no error.    *)
(***************************************************************************)
RejectionIsCurrent ==
    job.error = "CALLBACK_REJECTED" =>
        \E c \in Callbacks : delivery[job.generation][c].state = "FAILED"

(***************************************************************************)
(* Only the worker whose lease is on the row ends a delivery as made,      *)
(* failed or to be retried: a worker that lost its lease ends nothing.     *)
(***************************************************************************)
HolderSettles ==
    [][\A g \in Generations, c \in Callbacks :
          LET before == delivery[g][c] IN
          (/\ before.state \in Open
           /\ delivery'[g][c].state \in {"DELIVERED", "FAILED", "PENDING"}
           /\ delivery'[g][c] # before)
             => worker'[before.lease] # worker[before.lease]]_vars

(***************************************************************************)
(* Every event of a running job is settled at every subscribed callback:   *)
(* delivered, rejected or cancelled, crashes and lost answers              *)
(* notwithstanding - unless the subscription ends or the attempt does, a   *)
(* pinned version changes, or an earlier event is stuck for that reason.   *)
(***************************************************************************)
EventSettles ==
    \A g \in Generations, c \in Callbacks :
        LET wanted == /\ subscription[c] /\ pinned = "kept"
                      /\ job.generation = g /\ job.status = "RUNNING"
                      /\ delivery[g][c].state = "NONE" => ~behind[c] IN
        wanted ~> (delivery[g][c].state \in {"DELIVERED", "FAILED", "CANCELLED"} \/ ~wanted)
=============================================================================
