------------------------------ MODULE Webhooks ------------------------------
(***************************************************************************)
(* Emit hands an event of a tenant to the webhooks that subscribe to it,   *)
(* one queued task for each; Deliver posts it, logs the attempt, and by    *)
(* its error asks asynq to deliver again.  Meanwhile users switch webhooks *)
(* off and on and delete them.  The event id is a function of the task's   *)
(* payload, so a delivery here is what a receiver can tell apart.          *)
(***************************************************************************)
EXTENDS Integers, FiniteSets

CONSTANTS
    Event,       \* occurrences of events, each emitted at most once
    Hook,        \* webhooks of the tenant
    Subscribers, \* the webhooks whose events contain that of an occurrence
    MaxRetry,    \* asynq.MaxRetry of webhook:deliver
    MaxClicks,   \* bound on what users do to webhooks
    MaxFaults    \* bound on failures of Postgres, Redis, processes and answers

ASSUME WebhooksAssumption ==
    /\ Subscribers \in [Event -> SUBSET Hook]
    /\ MaxRetry \in Nat
    /\ MaxClicks \in Nat
    /\ MaxFaults \in Nat

Delivery == Event \X Hook
HookOf(d) == d[2]

VARIABLES
    hook,    \* webhooks.is_active, or gone
    touched, \* webhooks that were ever off or deleted
    emit,    \* where the Emit of an occurrence is
    todo,    \* rows of its query it has not enqueued yet
    task,    \* the queued task of a delivery and the Deliver that has it
    retried, \* asynq's count of its retries
    got,     \* how often its receiver has taken it
    ok, bad, \* rows of webhook_deliveries: success and failed
    hit,     \* deliveries that met a failure of our own side or a lost answer
    clicks, faults

users == <<hook, touched, clicks>>
emitter == <<emit, todo>>
log == <<ok, bad>>
trouble == <<hit, faults>>
vars == <<users, emitter, task, retried, got, log, trouble>>

InFlight == {"post", "accepted", "failed", "succeeded", "erred"}
Settled  == {"acked", "archived", "lost"}

TypeOK ==
    /\ hook \in [Hook -> {"on", "off", "deleted"}]
    /\ touched \subseteq Hook
    /\ emit \in [Event -> {"no", "sending", "done"}]
    /\ todo \in [Event -> SUBSET Hook]
    /\ task \in [Delivery -> {"none", "queued"} \cup InFlight \cup Settled]
    /\ retried \in [Delivery -> 0..MaxRetry]
    /\ got \in [Delivery -> Nat]
    /\ ok \in [Delivery -> Nat]
    /\ bad \in [Delivery -> Nat]
    /\ hit \subseteq Delivery
    /\ clicks \in 0..MaxClicks
    /\ faults \in 0..MaxFaults
    /\ \A d \in Delivery : task[d] # "none" => HookOf(d) \in Subscribers[d[1]]

Init ==
    /\ hook \in [Hook -> {"on", "off"}]
    /\ touched = {h \in Hook : hook[h] = "off"}
    /\ emit = [e \in Event |-> "no"]
    /\ todo = [e \in Event |-> {}]
    /\ task = [d \in Delivery |-> "none"]
    /\ retried = [d \in Delivery |-> 0]
    /\ got = [d \in Delivery |-> 0]
    /\ ok = [d \in Delivery |-> 0]
    /\ bad = [d \in Delivery |-> 0]
    /\ hit = {}
    /\ clicks = 0
    /\ faults = 0

\* A failure that costs the deliveries in D at most.
FaultOn(D) ==
    /\ faults < MaxFaults
    /\ faults' = faults + 1
    /\ hit' = hit \cup D

Goto(d, where) == task' = [task EXCEPT ![d] = where]

-----------------------------------------------------------------------------
(* Users.                                                                  *)

HandleWebhookToggle(h) ==
    /\ hook[h] # "deleted"
    /\ clicks < MaxClicks
    /\ clicks' = clicks + 1
    /\ hook' = [hook EXCEPT ![h] = IF @ = "on" THEN "off" ELSE "on"]
    /\ touched' = touched \cup {h}
    /\ UNCHANGED <<emitter, task, retried, got, log, trouble>>

\* The log of its deliveries goes with it; their tasks stay queued.
HandleWebhookDelete(h) ==
    /\ hook[h] # "deleted"
    /\ clicks < MaxClicks
    /\ clicks' = clicks + 1
    /\ hook' = [hook EXCEPT ![h] = "deleted"]
    /\ touched' = touched \cup {h}
    /\ ok' = [d \in Delivery |-> IF HookOf(d) = h THEN 0 ELSE ok[d]]
    /\ bad' = [d \in Delivery |-> IF HookOf(d) = h THEN 0 ELSE bad[d]]
    /\ UNCHANGED <<emitter, task, retried, got, trouble>>

-----------------------------------------------------------------------------
(* Emit.                                                                   *)

EmitSelect(e) ==
    /\ emit[e] = "no"
    /\ emit' = [emit EXCEPT ![e] = "sending"]
    /\ todo' = [todo EXCEPT ![e] = {h \in Subscribers[e] : hook[h] = "on"}]
    /\ UNCHANGED <<users, task, retried, got, log, trouble>>

EmitEnqueue(e, h) ==
    /\ emit[e] = "sending"
    /\ h \in todo[e]
    /\ todo' = [todo EXCEPT ![e] = @ \ {h}]
    /\ Goto(<<e, h>>, "queued")
    /\ UNCHANGED <<users, emit, retried, got, log, trouble>>

\* Mutant: the first enqueue that fails ends Emit.
EmitEnqueueErrorEnds(e, h) ==
    /\ emit[e] = "sending"
    /\ h \in todo[e]
    /\ FaultOn({<<e, h>>})
    /\ todo' = [todo EXCEPT ![e] = {}]
    /\ UNCHANGED <<users, emit, task, retried, got, log>>

\* An enqueue that fails, whether or not the task reached Redis: the error is
\* kept, and the other webhooks still have their turn.
EmitEnqueueError(e, h) ==
    /\ emit[e] = "sending"
    /\ h \in todo[e]
    /\ FaultOn({<<e, h>>})
    /\ todo' = [todo EXCEPT ![e] = @ \ {h}]
    /\ Goto(<<e, h>>, "queued") \/ UNCHANGED task
    /\ UNCHANGED <<users, emit, retried, got, log>>

EmitReturn(e) ==
    /\ emit[e] = "sending"
    /\ todo[e] = {}
    /\ emit' = [emit EXCEPT ![e] = "done"]
    /\ UNCHANGED <<users, todo, task, retried, got, log, trouble>>

\* The query or one of its rows fails, or the process dies: the emitter only
\* logs it, and the webhooks not reached yet never hear of the event.
EmitError(e) ==
    /\ emit[e] # "done"
    /\ FaultOn({<<e, h>> : h \in IF emit[e] = "no" THEN Subscribers[e] ELSE todo[e]})
    /\ emit' = [emit EXCEPT ![e] = "done"]
    /\ todo' = [todo EXCEPT ![e] = {}]
    /\ UNCHANGED <<users, task, retried, got, log>>

-----------------------------------------------------------------------------
(* Deliver, and what asynq does with its answer.                           *)

DeliverRead(d) ==
    /\ task[d] = "queued"
    /\ hook[HookOf(d)] = "on"
    /\ Goto(d, "post")
    /\ UNCHANGED <<users, emitter, retried, got, log, trouble>>

\* Mutant: the delivery waits until its webhook is back.
DeliverGoneWaits(d) ==
    /\ task[d] = "queued"
    /\ hook[HookOf(d)] # "on"
    /\ UNCHANGED vars

\* Gone or disabled: the delivery is dropped.
DeliverGone(d) ==
    /\ task[d] = "queued"
    /\ hook[HookOf(d)] # "on"
    /\ Goto(d, "acked")
    /\ UNCHANGED <<users, emitter, retried, got, log, trouble>>

\* So it is when the query fails.
DeliverReadError(d) ==
    /\ task[d] = "queued"
    /\ FaultOn({d})
    /\ Goto(d, "acked")
    /\ UNCHANGED <<users, emitter, retried, got, log>>

\* The receiver answers 2xx.
DeliverAccepted(d) ==
    /\ task[d] = "post"
    /\ got' = [got EXCEPT ![d] = @ + 1]
    /\ Goto(d, "accepted")
    /\ UNCHANGED <<users, emitter, retried, log, trouble>>

\* The target is rejected or unreachable, or answers otherwise; or it has
\* taken the event and its answer is lost.
DeliverFailed(d) ==
    /\ task[d] = "post"
    /\ \/ UNCHANGED <<got, trouble>>
       \/ got' = [got EXCEPT ![d] = @ + 1] /\ FaultOn({d})
    /\ Goto(d, "failed")
    /\ UNCHANGED <<users, emitter, retried, log>>

Outcome(d) == IF task[d] = "accepted" THEN "succeeded" ELSE "erred"

\* Mutant: only a success is recorded.
RecordSuccess(d) ==
    /\ task[d] \in {"accepted", "failed"}
    /\ ok' = [ok EXCEPT ![d] = IF task[d] = "accepted" THEN @ + 1 ELSE @]
    /\ Goto(d, Outcome(d))
    /\ UNCHANGED <<users, emitter, retried, got, bad, trouble>>

\* One row per attempt; there is none to refer to when the webhook is gone.
Record(d) ==
    /\ task[d] \in {"accepted", "failed"}
    /\ IF hook[HookOf(d)] = "deleted" THEN UNCHANGED log
       ELSE IF task[d] = "accepted"
            THEN ok' = [ok EXCEPT ![d] = @ + 1] /\ UNCHANGED bad
            ELSE bad' = [bad EXCEPT ![d] = @ + 1] /\ UNCHANGED ok
    /\ Goto(d, Outcome(d))
    /\ UNCHANGED <<users, emitter, retried, got, trouble>>

\* The ignored error of the INSERT.
RecordError(d) ==
    /\ task[d] \in {"accepted", "failed"}
    /\ FaultOn({d})
    /\ Goto(d, Outcome(d))
    /\ UNCHANGED <<users, emitter, retried, got, log>>

AckTask(d) ==
    /\ task[d] = "succeeded"
    /\ Goto(d, "acked")
    /\ UNCHANGED <<users, emitter, retried, got, log, trouble>>

\* Mutant: one delivery more than asynq makes.
RetryOnceMore(d) ==
    IF retried[d] <= MaxRetry
    THEN Goto(d, "queued") /\ retried' = [retried EXCEPT ![d] = @ + 1]
    ELSE Goto(d, "archived") /\ UNCHANGED retried

\* asynq retries a failed task up to MaxRetry times and then archives it.
Retry(d) ==
    IF retried[d] < MaxRetry
    THEN Goto(d, "queued") /\ retried' = [retried EXCEPT ![d] = @ + 1]
    ELSE Goto(d, "archived") /\ UNCHANGED retried

RetryTask(d) ==
    /\ task[d] = "erred"
    /\ Retry(d)
    /\ UNCHANGED <<users, emitter, got, log, trouble>>

\* The worker dies or shuts down: its lease expires, which counts as a retry,
\* or the task is put back uncounted.
WorkerLost(d) ==
    /\ task[d] \in InFlight
    /\ FaultOn({d})
    /\ \/ Retry(d)
       \/ Goto(d, "queued") /\ UNCHANGED retried
    /\ UNCHANGED <<users, emitter, got, log>>

RedisLoss(d) ==
    /\ task[d] = "queued"
    /\ FaultOn({d})
    /\ Goto(d, "lost")
    /\ UNCHANGED <<users, emitter, retried, got, log>>

-----------------------------------------------------------------------------

Users(h) == HandleWebhookToggle(h) \/ HandleWebhookDelete(h)

EmitStep(e) ==
    \/ EmitSelect(e)
    \/ \E h \in Hook : EmitEnqueue(e, h)
    \/ EmitReturn(e)

\* What a worker does with a delivery while nothing of ours fails.
Deliver(d) ==
    \/ DeliverRead(d)
    \/ DeliverGone(d)
    \/ DeliverAccepted(d)
    \/ DeliverFailed(d)
    \/ Record(d)
    \/ AckTask(d)
    \/ RetryTask(d)

Trouble(d) ==
    DeliverReadError(d) \/ RecordError(d) \/ WorkerLost(d) \/ RedisLoss(d)

Next ==
    \/ \E h \in Hook : Users(h)
    \/ \E e \in Event : EmitStep(e) \/ EmitError(e)
    \/ \E e \in Event, h \in Hook : EmitEnqueueError(e, h)
    \/ \E d \in Delivery : Deliver(d) \/ Trouble(d)

Spec == Init /\ [][Next]_vars

\* asynq runs what is due: the request of a delivery
\* times out after ten seconds, the task after two minutes.
Fairness == \A d \in Delivery : WF_vars(Deliver(d))

FairSpec == Spec /\ Fairness

-----------------------------------------------------------------------------
(* Properties.                                                             *)

Steady(d) == HookOf(d) \notin touched

\* A webhook that subscribes and stays active has a task for every event, and
\* a delivery leaves the queue only when its receiver has taken it or all its
\* attempts have failed, unless a failure hit this very delivery: trouble with
\* one webhook costs no other its event.
NoSilentLoss ==
    \A d \in Delivery :
        Steady(d) /\ d \notin hit /\ HookOf(d) \in Subscribers[d[1]] =>
            /\ emit[d[1]] = "done" => task[d] # "none"
            /\ task[d] = "acked" => got[d] = 1
            /\ task[d] = "archived" => got[d] = 0 /\ bad[d] = MaxRetry + 1

\* A receiver has taken an event once more than there were failures at most;
\* while its delivery can still be posted, no more often than there were.
FewRepeats ==
    \A d \in Delivery :
        got[d] <= faults + (IF task[d] \in {"accepted", "succeeded", "acked"} THEN 1 ELSE 0)

\* Unless a failure hit the delivery, its log tells what happened: a success
\* for each time its receiver took it, never twice, and a failed attempt for
\* each retry; and a success is the last row.  One that failures hit comes
\* again, but not more often than there were failures: neither an answer that
\* is lost nor a worker that dies after the post starts more than one repeat.
LogTruthful ==
    /\ FewRepeats
    /\ \A d \in Delivery : d \notin hit /\ hook[HookOf(d)] # "deleted" =>
            /\ got[d] = ok[d] + (IF task[d] = "accepted" THEN 1 ELSE 0)
            /\ got[d] <= 1
            /\ ok[d] = 1 => task[d] \in {"succeeded", "acked"}
            /\ bad[d] = retried[d] + (IF task[d] \in {"erred", "archived"} THEN 1 ELSE 0)

\* A queued delivery comes to an end, whatever its receiver answers and the
\* users click.
DeliverySettles ==
    \A d \in Delivery : task[d] = "queued" ~> task[d] \in Settled

=============================================================================
