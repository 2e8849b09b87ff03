-------------------------- MODULE Webhooks_proofs --------------------------
(***************************************************************************)
(* No delivery is lost in silence and none is logged falsely, for any      *)
(* number of webhooks, events, retries and failures.  The invariant is a   *)
(* statement about one delivery and its emitter at a time.                 *)
(***************************************************************************)
EXTENDS Webhooks, TLAPS

Typed ==
    /\ hook \in [Hook -> {"on", "off", "deleted"}]
    /\ emit \in [Event -> {"no", "sending", "done"}]
    /\ todo \in [Event -> SUBSET Hook]
    /\ task \in [Delivery -> {"none", "queued"} \cup InFlight \cup Settled]
    /\ retried \in [Delivery -> 0..MaxRetry]
    /\ got \in [Delivery -> Nat]
    /\ ok \in [Delivery -> Nat]
    /\ bad \in [Delivery -> Nat]

\* A webhook that is not active was touched; what is still to enqueue has no
\* task, and what a steady webhook is owed is still to enqueue or has one.
Emission ==
    /\ \A h \in Hook : h \notin touched => hook[h] = "on"
    /\ \A d \in Delivery :
          /\ d[2] \in todo[d[1]] => task[d] = "none" /\ d[2] \in Subscribers[d[1]]
          /\ emit[d[1]] = "no" => task[d] = "none"
          /\ emit[d[1]] = "done" => d[2] \notin todo[d[1]]
          /\ Steady(d) /\ d \notin hit /\ d[2] \in Subscribers[d[1]] /\ emit[d[1]] # "no" =>
                d[2] \in todo[d[1]] \/ task[d] # "none"

\* How often its receiver has taken a delivery no failure has hit.
Receipts ==
    \A d \in Delivery \ hit :
        /\ task[d] \in {"accepted", "succeeded"} => got[d] = 1
        /\ task[d] = "acked" => got[d] <= 1 /\ (Steady(d) => got[d] = 1)
        /\ task[d] \notin {"accepted", "succeeded", "acked"} => got[d] = 0
        /\ task[d] # "lost"

\* What its log holds.
Logged ==
    \A d \in Delivery \ hit :
        /\ task[d] = "none" => ok[d] = 0 /\ bad[d] = 0 /\ retried[d] = 0
        /\ task[d] = "archived" => retried[d] = MaxRetry
        /\ hook[d[2]] # "deleted" =>
              /\ got[d] = ok[d] + (IF task[d] = "accepted" THEN 1 ELSE 0)
              /\ bad[d] = retried[d] + (IF task[d] \in {"erred", "archived"} THEN 1 ELSE 0)

WebhooksInv == Typed /\ Emission /\ Receipts /\ Logged

\* A delivery is its occurrence and its webhook.
LEMMA Pairs == \A d \in Delivery : d = <<d[1], d[2]>> /\ d[1] \in Event /\ d[2] \in Hook
  BY DEF Delivery

-----------------------------------------------------------------------------
(* Each step keeps the invariant.                                          *)

LEMMA HandleWebhookToggleStep == ASSUME WebhooksInv, NEW h \in Hook, HandleWebhookToggle(h)  PROVE WebhooksInv'
<1> USE Pairs DEF HandleWebhookToggle, users, emitter, log, trouble, Goto, FaultOn, HookOf, Retry,
        Outcome, InFlight, Settled, Steady
<1> Typed /\ Emission /\ Receipts /\ Logged  BY DEF WebhooksInv
<1>1. Typed'  BY WebhooksAssumption DEF Typed
<1>2. Emission'  BY DEF Typed, Emission
<1>3. Receipts'  BY DEF Typed, Receipts, Emission
<1>4. Logged'  BY DEF Typed, Logged, Receipts, Emission
<1> QED  BY <1>1, <1>2, <1>3, <1>4 DEF WebhooksInv

LEMMA HandleWebhookDeleteStep == ASSUME WebhooksInv, NEW h \in Hook, HandleWebhookDelete(h)  PROVE WebhooksInv'
<1> USE Pairs DEF HandleWebhookDelete, users, emitter, log, trouble, Goto, FaultOn, HookOf, Retry,
        Outcome, InFlight, Settled, Steady
<1> Typed /\ Emission /\ Receipts /\ Logged  BY DEF WebhooksInv
<1>1. Typed'  BY WebhooksAssumption DEF Typed
<1>2. Emission'  BY DEF Typed, Emission
<1>3. Receipts'  BY DEF Typed, Receipts, Emission
<1>4. Logged'  BY DEF Typed, Logged, Receipts, Emission
<1> QED  BY <1>1, <1>2, <1>3, <1>4 DEF WebhooksInv

LEMMA EmitSelectStep == ASSUME WebhooksInv, NEW e \in Event, EmitSelect(e)  PROVE WebhooksInv'
<1> USE Pairs DEF EmitSelect, users, emitter, log, trouble, Goto, FaultOn, HookOf, Retry,
        Outcome, InFlight, Settled, Steady
<1> Typed /\ Emission /\ Receipts /\ Logged  BY DEF WebhooksInv
<1>1. Typed'  BY WebhooksAssumption DEF Typed
<1>2. Emission'  BY DEF Typed, Emission
<1>3. Receipts'  BY DEF Typed, Receipts, Emission
<1>4. Logged'  BY DEF Typed, Logged, Receipts, Emission
<1> QED  BY <1>1, <1>2, <1>3, <1>4 DEF WebhooksInv

LEMMA EmitEnqueueStep == ASSUME WebhooksInv, NEW e \in Event, NEW h \in Hook, EmitEnqueue(e, h)  PROVE WebhooksInv'
<1> USE Pairs DEF EmitEnqueue, users, emitter, log, trouble, Goto, FaultOn, HookOf, Retry,
        Outcome, InFlight, Settled, Steady
<1> Typed /\ Emission /\ Receipts /\ Logged  BY DEF WebhooksInv
<1>1. Typed'  BY WebhooksAssumption DEF Typed
<1>2. Emission'  BY DEF Typed, Emission
<1>3. Receipts'  BY DEF Typed, Receipts, Emission
<1>4. Logged'  BY DEF Typed, Logged, Receipts, Emission
<1> QED  BY <1>1, <1>2, <1>3, <1>4 DEF WebhooksInv

LEMMA EmitEnqueueErrorStep == ASSUME WebhooksInv, NEW e \in Event, NEW h \in Hook, EmitEnqueueError(e, h)  PROVE WebhooksInv'
<1> USE Pairs DEF EmitEnqueueError, users, emitter, log, trouble, Goto, FaultOn, HookOf, Retry,
        Outcome, InFlight, Settled, Steady
<1> Typed /\ Emission /\ Receipts /\ Logged  BY DEF WebhooksInv
<1>1. Typed'  BY WebhooksAssumption DEF Typed
<1>2. Emission'  BY DEF Typed, Emission
<1>3. Receipts'  BY DEF Typed, Receipts, Emission
<1>4. Logged'  BY DEF Typed, Logged, Receipts, Emission
<1> QED  BY <1>1, <1>2, <1>3, <1>4 DEF WebhooksInv

LEMMA EmitReturnStep == ASSUME WebhooksInv, NEW e \in Event, EmitReturn(e)  PROVE WebhooksInv'
<1> USE Pairs DEF EmitReturn, users, emitter, log, trouble, Goto, FaultOn, HookOf, Retry,
        Outcome, InFlight, Settled, Steady
<1> Typed /\ Emission /\ Receipts /\ Logged  BY DEF WebhooksInv
<1>1. Typed'  BY WebhooksAssumption DEF Typed
<1>2. Emission'  BY DEF Typed, Emission
<1>3. Receipts'  BY DEF Typed, Receipts, Emission
<1>4. Logged'  BY DEF Typed, Logged, Receipts, Emission
<1> QED  BY <1>1, <1>2, <1>3, <1>4 DEF WebhooksInv

LEMMA EmitErrorStep == ASSUME WebhooksInv, NEW e \in Event, EmitError(e)  PROVE WebhooksInv'
<1> USE Pairs DEF EmitError, users, emitter, log, trouble, Goto, FaultOn, HookOf, Retry,
        Outcome, InFlight, Settled, Steady
<1> Typed /\ Emission /\ Receipts /\ Logged  BY DEF WebhooksInv
<1>1. Typed'  BY WebhooksAssumption DEF Typed
<1>2. Emission'  BY DEF Typed, Emission
<1>3. Receipts'  BY DEF Typed, Receipts, Emission
<1>4. Logged'  BY DEF Typed, Logged, Receipts, Emission
<1> QED  BY <1>1, <1>2, <1>3, <1>4 DEF WebhooksInv

LEMMA DeliverReadStep == ASSUME WebhooksInv, NEW d \in Delivery, DeliverRead(d)  PROVE WebhooksInv'
<1> USE Pairs DEF DeliverRead, users, emitter, log, trouble, Goto, FaultOn, HookOf, Retry,
        Outcome, InFlight, Settled, Steady
<1> Typed /\ Emission /\ Receipts /\ Logged  BY DEF WebhooksInv
<1>1. Typed'  BY WebhooksAssumption DEF Typed
<1>2. Emission'  BY DEF Typed, Emission
<1>3. Receipts'  BY DEF Typed, Receipts, Emission
<1>4. Logged'  BY DEF Typed, Logged, Receipts, Emission
<1> QED  BY <1>1, <1>2, <1>3, <1>4 DEF WebhooksInv

LEMMA DeliverGoneStep == ASSUME WebhooksInv, NEW d \in Delivery, DeliverGone(d)  PROVE WebhooksInv'
<1> USE Pairs DEF DeliverGone, users, emitter, log, trouble, Goto, FaultOn, HookOf, Retry,
        Outcome, InFlight, Settled, Steady
<1> Typed /\ Emission /\ Receipts /\ Logged  BY DEF WebhooksInv
<1>1. Typed'  BY WebhooksAssumption DEF Typed
<1>2. Emission'  BY DEF Typed, Emission
<1>3. Receipts'  BY DEF Typed, Receipts, Emission
<1>4. Logged'  BY DEF Typed, Logged, Receipts, Emission
<1> QED  BY <1>1, <1>2, <1>3, <1>4 DEF WebhooksInv

LEMMA DeliverReadErrorStep == ASSUME WebhooksInv, NEW d \in Delivery, DeliverReadError(d)  PROVE WebhooksInv'
<1> USE Pairs DEF DeliverReadError, users, emitter, log, trouble, Goto, FaultOn, HookOf, Retry,
        Outcome, InFlight, Settled, Steady
<1> Typed /\ Emission /\ Receipts /\ Logged  BY DEF WebhooksInv
<1>1. Typed'  BY WebhooksAssumption DEF Typed
<1>2. Emission'  BY DEF Typed, Emission
<1>3. Receipts'  BY DEF Typed, Receipts, Emission
<1>4. Logged'  BY DEF Typed, Logged, Receipts, Emission
<1> QED  BY <1>1, <1>2, <1>3, <1>4 DEF WebhooksInv

LEMMA DeliverAcceptedStep == ASSUME WebhooksInv, NEW d \in Delivery, DeliverAccepted(d)  PROVE WebhooksInv'
<1> USE Pairs DEF DeliverAccepted, users, emitter, log, trouble, Goto, FaultOn, HookOf, Retry,
        Outcome, InFlight, Settled, Steady
<1> Typed /\ Emission /\ Receipts /\ Logged  BY DEF WebhooksInv
<1>1. Typed'  BY WebhooksAssumption DEF Typed
<1>2. Emission'  BY DEF Typed, Emission
<1>3. Receipts'  BY DEF Typed, Receipts, Emission
<1>4. Logged'  BY DEF Typed, Logged, Receipts, Emission
<1> QED  BY <1>1, <1>2, <1>3, <1>4 DEF WebhooksInv

LEMMA DeliverFailedStep == ASSUME WebhooksInv, NEW d \in Delivery, DeliverFailed(d)  PROVE WebhooksInv'
<1> USE Pairs DEF DeliverFailed, users, emitter, log, trouble, Goto, FaultOn, HookOf, Retry,
        Outcome, InFlight, Settled, Steady
<1> Typed /\ Emission /\ Receipts /\ Logged  BY DEF WebhooksInv
<1>1. Typed'  BY WebhooksAssumption DEF Typed
<1>2. Emission'  BY DEF Typed, Emission
<1>3. Receipts'  BY DEF Typed, Receipts, Emission
<1>4. Logged'  BY DEF Typed, Logged, Receipts, Emission
<1> QED  BY <1>1, <1>2, <1>3, <1>4 DEF WebhooksInv

LEMMA RecordStep == ASSUME WebhooksInv, NEW d \in Delivery, Record(d)  PROVE WebhooksInv'
<1> USE Pairs DEF Record, users, emitter, log, trouble, Goto, FaultOn, HookOf, Retry,
        Outcome, InFlight, Settled, Steady
<1> Typed /\ Emission /\ Receipts /\ Logged  BY DEF WebhooksInv
<1>1. Typed'
  <2>1. ok' \in [Delivery -> Nat] /\ bad' \in [Delivery -> Nat]  BY DEF Typed
  <2>2. task' \in [Delivery -> {"none", "queued"} \cup InFlight \cup Settled]  BY DEF Typed
  <2> QED  BY <2>1, <2>2 DEF Typed
<1>2. Emission'  BY DEF Typed, Emission
<1>3. Receipts'  BY DEF Typed, Receipts, Emission
<1>4. Logged'  BY DEF Typed, Logged, Receipts, Emission
<1> QED  BY <1>1, <1>2, <1>3, <1>4 DEF WebhooksInv

LEMMA RecordErrorStep == ASSUME WebhooksInv, NEW d \in Delivery, RecordError(d)  PROVE WebhooksInv'
<1> USE Pairs DEF RecordError, users, emitter, log, trouble, Goto, FaultOn, HookOf, Retry,
        Outcome, InFlight, Settled, Steady
<1> Typed /\ Emission /\ Receipts /\ Logged  BY DEF WebhooksInv
<1>1. Typed'  BY WebhooksAssumption DEF Typed
<1>2. Emission'  BY DEF Typed, Emission
<1>3. Receipts'  BY DEF Typed, Receipts, Emission
<1>4. Logged'  BY DEF Typed, Logged, Receipts, Emission
<1> QED  BY <1>1, <1>2, <1>3, <1>4 DEF WebhooksInv

LEMMA AckTaskStep == ASSUME WebhooksInv, NEW d \in Delivery, AckTask(d)  PROVE WebhooksInv'
<1> USE Pairs DEF AckTask, users, emitter, log, trouble, Goto, FaultOn, HookOf, Retry,
        Outcome, InFlight, Settled, Steady
<1> Typed /\ Emission /\ Receipts /\ Logged  BY DEF WebhooksInv
<1>1. Typed'  BY WebhooksAssumption DEF Typed
<1>2. Emission'  BY DEF Typed, Emission
<1>3. Receipts'  BY DEF Typed, Receipts, Emission
<1>4. Logged'  BY DEF Typed, Logged, Receipts, Emission
<1> QED  BY <1>1, <1>2, <1>3, <1>4 DEF WebhooksInv

LEMMA RetryTaskStep == ASSUME WebhooksInv, NEW d \in Delivery, RetryTask(d)  PROVE WebhooksInv'
<1> USE Pairs DEF RetryTask, users, emitter, log, trouble, Goto, FaultOn, HookOf, Retry,
        Outcome, InFlight, Settled, Steady
<1> Typed /\ Emission /\ Receipts /\ Logged  BY DEF WebhooksInv
<1>1. Typed'
  <2>1. retried[d] < MaxRetry => retried[d] + 1 \in 0..MaxRetry
    BY WebhooksAssumption DEF Typed
  <2>2. retried' \in [Delivery -> 0..MaxRetry]  BY <2>1 DEF Typed
  <2>3. task' \in [Delivery -> {"none", "queued"} \cup InFlight \cup Settled]  BY DEF Typed
  <2> QED  BY <2>2, <2>3 DEF Typed
<1>2. Emission'  BY DEF Typed, Emission
<1>3. Receipts'  BY DEF Typed, Receipts, Emission
<1>4. Logged'
  <2>1. CASE retried[d] < MaxRetry
    <3>1. task' = [task EXCEPT ![d] = "queued"] /\ retried' = [retried EXCEPT ![d] = @ + 1]
      BY <2>1
    <3> QED  BY <3>1 DEF Typed, Logged
  <2>2. CASE ~(retried[d] < MaxRetry)
    <3>0. retried[d] \in 0..MaxRetry  BY DEF Typed
    <3>1. retried[d] = MaxRetry  BY <2>2, <3>0, WebhooksAssumption
    <3>2. task' = [task EXCEPT ![d] = "archived"] /\ UNCHANGED retried  BY <2>2
    <3> QED  BY <3>1, <3>2 DEF Typed, Logged
  <2> QED  BY <2>1, <2>2
<1> QED  BY <1>1, <1>2, <1>3, <1>4 DEF WebhooksInv

LEMMA WorkerLostStep == ASSUME WebhooksInv, NEW d \in Delivery, WorkerLost(d)  PROVE WebhooksInv'
<1> USE Pairs DEF WorkerLost, users, emitter, log, trouble, Goto, FaultOn, HookOf, Retry,
        Outcome, InFlight, Settled, Steady
<1> Typed /\ Emission /\ Receipts /\ Logged  BY DEF WebhooksInv
<1>1. Typed'
  <2>1. retried[d] < MaxRetry => retried[d] + 1 \in 0..MaxRetry
    BY WebhooksAssumption DEF Typed
  <2>2. retried' \in [Delivery -> 0..MaxRetry]  BY <2>1 DEF Typed
  <2>3. task' \in [Delivery -> {"none", "queued"} \cup InFlight \cup Settled]  BY DEF Typed
  <2> QED  BY <2>2, <2>3 DEF Typed
<1>2. Emission'  BY DEF Typed, Emission
<1>3. Receipts'  BY DEF Typed, Receipts, Emission
<1>4. Logged'  BY DEF Typed, Logged, Receipts, Emission
<1> QED  BY <1>1, <1>2, <1>3, <1>4 DEF WebhooksInv

LEMMA RedisLossStep == ASSUME WebhooksInv, NEW d \in Delivery, RedisLoss(d)  PROVE WebhooksInv'
<1> USE Pairs DEF RedisLoss, users, emitter, log, trouble, Goto, FaultOn, HookOf, Retry,
        Outcome, InFlight, Settled, Steady
<1> Typed /\ Emission /\ Receipts /\ Logged  BY DEF WebhooksInv
<1>1. Typed'  BY WebhooksAssumption DEF Typed
<1>2. Emission'  BY DEF Typed, Emission
<1>3. Receipts'  BY DEF Typed, Receipts, Emission
<1>4. Logged'  BY DEF Typed, Logged, Receipts, Emission
<1> QED  BY <1>1, <1>2, <1>3, <1>4 DEF WebhooksInv
LEMMA InitInv == Init => WebhooksInv
<1> SUFFICES ASSUME Init PROVE WebhooksInv  OBVIOUS
<1> USE Pairs DEF Init, HookOf, Steady, InFlight, Settled
<1>1. Typed  BY WebhooksAssumption DEF Typed
<1>2. Emission /\ Receipts /\ Logged  BY DEF Emission, Receipts, Logged
<1> QED  BY <1>1, <1>2 DEF WebhooksInv

LEMMA NextInv == WebhooksInv /\ [Next]_vars => WebhooksInv'
<1> SUFFICES ASSUME WebhooksInv, [Next]_vars PROVE WebhooksInv'  OBVIOUS
<1>1. ASSUME NEW h \in Hook, Users(h)  PROVE WebhooksInv'
  BY <1>1, HandleWebhookToggleStep, HandleWebhookDeleteStep DEF Users
<1>2. ASSUME NEW e \in Event, EmitStep(e) \/ EmitError(e)  PROVE WebhooksInv'
  BY <1>2, EmitSelectStep, EmitEnqueueStep, EmitReturnStep, EmitErrorStep DEF EmitStep
<1>3. ASSUME NEW e \in Event, NEW h \in Hook, EmitEnqueueError(e, h)  PROVE WebhooksInv'
  BY <1>3, EmitEnqueueErrorStep
<1>4. ASSUME NEW d \in Delivery, Deliver(d)  PROVE WebhooksInv'
  BY <1>4, DeliverReadStep, DeliverGoneStep, DeliverAcceptedStep, DeliverFailedStep,
     RecordStep, AckTaskStep, RetryTaskStep DEF Deliver
<1>5. ASSUME NEW d \in Delivery, Trouble(d)  PROVE WebhooksInv'
  BY <1>5, DeliverReadErrorStep, RecordErrorStep, WorkerLostStep, RedisLossStep DEF Trouble
<1>6. CASE UNCHANGED vars
  BY <1>6 DEF vars, users, emitter, log, trouble, WebhooksInv, Typed, Emission, Receipts,
     Logged, Steady, HookOf, InFlight, Settled
<1> QED  BY <1>1, <1>2, <1>3, <1>4, <1>5, <1>6 DEF Next

\* The invariant holds in every reachable state.
THEOREM Invariant == Spec => []WebhooksInv
  BY InitInv, NextInv, PTL DEF Spec

\* What the type says beyond it.
Remaining ==
    /\ touched \subseteq Hook
    /\ hit \subseteq Delivery
    /\ clicks \in 0..MaxClicks
    /\ faults \in 0..MaxFaults
    /\ \A d \in Delivery : task[d] # "none" => d[2] \in Subscribers[d[1]]

\* A task exists only where Emit had a subscriber to enqueue it for.
LEMMA RemainingStep == WebhooksInv /\ Remaining /\ [Next]_vars => Remaining'
<1> SUFFICES ASSUME WebhooksInv, Remaining, [Next]_vars  PROVE Remaining'
  OBVIOUS
<1>0. /\ task \in [Delivery -> {"none", "queued"} \cup InFlight \cup Settled]
      /\ todo \in [Event -> SUBSET Hook]
      /\ \A d \in Delivery : d[2] \in todo[d[1]] => d[2] \in Subscribers[d[1]]
      /\ MaxClicks \in Nat /\ MaxFaults \in Nat
  BY WebhooksAssumption DEF WebhooksInv, Typed, Emission
<1> USE DEF Remaining, users, emitter, log, trouble, Goto, FaultOn, HookOf
<1>1. ASSUME NEW h \in Hook, Users(h)  PROVE Remaining'
  BY <1>0, <1>1 DEF Users, HandleWebhookToggle, HandleWebhookDelete
<1>2. ASSUME NEW e \in Event, EmitSelect(e) \/ EmitReturn(e)  PROVE Remaining'
  BY <1>0, <1>2 DEF EmitSelect, EmitReturn
<1>3. ASSUME NEW e \in Event, NEW h \in Hook, EmitEnqueue(e, h) \/ EmitEnqueueError(e, h)
      PROVE Remaining'
  <2>1. /\ <<e, h>> \in Delivery /\ h \in Subscribers[e]
        /\ task' = task \/ task' = [task EXCEPT ![<<e, h>>] = "queued"]
        /\ hit' \subseteq hit \cup {<<e, h>>} /\ faults' \in 0..MaxFaults
        /\ UNCHANGED <<touched, clicks>>
    <3>1. <<e, h>> \in Delivery  BY DEF Delivery
    <3> QED  BY <1>0, <1>3, <3>1 DEF EmitEnqueue, EmitEnqueueError
  <2> QED  BY <1>0, <2>1
<1>4. ASSUME NEW e \in Event, EmitError(e)  PROVE Remaining'
  <2>1. hit' \subseteq Delivery
    BY <1>0, <1>4, WebhooksAssumption DEF EmitError, Delivery
  <2> QED  BY <1>0, <1>4, <2>1 DEF EmitError
<1>5. ASSUME NEW d \in Delivery, Deliver(d)  PROVE Remaining'
  BY <1>0, <1>5 DEF Deliver, DeliverRead, DeliverGone, DeliverAccepted, DeliverFailed, Record,
     AckTask, RetryTask, Retry
<1>6. ASSUME NEW d \in Delivery, Trouble(d)  PROVE Remaining'
  BY <1>0, <1>6 DEF Trouble, DeliverReadError, RecordError, WorkerLost, RedisLoss, Retry, InFlight
<1>7. CASE UNCHANGED vars
  BY <1>7 DEF vars
<1> QED  BY <1>1, <1>2, <1>3, <1>4, <1>5, <1>6, <1>7 DEF Next, EmitStep

\* Every reachable state is well typed, and only subscribers have deliveries.
THEOREM Typing == Spec => []TypeOK
<1>1. Init => Remaining
  BY WebhooksAssumption DEF Init, Remaining
<1>2. WebhooksInv /\ Remaining => TypeOK
  BY DEF WebhooksInv, Typed, Remaining, TypeOK, HookOf
<1> QED  BY <1>1, <1>2, RemainingStep, Invariant, PTL DEF Spec

\* A steady webhook gets every event it subscribes to, save by a failure that
\* hit this very delivery or by all attempts having failed.
THEOREM NothingLost == Spec => []NoSilentLoss
<1>1. WebhooksInv => NoSilentLoss
  <2> SUFFICES ASSUME WebhooksInv, NEW d \in Delivery, Steady(d), d \notin hit,
                      d[2] \in Subscribers[d[1]]
               PROVE  /\ emit[d[1]] = "done" => task[d] # "none"
                      /\ task[d] = "acked" => got[d] = 1
                      /\ task[d] = "archived" => got[d] = 0 /\ bad[d] = MaxRetry + 1
    BY DEF NoSilentLoss, HookOf
  <2>1. hook[d[2]] = "on"  BY Pairs DEF WebhooksInv, Emission, Steady, HookOf
  <2>2. emit[d[1]] = "done" => task[d] # "none"  BY DEF WebhooksInv, Emission
  <2>3. task[d] = "acked" => got[d] = 1  BY DEF WebhooksInv, Receipts
  <2>4. task[d] = "archived" => got[d] = 0 /\ bad[d] = MaxRetry + 1
    BY <2>1 DEF WebhooksInv, Receipts, Logged
  <2> QED  BY <2>2, <2>3, <2>4
<1> QED  BY <1>1, Invariant, PTL

-----------------------------------------------------------------------------
(* An event that comes twice.                                              *)

\* What each step needs to keep FewRepeats.
RepeatInv == FewRepeats /\ faults \in Nat /\ got \in [Delivery -> Nat]
                        /\ task \in [Delivery -> {"none", "queued"} \cup InFlight \cup Settled]

\* Only a post whose answer is lost is taken without leading to an end, and
\* it is itself a failure ...
LEMMA RepeatDeliver == ASSUME RepeatInv, NEW d \in Delivery, Deliver(d)  PROVE FewRepeats'
<1> USE DEF Deliver, emitter, log, trouble, Goto, FaultOn, RepeatInv, FewRepeats
<1>1. CASE DeliverRead(d) \/ DeliverGone(d)  BY <1>1 DEF DeliverRead, DeliverGone
<1>2. CASE DeliverAccepted(d)  BY <1>2 DEF DeliverAccepted
<1>3. CASE DeliverFailed(d)  BY <1>3 DEF DeliverFailed
<1>4. CASE Record(d)  BY <1>4 DEF Record, Outcome
<1>5. CASE AckTask(d)  BY <1>5 DEF AckTask
<1>6. CASE RetryTask(d)  BY <1>6 DEF RetryTask, Retry
<1> QED  BY <1>1, <1>2, <1>3, <1>4, <1>5, <1>6

\* ... and what sends an accepted delivery back to the queue is another.
LEMMA RepeatTrouble == ASSUME RepeatInv, NEW d \in Delivery, Trouble(d)  PROVE FewRepeats'
<1> USE DEF Trouble, emitter, log, Goto, FaultOn, RepeatInv, FewRepeats
<1>1. CASE DeliverReadError(d)  BY <1>1 DEF DeliverReadError
<1>2. CASE RecordError(d)  BY <1>2 DEF RecordError, Outcome
<1>3. CASE WorkerLost(d)  BY <1>3 DEF WorkerLost, Retry
<1>4. CASE RedisLoss(d)  BY <1>4 DEF RedisLoss
<1> QED  BY <1>1, <1>2, <1>3, <1>4

\* What users and Emit do leaves the receivers alone; a new task belongs to a
\* delivery that had none.
LEMMA RepeatOthers ==
    ASSUME RepeatInv, WebhooksInv,
           \/ \E h \in Hook : Users(h)
           \/ \E e \in Event : EmitStep(e) \/ EmitError(e)
           \/ \E e \in Event, h \in Hook : EmitEnqueueError(e, h)
    PROVE  FewRepeats'
<1> USE DEF users, log, trouble, Goto, FaultOn, RepeatInv, FewRepeats
<1>1. ASSUME NEW h \in Hook, Users(h)  PROVE FewRepeats'
  BY <1>1 DEF Users, HandleWebhookToggle, HandleWebhookDelete
<1>2. ASSUME NEW e \in Event, EmitSelect(e) \/ EmitReturn(e) \/ EmitError(e)  PROVE FewRepeats'
  BY <1>2 DEF EmitSelect, EmitReturn, EmitError
<1>3. ASSUME NEW e \in Event, NEW h \in Hook, EmitEnqueue(e, h) \/ EmitEnqueueError(e, h)
      PROVE FewRepeats'
  <2>1. <<e, h>> \in Delivery  BY DEF Delivery
  <2>2. task[<<e, h>>] = "none"
    BY <1>3, <2>1 DEF EmitEnqueue, EmitEnqueueError, WebhooksInv, Emission
  <2> QED  BY <1>3, <2>1, <2>2 DEF EmitEnqueue, EmitEnqueueError
<1> QED  BY <1>1, <1>2, <1>3 DEF EmitStep

\* A receiver gets an event again by a failure only, one time for each.
THEOREM Repeats == Spec => []FewRepeats
<1>1. Init => FewRepeats
  BY DEF Init, FewRepeats
<1>2. WebhooksInv /\ TypeOK => (FewRepeats => RepeatInv)
  BY WebhooksAssumption DEF WebhooksInv, Typed, TypeOK, RepeatInv
<1>3. FewRepeats /\ WebhooksInv /\ TypeOK /\ [Next]_vars => FewRepeats'
  <2> SUFFICES ASSUME FewRepeats, WebhooksInv, TypeOK, [Next]_vars  PROVE FewRepeats'  OBVIOUS
  <2>1. RepeatInv  BY <1>2
  <2>2. CASE UNCHANGED vars  BY <2>2 DEF vars, trouble, FewRepeats
  <2> QED  BY <2>1, <2>2, RepeatDeliver, RepeatTrouble, RepeatOthers DEF Next
<1> QED  BY <1>1, <1>3, Typing, Invariant, PTL DEF Spec

\* The log of a delivery that no failure has hit is what happened, and one
\* that failures hit comes again at most once for each of them.
THEOREM LogIsTrue == Spec => []LogTruthful
<1>1. WebhooksInv /\ FewRepeats => LogTruthful
  <2> SUFFICES ASSUME WebhooksInv, FewRepeats, NEW d \in Delivery, d \notin hit, hook[d[2]] # "deleted"
               PROVE  /\ got[d] = ok[d] + (IF task[d] = "accepted" THEN 1 ELSE 0)
                      /\ got[d] <= 1
                      /\ ok[d] = 1 => task[d] \in {"succeeded", "acked"}
                      /\ bad[d] = retried[d] + (IF task[d] \in {"erred", "archived"} THEN 1 ELSE 0)
    BY DEF LogTruthful, HookOf
  <2> QED  BY DEF WebhooksInv, Typed, Receipts, Logged, InFlight, Settled
<1> QED  BY <1>1, Invariant, Repeats, PTL
=============================================================================
