------------------------------- MODULE Outreach -------------------------------
(***************************************************************************)
(* One campaign: the send batches that asynq starts for it, the handlers   *)
(* that launch, pause and cancel it, the inbound-mail webhook and the      *)
(* public unsubscribe page.  Every SQL statement and every SMTP call is a  *)
(* step of its own, but for consecutive writes that nobody tells apart.    *)
(* The contacts' mail addresses are distinct.                              *)
(***************************************************************************)
EXTENDS Integers, Sequences, FiniteSets

CONSTANTS
    Contact,           \* contacts of the audience
    Batch,             \* outreach:send tasks that can run at once
    NoContact,         \* "no contact": a batch between two contacts
    Steps,             \* campaign_steps in order: "email" or "wait"
    HourlyLimit,       \* email_accounts.hourly_limit, 0 for none
    SessionSecret,     \* Server.Cfg.Secret: verifies unsubscribe tokens
    EncryptionSecret,  \* outreach.Deps.Secret: signs them
    MaxFaults          \* bound on injected crashes, failed statements and, for
                       \* each contact, outlasted claims

ASSUME OutreachAssumption ==
    /\ NoContact \notin Contact
    /\ Steps \in Seq({"email", "wait"}) /\ Steps # <<>>
    /\ IsFiniteSet(Batch)
    /\ HourlyLimit \in Nat
    /\ MaxFaults \in Nat

VARIABLES
    campaign,   \* campaigns.status
    launch,     \* where handleCampaignLaunch is
    \* campaign_contacts
    status,     \* status, "none" before the row exists
    step,       \* current_step
    due,        \* next_send_at has passed
    repliedAt,  \* replied_at is set
    abandoned,  \* send_started_at is more than 15 minutes ago
    \* contacts, suppression_list, email_messages
    invalid,    \* contacts.email_status = 'invalid'
    suppressed, \* the address is in suppression_list
    message,    \* email_messages.status by contact and step
    recent,     \* messages with sent_at in the last hour, if there is a limit
    \* the outside
    delivered,  \* how often the relay took the message, by contact and step
    late,       \* messages the relay took after the address was suppressed
    answered,   \* the contact has written back
    unsub,      \* where the contact's unsubscribe request is
    \* send batches
    pc, todo, snap, cur, idx,
    overruns,   \* claims of the contact that got old under a live batch
    faults

camp    == <<campaign, launch>>
contact == <<status, step, due, repliedAt, abandoned>>
address == <<invalid, suppressed>>
mailbox == <<message, recent>>
outside == <<delivered, late, answered, unsub>>
batch   == <<pc, todo, snap, cur, idx>>
vars    == <<camp, contact, address, mailbox, outside, batch, overruns, faults>>

StepNo == 1..Len(Steps)

\* The first email step at or after i, past the end if there is none.
NextEmail(i) ==
    CHOOSE k \in i..(Len(Steps) + 1) :
        /\ k = Len(Steps) + 1 \/ Steps[k] = "email"
        /\ \A j \in i..(k - 1) : Steps[j] # "email"

Open == {"pending", "active"}
Done == {"completed", "replied", "bounced", "unsubscribed", "failed"}

BatchPC == {"idle", "requeue", "select", "pick", "limit", "reply", "claim", "record", "smtp",
            "mark", "bounce", "suppress", "fail", "advance", "count", "complete"}

\* The batch has claimed its current contact and not let go of it.
Holds(b, c) ==
    cur[b] = c /\ pc[b] \in {"record", "smtp", "mark", "bounce", "fail", "advance"}

TypeOK ==
    /\ campaign \in {"draft", "scheduled", "running", "paused", "completed", "cancelled"}
    /\ launch \in {"idle", "build"}
    /\ status \in [Contact -> {"none", "sending"} \cup Open \cup Done]
    /\ step \in [Contact -> StepNo]
    /\ due \in [Contact -> BOOLEAN]
    /\ repliedAt \in [Contact -> BOOLEAN]
    /\ abandoned \in [Contact -> BOOLEAN]
    /\ invalid \in [Contact -> BOOLEAN]
    /\ suppressed \in [Contact -> BOOLEAN]
    /\ message \in [Contact -> [StepNo -> {"none", "sending", "sent", "failed", "bounced"}]]
    /\ recent \in SUBSET (Contact \X StepNo)
    /\ delivered \in [Contact -> [StepNo -> Nat]]
    /\ late \in [Contact -> Nat]
    /\ answered \in [Contact -> BOOLEAN]
    /\ unsub \in [Contact -> {"no", "suppressed", "done", "not found"}]
    /\ pc \in [Batch -> BatchPC]
    /\ todo \in [Batch -> SUBSET Contact]
    /\ snap \in [Batch -> [Contact -> [step : StepNo, replied : BOOLEAN, invalid : BOOLEAN]]]
    /\ cur \in [Batch -> Contact \cup {NoContact}]
    /\ idx \in [Batch -> StepNo]
    /\ overruns \in [Contact -> 0..MaxFaults]
    /\ faults \in 0..MaxFaults

NoSnap == [c \in Contact |-> [step |-> 1, replied |-> FALSE, invalid |-> FALSE]]

Init ==
    /\ campaign = "draft"
    /\ launch = "idle"
    /\ status = [c \in Contact |-> "none"]
    /\ step = [c \in Contact |-> 1]
    /\ due = [c \in Contact |-> FALSE]
    /\ repliedAt = [c \in Contact |-> FALSE]
    /\ abandoned = [c \in Contact |-> FALSE]
    /\ invalid = [c \in Contact |-> FALSE]
    /\ suppressed = [c \in Contact |-> FALSE]
    /\ message = [c \in Contact |-> [i \in StepNo |-> "none"]]
    /\ recent = {}
    /\ delivered = [c \in Contact |-> [i \in StepNo |-> 0]]
    /\ late = [c \in Contact |-> 0]
    /\ answered = [c \in Contact |-> FALSE]
    /\ unsub = [c \in Contact |-> "no"]
    /\ pc = [b \in Batch |-> "idle"]
    /\ todo = [b \in Batch |-> {}]
    /\ snap = [b \in Batch |-> NoSnap]
    /\ cur = [b \in Batch |-> NoContact]
    /\ idx = [b \in Batch |-> 1]
    /\ overruns = [c \in Contact |-> 0]
    /\ faults = 0

\* One more injected failure: a crash or a failed statement.
Fault ==
    /\ faults < MaxFaults
    /\ \A c \in Contact : overruns[c] + faults < MaxFaults
    /\ faults' = faults + 1

-----------------------------------------------------------------------------
(* The campaign handlers and the tick.                                     *)

\* handleCampaignLaunch: read the status ...
LaunchRead ==
    /\ launch = "idle"
    /\ campaign \in {"draft", "paused", "scheduled"}
    /\ launch' = "build"
    /\ UNCHANGED <<campaign, contact, address, mailbox, outside, batch, overruns, faults>>

\* ... add the audience contact by contact, no suppressed or invalid address
\* and no contact twice ...
LaunchAdd(c) ==
    /\ launch = "build"
    /\ status[c] = "none"
    /\ ~suppressed[c] /\ ~invalid[c]
    /\ status' = [status EXCEPT ![c] = "pending"]
    /\ due' = [due EXCEPT ![c] = TRUE]
    /\ UNCHANGED <<camp, step, repliedAt, abandoned, address, mailbox, outside, batch, overruns,
                   faults>>

\* ... and start or schedule the campaign, whatever its status is by now.
LaunchUpdate ==
    /\ launch = "build"
    /\ campaign' \in {"running", "scheduled"}
    /\ launch' = "idle"
    /\ UNCHANGED <<contact, address, mailbox, outside, batch, overruns, faults>>

MoveCampaign(from, to) ==
    /\ campaign \in from
    /\ campaign' = to
    /\ UNCHANGED <<launch, contact, address, mailbox, outside, batch, overruns, faults>>

HandleCampaignPause  == MoveCampaign({"running"}, "paused")
HandleCampaignCancel == MoveCampaign({"draft", "scheduled", "running", "paused"}, "cancelled")
OutreachTick         == MoveCampaign({"scheduled"}, "running")

-----------------------------------------------------------------------------
(* What contacts do.                                                       *)

\* handleInbound: a reply stops the contact's open campaigns, if the statement
\* succeeds.  Mail from outside the audience changes nothing here.
HandleInbound(c) ==
    /\ ~answered[c] /\ status[c] # "none"
    /\ answered' = [answered EXCEPT ![c] = TRUE]
    /\ \/ /\ status[c] \in Open
          /\ status' = [status EXCEPT ![c] = "replied"]
          /\ repliedAt' = [repliedAt EXCEPT ![c] = TRUE]
          /\ UNCHANGED faults
       \/ status[c] \notin Open /\ UNCHANGED <<status, repliedAt, faults>>
       \/ Fault /\ UNCHANGED <<status, repliedAt>>
    /\ UNCHANGED <<camp, step, due, abandoned, address, mailbox, delivered, late, unsub, batch,
                   overruns>>

\* handleUnsubSubmit, for the link in a message of this or another campaign:
\* the address first, if that statement succeeds ...
UnsubSuppress(c) ==
    /\ unsub[c] = "no"
    /\ SessionSecret = EncryptionSecret
    /\ \/ suppressed' = [suppressed EXCEPT ![c] = TRUE] /\ UNCHANGED faults
       \/ Fault /\ UNCHANGED suppressed
    /\ unsub' = [unsub EXCEPT ![c] = "suppressed"]
    /\ UNCHANGED <<camp, contact, invalid, mailbox, delivered, late, answered, batch, overruns>>

\* ... then the contact's open campaigns, if that statement succeeds.
UnsubContact(c) ==
    /\ unsub[c] = "suppressed"
    /\ unsub' = [unsub EXCEPT ![c] = "done"]
    /\ \/ /\ IF status[c] \in Open
             THEN status' = [status EXCEPT ![c] = "unsubscribed"]
             ELSE UNCHANGED status
          /\ UNCHANGED faults
       \/ Fault /\ UNCHANGED status
    /\ UNCHANGED <<camp, step, due, repliedAt, abandoned, address, mailbox, delivered, late,
                   answered, batch, overruns>>

\* A token that the server's secret does not verify is a 404.
UnsubNotFound(c) ==
    /\ unsub[c] = "no"
    /\ SessionSecret # EncryptionSecret
    /\ unsub' = [unsub EXCEPT ![c] = "not found"]
    /\ UNCHANGED <<camp, contact, address, mailbox, delivered, late, answered, batch, overruns,
                   faults>>

-----------------------------------------------------------------------------
(* outreach:send: RunBatch, then the completion check of its handler.      *)

Goto(b, l) == pc' = [pc EXCEPT ![b] = l]

SetStatus(c, st) == status' = [status EXCEPT ![c] = st]

\* asynq starts a batch; two of them overlap when the first outlives the five
\* minutes its task is unique for.
BatchStart(b) ==
    /\ pc[b] = "idle"
    /\ Goto(b, IF campaign = "running" THEN "requeue" ELSE "count")
    /\ UNCHANGED <<camp, contact, address, mailbox, outside, todo, snap, cur, idx, overruns,
                   faults>>

\* Claims that are 15 minutes old are open again, whether or not their batch
\* has gone, if the statement succeeds.
BatchRequeue(b) ==
    LET lost == {c \in Contact : status[c] = "sending" /\ abandoned[c]} IN
    /\ pc[b] = "requeue"
    /\ \/ /\ status' = [c \in Contact |-> IF c \in lost THEN "pending" ELSE status[c]]
          /\ abandoned' = [c \in Contact |-> abandoned[c] /\ c \notin lost]
          /\ UNCHANGED faults
       \/ Fault /\ UNCHANGED <<status, abandoned>>
    /\ Goto(b, "select")
    /\ UNCHANGED <<camp, step, due, repliedAt, address, mailbox, outside, todo, snap, cur, idx,
                   overruns>>

\* Mutant: contacts in the middle of the sequence are not selected.
BatchSelectPending(b) ==
    /\ pc[b] = "select"
    /\ todo' = [todo EXCEPT ![b] = {c \in Contact : status[c] = "pending" /\ due[c]}]
    /\ snap' = [snap EXCEPT ![b] = [c \in Contact |->
                    [step |-> step[c], replied |-> repliedAt[c], invalid |-> invalid[c]]]]
    /\ Goto(b, "pick")
    /\ UNCHANGED <<camp, contact, address, mailbox, outside, cur, idx, overruns, faults>>

\* The due contacts, as they are now; the loop works on this copy.
BatchSelect(b) ==
    /\ pc[b] = "select"
    /\ todo' = [todo EXCEPT ![b] = {c \in Contact : status[c] \in Open /\ due[c]}]
    /\ snap' = [snap EXCEPT ![b] = [c \in Contact |->
                    [step |-> step[c], replied |-> repliedAt[c], invalid |-> invalid[c]]]]
    /\ Goto(b, "pick")
    /\ UNCHANGED <<camp, contact, address, mailbox, outside, cur, idx, overruns, faults>>

\* Out before anything is sent; the row is written whatever its status is by
\* now, if the statement succeeds.
BatchSkip(b, c) ==
    /\ pc[b] = "pick"
    /\ c \in todo[b]
    /\ snap[b][c].replied \/ suppressed[c] \/ snap[b][c].invalid
    /\ todo' = [todo EXCEPT ![b] = @ \ {c}]
    /\ \/ /\ SetStatus(c, IF snap[b][c].replied THEN "replied"
                          ELSE IF suppressed[c] THEN "unsubscribed" ELSE "bounced")
          /\ UNCHANGED faults
       \/ Fault /\ UNCHANGED status
    /\ UNCHANGED <<camp, step, due, repliedAt, abandoned, address, mailbox, outside, pc, snap, cur,
                   idx, overruns>>

\* Mutant: only the audience is filtered, not the batch.
BatchPickSuppressed(b, c) ==
    /\ pc[b] = "pick"
    /\ c \in todo[b]
    /\ ~snap[b][c].replied /\ ~snap[b][c].invalid
    /\ todo' = [todo EXCEPT ![b] = @ \ {c}]
    /\ cur' = [cur EXCEPT ![b] = c]
    /\ Goto(b, "limit")
    /\ UNCHANGED <<camp, contact, address, mailbox, outside, snap, idx, overruns, faults>>

\* The next contact to mail.  A failed look at the suppression list counts as
\* "not on it".
BatchPick(b, c) ==
    /\ pc[b] = "pick"
    /\ c \in todo[b]
    /\ ~snap[b][c].replied /\ ~snap[b][c].invalid
    /\ (~suppressed[c] /\ UNCHANGED faults) \/ Fault
    /\ todo' = [todo EXCEPT ![b] = @ \ {c}]
    /\ cur' = [cur EXCEPT ![b] = c]
    /\ Goto(b, "limit")
    /\ UNCHANGED <<camp, contact, address, mailbox, outside, snap, idx, overruns>>

\* RunBatch has returned or died: its variables are gone.
Forget(b) ==
    /\ todo' = [todo EXCEPT ![b] = {}]
    /\ snap' = [snap EXCEPT ![b] = NoSnap]
    /\ cur' = [cur EXCEPT ![b] = NoContact]
    /\ idx' = [idx EXCEPT ![b] = 1]

BatchDrained(b) ==
    /\ pc[b] = "pick"
    /\ todo[b] = {}
    /\ Forget(b)
    /\ Goto(b, "count")
    /\ UNCHANGED <<camp, contact, address, mailbox, outside, overruns, faults>>

Limited == HourlyLimit > 0 /\ Cardinality(recent) >= HourlyLimit

\* The account's limit ends the batch ...
BatchLimited(b) ==
    /\ pc[b] = "limit"
    /\ Limited
    /\ todo' = [todo EXCEPT ![b] = {}]
    /\ Goto(b, "pick")
    /\ UNCHANGED <<camp, contact, address, mailbox, outside, snap, cur, idx, overruns, faults>>

\* ... unless it could not be read.  A contact past the last step is done.
BatchWalk(b) ==
    LET c == cur[b]
        i == NextEmail(snap[b][c].step)
    IN
    /\ pc[b] = "limit"
    /\ (~Limited /\ UNCHANGED faults) \/ Fault
    /\ IF i > Len(Steps)
       THEN SetStatus(c, "completed") /\ Goto(b, "pick") /\ UNCHANGED idx
       ELSE /\ idx' = [idx EXCEPT ![b] = i]
            /\ Goto(b, "reply")
            /\ UNCHANGED status
    /\ UNCHANGED <<camp, step, due, repliedAt, abandoned, address, mailbox, outside, todo, snap,
                   cur, overruns>>

\* Stop on reply, read again for the step; a failed read counts as no reply.
BatchReply(b) ==
    /\ pc[b] = "reply"
    /\ \/ /\ repliedAt[cur[b]]
          /\ SetStatus(cur[b], "replied")
          /\ Goto(b, "pick")
          /\ UNCHANGED faults
       \/ ~repliedAt[cur[b]] /\ Goto(b, "claim") /\ UNCHANGED <<status, faults>>
       \/ Fault /\ Goto(b, "claim") /\ UNCHANGED status
    /\ UNCHANGED <<camp, step, due, repliedAt, abandoned, address, mailbox, outside, todo, snap,
                   cur, idx, overruns>>

\* Mutant: the claim without its condition.
BatchClaimAny(b) ==
    /\ pc[b] = "claim"
    /\ SetStatus(cur[b], "sending")
    /\ abandoned' = [abandoned EXCEPT ![cur[b]] = FALSE]
    /\ Goto(b, "record")
    /\ UNCHANGED <<camp, step, due, repliedAt, address, mailbox, outside, todo, snap, cur, idx,
                   overruns, faults>>

\* The conditional UPDATE right before SMTP.  An error of it reads as "not
\* open", even when it took effect.
BatchClaim(b) ==
    LET c == cur[b]
        claim == /\ SetStatus(c, "sending")
                 /\ abandoned' = [abandoned EXCEPT ![c] = FALSE]
    IN
    /\ pc[b] = "claim"
    /\ \/ status[c] \in Open /\ claim /\ Goto(b, "record") /\ UNCHANGED faults
       \/ /\ status[c] \notin Open
          /\ Goto(b, "pick")
          /\ UNCHANGED <<status, abandoned, faults>>
       \/ status[c] \in Open /\ Fault /\ claim /\ Goto(b, "pick")
    /\ UNCHANGED <<camp, step, due, repliedAt, address, mailbox, outside, todo, snap, cur, idx,
                   overruns>>

\* Mutant: the conflicting row is overwritten.
BatchRecordAnew(b) ==
    /\ pc[b] = "record"
    /\ message' = [message EXCEPT ![cur[b]][idx[b]] = "sending"]
    /\ Goto(b, "smtp")
    /\ UNCHANGED <<camp, contact, address, recent, outside, todo, snap, cur, idx, overruns, faults>>

\* The message row, one per campaign, step and contact: a message that is
\* already sent is not sent again.
BatchRecord(b) ==
    LET c == cur[b]  i == idx[b] IN
    /\ pc[b] = "record"
    /\ IF message[c][i] = "sent"
       THEN Goto(b, "advance") /\ UNCHANGED message
       ELSE /\ message' = [message EXCEPT ![c][i] = "sending"]
            /\ Goto(b, "smtp")
    /\ UNCHANGED <<camp, contact, address, recent, outside, todo, snap, cur, idx, overruns, faults>>

BatchRecordError(b) ==
    /\ pc[b] = "record"
    /\ Fault
    /\ SetStatus(cur[b], "failed") \/ UNCHANGED status
    /\ Goto(b, "pick")
    /\ UNCHANGED <<camp, step, due, repliedAt, abandoned, address, mailbox, outside, todo, snap,
                   cur, idx, overruns>>

\* The relay takes the message.
Deliver(c, i) ==
    /\ delivered' = [delivered EXCEPT ![c][i] = @ + 1]
    /\ late' = [late EXCEPT ![c] = IF suppressed[c] THEN @ + 1 ELSE @]

\* The relay's answer; an error can come after it took the message.
BatchSend(b) ==
    LET c == cur[b]  i == idx[b] IN
    /\ pc[b] = "smtp"
    /\ \/ Deliver(c, i) /\ Goto(b, "mark")
       \/ Goto(b, "bounce") /\ UNCHANGED <<delivered, late>>
       \/ Goto(b, "fail") /\ (Deliver(c, i) \/ UNCHANGED <<delivered, late>>)
    /\ UNCHANGED <<camp, contact, address, mailbox, answered, unsub, todo, snap, cur, idx, overruns,
                   faults>>

\* A hard bounce: the contact, then its address and the message.
BatchBounce(b) ==
    /\ pc[b] = "bounce"
    /\ SetStatus(cur[b], "bounced")
    /\ Goto(b, "suppress")
    /\ UNCHANGED <<camp, step, due, repliedAt, abandoned, address, mailbox, outside, todo, snap,
                   cur, idx, overruns, faults>>

BatchSuppress(b) ==
    LET c == cur[b] IN
    /\ pc[b] = "suppress"
    /\ invalid' = [invalid EXCEPT ![c] = TRUE]
    /\ suppressed' = [suppressed EXCEPT ![c] = TRUE]
    /\ message' = [message EXCEPT ![c][idx[b]] = "bounced"]
    /\ Goto(b, "pick")
    /\ UNCHANGED <<camp, contact, recent, outside, todo, snap, cur, idx, overruns, faults>>

\* Mutant: a failed send goes on with the next step.
BatchFailGoesOn(b) ==
    /\ pc[b] = "fail"
    /\ message' = [message EXCEPT ![cur[b]][idx[b]] = "failed"]
    /\ Goto(b, "advance")
    /\ UNCHANGED <<camp, contact, address, recent, outside, todo, snap, cur, idx, overruns, faults>>

\* Any other error gives the contact up.
BatchFail(b) ==
    LET c == cur[b] IN
    /\ pc[b] = "fail"
    /\ SetStatus(c, "failed")
    /\ message' = [message EXCEPT ![c][idx[b]] = "failed"]
    /\ Goto(b, "pick")
    /\ UNCHANGED <<camp, step, due, repliedAt, abandoned, address, recent, outside, todo, snap, cur,
                   idx, overruns, faults>>

BatchMark(b) ==
    LET c == cur[b] IN
    /\ pc[b] = "mark"
    /\ message' = [message EXCEPT ![c][idx[b]] = "sent"]
    /\ recent' = IF HourlyLimit > 0 THEN recent \cup {<<c, idx[b]>>} ELSE {}
    /\ Goto(b, "advance")
    /\ UNCHANGED <<camp, contact, address, outside, todo, snap, cur, idx, overruns, faults>>

\* Mutant: the end of the sequence is missed.
BatchAdvancePastEnd(b) ==
    LET c == cur[b] IN
    /\ pc[b] = "advance"
    /\ SetStatus(c, "active")
    /\ step' = [step EXCEPT ![c] = NextEmail(idx[b] + 1)]
    /\ due' = [due EXCEPT ![c] = FALSE]
    /\ Goto(b, "pick")
    /\ UNCHANGED <<camp, repliedAt, abandoned, address, mailbox, outside, todo, snap, cur, idx,
                   overruns, faults>>

\* On to the next email step, due some days later, or done.
BatchAdvance(b) ==
    LET c == cur[b]
        i == NextEmail(idx[b] + 1)
    IN
    /\ pc[b] = "advance"
    /\ IF i > Len(Steps)
       THEN /\ SetStatus(c, "completed")
            /\ step' = [step EXCEPT ![c] = idx[b]]
            /\ UNCHANGED due
       ELSE /\ SetStatus(c, "active")
            /\ step' = [step EXCEPT ![c] = i]
            /\ due' = [due EXCEPT ![c] = FALSE]
    /\ Goto(b, "pick")
    /\ UNCHANGED <<camp, repliedAt, abandoned, address, mailbox, outside, todo, snap, cur, idx,
                   overruns, faults>>

\* The errors of all these statements are ignored.
BatchWriteError(b) ==
    /\ pc[b] \in {"bounce", "suppress", "fail", "mark", "advance"}
    /\ Fault
    /\ Goto(b, CASE pc[b] = "bounce" -> "suppress"
                 [] pc[b] = "mark"   -> "advance"
                 [] OTHER            -> "pick")
    /\ UNCHANGED <<camp, contact, address, mailbox, outside, todo, snap, cur, idx, overruns>>

\* No open contact left?  A failed count reads as none left ...
BatchCount(b) ==
    /\ pc[b] = "count"
    /\ \/ /\ Goto(b, IF \E c \in Contact : status[c] \in Open THEN "idle" ELSE "complete")
          /\ UNCHANGED faults
       \/ Fault /\ Goto(b, "complete")
    /\ UNCHANGED <<camp, contact, address, mailbox, outside, todo, snap, cur, idx, overruns>>

\* ... then a running campaign is completed.
BatchComplete(b) ==
    /\ pc[b] = "complete"
    /\ campaign' = IF campaign = "running" THEN "completed" ELSE campaign
    /\ Goto(b, "idle")
    /\ UNCHANGED <<launch, contact, address, mailbox, outside, todo, snap, cur, idx, overruns,
                   faults>>

\* RunBatch ends early: the worker dies, or, at "select", the account is not
\* active or a query for it, the steps or the contacts fails.  asynq or the
\* next tick starts another batch.
BatchLost(b) ==
    /\ pc[b] # "idle"
    /\ Fault
    /\ Goto(b, "idle")
    /\ Forget(b)
    /\ UNCHANGED <<camp, contact, address, mailbox, outside, overruns>>

-----------------------------------------------------------------------------
(* Time.                                                                   *)

DaysPass(c) ==
    /\ ~due[c] /\ status[c] \in Open
    /\ due' = [due EXCEPT ![c] = TRUE]
    /\ UNCHANGED <<camp, status, step, repliedAt, abandoned, address, mailbox, outside, batch,
                   overruns, faults>>

\* A message gets an hour old.
HourPasses ==
    /\ \E m \in recent : recent' = recent \ {m}
    /\ UNCHANGED <<camp, contact, address, message, outside, batch, overruns, faults>>

\* A claim gets 15 minutes old: its batch is gone, or it still talks to a
\* relay, for which nothing but the connection has a deadline.
Abandon(c) ==
    /\ status[c] = "sending" /\ ~abandoned[c]
    /\ abandoned' = [abandoned EXCEPT ![c] = TRUE]
    /\ IF \E b \in Batch : Holds(b, c)
       THEN /\ overruns[c] + faults < MaxFaults
            /\ overruns' = [overruns EXCEPT ![c] = @ + 1]
       ELSE UNCHANGED overruns
    /\ UNCHANGED <<camp, status, step, due, repliedAt, address, mailbox, outside, batch, faults>>

-----------------------------------------------------------------------------

BatchStep(b) ==
    \/ BatchRequeue(b) \/ BatchSelect(b) \/ BatchDrained(b)
    \/ \E c \in Contact : BatchSkip(b, c) \/ BatchPick(b, c)
    \/ BatchLimited(b) \/ BatchWalk(b) \/ BatchReply(b) \/ BatchClaim(b)
    \/ BatchRecord(b) \/ BatchRecordError(b) \/ BatchSend(b) \/ BatchBounce(b)
    \/ BatchSuppress(b) \/ BatchFail(b) \/ BatchMark(b) \/ BatchAdvance(b)
    \/ BatchWriteError(b) \/ BatchCount(b) \/ BatchComplete(b)

UserStep ==
    \/ LaunchRead \/ LaunchUpdate \/ \E c \in Contact : LaunchAdd(c)
    \/ HandleCampaignPause \/ HandleCampaignCancel

ContactStep(c) ==
    HandleInbound(c) \/ UnsubSuppress(c) \/ UnsubContact(c) \/ UnsubNotFound(c)

Next ==
    \/ UserStep \/ OutreachTick
    \/ \E c \in Contact : ContactStep(c) \/ DaysPass(c) \/ Abandon(c)
    \/ \E b \in Batch : BatchStart(b) \/ BatchStep(b) \/ BatchLost(b)
    \/ HourPasses

Spec == Init /\ [][Next]_vars

\* Batches keep being started (the tick runs every minute) and go on while
\* their worker lives; time passes.
Fairness ==
    /\ \A b \in Batch : WF_vars(BatchStart(b)) /\ WF_vars(BatchStep(b))
    /\ \A c \in Contact : WF_vars(DaysPass(c)) /\ WF_vars(Abandon(c))
    /\ WF_vars(HourPasses)

FairSpec == Spec /\ Fairness

-----------------------------------------------------------------------------
(* Properties.                                                             *)

\* No batch has outlasted its claim of the contact.
InTime(c) == overruns[c] = 0

\* The conditional claim lets one batch send to a contact at a time, and one
\* more for each claim that another batch takes over while its own still
\* talks to the relay.
SendersBounded ==
    \A c \in Contact : Cardinality({b \in Batch : Holds(b, c)}) <= 1 + overruns[c]

\* Unless a batch outlasted its claim of the contact, the relay gets a message
\* twice only when a worker died between the two or a statement after it
\* failed.
DuplicatesNeedFault ==
    \A c \in Contact, i \in StepNo : InTime(c) => delivered[c][i] <= 1 + faults

\* No step of the sequence is left out: a message was delivered only after
\* all the email steps before it.
StepsInOrder ==
    \A c \in Contact, i, j \in StepNo :
        i < j /\ Steps[i] = "email" /\ delivered[c][j] > 0 => delivered[c][i] > 0

\* After an address is suppressed it gets at most the one message that was
\* past its check, and one more for each failure, unless a batch outlasted its
\* claim of the contact.
LateMailBounded == \A c \in Contact : InTime(c) => late[c] <= 1 + faults

\* A recorded reply holds: no batch, however old its copy of the contacts,
\* mails a contact whose replied_at is set, unless a batch outlasted its claim
\* of it.
RecordedReplyStops ==
    [][\A c \in Contact : repliedAt[c] /\ InTime(c) => delivered'[c] = delivered[c]]_vars

\* The campaign is over for a contact: its row says so, and no batch holds it.
Final(c) == status[c] \in Done /\ \A b \in Batch : ~Holds(b, c)

\* What a contact may expect: no mail out of order, none once the campaign is
\* over for it, and, but for one mail for each failure, none twice and one at
\* most after its address was suppressed.  The last two go when a batch
\* outlasts its claim of the contact.
Contract ==
    INSTANCE OutreachContract
    WITH mailed <- delivered, over <- [c \in Contact |-> Final(c)],
         lapsed <- [c \in Contact |-> ~InTime(c)], failures <- faults

KeepsContract == Contract!Spec

\* The batches pass the hourly limit by at most one message each, but one,
\* and one more for each failed count.
LimitOvershoot ==
    HourlyLimit > 0 => Cardinality(recent) <= HourlyLimit + Cardinality(Batch) - 1 + faults

\* While the campaign runs, a contact of its audience does not stay in the
\* middle of the sequence for ever, though the hourly limit ends batches.
\* (It may stop running early: BatchComplete does not see a claimed contact.)
ContactSettles ==
    \A c \in Contact :
        status[c] \in Open \cup {"sending"} ~> status[c] \in Done \/ campaign # "running"

===============================================================================
