# LeadForge in TLA+

LeadForge finds companies on the web, turns them into scored leads and mails
them in campaigns. A server (`cmd/server`), workers (`cmd/worker`) and a
scheduler (`cmd/scheduler`) share a Postgres database and an asynq task queue in
Redis. None of them holds state that matters for long: what keeps two workers off
the same search, two searches from storing the same firm twice, or a campaign from
mailing somebody twice are conditional `UPDATE`s, unique indexes and Redis keys.
These modules model that part of the system, statement by statement, and the
goroutines and callbacks inside a worker where they share memory.

Paths below are relative to the repository (`src/` in `PROJECT.json`).

## 1. Inventory

| Component | State | Operations | What makes it correct |
|---|---|---|---|
| **Search lifecycle** (`internal/search/search.go`, `run.go`, `internal/web/finder_handlers.go`, `search_handlers.go`, `import_handlers.go`, `cmd/worker`, `cmd/scheduler`, `internal/queue`) | `lead_searches`, `usage_events`, the `search:run` tasks, a `Job` per run | create, saved run, import, pause, resume, cancel; load, claim, poll, wait, dispatch, finish; watchdog | one run per search, one bill, an ended search stays ended, nothing runs for ever |
| **Source fan-in** (`run.go`, `internal/source`) | channels, `srcStats`, the provider registry | select, one goroutine and one forwarder per provider, close, receive, break off | the report is complete when the sources ran out; no goroutine stays behind |
| **Candidate pipeline** (`run.go`, `internal/lead/dedupe.go`) | `raw_leads`, `companies`, `leads`, `lead_scores`, the counters and `seen` of a `Job` | `Process`, `linkExisting`, `persistNew`, `ensureLead`, `scoreLead`, `Flush` | one company per domain, a lead for each kept candidate, counters that add up |
| **Lead refresh, lead status** (`internal/search/refresh.go`, `internal/scoring`, `internal/web/lead_handlers.go`, `crm_handlers.go`) | `leads`, `lead_scores`, `companies`, the list of a sweep | `RefreshLead`, `RefreshStale`, bulk actions, company form, scoring | three copies of a score agree, the sweep spares the archive, stale hot leads are refreshed |
| **Scoring** (`internal/scoring`) | none | `Evaluate`, `StatusForScore`, `Label` | bounds, label and status agree |
| **Crawl slots and cooldowns** (`internal/crawler/manager.go`, `internal/redisx`) | permit keys in Redis, a channel per process, `failures`, `cooldowns`, `domain_cooldowns` | `acquire`, `Crawl`, `noteFailure`, `cooled` | slots return to where they came from, a cap on the crawls at once, nobody starves, strikes count |
| **Site crawler** (`internal/crawler/colly.go`) | `visited`, `attempts`, `pending`, the result, colly's requests | `CrawlSite`, `OnRequest`, `OnResponse`, `OnError`, `OnHTML`, stop | a page once for each address that leads to it, bounded reach, no new request after the return, it returns |
| **Campaign outreach** (`internal/outreach`, `internal/mail`, the campaign, inbox and unsubscribe handlers) | `campaigns`, `campaign_contacts`, `email_messages`, `suppression_list` | launch, pause, cancel; `RunBatch`; inbound mail; unsubscribe; completion | no mail twice, in order, none after a reply or an unsubscribe |
| **Webhooks** (`internal/webhookstore`, `cmd/worker`) | `webhooks`, `webhook_deliveries`, the `webhook:deliver` tasks | emit, deliver, record, retry; toggle, delete | an event is not lost silently, the log is true, a delivery ends |
| Queue and scheduler (`internal/queue`, `cmd/scheduler`) | unique keys, tickers | enqueue, tick | in the actions of the modules that use them |
| Page parsing, robots, browser pool, guard (`internal/crawler`) | robots cache, browser pool | fetch, extract | - |
| Normalization, opportunities, verification, enrichment, AI | none | pure functions and look-ups | - |
| Authentication, sessions, roles, team | `users`, `sessions`, `invitations` | sign in and out, invite | - |
| Deals, tasks, people, intelligence, settings, administration, API, exports | single rows | forms | tenant isolation |
| Platform, HTTP plumbing, pages, tools | configuration | - | - |

How they interact: web requests write a row and enqueue a task; asynq delivers a
task to a worker slot at least once, and again when a lease expires, a handler
fails or a worker shuts down; a run polls its row for the user's buttons, because
nothing else reaches it; within a run, providers hand candidates over channels to
the loop of `Run`, which hands them to processing goroutines, which crawl; the runs
of a tenant, refreshes and users meet in `companies` and `leads`; all processes that
crawl meet in the permit keys; the end of a search emits an event, which becomes one
task per webhook; the scheduler only enqueues. The behaviours that are hard:
redelivery while a run is alive, crashes between two statements, read-then-write
without a lock (status, quota, dedupe, contacts, score), leases and time-outs that
expire under a slow but living holder, goroutines and callbacks that outlive the
function that started them, and errors that are ignored (`_, _ = pool.Exec`).
`PROJECT.json` lists these hazards at their lines, with the properties that look at
them.

## 2. Modules

| Module | Models |
|---|---|
| `SearchLifecycle` | the life of searches: requests, tasks, worker slots, watchdog |
| `SearchContract` | what a tenant is promised of its searches, abstractly |
| `SourceFanIn` | the providers, forwarders and channels of one search |
| `Candidates` | concurrent searches processing candidates |
| `Scoring` | the built-in rules, the clamp, status and label |
| `LeadBook` (on `Scoring`) | leads after they were found: users, refreshes, the daily sweep |
| `CrawlSlots` | permits, channels, cooldowns |
| `SiteCrawl` | one crawl of a site: rounds, callbacks, retries |
| `Outreach` | one campaign and its send batches |
| `OutreachContract` | what a contact may expect of a campaign, abstractly |
| `Webhooks` | events, deliveries, their log |
| `MC*` | the instance of a module for TLC: the tenant, site or campaign, and symmetry |
| `*_proofs` | theorems and proofs about the module they are named after |

Every module has a step per SQL statement, Redis call, SMTP call, channel operation
or callback, except where two neighbours cannot be told apart by anybody else;
operators bear the names of the functions they stand for and `PROJECT.json` ("map")
gives their lines. An operator whose comment begins with "Mutant" is a plausible bug,
used by no action: it takes the place of the definition after it to show that a
property notices.

Where the modules meet: `SearchLifecycle` has one `Dispatch` and one end of
processing per candidate, which `SourceFanIn` refines upstream (where candidates come
from) and `Candidates` downstream (what becomes of one); the crawl inside `Process` and
`RefreshLead` is one choice there (a page or none), `CrawlSlots` has what surrounds it
and `SiteCrawl` what happens in it; the end of `SearchLifecycle`'s `Finish` counts the
event that `Webhooks` delivers; `LeadBook` takes over the lead that `Candidates` made,
with `SearchScores` for a later search that meets it.

### SearchLifecycle

A row is `status` and what goes with it: `attempt` (`run_attempt`), `imported`,
`timed` (`duration_ms`, which only `Finish` sets), and `beat` and `touched`
(`last_heartbeat` and `updated_at`, known only as fresh or stale to the watchdog).
`usage` and `emitted` count the ledger rows and webhook events of a search. `task`,
`retried` and `lease` are asynq's view of its task. A `Request` goes through
`handleFinderSearch`, `handleSavedRun` or `handleImportUpload`; a `Worker` is one
slot, with its program counter, the status it saw last (`seen`, cached for two
seconds by `Control`), the candidates dispatched and those in flight. Failures -
statements, enqueues, crashes, lost tasks - draw on one budget, `MaxFaults`. An
error of a statement is possible with and without its effect. A worker's `Finish` and
an import's share the update of the row (`FinishRow`), which looks at no status.

### SourceFanIn

`Discover` selects providers (`Wants`, `Applicable`), launches them in order of
priority, each with a channel of its own and a forwarder that copies into the common
channel; the launching goroutine waits for the forwarders, ends their context and
closes. A channel is a bag: for each source the number of its candidates in it
(`pchan`, `out`), so a forwarder's private count (`copied`), what it has recorded
(`stats`) and what `Run` has dispatched can be compared. Go's order of deferred calls
(cancel before close) and a send that may lose to a context are steps. What a provider
finds is a choice at the start; an error of its service ends its stream silently, as
in the code. `Run`'s loop stops at the limit, at a cancel, or at the end of its context.

### Candidates

`Process` of each candidate, the loop of `Run` around it, and the tables they share:
companies with their domain, canonical domain and one more identity, the number
of leads of a company and its score in the two tables that keep it. What the sources
say of a candidate is constant; what its crawl finds is a choice. The race this is
about: two searches look for a company, find none, and both insert it.
Statements on a candidate's own raw row do not fail in the model. Contacts,
technologies, opportunities and activities are left out, and so is stopping a run,
which `SearchLifecycle` has.

### Scoring and LeadBook

`Scoring` is `EvaluateRules` over the built-in rules as a sum over the signals that
hold; what a tenant's rules add is a number. `LeadBook` is the lead's row beside it:
`status`, `score` (in `leads`), `row` (in `lead_scores`), `company` (in `companies`), whether
the company's fields are filled, and whether its `last_enriched_at` is stale. A runner
is a worker on `lead:refresh`, `lead:bulk-refresh` or a search that meets the lead, or
the sweep (`lead:refresh-stale`); it crawls, fills and stamps, reads the lead and the
tenant's rules, and writes three rows with the score they earn (`earned`). Each read may
fail; a failed one only costs points, as in the code (`Broken` are the tenant's
rules as they count when their table could not be read). `late` remembers which leads a user has touched since the sweep made its
list, `blurred` which leads have had overlapping or failed scorings; both serve only
the properties.

### CrawlSlots

One goroutine crawls one site at a time: it takes a Redis permit or a place in the
channel of its process, passes the guard and the cooldown check, fetches, counts a
strike if nothing came, and its deferred release gives back what it took. A permit
expires at any time after it was taken (`Expire`): a crawl may last longer than its
minute. A permit nobody knows the token of is an `Orphan`. A host cools in its row
(`WarmUpRow`) and in the memory of each process (`WarmUp`), and each runs out by itself.

### SiteCrawl

`CrawlSite` runs rounds; each has a collector whose requests run side by side. A request
is made (`queued`), passes `OnRequest`, waits for the collector's LimitRule (`parked`), holds
one of its `DomainConc` slots (`wire`), is answered, and has its callback; `flight` is all of it from
`OnRequest` to the callback. Nobody looks at the context or at `stop` between `OnRequest` and
the callback. The callbacks share `visited`, `attempts`, the counts and the result, each under
its mutex, so each callback is a step; links of a page (`html`) are followed one at a time.
A page may redirect (`Lands`): the request is marked under the address it was made for and
handled under the one it ended at (`Ends`: the page itself, since a server may fail before it
redirects, or where that leads). It answers, fails for good, or fails for the moment (429 and
5xx); the last is freed and tried in the next round. `stop` is what `Run` stores when it has
read a pause or a cancel; `ended` is the context. Pages are model values and the site a
graph (`Links`).

### Outreach

Contacts of one campaign, each with its row in `campaign_contacts`, its messages, and
two things the database does not know: how often the relay took a message
(`delivered`) and whether the person has answered. A `Batch` is one `outreach:send`
task: it works on the copy of the contacts it selected (`todo`, `snap`), as the code
does. Batches overlap because asynq keeps a task unique for five minutes only. A claim
older than 15 minutes is requeued by time alone (`Abandon`, `BatchRequeue`), whether its batch
has died or is still talking to the relay; `overruns` counts, for each contact, how often it was
the latter. Errors of statements that the code ignores (the requeue, the unsubscribe's
two writes, the count that completes a campaign) are branches of their actions.
An unsubscribe link is the contact's, not the campaign's: it may come before the first mail.
`OutreachContract` is the same campaign as a contact sees it, with neither rows nor batches:
mails, the end of the campaign for the contact, its suppression, failures, and the lapse of a
contact that two may be writing to. A campaign
is over for a contact when its row says so *and* no batch has claimed it (`Final`): an
unsubscribe finds its contact out of reach while a batch is at it.

### Webhooks

An event of a tenant goes through `Emit` (`EmitSelect`, an enqueue per subscriber,
whose failure does not stop the others) and becomes a delivery per webhook; `task` is
asynq's view of it, `got` how often the receiver has taken it, `ok` and `bad` the rows of
`webhook_deliveries`. A receiver that has taken an event may lose its answer
(`DeliverFailed`), an INSERT of the log may fail, a worker may die, Redis may lose the
task; `hit` names the deliveries such a failure fell on, `touched` the webhooks a user has
switched or deleted. A delivery is identified by its event and webhook, as the event id
the receiver gets is a hash of the payload.

## 3. Runs

| Run | Instance | Shows |
|---|---|---|
| `SearchSafety` | 2 searches, 2 slots, 1 request, 1 failure | `LedgerSound`: one run, one bill, one event; `KeepsContract`: `SearchContract` is implemented |
| `SearchLiveness` | 2 searches, 1 slot, 1 failure, fair | running searches settle, ended ones free their slot, queued ones start |
| `SearchCancel` | 1 search, no failure | *violated*: a cancel between the final read of `Run` and its `Finish` becomes "completed" (imports are left out of the property) |
| `FanIn` | 6 registered providers, 3 queries, limit 3, up to 2 candidates each, fair | `FullReport`: a stream that ran out was read and reported to its last candidate; `GoroutinesEnd` |
| `CandidateSafety` | 2 searches, 4 candidates, 1 failure, 1 crash | one company per domain, a lead for each kept candidate, counters that match the rows and are shown in the end |
| `LeadBook` | 1 lead and 2 with dead sites, 1 worker and the sweep, limits 2, 1 click, 1 day, 1 failure, fair | the copies of a score agree, the sweep spares the archive, stale hot leads are refreshed unless as many dead ones as the sweep takes stand before them |
| `CrawlSlots` | 2 processes, 3 goroutines, 1 permit, 6 crawls, 1 failure, fair | slots accounted for and crawls at once capped, permits leave their holder only as they should, waiters are served; strikes are bounded (in `TypeOK`) |
| `SiteCrawl` | a site of 7 pages and one beside it, a cycle, 2 redirects, limits of 5 pages, depth 2, 3 rounds and 2 requests at once, fair | a page once for each address that leads to it, bounded reach, no request let through after the return, every crawl returns |
| `SiteFailures` | the same | *violated*: a page that answers 429 or 5xx in all rounds is recorded nowhere |
| `OutreachSafety` | 1 contact, 2 batches, an email, a wait and an email, 1 failure or overrun | `SendersBounded`: one sender and one more for an outlasted claim; for a contact none of whose claims was outlasted, duplicates only by failure, no mail after a recorded reply, one late mail at most; `KeepsContract`: `OutreachContract` is implemented, the order of the mails included |
| `OutreachLiveness` | 1 contact, 1 batch, the same steps, limit 1, 2 failures or overruns, fair | the contact comes to an end, though claims are lost and the limit ends batches |
| `Webhooks` | 1 event, 2 webhooks, 2 retries, 2 clicks, 1 failure, fair | no silent loss, a true log (for deliveries that nothing hit; the others repeat no more often than there were failures), every delivery ends |

**Bounds.** Two searches and two slots are what it takes for two runs of one search,
a run of one beside another, and a redelivery to a second slot; `MaxRetry` 1 lets a
task be retried and archived; one candidate with one processing goroutine is enough
to be paused, stopped and waited for in every place. One failure can hit any
statement, so every single failure meets every interleaving; combinations of two
are left to the theorems, which hold for any number.

For the fan-in, the six providers are the worker's registry; the three queries are an
automatic one without a key, pasted sites with the tenant's key and two connectors
off, and a selection with one off, so that every branch of the selection is taken; a
limit of 3 under up to 2 candidates from each of several sources is passed, met and not
reached; channels of one place are full at once, which is where senders block.
For candidates, the four of the run are the smallest set with a repeated key in a
search, the same domain in two searches and an entry without a domain that has only
its phone; a flush every two instead of ten candidates makes flushes overlap.

For leads, one that lives and two that are dead under a limit of two let the dead ones take
all places of a sweep, or one of them, or none; one worker beside the sweep is two runners on one lead; the
tenant's rule (30 points for a website) is there because without it no lead that is
refreshed stays hot (`SweepCools`), and the liveness of the sweep would be idle.
For crawls, three goroutines over two processes leave one to wait behind a permit holder
and a channel holder, and six crawls give a host its three strikes twice. For a site,
seven pages under a limit of five make the limit bite, and a chain of four links from the
home page reaches past the three links that three rounds of depth two can follow; one page
redirects to another of the site and one leaves it, and with two slots requests wait in the
LimitRule. For mails, two emails with a wait in between show an order, a skipped step and a
completed sequence; two batches are what asynq can have overlap; in `OutreachLiveness` the second
mail of the contact meets an hourly limit used up by the first. A failure and an outlasted
claim of the same contact draw on one bound, `MaxFaults`. For
webhooks, the second subscriber is there for a failure that hits only one of the two, and
two retries for a retry that is neither the first nor the last.

**Deadlock** is not checked: searches end, campaigns complete and the bounds on
failures, clicks and crawls run out, and then nothing is left to do.

**Fairness.** `SearchLiveness`: a live slot takes its next step, asynq delivers pending
tasks, an accepted request reaches its enqueue, the scheduler's ticker keeps
enqueueing the watchdog (`cmd/scheduler/main.go:29-49`) and time passes; users,
further requests and failures owe nothing. `FanIn`: goroutines are scheduled, requests
of providers and of `Process` time out, and asynq ends the context of a task whose handler
has returned, which is the only reason why a blocked forwarder ever leaves; a pause owes
nothing. `LeadBook`: the scheduler enqueues a sweep every day and a task that runs goes
on. `CrawlSlots`: a crawl goes on, since every request in it has a time-out; Redis expires
keys; a Go channel serves waiting senders first come first served, hence strong
fairness for `AcquireLocal`. `SiteCrawl`: a request ends by its time-out and a callback does
not block. `OutreachLiveness`: the tick starts batches every minute, a batch of a live
worker goes on, and time passes. `Webhooks`: asynq runs what is due, a delivery's request
times out after ten seconds.

**Where the model is blunt.** Times are only fresh or stale, due or not. The clock of
the watchdog may run out at any moment, so a living run is failed as easily as a dead
one: properties that hold do so for any length of a candidate. The daily limit of an
account works as the hourly one and is left out. Editing the steps of a campaign
while it runs is left out. What a contact gets that had a claim outlasted is bounded by
`SendersBounded` and the order of its mails only; duplicates and late mails are bounded for the
others, which is a premise of these properties and not a promise of the code.

## 4. What is proved

All for any values of the constants that meet the module's `...Assumption`: any numbers of
searches, candidates, leads, batches, pages, failures, any limits and capacities.
`PROJECT.json` lists the theorems and the properties of runs they state. Each
follows from an inductive invariant, shown to hold at first and to be kept by each
action; what is given here is what the invariant says beyond the property.

**SearchLifecycle_proofs.** `Typing`; `Ownership`, the inductive invariant; from it `OneRunner`,
`OneBill` (the run's `LedgerSound`), `StopsStand`; `Refinement`: the lifecycle implements
`SearchContract`; `EndsForGood` and `FinishIsLast`, two action properties.
That a search runs at most once cannot be shown from itself: one has to know that a
claim takes the only `queued` row and sets `attempt`, that nobody makes a row queued
again, and that a slot past its claim is the only one for its row. `OwnershipInv`
says so in four parts: `RowInv` (what a row's status says of its attempts, bills and
end), `SlotInv` (a claimed run has not yet written what comes after its program
counter, and a stop it has read still stands), `RequestInv` (the same for imports) and
`LockInv` (a claimed row has one slot, an import one request). The refinement maps
`attempt` or `imported` to the contract's `runs`, `timed` to `closed` and `usage` to
`billed`; the lemmas `Contract*` show which step of the contract each action is.

**SourceFanIn_proofs.** `ReportIsFull` (`FullReport`), from `FanIn`. What a source has sent is in
its channel, in its forwarder's hand, in the common channel, in `Run`'s hand or dispatched
(`Accounted`, an equation), what a forwarder has recorded is what it copied (`Copied`,
`NotYetRecorded`), and a forwarder records only when its provider has ended and its
channel is empty (`Complete`); hence a closed and empty common channel leaves a source
nowhere to have anything. `Typing` adds `Flow` (the same as an inequality, which holds also where
candidates are dropped) and `Length`: the length of the common channel is the cardinality of
the set of places taken in it, so that no source's share exceeds it.

**Candidates_proofs.** `Typing`, `OneCompany` (`OneCompanyPerDomain`), `Kept` (`KeptHasLead`), `RowsCounted`
(`CountersMatchRows`), `LastCounters` (`FinalCounts`), from `Invariant`. The race is two searches
that both find no company: `DomainsDiffer` rests on the insert's own conflict clause,
and `OneCreator` on the fact that an inserter leaves with a row that is new. Nothing is promised for a
candidate without a domain (section 5). `LeadKept` follows
a candidate's program counter from company to lead to scores; `FlushedLast` says that from the
last flush on no goroutine of the search is left to write older counters. `Typing` needs that a
counter, and every copy of it a goroutine carries, is at most the number of candidates.

**LeadBook_proofs.** `Typing`, `OneScore` (`ScoresAgree`), `ArchiveIsSpared` (`SweepSparesArchived`),
`SweepCools`, and theorems about `Scoring`. `Agreeing` follows a lone scorer through its
three statements; `Sparing` says that what is on the sweep's list or in its hand was not
archived, or a user has touched it since. `SweepCools` says what the code does to stale
hot leads: scored without the criteria of a search they stay below 90, also where a read
failed, unless the tenant's own rules (or what is left of them) add 25 points.

**CrawlSlots_proofs.** `Typing`, `Accounted` (`SlotsAccounted`), `OnlyHolders` (`PermitIsHolders`).
The channel of a process is counted, so the invariant relates it to the cardinality of the
goroutines holding a place (`PlacesCounted`); `StrikesCovered` bounds the strikes of a host by two
and the number of goroutines between the two locks of `noteFailure`.
The lemma `Cap`, for the part `Capped` of `SlotsAccounted`, says how many crawl at once, by an injection of the crawls into the permits they hold:
`GlobalWorkers` of all processes on permits that are still theirs, and no more than twice that
in one process, not counting the crawls that outlive their permit.

**SiteCrawl_proofs.** `Typing`, `Once` (`FetchedOnce`), `Final` (`FinalOnReturn`), `Bounded` (`ReachBound`).
A page that addresses redirect to may be in the result once for each of them. `Budget` is why no
more often: its entries in the result, the requests on their way that can end at it, and the
addresses leading to it that may still be requested are together at most the addresses leading
to it. A request takes one of the last, a callback turns a request into an entry or, for a retry,
into an address that is free again (one and not two, because a page that others redirect to
redirects no further: `Lands[Lands[u]] = Lands[u]` is assumed, as `Lands` is where a chain of redirects
ends). `Fresh` keeps two requests of one page apart. `Quiet`: outside `c.Wait` no request, none
parked either, and no callback is left, unless the context ended. `ReachInv` is what bounds the reach:
counting rounds from 0, a request of round *k* that has followed *d* - 1 links is within
*k*(`MaxDepth` - 1) + *d* - 1 links of the home page, and a page that starts round *k* within
*k*(`MaxDepth` - 1); a
request of an earlier round that is still under way keeps the bound of its own round. `Within(n)`
says that there is a walk of at most *n* links, so that a longer walk is a walk and one more
link, without induction over data.

**Outreach_proofs.** Nothing is assumed of the relay: a batch may outlast its claim. About all contacts:
`Typing`, `InOrder` (`StepsInOrder`), `Overshoot` (`LimitOvershoot`), `Senders` (`SendersBounded`). For the order,
`Covered(d, s)` says that every mail before step `s` has
been delivered, of the row and of each batch's old copy of it, and between a batch's claim
and its write also of the step it is about to write: a stale copy may set a contact
back, never forward past a mail. For the limit, `Places` bounds the mails of the hour
together with the batches that have passed the check and not yet sent. For the senders, `Seated`
counts who holds a contact, and the one that may claim it next without another claim getting
old, against one and its outlasted claims.
About the contacts none of whose claims was outlasted (`InTime`, which their properties name):
`NoMailTwice` (`DuplicatesNeedFault`), `ReplyStops` (`RecordedReplyStops`) and `LateBounded`.
`OneSender`: at most one batch holds such a
contact, and its claim is not abandoned; a contact that is final and held by nobody stays so.
`Tally` then counts: a message that is closed (marked sent, or about to be) has gone out at
most once more than there were faults, an open one at most as often as faults; a batch that is
about to record a bounce may reopen a message, so it is counted as one already sent.
For `LateBounded` (`LateMailBounded`) a sum over messages would have to be bounded; `LateInvariant`
counts sets of steps instead. A step is shut when it will not be mailed again; a mailed step that
is open (`Holes`) or a batch about to open one (`Recording`) is paid for by a fault (`HolesPaid`).
Batches that have looked at the suppression list before the address was on it aim at steps; what
can still be mailed is what they aim at and is not shut (`AtRisk`). Of the steps aimed at, one
at most was never mailed, because the emails before an aim have been (`OneFirstMail`): that is the
one late mail nobody pays for, the others are holes. From then on a late mail takes a step out
of `AtRisk`, and only a fault, or a bounce that was one, adds to it (`LatePaid`). `StepKinds` says
that every action is, for each contact, quiet, a failure, a recorded bounce, one mail or the end.
`Refinement` (`KeepsContract`): on that invariant every step of a campaign is one of
`OutreachContract` or none, an outlasted claim a `Lapse` of it. A mail keeps the contract's guards by `Ordered`, `Tally` and `LatePaid`
(`MailStep`), and any other step ends the campaign for one contact at most, with a failure or
without (`PlainSteps`).

**Webhooks_proofs.** `Typing`, `NothingLost` (`NoSilentLoss`), `Repeats` and `LogIsTrue` (`LogTruthful`), from `Invariant`: where a delivery
is in the queue says how often its receiver took it (`Receipts`) and which rows its log has (`Logged`),
and an emitter that is done has enqueued each delivery or been hit (`Emission`).
`Repeats` is the part of `LogTruthful` about the deliveries that a failure did hit: a receiver
has an event at most once more than there were failures. An accepted post leads to the end of
its delivery, and what takes it back to the queue, or loses its answer, is one failure.

**Only model-checked.** All liveness, since fairness and `ENABLED` are beyond the proof
system's backends, and the two violated properties. Every safety property of a passing run is
stated by a theorem. `LimitOvershoot` is the other way round: its case needs several batches over
several contacts, and only the theorem covers it. No module declares a recursive operator.

## 5. Where code and documentation part

Shown by a run:

- a cancel of a search that a worker runs can be overwritten by "completed" after the user was
  told that it was done: `Run` reads the status for the last time and `Finish` does not look
  (`SearchCancel`);
- a page that fails for the moment in all three rounds is in neither `Errors` nor `Failed`,
  although `colly.go:37` says failures are recorded; a site that is down is then filed as one
  without data (`SiteFailures`).

Modelled or read, without a run of its own. Searches:

- an import never reads its status, so a cancel of it is always overwritten when it ends;
- "resume" on a queued search sets it to running; the worker's claim then finds nothing
  queued and the search stays running until the watchdog fails it;
- the tenant's quota is counted before the insert, and saved runs and imports do not
  count at all; an error of the count reads as zero;
- a paused search holds its worker slot; enough of them stop the queue for all
  tenants (`QueuedProgress` has to except it);
- the watchdog fails runs whose single candidate takes longer than its window, and
  the run goes on until it next looks;
- a server that dies between the insert and the enqueue leaves a search queued for ever:
  the watchdog looks at running rows only;
- `POST /api/v1/searches` inserts a null `user_id` and always fails;
- two companies of one tenant never share a domain, but a firm can get a second row: a
  candidate without a domain that looks before the other is inserted has no unique index to meet.

Sources:

- when `Run` breaks off at the limit or a cancel, the forwarders that are blocked at that
  moment never record their count: the report misses what they found;
- `csv` and `custom_api` never take part in a search: `Discover` passes neither data nor URL; a
  Google key in the environment is never used for a search, only the tenant's;
- providers are started in order of priority and then run side by side, so the order
  decides nothing;
- no provider that is selected returns an error, so the error branch of the report is dead.

Crawling:

- "at most GlobalWorkers crawls run at once" (`manager.go:145`) is not so: there is one cap for
  all permits and one more for each process, since a crawl that is denied a permit takes a place
  of the channel (`Capped` is what does hold);
- `MaxPages` is compared with what has come back, not with what is on the wire: the links of one
  page pass it together; `MaxDepth` starts again for a page that is retried (`ReachBound` is what
  holds);
- `CrawlSite` returns when its context ends while callbacks still write into its result, and
  requests that wait in colly's LimitRule at that moment go out after the return; a `Stop`, "set to
  halt further requests" (`colly.go:23`), halts those before `OnRequest` only;
- a request is marked under the address it was made for and handled under the one it ended at:
  a page is merged once for each address that redirects to it, and a 503 behind a redirect frees
  the mark of another request;
- `noteSuccess` has no caller, so strikes need not come in a row; `Manager.Domains` is never
  acquired: the parallelism and the delay of 400 to 800 ms between requests to a domain
  (`colly.go:92-97`) are those of one crawl, and two crawls of a domain do not share them.

Leads:

- `leads.lead_score`, `lead_scores` and `companies` are written apart, and may come from two
  scorings that overlapped;
- scoring sets `leads.status` whatever the user has made it; the sweep spares what was
  archived when it made its list, a refresh or a search does not;
- a refresh scores without the criteria of a search, so by the built-in rules a stale hot lead
  always cools; a read that fails scores the lead on less, a failed read of the tenant's rules
  without them;
- hot leads whose site is dead are never stamped and take the sweep's places again
  every day; when they take all of them, a living lead with no higher score is not refreshed
  (`StaleHotRefreshed` has to except it, by `Crowded`);
- `employee_match` is set nowhere and `location_match` holds when the search names no city;
  of a tenant's rules, `greater_than` is "at least", and on an empty field `not_equals` is
  false while `not_in` and `not_contains` are true.

Mail:

- unsubscribe links are signed with the encryption secret and verified with the
  session secret; production requires them to differ, and then each link is a 404
  (`UnsubNotFound`);
- a reply that arrives while its contact is claimed is dropped: the `UPDATE` at
  `inbox_handlers.go:222` leaves out contacts that are being sent to, so `replied_at` is
  never set and the sequence goes on;
- claims are requeued when they are "abandoned long enough to avoid racing a slow SMTP send"
  (`outreach.go:104-105`), but 15 minutes do not bound an SMTP conversation: `mail.go:109-136` sets a
  time-out for the connection only. A requeue can race a living sender, and then a message goes out
  twice without a failure and a recorded reply does not stop it: `SendersBounded` says how many may
  send at once, and the other properties of mails except such a contact (`InTime`);
- the hourly limit is counted before the send and recorded after it, so that overlapping batches pass
  it by one mail each (`LimitOvershoot` is what holds); a count of it that fails reads as zero;
- a count of open contacts that fails reads as zero too and completes the campaign;
- a campaign is completed while another batch still holds a contact;
- `handleCampaignLaunch` restarts a campaign that was cancelled since it read it;
- verification and password-reset mails are only logged.

## 6. Not modelled, and what comes next

Most of the implementation's lines are pages generated by templ (`*_templ.go`, about 25,000 of
39,000); they render rows and keep no state. What else is left out:

- accounts and sessions (`internal/auth`, `internal/session`, `team_handlers.go`): conditional
  `UPDATE`s on single rows, short hazards; the best candidate for a further module;
- deals, tasks, lists, settings, administration: forms that write one row, whose correctness is
  the `WHERE tenant_id` of each statement, not an order of steps;
- page parsing, normalization, opportunities, verification, enrichment, AI: functions on texts,
  or look-ups, without a state; `Candidates` and `LeadBook` take their results as constants or
  choices;
- robots cache, browser pool and the transport's guard of the crawler;
- contacts, technologies and activities that a candidate's processing writes, which nothing
  else modelled reads;
- platform code, diagnostics and exports: configuration and I/O.

The runs stay at a dozen: each asks a question of its own, and a new module would take the
place of one whose answer a theorem has made general.

Next, in this order: contracts for the deliveries of a webhook and for the crawl slots, which
the theorems on them are close to; `Accounts`: sign-in, lock-out, sessions, invitations and resets
against each other; `Deals`, where two users write the same rows; the operators of a tenant's
scoring rules and `FindDuplicate`'s confidence as operators, checked against a reference.

## 7. Running

    tlc -workers 2 -config SearchSafety.cfg MCSearchLifecycle.tla
    tlc -workers 2 -config SearchLiveness.cfg MCSearchLifecycle.tla
    tlc -workers 2 -config SearchCancel.cfg MCSearchLifecycle.tla
    tlc -workers 2 -config FanIn.cfg MCSourceFanIn.tla
    tlc -workers 2 -config CandidateSafety.cfg MCCandidates.tla
    tlc -workers 2 -config LeadBook.cfg MCLeadBook.tla
    tlc -workers 2 -config CrawlSlots.cfg MCCrawlSlots.tla
    tlc -workers 2 -config SiteCrawl.cfg MCSiteCrawl.tla
    tlc -workers 2 -config SiteFailures.cfg MCSiteCrawl.tla
    tlc -workers 2 -config OutreachSafety.cfg MCOutreach.tla
    tlc -workers 2 -config OutreachLiveness.cfg MCOutreach.tla
    tlc -workers 2 -config Webhooks.cfg MCWebhooks.tla

    for m in SearchLifecycle SourceFanIn Candidates LeadBook CrawlSlots SiteCrawl Outreach Webhooks
    do tlapm ${m}_proofs.tla; done

`PROJECT.json` names the module, configuration and properties of each run.
