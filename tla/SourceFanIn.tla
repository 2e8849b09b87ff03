---------------------------- MODULE SourceFanIn ----------------------------
(***************************************************************************)
(* Discover: the providers of a search write each into a channel of its    *)
(* own, a forwarder per provider copies it to the one channel Run reads,   *)
(* and counts what it has copied; a last goroutine closes that channel     *)
(* when all forwarders are done.  Run stops reading at the limit, at a     *)
(* cancel, or when its context ends.                                       *)
(*                                                                         *)
(* A channel is the number of candidates of each source in it: no property *)
(* depends on the order in which two sources' candidates come out.         *)
(***************************************************************************)
EXTENDS Integers, Sequences, FiniteSets

CONSTANTS
    Slugs,     \* the registered providers, highest priority first
    Priority,  \* Info().Priority of each
    Queries,   \* what a search may ask for
    Limit,     \* limit_count
    MaxSupply, \* bound on what a provider finds
    ChanCap,   \* capacity of a provider's channel
    OutCap,    \* capacity of the channel Run reads
    Workers    \* Cfg.SearchProcessWorkers

Slug == {Slugs[i] : i \in DOMAIN Slugs}
None == "none"  \* no candidate in hand

Query == [sources : SUBSET (Slug \cup {"auto"}), seeds : BOOLEAN,
          googleKey : BOOLEAN, off : SUBSET Slug]

ASSUME FanInAssumption ==
    /\ Slugs \in Seq(STRING)
    /\ None \notin Slug
    /\ \A i, j \in DOMAIN Slugs : i # j => Slugs[i] # Slugs[j]
    /\ Priority \in [Slug -> Nat]
    /\ \A i, j \in DOMAIN Slugs : i < j => Priority[Slugs[i]] >= Priority[Slugs[j]]
    /\ Queries \subseteq Query
    /\ Limit \in Nat \ {0}
    /\ MaxSupply \in Nat
    /\ ChanCap \in Nat \ {0}
    /\ OutCap \in Nat \ {0}
    /\ Workers \in Nat \ {0}

VARIABLES
    q,          \* the query, and the tenant's connectors that are off
    supply,     \* what each provider would find
    next,       \* the index in Slugs the launching goroutine is at
    prov,       \* the goroutine of each provider
    sent,       \* what it has written
    pchan,      \* len of its channel
    fwd,        \* the forwarder of each provider
    copied,     \* n of the forwarder
    out, outLen,\* the channel Run reads: per source, and its len
    closed,     \* ... and whether it is closed
    stats,      \* j.srcStats: candidates
    run,        \* where Run is
    ended,      \* why it left its loop
    cand,       \* the source of the candidate it holds
    dispatched, \* candidates handed to Process, per source ...
    count,      \* ... and in all
    active,     \* goroutines in Process
    report,     \* search_source_stats: candidates
    final,      \* whether the last Flush reached the table
    ctxDone     \* the task's context has ended

source == <<next, prov, sent, pchan>>
copying == <<fwd, copied, stats>>
loop == <<run, ended, cand, dispatched, count, active>>
table == <<report, final>>
vars == <<q, supply, source, copying, out, outLen, closed, loop, table, ctxDone>>

-----------------------------------------------------------------------------
(* Which providers take part, and what they find.                          *)

AutoMode == q.sources = {} \/ "auto" \in q.sources

Wants(s) == AutoMode \/ s \in q.sources

\* Discover passes neither CSV data nor the URL of a custom API, and looks at
\* the tenant's key for Google Places only, not at the one of the environment.
Applicable(s) ==
    /\ s = "manual" => q.seeds
    /\ s = "google_places" => q.googleKey
    /\ s \notin {"csv", "custom_api"}

Selected(s) == Wants(s) /\ Applicable(s) /\ s \notin q.off

\* A provider stops at the limit of the query, save for public_directory, which
\* asks Nominatim for no more and sends what comes; what a provider cannot find
\* (an error of its service) ends its stream without a word.
Yield(s) == IF s = "public_directory" \/ supply[s] < Limit THEN supply[s] ELSE Limit

\* sctx: ended with the task's, or by the launching goroutine's defer, which
\* runs before the one that closes the channel.
SctxDone == ctxDone \/ closed

-----------------------------------------------------------------------------

TypeOK ==
    /\ q \in Queries
    /\ supply \in [Slug -> 0..MaxSupply]
    /\ next \in 1..(Len(Slugs) + 1)
    /\ prov \in [Slug -> {"off", "run", "ended"}]
    /\ sent \in [Slug -> 0..MaxSupply]
    /\ pchan \in [Slug -> 0..ChanCap]
    /\ fwd \in [Slug -> {"off", "recv", "send", "done"}]
    /\ copied \in [Slug -> 0..MaxSupply]
    /\ out \in [Slug -> 0..OutCap]
    /\ outLen \in 0..OutCap
    /\ closed \in BOOLEAN
    /\ stats \in [Slug -> 0..MaxSupply]
    /\ run \in {"recv", "control", "paused", "drain", "returned"}
    /\ ended \in {"no", "stream", "limit", "stop"}
    /\ cand \in Slug \cup {None}
    /\ dispatched \in [Slug -> 0..MaxSupply]
    /\ count \in 0..Limit
    /\ active \in 0..Workers
    /\ report \in [Slug -> 0..MaxSupply]
    /\ final \in BOOLEAN
    /\ ctxDone \in BOOLEAN

Zero == [s \in Slug |-> 0]

Init ==
    /\ q \in Queries
    /\ supply \in [Slug -> 0..MaxSupply]
    /\ \A s \in Slug : ~Selected(s) => supply[s] = 0
    /\ next = 1
    /\ prov = [s \in Slug |-> "off"]
    /\ sent = Zero
    /\ pchan = Zero
    /\ fwd = [s \in Slug |-> "off"]
    /\ copied = Zero
    /\ out = Zero
    /\ outLen = 0
    /\ closed = FALSE
    /\ stats = Zero
    /\ run = "recv"
    /\ ended = "no"
    /\ cand = None
    /\ dispatched = Zero
    /\ count = 0
    /\ active = 0
    /\ report = Zero
    /\ final = FALSE
    /\ ctxDone = FALSE

-----------------------------------------------------------------------------
(* The goroutine that launches the providers.                              *)

LaunchSkip ==
    /\ next <= Len(Slugs)
    /\ ~Selected(Slugs[next])
    /\ next' = next + 1
    /\ UNCHANGED <<q, supply, prov, sent, pchan, copying, out, outLen, closed, loop, table, ctxDone>>

\* Search of a provider that is applicable returns no error: Google Places
\* has its key, the others look at their data in their goroutine.
Launch ==
    /\ next <= Len(Slugs)
    /\ Selected(Slugs[next])
    /\ next' = next + 1
    /\ prov' = [prov EXCEPT ![Slugs[next]] = "run"]
    /\ fwd' = [fwd EXCEPT ![Slugs[next]] = "recv"]
    /\ UNCHANGED <<q, supply, sent, pchan, copied, stats, out, outLen, closed, loop, table, ctxDone>>

\* Mutant: it waits until the providers' channels are closed, not for the
\* forwarders.
CloseOutEarly ==
    /\ next > Len(Slugs)
    /\ ~closed
    /\ \A s \in Slug : prov[s] # "run" /\ pchan[s] = 0
    /\ closed' = TRUE
    /\ UNCHANGED <<q, supply, source, copying, out, outLen, loop, table, ctxDone>>

\* wg.Wait, cancel, close.
CloseOut ==
    /\ next > Len(Slugs)
    /\ ~closed
    /\ \A s \in Slug : fwd[s] \in {"off", "done"}
    /\ closed' = TRUE
    /\ UNCHANGED <<q, supply, source, copying, out, outLen, loop, table, ctxDone>>

-----------------------------------------------------------------------------
(* A provider.                                                             *)

ProviderSend(s) ==
    /\ prov[s] = "run"
    /\ sent[s] < Yield(s)
    /\ pchan[s] < ChanCap
    /\ sent' = [sent EXCEPT ![s] = @ + 1]
    /\ pchan' = [pchan EXCEPT ![s] = @ + 1]
    /\ UNCHANGED <<q, supply, next, prov, copying, out, outLen, closed, loop, table, ctxDone>>

\* It has sent all it has, or its context ends before it can send more.
ProviderEnd(s) ==
    /\ prov[s] = "run"
    /\ sent[s] = Yield(s) \/ SctxDone
    /\ prov' = [prov EXCEPT ![s] = "ended"]
    /\ UNCHANGED <<q, supply, next, sent, pchan, copying, out, outLen, closed, loop, table, ctxDone>>

-----------------------------------------------------------------------------
(* A forwarder.                                                            *)

ForwarderReceive(s) ==
    /\ fwd[s] = "recv"
    /\ pchan[s] > 0
    /\ pchan' = [pchan EXCEPT ![s] = @ - 1]
    /\ copied' = [copied EXCEPT ![s] = @ + 1]
    /\ fwd' = [fwd EXCEPT ![s] = "send"]
    /\ UNCHANGED <<q, supply, next, prov, sent, stats, out, outLen, closed, loop, table, ctxDone>>

ForwarderSend(s) ==
    /\ fwd[s] = "send"
    /\ outLen < OutCap
    /\ out' = [out EXCEPT ![s] = @ + 1]
    /\ outLen' = outLen + 1
    /\ fwd' = [fwd EXCEPT ![s] = "recv"]
    /\ UNCHANGED <<q, supply, source, copied, stats, closed, loop, table, ctxDone>>

\* Mutant: a send without the select, which only goes on when there is room.
ForwarderStays(s) ==
    /\ fwd[s] = "send"
    /\ SctxDone
    /\ outLen < OutCap
    /\ fwd' = [fwd EXCEPT ![s] = "done"]
    /\ UNCHANGED <<q, supply, source, copied, stats, out, outLen, closed, loop, table, ctxDone>>

\* sctx has ended: what it has counted is not recorded.
ForwarderLeave(s) ==
    /\ fwd[s] = "send"
    /\ SctxDone
    /\ fwd' = [fwd EXCEPT ![s] = "done"]
    /\ UNCHANGED <<q, supply, source, copied, stats, out, outLen, closed, loop, table, ctxDone>>

\* The provider's channel is closed and empty: candidates += n.
ForwarderRecord(s) ==
    /\ fwd[s] = "recv"
    /\ prov[s] = "ended"
    /\ pchan[s] = 0
    /\ stats' = [stats EXCEPT ![s] = @ + copied[s]]
    /\ fwd' = [fwd EXCEPT ![s] = "done"]
    /\ UNCHANGED <<q, supply, source, copied, out, outLen, closed, loop, table, ctxDone>>

-----------------------------------------------------------------------------
(* Run.                                                                    *)

RunReceive ==
    /\ run = "recv"
    /\ \E s \in Slug :
          /\ out[s] > 0
          /\ out' = [out EXCEPT ![s] = @ - 1]
          /\ cand' = s
    /\ outLen' = outLen - 1
    /\ run' = "control"
    /\ UNCHANGED <<q, supply, source, copying, closed, ended, dispatched, count, active, table, ctxDone>>

\* The channel is closed and empty.
RunStreamEnd ==
    /\ run = "recv"
    /\ closed
    /\ \A s \in Slug : out[s] = 0
    /\ run' = "drain"
    /\ ended' = "stream"
    /\ UNCHANGED <<q, supply, source, copying, out, outLen, closed, cand, dispatched, count, active, table, ctxDone>>

\* Control says cancelled or failed, or WaitWhilePaused ends without a
\* resume: the candidate in hand is dropped.
RunStop ==
    /\ run \in {"control", "paused"}
    /\ run' = "drain"
    /\ ended' = "stop"
    /\ cand' = None
    /\ UNCHANGED <<q, supply, source, copying, out, outLen, closed, dispatched, count, active, table, ctxDone>>

\* The counters on the row: a statement on a dead context does nothing.
Flush == report' = IF ctxDone THEN report ELSE stats

RunPause ==
    /\ run = "control"
    /\ run' = "paused"
    /\ Flush
    /\ UNCHANGED <<q, supply, source, copying, out, outLen, closed, ended, cand, dispatched, count, active, final, ctxDone>>

\* Mutant: the limit is compared before the candidate is counted.
RunDispatchLate ==
    /\ run \in {"control", "paused"}
    /\ active < Workers
    /\ active' = active + 1
    /\ dispatched' = [dispatched EXCEPT ![cand] = @ + 1]
    /\ count' = count + 1
    /\ cand' = None
    /\ IF count >= Limit
       THEN run' = "drain" /\ ended' = "limit"
       ELSE run' = "recv" /\ UNCHANGED ended
    /\ UNCHANGED <<q, supply, source, copying, out, outLen, closed, table, ctxDone>>

\* eg.Go waits for a free place; the break at the limit comes after it.
RunDispatch ==
    /\ run \in {"control", "paused"}
    /\ active < Workers
    /\ active' = active + 1
    /\ dispatched' = [dispatched EXCEPT ![cand] = @ + 1]
    /\ count' = count + 1
    /\ cand' = None
    /\ IF count + 1 >= Limit
       THEN run' = "drain" /\ ended' = "limit"
       ELSE run' = "recv" /\ UNCHANGED ended
    /\ UNCHANGED <<q, supply, source, copying, out, outLen, closed, table, ctxDone>>

\* Process ends; every tenth lead found flushes.
ProcessDone ==
    /\ active > 0
    /\ active' = active - 1
    /\ Flush \/ UNCHANGED report
    /\ UNCHANGED <<q, supply, source, copying, out, outLen, closed, run, ended, cand, dispatched, count, final, ctxDone>>

\* eg.Wait, the last Flush, Finish and return.
RunReturn ==
    /\ run = "drain"
    /\ active = 0
    /\ run' = "returned"
    /\ Flush
    /\ final' = ~ctxDone
    /\ UNCHANGED <<q, supply, source, copying, out, outLen, closed, ended, cand, dispatched, count, active, ctxDone>>

\* asynq ends the context of a task whose handler has returned; a shutdown or
\* the timeout of six hours may end it before.
ContextEnds ==
    /\ ~ctxDone
    /\ ctxDone' = TRUE
    /\ UNCHANGED <<q, supply, source, copying, out, outLen, closed, loop, table>>

-----------------------------------------------------------------------------

Launcher == LaunchSkip \/ Launch \/ CloseOut

Provider(s) == ProviderSend(s) \/ ProviderEnd(s)

Forwarder(s) ==
    ForwarderReceive(s) \/ ForwarderSend(s) \/ ForwarderLeave(s) \/ ForwarderRecord(s)

Run ==
    RunReceive \/ RunStreamEnd \/ RunStop \/ RunPause \/ RunDispatch \/ RunReturn

Next ==
    \/ Launcher
    \/ \E s \in Slug : Provider(s) \/ Forwarder(s)
    \/ Run
    \/ ProcessDone
    \/ ContextEnds

Spec == Init /\ [][Next]_vars

\* Goroutines are scheduled, the requests of providers and of Process time
\* out, and asynq ends the context of a task that has returned.  A paused
\* search may stay paused: nothing is said of RunStop and RunDispatch.
Fairness ==
    /\ WF_vars(Launcher)
    /\ \A s \in Slug : WF_vars(Provider(s)) /\ WF_vars(Forwarder(s))
    /\ WF_vars(RunReceive \/ RunStreamEnd \/ RunReturn)
    /\ WF_vars(ProcessDone)
    /\ WF_vars(run = "returned" /\ ContextEnds)

FairSpec == Spec /\ Fairness

-----------------------------------------------------------------------------
(* Properties.                                                             *)

\* A search that ends because its sources have nothing more has looked at
\* every candidate of each of them, and its report counts them all: the
\* channel is closed after the last forwarder has recorded, not before.
FullReport ==
    run = "returned" /\ ended = "stream" /\ final =>
        \A s \in Slug : Selected(s) =>
            dispatched[s] = Yield(s) /\ report[s] = Yield(s)

\* When Run has returned, no goroutine of its search stays behind, whatever
\* it was blocked on when Run stopped reading.
GoroutinesEnd ==
    run = "returned" ~>
        closed /\ \A s \in Slug : prov[s] # "run" /\ fwd[s] \in {"off", "done"}

=============================================================================
