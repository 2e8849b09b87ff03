----------------------------- MODULE CrawlSlots -----------------------------
(***************************************************************************)
(* The crawler Manager of every process that crawls, and the Redis         *)
(* semaphore they share: one permit key per slot, which expires after a    *)
(* minute, and a channel of the same size per process for a crawl that     *)
(* gets no permit.  A host that fails three times is left alone for a      *)
(* while, by the process that saw it and, through domain_cooldowns, by     *)
(* the others.                                                             *)
(***************************************************************************)
EXTENDS Integers, FiniteSets

CONSTANTS
    Proc,       \* processes with a Manager: workers, the server
    Crawler,    \* goroutines that crawl, one site at a time
    ProcOf,     \* the process of a goroutine
    Host,
    Permits,    \* Cfg.CrawlerGlobalWorkers
    NoCrawler,  \* a permit key that does not exist
    Orphan,     \* a permit whose token nobody has any more
    MaxStarts,  \* bound on crawls
    MaxFaults   \* bound on crashes, lost answers of Redis and failing calls to Postgres

ASSUME CrawlAssumption ==
    /\ IsFiniteSet(Crawler)
    /\ ProcOf \in [Crawler -> Proc]
    /\ Permits \in Nat \ {0}
    /\ NoCrawler \notin Crawler /\ Orphan \notin Crawler /\ NoCrawler # Orphan
    /\ MaxStarts \in Nat
    /\ MaxFaults \in Nat

Slot    == 0..(Permits - 1)
Local   == Permits      \* hold: a place in the channel instead of a slot ...
Nothing == Permits + 1  \* ... or nothing at all
Strikes == 3

VARIABLES
    permit,  \* the permit keys in Redis: whose token they hold
    chan,    \* len(m.global) of a process
    pc,      \* where a goroutine is in Crawl
    hold,    \* what its release function gives back
    host,    \* the host it crawls
    fails,   \* m.failures
    cool,    \* m.cooldowns that have not passed
    dbcool,  \* domain_cooldowns that have not passed
    starts, faults

cools == <<fails, cool, dbcool>>
vars  == <<permit, chan, pc, hold, host, cools, starts, faults>>

Crawling(g) == pc[g] \in {"check", "fetch", "note", "release"}
Of(p)       == {g \in Crawler : ProcOf[g] = p}

TypeOK ==
    /\ permit \in [Slot -> Crawler \cup {NoCrawler, Orphan}]
    /\ chan \in [Proc -> 0..Permits]
    /\ pc \in [Crawler -> {"idle", "wait", "check", "fetch", "note", "release"}]
    /\ hold \in [Crawler -> 0..Nothing]
    /\ host \in [Crawler -> Host]
    /\ fails \in [Proc -> [Host -> 0..(Strikes - 1 + Cardinality(Crawler))]]
    /\ cool \in [Proc -> [Host -> BOOLEAN]]
    /\ dbcool \in [Host -> BOOLEAN]
    /\ starts \in 0..MaxStarts
    /\ faults \in 0..MaxFaults
    /\ \A g \in Crawler : Crawling(g) <=> hold[g] # Nothing

Init ==
    /\ permit = [i \in Slot |-> NoCrawler]
    /\ chan = [p \in Proc |-> 0]
    /\ pc = [g \in Crawler |-> "idle"]
    /\ hold = [g \in Crawler |-> Nothing]
    /\ host \in [Crawler -> Host]
    /\ fails = [p \in Proc |-> [h \in Host |-> 0]]
    /\ cool = [p \in Proc |-> [h \in Host |-> FALSE]]
    /\ dbcool = [h \in Host |-> FALSE]
    /\ starts = 0
    /\ faults = 0

Fault == faults < MaxFaults /\ faults' = faults + 1

Goto(g, where) == pc' = [pc EXCEPT ![g] = where]

-----------------------------------------------------------------------------
(* acquire                                                                 *)

Start(g) ==
    /\ pc[g] = "idle"
    /\ starts < MaxStarts
    /\ starts' = starts + 1
    /\ \E h \in Host : host' = [host EXCEPT ![g] = h]

\* The script takes the first key that does not exist.
FirstFree(i) == permit[i] = NoCrawler /\ \A k \in Slot : permit[k] = NoCrawler => i <= k

AcquirePermit(g) ==
    /\ Start(g)
    /\ \E i \in Slot :
          /\ FirstFree(i)
          /\ permit' = [permit EXCEPT ![i] = g]
          /\ hold' = [hold EXCEPT ![g] = i]
    /\ Goto(g, "check")
    /\ UNCHANGED <<chan, cools, faults>>

\* All permits are taken: on to the channel of the process.
AcquireDenied(g) ==
    /\ Start(g)
    /\ \A i \in Slot : permit[i] # NoCrawler
    /\ Goto(g, "wait")
    /\ UNCHANGED <<permit, chan, hold, cools, faults>>

\* So it is when Redis cannot be reached or the context of the search has
\* ended; a permit is lost if its answer is.
AcquireError(g) ==
    /\ Start(g)
    /\ \/ UNCHANGED <<permit, faults>>
       \/ \E i \in Slot : FirstFree(i) /\ permit' = [permit EXCEPT ![i] = Orphan] /\ Fault
    /\ Goto(g, "wait")
    /\ UNCHANGED <<chan, hold, cools>>

\* Mutant: the channel has no capacity.
AcquireLocalUnbounded(g) ==
    /\ pc[g] = "wait"
    /\ chan' = [chan EXCEPT ![ProcOf[g]] = @ + 1]
    /\ hold' = [hold EXCEPT ![g] = Local]
    /\ Goto(g, "check")
    /\ UNCHANGED <<permit, host, cools, starts, faults>>

\* The goroutine waits for a place in the channel of its process.
AcquireLocal(g) ==
    /\ pc[g] = "wait"
    /\ chan[ProcOf[g]] < Permits
    /\ chan' = [chan EXCEPT ![ProcOf[g]] = @ + 1]
    /\ hold' = [hold EXCEPT ![g] = Local]
    /\ Goto(g, "check")
    /\ UNCHANGED <<permit, host, cools, starts, faults>>

\* The context of the search ends: "crawl slots exhausted".
GiveUp(g) ==
    /\ pc[g] = "wait"
    /\ Goto(g, "idle")
    /\ UNCHANGED <<permit, chan, hold, host, cools, starts, faults>>

-----------------------------------------------------------------------------
(* Crawl, between acquire and the deferred release.                        *)

Cooled(g) == cool[ProcOf[g]][host[g]] \/ dbcool[host[g]]

\* Mutant: a host that is cooling down is skipped before the defer.
SkipAndLeak(g) ==
    /\ pc[g] = "check"
    /\ Goto(g, "idle")
    /\ hold' = [hold EXCEPT ![g] = Nothing]
    /\ UNCHANGED <<permit, chan, host, cools, starts, faults>>

\* The guard refuses the URL, or the host is cooling down.
Skip(g) ==
    /\ pc[g] = "check"
    /\ Goto(g, "release")
    /\ UNCHANGED <<permit, chan, hold, host, cools, starts, faults>>

\* A query of domain_cooldowns that fails reads as no cooldown.
Pass(g) ==
    /\ pc[g] = "check"
    /\ ~cool[ProcOf[g]][host[g]]
    /\ IF dbcool[host[g]] THEN Fault ELSE UNCHANGED faults
    /\ Goto(g, "fetch")
    /\ UNCHANGED <<permit, chan, hold, host, cools, starts>>

\* At least one page was fetched: nothing is noted, noteSuccess has no caller.
Fetched(g) ==
    /\ pc[g] = "fetch"
    /\ Goto(g, "release")
    /\ UNCHANGED <<permit, chan, hold, host, cools, starts, faults>>

\* robots.txt forbids it, or no page came: noteFailure counts the strike ...
FetchFailed(g) ==
    LET p == ProcOf[g]
        n == fails[p][host[g]] + 1
    IN
    /\ pc[g] = "fetch"
    /\ fails' = [fails EXCEPT ![p][host[g]] = n]
    /\ Goto(g, IF n < Strikes THEN "release" ELSE "note")
    /\ UNCHANGED <<permit, chan, hold, host, cool, dbcool, starts, faults>>

\* ... and, under the lock once more, cools the host and starts counting
\* anew; the row for the other processes comes last.
CoolDown(g) ==
    LET p == ProcOf[g] IN
    /\ pc[g] = "note"
    /\ cool' = [cool EXCEPT ![p][host[g]] = TRUE]
    /\ fails' = [fails EXCEPT ![p][host[g]] = 0]
    /\ \/ dbcool' = [dbcool EXCEPT ![host[g]] = TRUE] /\ UNCHANGED faults
       \/ Fault /\ UNCHANGED dbcool
    /\ Goto(g, "release")
    /\ UNCHANGED <<permit, chan, hold, host, starts>>

\* Mutant: the permit is deleted without a look at its token.
ReleaseAnyPermit(g) ==
    /\ pc[g] = "release"
    /\ hold[g] \in Slot
    /\ permit' = [permit EXCEPT ![hold[g]] = NoCrawler]
    /\ hold' = [hold EXCEPT ![g] = Nothing]
    /\ Goto(g, "idle")
    /\ UNCHANGED <<chan, host, cools, starts, faults>>

\* The script deletes the key if it still holds the token; a call that fails
\* leaves the permit to its expiry.
ReleasePermit(g) ==
    /\ pc[g] = "release"
    /\ hold[g] \in Slot
    /\ IF permit[hold[g]] = g
       THEN \/ permit' = [permit EXCEPT ![hold[g]] = NoCrawler] /\ UNCHANGED faults
            \/ permit' = [permit EXCEPT ![hold[g]] = Orphan] /\ Fault
       ELSE UNCHANGED <<permit, faults>>
    /\ hold' = [hold EXCEPT ![g] = Nothing]
    /\ Goto(g, "idle")
    /\ UNCHANGED <<chan, host, cools, starts>>

\* Mutant: the place in the channel is not given back.
ReleaseLocalKeeps(g) ==
    /\ pc[g] = "release"
    /\ hold[g] = Local
    /\ hold' = [hold EXCEPT ![g] = Nothing]
    /\ Goto(g, "idle")
    /\ UNCHANGED <<permit, chan, host, cools, starts, faults>>

\* Receiving from the channel makes room in it.
ReleaseLocal(g) ==
    /\ pc[g] = "release"
    /\ hold[g] = Local
    /\ chan' = [chan EXCEPT ![ProcOf[g]] = @ - 1]
    /\ hold' = [hold EXCEPT ![g] = Nothing]
    /\ Goto(g, "idle")
    /\ UNCHANGED <<permit, host, cools, starts, faults>>

-----------------------------------------------------------------------------
(* Time, and crashes.                                                      *)

\* A minute after it was taken a permit expires, whoever still crawls on it.
Expire(i) ==
    /\ permit[i] # NoCrawler
    /\ permit' = [permit EXCEPT ![i] = NoCrawler]
    /\ UNCHANGED <<chan, pc, hold, host, cools, starts, faults>>

\* Ten minutes pass since process p cooled the host ...
WarmUp(p, h) ==
    /\ cool[p][h]
    /\ cool' = [cool EXCEPT ![p][h] = FALSE]
    /\ UNCHANGED <<permit, chan, pc, hold, host, fails, dbcool, starts, faults>>

\* ... or since one last wrote its row.
WarmUpRow(h) ==
    /\ dbcool[h]
    /\ dbcool' = [dbcool EXCEPT ![h] = FALSE]
    /\ UNCHANGED <<permit, chan, pc, hold, host, fails, cool, starts, faults>>

\* A process restarts: its channel and its memory are new, its permits stay.
Restart(p) ==
    /\ Fault
    /\ permit' = [i \in Slot |-> IF permit[i] \in Of(p) THEN Orphan ELSE permit[i]]
    /\ chan' = [chan EXCEPT ![p] = 0]
    /\ pc' = [g \in Crawler |-> IF g \in Of(p) THEN "idle" ELSE pc[g]]
    /\ hold' = [g \in Crawler |-> IF g \in Of(p) THEN Nothing ELSE hold[g]]
    /\ fails' = [fails EXCEPT ![p] = [h \in Host |-> 0]]
    /\ cool' = [cool EXCEPT ![p] = [h \in Host |-> FALSE]]
    /\ UNCHANGED <<host, dbcool, starts>>

-----------------------------------------------------------------------------

Acquire(g) == AcquirePermit(g) \/ AcquireDenied(g) \/ AcquireError(g)

\* What Crawl does once it has a slot.
Crawl(g) ==
    \/ Skip(g)
    \/ Pass(g)
    \/ Fetched(g)
    \/ FetchFailed(g)
    \/ CoolDown(g)
    \/ ReleasePermit(g)
    \/ ReleaseLocal(g)

Next ==
    \/ \E g \in Crawler : Acquire(g) \/ AcquireLocal(g) \/ GiveUp(g) \/ Crawl(g)
    \/ \E i \in Slot : Expire(i)
    \/ \E h \in Host : WarmUpRow(h) \/ \E p \in Proc : WarmUp(p, h)
    \/ \E p \in Proc : Restart(p)

Spec == Init /\ [][Next]_vars

\* A crawl goes on (every request has a timeout), Redis expires keys, and a
\* Go channel serves its waiting senders in turn.
Fairness ==
    /\ \A g \in Crawler : WF_vars(Crawl(g)) /\ SF_vars(AcquireLocal(g))
    /\ \A i \in Slot : WF_vars(Expire(i))

FairSpec == Spec /\ Fairness

-----------------------------------------------------------------------------
(* Properties.                                                             *)

\* The crawls whose permit is still theirs, and those that outlive it.
OnPermit == {g \in Crawler : hold[g] \in Slot /\ permit[hold[g]] = g}
Overdue  == {g \in Crawler : hold[g] \in Slot /\ permit[hold[g]] # g}

\* All processes together have no more crawls on permits than there are; with
\* those on its channel a process has no more than twice that, save for the
\* crawls that are overdue.
Capped ==
    /\ Cardinality(OnPermit) <= Permits
    /\ \A p \in Proc :
          Cardinality({g \in Of(p) : Crawling(g) /\ g \notin Overdue}) <= 2 * Permits

\* The channel of a process counts the crawls that hold a place in it, and no
\* permit or place outlives the crawl that took it, save for an orphan: the
\* deferred release runs on every way out of Crawl.  So "at most GlobalWorkers
\* crawls run at once" becomes twice that many in a process, as a crawl that
\* is denied a permit takes a place instead, and more when crawls outlive the
\* minute of their permit.
SlotsAccounted ==
    /\ Capped
    /\ \A p \in Proc : chan[p] = Cardinality({g \in Of(p) : hold[g] = Local})
    /\ \A i \in Slot : permit[i] \in Crawler => hold[permit[i]] = i

\* Nobody but its holder gives a permit back, also when a crawl outlives its
\* own permit and another one has taken the slot since: the holder keeps it
\* until it releases it, restarts, or the minute is over.
PermitIsHolders ==
    [][\A i \in Slot : permit[i] \in Crawler /\ permit'[i] # permit[i] =>
          \/ hold'[permit[i]] = Nothing
          \/ Expire(i)]_vars

\* A crawl that found no permit gets its turn in its own process.
WaiterServed == \A g \in Crawler : (pc[g] = "wait") ~> (pc[g] # "wait")

=============================================================================
