------------------------------ MODULE SiteCrawl ------------------------------
(***************************************************************************)
(* CrawlSite fetches the pages of one site with a collector of colly: the  *)
(* requests of a round run side by side, their callbacks share a set of    *)
(* visited pages and the counts, and what failed for the moment is tried   *)
(* again in the next round.  Run may stop the crawl, and its context may   *)
(* end under it.  A page is a model value, its text is left out.  A        *)
(* request is marked by the address it was made for, and handled by the    *)
(* address the redirects on the way ended at.                              *)
(***************************************************************************)
EXTENDS Integers, FiniteSets

CONSTANTS
    Url,        \* pages
    Site,       \* those that sameSite takes for pages of the site
    Home,       \* the page the crawl starts with
    Links,      \* of a page: those that sameSite, skipPath and robots.txt permit
    Lands,      \* of a page: where it redirects to, or the page itself
    MaxPages,
    MaxDepth,
    DomainConc, \* requests the collector has on the wire at a time
    Rounds,     \* the first crawl and its retries: 3
    Attempts    \* 3

ASSUME SiteCrawlAssumption ==
    /\ IsFiniteSet(Url)
    /\ Site \subseteq Url
    /\ Home \in Site
    /\ Links \in [Url -> SUBSET Site]
    /\ Lands \in [Url -> Url]
    /\ \A u \in Url : Lands[Lands[u]] = Lands[u]
    /\ MaxPages \in Nat \ {0}
    /\ MaxDepth \in Nat \ {0}
    /\ DomainConc \in Nat \ {0}
    /\ Rounds \in Nat \ {0}
    /\ Attempts \in Nat

VARIABLES
    pc,        \* where CrawlSite is
    round,
    pending,   \* pages the round starts with
    queued,    \* requests before OnRequest
    flight,    \* requests between OnRequest and the callback for their answer
    parked,    \* ... of them, those that wait for the LimitRule
    wire,      \* ... and those that hold one of its slots
    html,      \* links of the pages fetched that OnHTML has yet to look at
    tries,     \* how often a page passed OnRequest
    visited, pendingRetry, attempts,
    counted,   \* pages + failed
    got,       \* how often a page was merged into the result
    lost,      \* how often it was recorded as failed
    stop,      \* SiteConfig.Stop
    ended      \* the context has ended

crawl == <<pc, round, pending>>
sending == <<flight, parked, wire, tries>>
shared == <<visited, pendingRetry, attempts, counted, got, lost>>
vars == <<crawl, queued, sending, html, shared, stop, ended>>

\* A page that was requested for the n-th time.
Fetch == [url : Url, try : Nat, depth : 1..MaxDepth]

\* A request of a page, from a page that was fetched or, with a try of 0, from
\* the start of a round.
Request == [url : Url, from : Url, try : Nat, depth : 1..MaxDepth]

TypeOK ==
    /\ pc \in {"top", "wait", "returned"}
    /\ round \in 0..Rounds
    /\ pending \subseteq Site
    /\ queued \subseteq Request
    /\ flight \subseteq Fetch
    /\ parked \subseteq flight
    /\ wire \subseteq flight
    /\ html \subseteq [of : Fetch, link : Url]
    /\ tries \in [Url -> Nat]
    /\ visited \subseteq Url
    /\ pendingRetry \subseteq Site \ visited
    /\ attempts \in [Url -> Nat]
    /\ counted \in Nat
    /\ got \in [Url -> Nat]
    /\ lost \in [Url -> Nat]
    /\ stop \in BOOLEAN
    /\ ended \in BOOLEAN

Halted == ended \/ stop

Over == counted >= MaxPages

Init ==
    /\ pc = "top"
    /\ round = 0
    /\ pending = {Home}
    /\ queued = {}
    /\ flight = {}
    /\ parked = {}
    /\ wire = {}
    /\ html = {}
    /\ tries = [u \in Url |-> 0]
    /\ visited = {}
    /\ pendingRetry = {}
    /\ attempts = [u \in Url |-> 0]
    /\ counted = 0
    /\ got = [u \in Url |-> 0]
    /\ lost = [u \in Url |-> 0]
    /\ stop = FALSE
    /\ ended = FALSE

-----------------------------------------------------------------------------
(* The loop over the rounds.                                               *)

\* A new collector visits what is pending, each at depth one.
RoundStart ==
    /\ pc = "top"
    /\ ~Halted
    /\ round < Rounds
    /\ pending # {}
    /\ pc' = "wait"
    /\ queued' = queued \cup {[url |-> u, from |-> u, try |-> 0, depth |-> 1] : u \in pending}
    /\ UNCHANGED <<round, pending, sending, html, shared, stop, ended>>

\* All rounds done, nothing to retry, or the backoff was cut short.
Return ==
    /\ pc = "top"
    /\ Halted \/ round = Rounds \/ pending = {}
    /\ pc' = "returned"
    /\ UNCHANGED <<round, pending, queued, sending, html, shared, stop, ended>>

RoundEnd ==
    /\ pc = "wait"
    /\ pc' = "top"
    /\ round' = round + 1
    /\ pending' = pendingRetry
    /\ pendingRetry' = {}
    /\ UNCHANGED <<queued, sending, html, visited, attempts, counted, got, lost, stop, ended>>

\* Mutant: the round waits for the wire only, not for the callbacks.
CollectorWaitWire == wire = {} /\ RoundEnd

\* c.Wait: every goroutine of the collector is done.
CollectorWait == queued = {} /\ flight = {} /\ html = {} /\ RoundEnd

\* Or the context ends first, and the collector is left to itself.
ContextDone == ended /\ RoundEnd

-----------------------------------------------------------------------------
(* The goroutines of a collector.                                          *)

\* The request passes OnRequest and is handed to the LimitRule.
Pass(r) ==
    /\ r \in queued
    /\ ~Halted /\ r.url \notin visited /\ ~Over
    /\ queued' = queued \ {r}
    /\ tries' = [tries EXCEPT ![r.url] = @ + 1]
    /\ LET f == [url |-> r.url, try |-> tries[r.url] + 1, depth |-> r.depth]
       IN  flight' = flight \cup {f} /\ parked' = parked \cup {f}
    /\ pendingRetry' = pendingRetry \ {r.url}
    /\ UNCHANGED <<crawl, wire, html, attempts, counted, got, lost, stop, ended>>

\* Mutant: a page is marked when it has been fetched.
OnRequestUnmarked(r) == Pass(r) /\ UNCHANGED visited

\* A request is let through: its page was not visited before, and what was
\* counted so far leaves room.  What is on its way is not counted.
OnRequest(r) == Pass(r) /\ visited' = visited \cup {r.url}

\* Mutant: a request over the limit waits for room.
OnRequestAbortWaits(r) ==
    /\ r \in queued
    /\ Halted \/ r.url \in visited
    /\ queued' = queued \ {r}
    /\ UNCHANGED <<crawl, sending, html, shared, stop, ended>>

OnRequestAbort(r) ==
    /\ r \in queued
    /\ Halted \/ r.url \in visited \/ Over
    /\ queued' = queued \ {r}
    /\ UNCHANGED <<crawl, sending, html, shared, stop, ended>>

\* The LimitRule has a slot free.  Neither the context nor Stop is looked at
\* again: what was parked when they ended the crawl still goes out.
Send(r) ==
    /\ r \in parked
    /\ Cardinality(wire) < DomainConc
    /\ parked' = parked \ {r}
    /\ wire' = wire \cup {r}
    /\ UNCHANGED <<crawl, queued, flight, tries, html, shared, stop, ended>>

\* The answer, or none, has come and the delay has passed: the slot is free,
\* the callbacks are next.
Answer(r) ==
    /\ r \in wire
    /\ wire' = wire \ {r}
    /\ UNCHANGED <<crawl, queued, flight, parked, tries, html, shared, stop, ended>>

Answered == flight \ (parked \cup wire)

\* Where a request can end: at its page, or where that redirects to.
Ends(u) == {u, Lands[u]}

\* A page arrives, is merged and counted; OnHTML comes next.  A request that
\* slips in between the merge and the count is one that came before the merge.
OnResponse(r, u) ==
    /\ r \in Answered
    /\ u \in Ends(r.url)
    /\ flight' = flight \ {r}
    /\ got' = [got EXCEPT ![u] = @ + 1]
    /\ counted' = counted + 1
    /\ html' = html \cup {[of |-> r, link |-> v] : v \in Links[u]}
    /\ UNCHANGED <<crawl, queued, parked, wire, tries, visited, pendingRetry, attempts, lost, stop, ended>>

\* Mutant: the page that is to be tried again keeps its mark.
OnErrorRetryMarked(r, u) ==
    /\ r \in Answered
    /\ u \in Ends(r.url) \cap Site
    /\ attempts[u] < Attempts
    /\ flight' = flight \ {r}
    /\ attempts' = [attempts EXCEPT ![u] = @ + 1]
    /\ pendingRetry' = pendingRetry \cup {u}
    /\ UNCHANGED <<crawl, queued, parked, wire, tries, html, visited, counted, got, lost, stop, ended>>

\* 429 and 5xx, up to three times: the page that answered is free again, for
\* the next round or for the next link to it, whether or not it was marked
\* for this request.
OnErrorRetry(r, u) ==
    /\ r \in Answered
    /\ u \in Ends(r.url) \cap Site
    /\ attempts[u] < Attempts
    /\ flight' = flight \ {r}
    /\ attempts' = [attempts EXCEPT ![u] = @ + 1]
    /\ visited' = visited \ {u}
    /\ pendingRetry' = pendingRetry \cup {u}
    /\ UNCHANGED <<crawl, queued, parked, wire, tries, html, counted, got, lost, stop, ended>>

\* Any other failure, no HTML, another site, or once too often: recorded and
\* counted.
OnError(r, u) ==
    /\ r \in Answered
    /\ u \in Ends(r.url)
    /\ flight' = flight \ {r}
    /\ attempts' = [attempts EXCEPT ![u] = @ + 1]
    /\ lost' = [lost EXCEPT ![u] = @ + 1]
    /\ counted' = counted + 1
    /\ UNCHANGED <<crawl, queued, parked, wire, tries, html, visited, pendingRetry, got, stop, ended>>

\* A link of the page that h.of fetched, as a request at depth d.
Follow(h, d) == [url |-> h.link, from |-> h.of.url, try |-> h.of.try, depth |-> d]

\* Mutant: a link is visited by the collector, not by the request it is from.
OnHTMLFlat(h) ==
    /\ h \in html
    /\ html' = html \ {h}
    /\ queued' = IF Halted \/ Over THEN queued ELSE queued \cup {Follow(h, 1)}
    /\ UNCHANGED <<crawl, sending, shared, stop, ended>>

\* A link is visited one level deeper, unless the crawl is over or too deep.
OnHTML(h) ==
    /\ h \in html
    /\ html' = html \ {h}
    /\ queued' = IF Halted \/ Over \/ h.of.depth = MaxDepth THEN queued
                 ELSE queued \cup {Follow(h, h.of.depth + 1)}
    /\ UNCHANGED <<crawl, sending, shared, stop, ended>>

-----------------------------------------------------------------------------

\* Run has read that the search was paused or cancelled.
StopStore ==
    /\ pc # "returned"
    /\ ~stop
    /\ stop' = TRUE
    /\ UNCHANGED <<crawl, queued, sending, html, shared, ended>>

ContextEnds ==
    /\ pc # "returned"
    /\ ~ended
    /\ ended' = TRUE
    /\ UNCHANGED <<crawl, queued, sending, html, shared, stop>>

CrawlSite == RoundStart \/ Return \/ CollectorWait \/ ContextDone

Collector ==
    \/ \E r \in queued : OnRequest(r) \/ OnRequestAbort(r)
    \/ \E r \in flight : Send(r) \/ Answer(r)
    \/ \E r \in flight, u \in Url : OnResponse(r, u) \/ OnErrorRetry(r, u) \/ OnError(r, u)
    \/ \E h \in html : OnHTML(h)

Next == CrawlSite \/ Collector \/ StopStore \/ ContextEnds

Spec == Init /\ [][Next]_vars

\* A request comes to an end by its timeout, a callback does not block.
Fairness == WF_vars(CrawlSite) /\ WF_vars(Collector)

FairSpec == Spec /\ Fairness

-----------------------------------------------------------------------------
(* Properties.                                                             *)

\* The addresses that lead to a page.
Sources(u) == {v \in Url : u \in Ends(v)}

\* A page ends up in the result once, as a page or as a failure, for each
\* address that leads to it, whichever links name these and however often
\* they were tried.
FetchedOnce == \A u \in Url : got[u] + lost[u] <= Cardinality(Sources(u))

\* A crawl that has returned lets no request through any more, and unless its
\* context ended under it, nothing is on its way, and its counts and its data
\* are final: the caller reads them without a lock.
FinalOnReturn ==
    [][pc = "returned" =>
          /\ flight' \subseteq flight
          /\ ~ended => UNCHANGED <<flight, counted, got, lost>>]_vars

\* Walks of at most n links from the start, a redirect being no link, and the
\* pages they lead to.
Walk(n) == {p \in [0..n -> Url] :
              /\ p[0] = Home
              /\ \A i \in 1..n : \/ p[i] = p[i - 1]
                                 \/ \E u \in Ends(p[i - 1]) : p[i] \in Links[u]}

Within(n) == UNION {Ends(p[n]) : p \in Walk(n)}

\* How far a crawl may go: a page that was retried counts as a start page, so
\* MaxDepth bounds each round and not the crawl.
Reach == Within(Rounds * (MaxDepth - 1))

ReachBound ==
    \A u \in Url : got[u] + lost[u] + attempts[u] > 0 => u \in Reach

\* Every crawl returns, whatever the site answers and however its links run.
CrawlReturns == <>(pc = "returned")

\* colly.go: individual page failures are recorded.
FailuresRecorded ==
    pc = "returned" /\ ~Halted => \A u \in Url : attempts[u] > 0 => got[u] + lost[u] > 0

=============================================================================
