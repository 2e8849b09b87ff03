-------------------------- MODULE SiteCrawl_proofs --------------------------
(***************************************************************************)
(* For every site, every limit and every answer: a page ends up in the     *)
(* result at most once for each address that leads to it, a crawl that has *)
(* returned is final unless its context ended, and no crawl goes further   *)
(* than its rounds and its depth allow.                                    *)
(***************************************************************************)
EXTENDS SiteCrawl, FiniteSetTheorems, TLAPS

\* The round under way is one of the rounds.
InRound == pc = "wait" => round < Rounds

\* Between rounds no goroutine of a collector is left, unless the context
\* ended.
Quiet == pc # "wait" /\ ~ended => queued = {} /\ flight = {} /\ html = {}

\* Two requests on their way are two, although they may be for one page.
Fresh ==
    /\ IsFiniteSet(flight)
    /\ \A r \in flight : r.try <= tries[r.url]

\* The requests on their way that can end at a page, and the addresses that
\* lead to it and can still be requested.
Toward(u) == {r \in flight : u \in Ends(r.url)}

Open(u) == Sources(u) \ visited

\* Each address that leads to a page is good for one request, and a request
\* for one entry in the result or for one address that is free again.
Budget ==
    \A u \in Url :
        got[u] + lost[u] + Cardinality(Toward(u)) + Cardinality(Open(u)) <= Cardinality(Sources(u))

SiteCrawlInv == TypeOK /\ InRound /\ Quiet /\ Fresh /\ Budget

-----------------------------------------------------------------------------
(* The budget of a page.                                                   *)

\* What is counted is finite.
LEMMA Counted ==
    ASSUME TypeOK, Fresh, NEW u \in Url
    PROVE  /\ IsFiniteSet(Sources(u)) /\ IsFiniteSet(Open(u)) /\ IsFiniteSet(Toward(u))
           /\ Cardinality(Sources(u)) \in Nat
           /\ Cardinality(Open(u)) \in Nat
           /\ Cardinality(Toward(u)) \in Nat
<1>1. Sources(u) \subseteq Url /\ Open(u) \subseteq Url /\ Toward(u) \subseteq flight
  BY DEF Sources, Open, Toward
<1>2. IsFiniteSet(Url) /\ IsFiniteSet(flight)
  BY SiteCrawlAssumption DEF Fresh
<1>3. IsFiniteSet(Sources(u)) /\ IsFiniteSet(Open(u)) /\ IsFiniteSet(Toward(u))
  BY <1>1, <1>2, FS_Subset
<1> QED  BY <1>3, FS_CardinalityType

\* Nothing moves.
LEMMA BudgetSame ==
    ASSUME Budget, flight' = flight, visited' = visited, got' = got, lost' = lost
    PROVE  Budget'
  BY DEF Budget, Toward, Open, Sources

\* A request takes its address.
LEMMA BudgetRequest ==
    ASSUME TypeOK, Fresh, Budget, NEW r \in queued, OnRequest(r)
    PROVE  Budget' /\ Fresh'
<1> DEFINE f == [url |-> r.url, try |-> tries[r.url] + 1, depth |-> r.depth]
<1>1. /\ r.url \in Url /\ r.url \notin visited /\ f \in Fetch
      /\ flight' = flight \cup {f} /\ visited' = visited \cup {r.url}
      /\ tries' = [tries EXCEPT ![r.url] = @ + 1]
      /\ UNCHANGED <<got, lost>>
  BY DEF OnRequest, Pass, TypeOK, Request, Fetch
<1>2. f.url = r.url /\ f.try = tries[r.url] + 1 /\ tries[r.url] \in Nat
  BY <1>1 DEF TypeOK
<1>3. f \notin flight
  BY <1>2 DEF Fresh
<1> HIDE DEF f
<1>4. Fresh'
  <2>1. IsFiniteSet(flight')
    BY <1>1, FS_AddElement DEF Fresh
  <2>2. ASSUME NEW q \in flight'
        PROVE  q.try <= tries'[q.url]
    <3>1. CASE q = f
      BY <1>1, <1>2, <3>1 DEF TypeOK
    <3>2. CASE q \in flight
      <4>1. q.try \in Nat /\ q.url \in Url /\ q.try <= tries[q.url]
        BY <3>2 DEF TypeOK, Fresh, Fetch
      <4>2. tries[q.url] \in Nat /\ tries'[q.url] \in {tries[q.url], tries[q.url] + 1}
        BY <1>1, <4>1 DEF TypeOK
      <4> QED  BY <4>1, <4>2
    <3> QED  BY <1>1, <3>1, <3>2
  <2> QED  BY <2>1, <2>2 DEF Fresh
<1>5. ASSUME NEW u \in Url
      PROVE  got'[u] + lost'[u] + Cardinality(Toward(u)') + Cardinality(Open(u)')
                 <= Cardinality(Sources(u))
  <2>1. got[u] + lost[u] + Cardinality(Toward(u)) + Cardinality(Open(u)) <= Cardinality(Sources(u))
    BY DEF Budget
  <2>2. got[u] \in Nat /\ lost[u] \in Nat
    BY DEF TypeOK
  <2>3. CASE u \in Ends(r.url)
    <3>1. Toward(u)' = Toward(u) \cup {f} /\ f \notin Toward(u)
      BY <1>1, <1>2, <1>3, <2>3 DEF Toward
    <3>2. Open(u)' = Open(u) \ {r.url} /\ r.url \in Open(u)
      BY <1>1, <2>3 DEF Open, Sources
    <3>3. Cardinality(Toward(u)') = Cardinality(Toward(u)) + 1
      BY <3>1, Counted, FS_AddElement
    <3>4. Cardinality(Open(u)') = Cardinality(Open(u)) - 1
      BY <3>2, Counted, FS_RemoveElement
    <3> QED  BY <1>1, <2>1, <2>2, <3>3, <3>4, Counted
  <2>4. CASE u \notin Ends(r.url)
    <3>1. Toward(u)' = Toward(u) /\ Open(u)' = Open(u)
      BY <1>1, <1>2, <2>4 DEF Toward, Open, Sources
    <3> QED  BY <1>1, <2>1, <3>1
  <2> QED  BY <2>3, <2>4
<1> QED  BY <1>4, <1>5 DEF Budget, Sources

\* A request that is done is one less.
LEMMA Done ==
    ASSUME TypeOK, Fresh, NEW r \in flight, flight' = flight \ {r}, NEW u \in Url
    PROVE  Cardinality(Toward(u)') = Cardinality(Toward(u)) - (IF u \in Ends(r.url) THEN 1 ELSE 0)
<1>1. CASE u \in Ends(r.url)
  <2>1. Toward(u)' = Toward(u) \ {r} /\ r \in Toward(u)
    BY <1>1 DEF Toward
  <2> QED  BY <1>1, <2>1, Counted, FS_RemoveElement
<1>2. CASE u \notin Ends(r.url)
  <2>1. Toward(u)' = Toward(u)
    BY <1>2 DEF Toward
  <2> QED  BY <1>2, <2>1, Counted
<1> QED  BY <1>1, <1>2

\* A request ends up in the result.
LEMMA BudgetRecord ==
    ASSUME TypeOK, Fresh, Budget, NEW r \in flight, NEW u \in Ends(r.url),
           flight' = flight \ {r}, visited' = visited,
           \/ got' = [got EXCEPT ![u] = @ + 1] /\ lost' = lost
           \/ lost' = [lost EXCEPT ![u] = @ + 1] /\ got' = got
    PROVE  Budget'
<1>1. ASSUME NEW w \in Url
      PROVE  got'[w] + lost'[w] + Cardinality(Toward(w)') + Cardinality(Open(w)')
                 <= Cardinality(Sources(w))
  <2>1. got[w] + lost[w] + Cardinality(Toward(w)) + Cardinality(Open(w)) <= Cardinality(Sources(w))
    BY DEF Budget
  <2>2. got[w] \in Nat /\ lost[w] \in Nat
    BY DEF TypeOK
  <2>3. Open(w)' = Open(w)
    BY DEF Open, Sources
  <2>4. got'[w] + lost'[w] = got[w] + lost[w] + (IF w = u THEN 1 ELSE 0)
    BY <2>2 DEF TypeOK
  <2>5. w = u => w \in Ends(r.url)
    OBVIOUS
  <2> QED  BY <2>1, <2>2, <2>3, <2>4, <2>5, Counted, Done
<1> QED  BY <1>1 DEF Budget, Sources

\* A request frees the address it ended at, and no other page than those that
\* lost the request gains by it.
LEMMA BudgetRetry ==
    ASSUME TypeOK, Fresh, Budget, NEW r \in flight, NEW u \in Ends(r.url), u \in Url,
           flight' = flight \ {r}, visited' = visited \ {u}, got' = got, lost' = lost
    PROVE  Budget'
<1>1. r.url \in Url
  BY DEF TypeOK, Fetch
<1>2. ASSUME NEW w \in Url
      PROVE  got'[w] + lost'[w] + Cardinality(Toward(w)') + Cardinality(Open(w)')
                 <= Cardinality(Sources(w))
  <2>1. got[w] + lost[w] + Cardinality(Toward(w)) + Cardinality(Open(w)) <= Cardinality(Sources(w))
    BY DEF Budget
  <2>2. got[w] \in Nat /\ lost[w] \in Nat
    BY DEF TypeOK
  <2>3. CASE w \in Ends(r.url)
    <3>1. Cardinality(Toward(w)') = Cardinality(Toward(w)) - 1
      BY <2>3, Done, Counted
    <3>2. IsFiniteSet(Open(w) \cup {u}) /\ Cardinality(Open(w) \cup {u}) <= Cardinality(Open(w)) + 1
      <4>1. CASE u \in Open(w)
        <5>1. Open(w) \cup {u} = Open(w)
          BY <4>1
        <5> QED  BY <5>1, Counted
      <4>2. CASE u \notin Open(w)
        <5>1. IsFiniteSet(Open(w)) /\ Cardinality(Open(w)) \in Nat
          BY Counted
        <5>2. IsFiniteSet(Open(w) \cup {u}) /\ Cardinality(Open(w) \cup {u}) = Cardinality(Open(w)) + 1
          BY <4>2, <5>1, FS_AddElement
        <5> QED  BY <5>1, <5>2
      <4> QED  BY <4>1, <4>2
    <3>3. Open(w)' \subseteq Open(w) \cup {u}
      BY DEF Open, Sources
    <3>4. Cardinality(Open(w)') <= Cardinality(Open(w)) + 1 /\ Cardinality(Open(w)') \in Nat
      BY <3>2, <3>3, Counted, FS_Subset, FS_CardinalityType
    <3> QED  BY <2>1, <2>2, <3>1, <3>4, Counted
  <2>4. CASE w \notin Ends(r.url)
    <3>1. Cardinality(Toward(w)') = Cardinality(Toward(w))
      BY <2>4, Done, Counted
    <3>2. w \notin Ends(u)
      BY <1>1, <2>4, SiteCrawlAssumption DEF Ends
    <3>3. Open(w)' = Open(w)
      BY <3>2 DEF Open, Sources
    <3> QED  BY <2>1, <3>1, <3>3
  <2> QED  BY <2>3, <2>4
<1> QED  BY <1>2 DEF Budget, Sources

-----------------------------------------------------------------------------
(* Each step keeps the invariant.                                          *)

LEMMA RoundStartStep ==
    ASSUME SiteCrawlInv, RoundStart
    PROVE  SiteCrawlInv'
<1> USE SiteCrawlAssumption DEF RoundStart, crawl, sending, shared
<1> TypeOK /\ InRound /\ Quiet /\ Fresh /\ Budget  BY DEF SiteCrawlInv
<1>1. TypeOK'  BY DEF TypeOK, InRound, Fetch, Request
<1>2. InRound'  BY DEF InRound, TypeOK
<1>3. Quiet'  BY DEF Quiet, TypeOK, Halted
<1>4. Fresh' /\ Budget'
  BY BudgetSame DEF Fresh
<1> QED  BY <1>1, <1>2, <1>3, <1>4 DEF SiteCrawlInv

LEMMA ReturnStep ==
    ASSUME SiteCrawlInv, Return
    PROVE  SiteCrawlInv'
<1> USE SiteCrawlAssumption DEF Return, crawl, sending, shared
<1> TypeOK /\ InRound /\ Quiet /\ Fresh /\ Budget  BY DEF SiteCrawlInv
<1>1. TypeOK'  BY DEF TypeOK, InRound, Fetch, Request
<1>2. InRound'  BY DEF InRound, TypeOK
<1>3. Quiet'  BY DEF Quiet, TypeOK, Halted
<1>4. Fresh' /\ Budget'
  BY BudgetSame DEF Fresh
<1> QED  BY <1>1, <1>2, <1>3, <1>4 DEF SiteCrawlInv

LEMMA RoundEndStep ==
    ASSUME SiteCrawlInv, RoundEnd, CollectorWait \/ ContextDone
    PROVE  SiteCrawlInv'
<1> USE SiteCrawlAssumption DEF RoundEnd, CollectorWait, ContextDone, crawl, sending, shared
<1> TypeOK /\ InRound /\ Quiet /\ Fresh /\ Budget  BY DEF SiteCrawlInv
<1>1. TypeOK'  BY DEF TypeOK, InRound, Fetch, Request
<1>2. InRound'  BY DEF InRound, TypeOK
<1>3. Quiet'  BY DEF Quiet, TypeOK, Halted
<1>4. Fresh' /\ Budget'
  BY BudgetSame DEF Fresh
<1> QED  BY <1>1, <1>2, <1>3, <1>4 DEF SiteCrawlInv

LEMMA OnRequestStep ==
    ASSUME SiteCrawlInv, NEW r \in queued, OnRequest(r)
    PROVE  SiteCrawlInv'
<1> USE SiteCrawlAssumption DEF OnRequest, Pass, crawl, sending, shared
<1> TypeOK /\ InRound /\ Quiet /\ Fresh /\ Budget  BY DEF SiteCrawlInv
<1>1. TypeOK'  BY DEF TypeOK, InRound, Fetch, Request
<1>2. InRound'  BY DEF InRound, TypeOK
<1>3. Quiet'  BY DEF Quiet, TypeOK, Halted
<1>4. Fresh' /\ Budget'
  BY BudgetRequest
<1> QED  BY <1>1, <1>2, <1>3, <1>4 DEF SiteCrawlInv

LEMMA OnRequestAbortStep ==
    ASSUME SiteCrawlInv, NEW r \in queued, OnRequestAbort(r)
    PROVE  SiteCrawlInv'
<1> USE SiteCrawlAssumption DEF OnRequestAbort, crawl, sending, shared
<1> TypeOK /\ InRound /\ Quiet /\ Fresh /\ Budget  BY DEF SiteCrawlInv
<1>1. TypeOK'  BY DEF TypeOK, InRound, Fetch, Request
<1>2. InRound'  BY DEF InRound, TypeOK
<1>3. Quiet'  BY DEF Quiet, TypeOK, Halted
<1>4. Fresh' /\ Budget'
  BY BudgetSame DEF Fresh
<1> QED  BY <1>1, <1>2, <1>3, <1>4 DEF SiteCrawlInv

LEMMA SendStep ==
    ASSUME SiteCrawlInv, NEW r \in flight, Send(r)
    PROVE  SiteCrawlInv'
<1> USE SiteCrawlAssumption DEF Send, crawl, sending, shared
<1> TypeOK /\ InRound /\ Quiet /\ Fresh /\ Budget  BY DEF SiteCrawlInv
<1>1. TypeOK'  BY DEF TypeOK, InRound, Fetch, Request
<1>2. InRound'  BY DEF InRound, TypeOK
<1>3. Quiet'  BY DEF Quiet, TypeOK, Halted
<1>4. Fresh' /\ Budget'
  BY BudgetSame DEF Fresh
<1> QED  BY <1>1, <1>2, <1>3, <1>4 DEF SiteCrawlInv

LEMMA AnswerStep ==
    ASSUME SiteCrawlInv, NEW r \in flight, Answer(r)
    PROVE  SiteCrawlInv'
<1> USE SiteCrawlAssumption DEF Answer, crawl, sending, shared
<1> TypeOK /\ InRound /\ Quiet /\ Fresh /\ Budget  BY DEF SiteCrawlInv
<1>1. TypeOK'  BY DEF TypeOK, InRound, Fetch, Request
<1>2. InRound'  BY DEF InRound, TypeOK
<1>3. Quiet'  BY DEF Quiet, TypeOK, Halted
<1>4. Fresh' /\ Budget'
  BY BudgetSame DEF Fresh
<1> QED  BY <1>1, <1>2, <1>3, <1>4 DEF SiteCrawlInv

LEMMA OnResponseStep ==
    ASSUME SiteCrawlInv, NEW r \in flight, NEW u \in Url, OnResponse(r, u)
    PROVE  SiteCrawlInv'
<1> USE SiteCrawlAssumption DEF OnResponse, Answered, crawl, sending, shared
<1> TypeOK /\ InRound /\ Quiet /\ Fresh /\ Budget  BY DEF SiteCrawlInv
<1>1. TypeOK'  BY DEF TypeOK, InRound, Fetch, Request
<1>2. InRound'  BY DEF InRound, TypeOK
<1>3. Quiet'  BY DEF Quiet, TypeOK, Halted
<1>4. Fresh' /\ Budget'
  <2>1. IsFiniteSet(flight')
    BY FS_RemoveElement DEF Fresh
  <2>2. Fresh'
    BY <2>1 DEF Fresh
  <2>3. Budget'
    BY BudgetRecord DEF Ends
  <2> QED  BY <2>2, <2>3
<1> QED  BY <1>1, <1>2, <1>3, <1>4 DEF SiteCrawlInv

LEMMA OnErrorRetryStep ==
    ASSUME SiteCrawlInv, NEW r \in flight, NEW u \in Url, OnErrorRetry(r, u)
    PROVE  SiteCrawlInv'
<1> USE SiteCrawlAssumption DEF OnErrorRetry, Answered, crawl, sending, shared
<1> TypeOK /\ InRound /\ Quiet /\ Fresh /\ Budget  BY DEF SiteCrawlInv
<1>1. TypeOK'  BY DEF TypeOK, InRound, Fetch, Request
<1>2. InRound'  BY DEF InRound, TypeOK
<1>3. Quiet'  BY DEF Quiet, TypeOK, Halted
<1>4. Fresh' /\ Budget'
  <2>1. IsFiniteSet(flight')
    BY FS_RemoveElement DEF Fresh
  <2>2. Fresh'
    BY <2>1 DEF Fresh
  <2>3. Budget'
    BY BudgetRetry DEF Ends
  <2> QED  BY <2>2, <2>3
<1> QED  BY <1>1, <1>2, <1>3, <1>4 DEF SiteCrawlInv

LEMMA OnErrorStep ==
    ASSUME SiteCrawlInv, NEW r \in flight, NEW u \in Url, OnError(r, u)
    PROVE  SiteCrawlInv'
<1> USE SiteCrawlAssumption DEF OnError, Answered, crawl, sending, shared
<1> TypeOK /\ InRound /\ Quiet /\ Fresh /\ Budget  BY DEF SiteCrawlInv
<1>1. TypeOK'  BY DEF TypeOK, InRound, Fetch, Request
<1>2. InRound'  BY DEF InRound, TypeOK
<1>3. Quiet'  BY DEF Quiet, TypeOK, Halted
<1>4. Fresh' /\ Budget'
  <2>1. IsFiniteSet(flight')
    BY FS_RemoveElement DEF Fresh
  <2>2. Fresh'
    BY <2>1 DEF Fresh
  <2>3. Budget'
    BY BudgetRecord DEF Ends
  <2> QED  BY <2>2, <2>3
<1> QED  BY <1>1, <1>2, <1>3, <1>4 DEF SiteCrawlInv

LEMMA OnHTMLStep ==
    ASSUME SiteCrawlInv, NEW h \in html, OnHTML(h)
    PROVE  SiteCrawlInv'
<1> USE SiteCrawlAssumption DEF OnHTML, Follow, crawl, sending, shared
<1> TypeOK /\ InRound /\ Quiet /\ Fresh /\ Budget  BY DEF SiteCrawlInv
<1>1. TypeOK'  BY DEF TypeOK, InRound, Fetch, Request
<1>2. InRound'  BY DEF InRound, TypeOK
<1>3. Quiet'  BY DEF Quiet, TypeOK, Halted
<1>4. Fresh' /\ Budget'
  BY BudgetSame DEF Fresh
<1> QED  BY <1>1, <1>2, <1>3, <1>4 DEF SiteCrawlInv

LEMMA StopStoreStep ==
    ASSUME SiteCrawlInv, StopStore
    PROVE  SiteCrawlInv'
<1> USE SiteCrawlAssumption DEF StopStore, crawl, sending, shared
<1> TypeOK /\ InRound /\ Quiet /\ Fresh /\ Budget  BY DEF SiteCrawlInv
<1>1. TypeOK'  BY DEF TypeOK, InRound, Fetch, Request
<1>2. InRound'  BY DEF InRound, TypeOK
<1>3. Quiet'  BY DEF Quiet, TypeOK, Halted
<1>4. Fresh' /\ Budget'
  BY BudgetSame DEF Fresh
<1> QED  BY <1>1, <1>2, <1>3, <1>4 DEF SiteCrawlInv

LEMMA ContextEndsStep ==
    ASSUME SiteCrawlInv, ContextEnds
    PROVE  SiteCrawlInv'
<1> USE SiteCrawlAssumption DEF ContextEnds, crawl, sending, shared
<1> TypeOK /\ InRound /\ Quiet /\ Fresh /\ Budget  BY DEF SiteCrawlInv
<1>1. TypeOK'  BY DEF TypeOK, InRound, Fetch, Request
<1>2. InRound'  BY DEF InRound, TypeOK
<1>3. Quiet'  BY DEF Quiet, TypeOK, Halted
<1>4. Fresh' /\ Budget'
  BY BudgetSame DEF Fresh
<1> QED  BY <1>1, <1>2, <1>3, <1>4 DEF SiteCrawlInv

-----------------------------------------------------------------------------

LEMMA Start == Init => SiteCrawlInv
<1> SUFFICES ASSUME Init  PROVE SiteCrawlInv
  OBVIOUS
<1>1. TypeOK
  <2>1. pc \in {"top", "wait", "returned"} /\ round \in 0..Rounds /\ pending \subseteq Site
    BY SiteCrawlAssumption DEF Init
  <2>2. /\ tries \in [Url -> Nat] /\ attempts \in [Url -> Nat]
        /\ got \in [Url -> Nat] /\ lost \in [Url -> Nat] /\ counted \in Nat
    BY DEF Init
  <2> QED  BY <2>1, <2>2 DEF Init, TypeOK
<1>2. InRound /\ Quiet  BY SiteCrawlAssumption DEF Init, InRound, Quiet
<1>3. Fresh
  BY FS_EmptySet DEF Init, Fresh
<1>4. ASSUME NEW u \in Url
      PROVE  got[u] + lost[u] + Cardinality(Toward(u)) + Cardinality(Open(u)) <= Cardinality(Sources(u))
  <2>1. Toward(u) = {} /\ Open(u) = Sources(u) /\ got[u] = 0 /\ lost[u] = 0
    BY DEF Init, Toward, Open
  <2> QED  BY <1>1, <1>3, <2>1, Counted, FS_EmptySet
<1> QED  BY <1>1, <1>2, <1>3, <1>4 DEF SiteCrawlInv, Budget

LEMMA Step == SiteCrawlInv /\ [Next]_vars => SiteCrawlInv'
<1> SUFFICES ASSUME SiteCrawlInv, [Next]_vars  PROVE SiteCrawlInv'
  OBVIOUS
<1>1. CASE CrawlSite
  BY <1>1, RoundStartStep, ReturnStep, RoundEndStep DEF CrawlSite, CollectorWait, ContextDone
<1>2. ASSUME NEW r \in queued, OnRequest(r) \/ OnRequestAbort(r)  PROVE SiteCrawlInv'
  BY <1>2, OnRequestStep, OnRequestAbortStep
<1>3. ASSUME NEW r \in flight, Send(r) \/ Answer(r)  PROVE SiteCrawlInv'
  BY <1>3, SendStep, AnswerStep
<1>4. ASSUME NEW r \in flight, NEW u \in Url, OnResponse(r, u) \/ OnErrorRetry(r, u) \/ OnError(r, u)
      PROVE SiteCrawlInv'
  BY <1>4, OnResponseStep, OnErrorRetryStep, OnErrorStep
<1>5. ASSUME NEW h \in html, OnHTML(h)  PROVE SiteCrawlInv'
  BY <1>5, OnHTMLStep
<1>6. CASE StopStore \/ ContextEnds
  BY <1>6, StopStoreStep, ContextEndsStep
<1>7. CASE UNCHANGED vars
  <2>1. Fresh' /\ Budget'
    BY <1>7, BudgetSame DEF vars, crawl, sending, shared, SiteCrawlInv, Fresh
  <2> QED  BY <1>7, <2>1 DEF vars, crawl, sending, shared, SiteCrawlInv, TypeOK, InRound, Quiet
<1> QED  BY <1>1, <1>2, <1>3, <1>4, <1>5, <1>6, <1>7 DEF Next, Collector

\* The inductive invariant: what a page has in the result, the requests on
\* their way to it and the addresses that can still be requested add up to no
\* more than the addresses that lead to it, and a round that is over is quiet.
THEOREM Invariant == Spec => []SiteCrawlInv
  BY Start, Step, PTL DEF Spec

\* Everything has its type, and no page is both marked and to be retried.
THEOREM Typing == Spec => []TypeOK
<1>1. SiteCrawlInv => TypeOK
  BY DEF SiteCrawlInv
<1> QED  BY <1>1, Invariant, PTL

\* CrawlSite records a page at most once for each address that leads to it,
\* for any site, any redirects and any number of retries.
THEOREM Once == Spec => []FetchedOnce
<1>1. SiteCrawlInv => FetchedOnce
  <2> SUFFICES ASSUME SiteCrawlInv, NEW u \in Url
               PROVE  got[u] + lost[u] <= Cardinality(Sources(u))
    BY DEF FetchedOnce
  <2>1. got[u] + lost[u] + Cardinality(Toward(u)) + Cardinality(Open(u)) <= Cardinality(Sources(u))
    BY DEF SiteCrawlInv, Budget
  <2>2. got[u] \in Nat /\ lost[u] \in Nat
    BY DEF SiteCrawlInv, TypeOK
  <2> QED  BY <2>1, <2>2, Counted DEF SiteCrawlInv
<1> QED  BY <1>1, Invariant, PTL

\* What CrawlSite has returned does not change under its caller, unless its
\* context had ended, and no request passes OnRequest any more in any case:
\* only those that the LimitRule held back can still go out.
THEOREM Final == Spec => FinalOnReturn
<1>1. SiteCrawlInv /\ [Next]_vars =>
        [pc = "returned" =>
            /\ flight' \subseteq flight
            /\ ~ended => UNCHANGED <<flight, counted, got, lost>>]_vars
  <2> SUFFICES ASSUME SiteCrawlInv, Next, pc = "returned"
               PROVE  /\ flight' \subseteq flight
                      /\ ~ended => UNCHANGED <<flight, counted, got, lost>>
    OBVIOUS
  <2> USE DEF crawl, sending, shared
  <2>1. CASE CrawlSite \/ StopStore \/ ContextEnds
    BY <2>1 DEF CrawlSite, RoundStart, Return, CollectorWait, ContextDone, RoundEnd,
       StopStore, ContextEnds
  <2>2. ASSUME NEW r \in queued, OnRequest(r) \/ OnRequestAbort(r)
        PROVE flight' \subseteq flight /\ ended
    BY <2>2 DEF OnRequest, Pass, OnRequestAbort, Halted, SiteCrawlInv, Quiet
  <2>3. ASSUME NEW r \in flight, NEW u \in Url,
               OnResponse(r, u) \/ OnErrorRetry(r, u) \/ OnError(r, u)
        PROVE flight' \subseteq flight /\ ended
    BY <2>3 DEF OnResponse, OnErrorRetry, OnError, SiteCrawlInv, Quiet
  <2>4. ASSUME NEW r \in flight, Send(r) \/ Answer(r)
        PROVE flight' = flight /\ UNCHANGED <<counted, got, lost>>
    BY <2>4 DEF Send, Answer
  <2>5. ASSUME NEW h \in html, OnHTML(h)
        PROVE flight' = flight /\ UNCHANGED <<counted, got, lost>>
    BY <2>5 DEF OnHTML
  <2> QED  BY <2>1, <2>2, <2>3, <2>4, <2>5 DEF Next, Collector
<1> QED  BY <1>1, Invariant, PTL DEF Spec, FinalOnReturn

-----------------------------------------------------------------------------
(* How far a crawl goes.                                                   *)

\* The links a round may follow.
W == MaxDepth - 1

\* A request of depth d, or a page fetched at it, is d - 1 links from a page
\* some round started with.
Reached(u, d) == \E k \in 0..(Rounds - 1) : k <= round /\ u \in Within(k * W + (d - 1))

ReachInv ==
    /\ pending \subseteq Within(round * W)
    /\ pendingRetry \subseteq Within((round + 1) * W)
    /\ \A r \in queued \cup flight : Reached(r.url, r.depth)
    /\ \A h \in html : /\ Reached(h.of.url, h.of.depth)
                      /\ \E u \in Ends(h.of.url) : h.link \in Links[u]
    /\ ReachBound

\* The bounds in numbers.
LEMMA LinkNumbers ==
    /\ W \in Nat
    /\ \A k \in Nat : k * W \in Nat /\ (k + 1) * W = k * W + W
    /\ \A k, m \in Nat : k <= m => k * W <= m * W
  BY SiteCrawlAssumption DEF W

\* A walk stays on the pages there are.
LEMMA WalkFact ==
    ASSUME NEW n \in Nat, NEW p \in Walk(n)
    PROVE  /\ p \in [0..n -> Url]
           /\ p[0] = Home
           /\ \A i \in 1..n : p[i] = p[i - 1] \/ \E u \in Ends(p[i - 1]) : p[i] \in Links[u]
           /\ p[n] \in Url /\ Lands[p[n]] \in Url
  BY SiteCrawlAssumption DEF Walk

\* Pages within n links are within m links of the start for m >= n: a walk may
\* stand still.
LEMMA WithinMore ==
    ASSUME NEW n \in Nat, NEW m \in Nat, n <= m
    PROVE  Within(n) \subseteq Within(m) /\ Within(n) \subseteq Url
<1> SUFFICES ASSUME NEW p \in Walk(n)
             PROVE  Ends(p[n]) \subseteq Within(m) /\ Ends(p[n]) \subseteq Url
  BY DEF Within
<1> DEFINE q == [i \in 0..m |-> IF i <= n THEN p[i] ELSE p[n]]
<1>1. /\ p \in [0..n -> Url]
      /\ p[0] = Home
      /\ \A i \in 1..n : p[i] = p[i - 1] \/ \E u \in Ends(p[i - 1]) : p[i] \in Links[u]
      /\ Ends(p[n]) \subseteq Url
  BY WalkFact DEF Ends
<1>2. q \in [0..m -> Url] /\ q[0] = Home /\ q[m] = p[n]
  BY <1>1
<1>3. ASSUME NEW i \in 1..m
      PROVE  q[i] = q[i - 1] \/ \E u \in Ends(q[i - 1]) : q[i] \in Links[u]
  <2>0. i \in 0..m /\ i - 1 \in 0..m
    OBVIOUS
  <2>1. CASE i <= n
    <3>1. q[i] = p[i] /\ q[i - 1] = p[i - 1] /\ i \in 1..n
      BY <2>0, <2>1
    <3> QED  BY <3>1, <1>1
  <2>2. CASE ~(i <= n)
    <3>1. q[i] = p[n] /\ q[i - 1] = p[n]
      BY <2>0, <2>2
    <3> QED  BY <3>1
  <2> QED  BY <2>1, <2>2
<1> HIDE DEF q
<1>4. q \in Walk(m)
  BY <1>2, <1>3 DEF Walk
<1> QED  BY <1>1, <1>2, <1>4 DEF Within

\* A link leads one further ...
LEMMA WithinLink ==
    ASSUME NEW n \in Nat, NEW u \in Within(n), NEW v \in Links[u]
    PROVE  v \in Within(n + 1)
<1>1. PICK p \in Walk(n) : u \in Ends(p[n])
  BY DEF Within
<1>2. /\ p \in [0..n -> Url]
      /\ p[0] = Home
      /\ \A i \in 1..n : p[i] = p[i - 1] \/ \E w \in Ends(p[i - 1]) : p[i] \in Links[w]
      /\ u \in Url
  BY <1>1, WalkFact DEF Ends
<1>3. v \in Url
  BY <1>2, SiteCrawlAssumption
<1> DEFINE q == [i \in 0..(n + 1) |-> IF i <= n THEN p[i] ELSE v]
<1>4. q \in [0..(n + 1) -> Url] /\ q[0] = Home /\ q[n + 1] = v
  BY <1>2, <1>3
<1>5. ASSUME NEW i \in 1..(n + 1)
      PROVE  q[i] = q[i - 1] \/ \E w \in Ends(q[i - 1]) : q[i] \in Links[w]
  <2>0. i \in 0..(n + 1) /\ i - 1 \in 0..n /\ q[i - 1] = p[i - 1]
    OBVIOUS
  <2>1. CASE i <= n
    <3>1. q[i] = p[i] /\ i \in 1..n
      BY <2>0, <2>1
    <3> QED  BY <2>0, <3>1, <1>2
  <2>2. CASE ~(i <= n)
    <3>1. i = n + 1 /\ q[i] = v /\ u \in Ends(q[i - 1])
      BY <2>0, <2>2, <1>1
    <3> QED  BY <3>1
  <2> QED  BY <2>1, <2>2
<1> HIDE DEF q
<1>6. q \in Walk(n + 1)
  BY <1>4, <1>5 DEF Walk
<1> QED  BY <1>4, <1>6 DEF Within, Ends

\* ... and a redirect no further.
LEMMA WithinEnds ==
    ASSUME NEW n \in Nat, NEW u \in Within(n)
    PROVE  Ends(u) \subseteq Within(n)
<1>1. PICK p \in Walk(n) : u \in Ends(p[n])
  BY DEF Within
<1>2. Ends(u) \subseteq Ends(p[n])
  BY <1>1, WalkFact, SiteCrawlAssumption DEF Ends
<1> QED  BY <1>2 DEF Within

\* The crawl starts with its home page.
LEMMA WithinStart == Home \in Within(0)
<1> DEFINE p == [i \in 0..0 |-> Home]
<1>1. p \in [0..0 -> Url] /\ p[0] = Home
  BY SiteCrawlAssumption
<1>2. p \in Walk(0)
  BY <1>1 DEF Walk
<1> QED  BY <1>1, <1>2 DEF Within, Ends

\* What is reached is reached in later rounds too, is a start page of the next
\* round at most, and is within the reach of the crawl.
LEMMA ReachedFact ==
    ASSUME TypeOK, NEW v, NEW d \in 1..MaxDepth, Reached(v, d), NEW u \in Ends(v)
    PROVE  u \in Within((round + 1) * W) /\ u \in Reach
<1>1. PICK k \in 0..(Rounds - 1) : k <= round /\ v \in Within(k * W + (d - 1))
  BY DEF Reached
<1>2. round \in Nat /\ k \in Nat /\ Rounds \in Nat /\ k + 1 <= Rounds /\ k + 1 <= round + 1
      /\ round + 1 \in Nat /\ k + 1 \in Nat
  BY <1>1, SiteCrawlAssumption DEF TypeOK
<1>3. k * W + (d - 1) \in Nat /\ k * W + (d - 1) <= (k + 1) * W
  <2>1. d - 1 \in Nat /\ d - 1 <= W
    BY SiteCrawlAssumption DEF W
  <2>2. k * W \in Nat /\ W \in Nat /\ (k + 1) * W = k * W + W
    BY <1>2, LinkNumbers
  <2> QED  BY <2>1, <2>2
<1>4. /\ (k + 1) * W <= (round + 1) * W /\ (k + 1) * W <= Rounds * W
      /\ (round + 1) * W \in Nat /\ Rounds * W \in Nat /\ (k + 1) * W \in Nat
  BY <1>2, LinkNumbers
<1>5. /\ k * W + (d - 1) <= (round + 1) * W
      /\ k * W + (d - 1) <= Rounds * W
  BY <1>3, <1>4
<1>6. u \in Within((round + 1) * W) /\ u \in Within(Rounds * W)
  <2>1. u \in Within(k * W + (d - 1))
    BY <1>1, <1>3, WithinEnds
  <2> QED  BY <2>1, <1>3, <1>4, <1>5, WithinMore
<1> QED  BY <1>6 DEF Reach, W

\* A later round does not take back what was reached.
LEMMA ReachedLater ==
    ASSUME NEW u, NEW d, Reached(u, d), round \in Nat, round' \in Nat, round' >= round
    PROVE  Reached(u, d)'
<1>1. PICK k \in 0..(Rounds - 1) : k <= round /\ u \in Within(k * W + (d - 1))
  BY DEF Reached
<1>2. k <= round'
  BY <1>1, SiteCrawlAssumption
<1> QED  BY <1>1, <1>2 DEF Reached

\* A crawl starts within reach ...
LEMMA ReachStart == Init => ReachInv
<1> SUFFICES ASSUME Init  PROVE ReachInv
  OBVIOUS
<1>1. round * W = 0
  BY LinkNumbers DEF Init
<1>2. pending \subseteq Within(round * W)
  BY <1>1, WithinStart DEF Init
<1>3. ReachBound
  BY DEF Init, ReachBound
<1> QED  BY <1>2, <1>3 DEF Init, ReachInv

\* ... and no step leads out of it.
LEMMA ReachStep == SiteCrawlInv /\ ReachInv /\ [Next]_vars => ReachInv'
<1> SUFFICES ASSUME SiteCrawlInv, ReachInv, [Next]_vars  PROVE ReachInv'
  OBVIOUS
<1> USE DEF crawl, sending, shared
<1>0. TypeOK /\ round \in Nat /\ TypeOK'
  BY Step, SiteCrawlAssumption DEF SiteCrawlInv, TypeOK
<1>1. ASSUME RoundStart
      PROVE  ReachInv'
  <2>1. /\ round' = round /\ round < Rounds /\ round \in 0..(Rounds - 1)
        /\ queued' = queued \cup {[url |-> u, from |-> u, try |-> 0, depth |-> 1] : u \in pending}
        /\ UNCHANGED <<pending, flight, html, shared>>
    BY <1>0, <1>1, SiteCrawlAssumption DEF RoundStart, TypeOK
  <2>2. ASSUME NEW u \in pending
        PROVE  Reached(u, 1)'
    <3>1. u \in Within(round * W + (1 - 1))
      <4>1. round * W \in Nat
        BY <1>0, LinkNumbers
      <4>2. round * W + (1 - 1) = round * W
        BY <4>1
      <4> QED  BY <4>2 DEF ReachInv
    <3> QED  BY <1>0, <2>1, <3>1 DEF Reached
  <2>3. \A r \in queued \cup flight : Reached(r.url, r.depth)'
    BY <1>0, <2>1 DEF ReachInv, Reached
  <2>4. \A r \in queued' \cup flight' : Reached(r.url, r.depth)'
    BY <2>1, <2>2, <2>3
  <2> QED  BY <2>1, <2>4 DEF ReachInv, ReachBound, Reached
<1>2. ASSUME RoundEnd
      PROVE  ReachInv'
  <2>1. /\ round' = round + 1 /\ pending' = pendingRetry /\ pendingRetry' = {}
        /\ UNCHANGED <<queued, flight, html, attempts, got, lost>>
        /\ round' \in Nat
    BY <1>0, <1>2 DEF RoundEnd
  <2>2. \A u, d : Reached(u, d) => Reached(u, d)'
    BY <1>0, <2>1, ReachedLater
  <2> QED  BY <2>1, <2>2 DEF ReachInv, ReachBound
<1>3. ASSUME NEW r \in queued, OnRequest(r)
      PROVE  ReachInv'
  <2>1. /\ round' = round /\ queued' \subseteq queued
        /\ flight' = flight \cup {[url |-> r.url, try |-> tries[r.url] + 1, depth |-> r.depth]}
        /\ pendingRetry' \subseteq pendingRetry
        /\ UNCHANGED <<pending, html, attempts, got, lost>>
    BY <1>3 DEF OnRequest, Pass
  <2>2. \A q \in queued' \cup flight' : Reached(q.url, q.depth)
    BY <2>1 DEF ReachInv
  <2> QED  BY <2>1, <2>2 DEF ReachInv, ReachBound, Reached
<1>4. ASSUME NEW r \in queued, OnRequestAbort(r)
      PROVE  ReachInv'
  BY <1>4 DEF OnRequestAbort, ReachInv, ReachBound, Reached
<1>5. ASSUME NEW r \in flight, Send(r) \/ Answer(r)
      PROVE  ReachInv'
  BY <1>5 DEF Send, Answer, ReachInv, ReachBound, Reached
<1>6. ASSUME NEW r \in flight, NEW u \in Url, OnResponse(r, u) \/ OnErrorRetry(r, u) \/ OnError(r, u)
      PROVE  ReachInv'
  <2>0. u \in Ends(r.url)
    BY <1>6 DEF OnResponse, OnErrorRetry, OnError
  <2>1. /\ r.depth \in 1..MaxDepth /\ Reached(r.url, r.depth)
        /\ u \in Within((round + 1) * W) /\ u \in Reach
    BY <1>0, <2>0, ReachedFact DEF TypeOK, Fetch, ReachInv
  <2>2. /\ round' = round /\ flight' \subseteq flight
        /\ UNCHANGED <<pending, queued>>
        /\ pendingRetry' \subseteq pendingRetry \cup {u}
    BY <1>6 DEF OnResponse, OnErrorRetry, OnError
  <2>3. /\ got' = got \/ got' = [got EXCEPT ![u] = @ + 1]
        /\ lost' = lost \/ lost' = [lost EXCEPT ![u] = @ + 1]
        /\ attempts' = attempts \/ attempts' = [attempts EXCEPT ![u] = @ + 1]
    BY <1>6 DEF OnResponse, OnErrorRetry, OnError
  <2>4. html' = html \/ html' = html \cup {[of |-> r, link |-> v] : v \in Links[u]}
    BY <1>6 DEF OnResponse, OnErrorRetry, OnError
  <2>5. ReachBound'
    <3> SUFFICES ASSUME NEW w \in Url, w # u, got'[w] + lost'[w] + attempts'[w] > 0
                 PROVE  w \in Reach
      BY <2>1 DEF ReachBound
    <3>1. got'[w] = got[w] /\ lost'[w] = lost[w] /\ attempts'[w] = attempts[w]
      BY <1>0, <2>3 DEF TypeOK
    <3> QED  BY <3>1 DEF ReachInv, ReachBound
  <2>6. ASSUME NEW h \in html'
        PROVE  Reached(h.of.url, h.of.depth) /\ \E w \in Ends(h.of.url) : h.link \in Links[w]
    <3>1. CASE h \in html
      BY <3>1 DEF ReachInv
    <3>2. CASE h \in {[of |-> r, link |-> v] : v \in Links[u]}
      <4>1. h.of = r /\ h.link \in Links[u]
        BY <3>2
      <4> QED  BY <2>0, <2>1, <4>1
    <3> QED  BY <2>4, <3>1, <3>2
  <2>7. \A q \in queued' \cup flight' : Reached(q.url, q.depth)
    BY <2>2 DEF ReachInv
  <2>8. pendingRetry' \subseteq Within((round + 1) * W)
    BY <2>1, <2>2 DEF ReachInv
  <2> QED  BY <2>2, <2>5, <2>6, <2>7, <2>8 DEF ReachInv, Reached
<1>7. ASSUME NEW h \in html, OnHTML(h)
      PROVE  ReachInv'
  <2>1. /\ round' = round
        /\ UNCHANGED <<pending, flight, pendingRetry, got, lost, attempts>>
        /\ html' \subseteq html
    BY <1>7 DEF OnHTML
  <2>2. PICK u \in Ends(h.of.url) : h.link \in Links[u]
    BY DEF ReachInv
  <2>3. ASSUME h.of.depth # MaxDepth, NEW d, d = h.of.depth + 1
        PROVE  Reached(h.link, d)
    <3>1. PICK k \in 0..(Rounds - 1) : k <= round /\ h.of.url \in Within(k * W + (h.of.depth - 1))
      BY DEF Reached, ReachInv
    <3>2. k \in Nat /\ h.of.depth \in Nat \ {0}
      BY <1>0, <3>1, SiteCrawlAssumption DEF TypeOK, Fetch
    <3>3. /\ k * W + (h.of.depth - 1) \in Nat
          /\ k * W + (d - 1) = k * W + (h.of.depth - 1) + 1
      <4>1. k * W \in Nat
        BY <3>2, LinkNumbers
      <4>2. \A n, e \in Nat : e # 0 => n + (e - 1) \in Nat /\ n + ((e + 1) - 1) = n + (e - 1) + 1
        OBVIOUS
      <4> QED  BY <2>3, <3>2, <4>1, <4>2
    <3>4. u \in Within(k * W + (h.of.depth - 1))
      BY <2>2, <3>1, <3>3, WithinEnds
    <3>5. h.link \in Within(k * W + (h.of.depth - 1) + 1)
      BY <2>2, <3>3, <3>4, WithinLink
    <3>6. h.link \in Within(k * W + (d - 1))
      BY <3>3, <3>5
    <3> QED  BY <3>1, <3>6 DEF Reached
  <2>4. \A r \in queued' \cup flight' : Reached(r.url, r.depth)
    <3>1. \/ queued' = queued
          \/ h.of.depth # MaxDepth /\ queued' = queued \cup {Follow(h, h.of.depth + 1)}
      BY <1>7 DEF OnHTML
    <3>2. /\ Follow(h, h.of.depth + 1).url = h.link
          /\ Follow(h, h.of.depth + 1).depth = h.of.depth + 1
      BY DEF Follow
    <3> QED  BY <2>1, <2>3, <3>1, <3>2 DEF ReachInv
  <2> QED  BY <2>1, <2>4 DEF ReachInv, ReachBound, Reached
<1>8. CASE Return \/ StopStore \/ ContextEnds \/ UNCHANGED vars
  BY <1>8 DEF Return, StopStore, ContextEnds, vars, ReachInv, ReachBound, Reached
<1> QED
  BY <1>1, <1>2, <1>3, <1>4, <1>5, <1>6, <1>7, <1>8
  DEF Next, CrawlSite, CollectorWait, ContextDone, Collector

\* A crawl goes no further than its rounds and its depth allow, whatever is
\* retried, whichever collector is left behind and however the links run.
THEOREM Bounded == Spec => []ReachBound
<1>1. Init => SiteCrawlInv /\ ReachInv
  BY Start, ReachStart
<1>2. SiteCrawlInv /\ ReachInv /\ [Next]_vars => (SiteCrawlInv /\ ReachInv)'
  BY Step, ReachStep
<1>3. SiteCrawlInv /\ ReachInv => ReachBound
  BY DEF ReachInv
<1> QED  BY <1>1, <1>2, <1>3, PTL DEF Spec

=============================================================================
