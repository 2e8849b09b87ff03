-------------------------- MODULE CrawlSlots_proofs --------------------------
(***************************************************************************)
(* For any processes, goroutines, hosts, permits and failures: every slot  *)
(* is accounted for, and nobody gives back a permit of another.            *)
(***************************************************************************)
EXTENDS CrawlSlots, FiniteSetTheorems, TLAPS

\* The goroutines of a process that hold a place in its channel, and those
\* that have counted a strike that cools the host and have not cooled it yet.
Holders(p)   == {g \in Of(p) : hold[g] = Local}
Noters(p, h) == {g \in Of(p) : pc[g] = "note" /\ host[g] = h}

\* TypeOK with strikes that are any number.
Shape ==
    /\ permit \in [Slot -> Crawler \cup {NoCrawler, Orphan}]
    /\ chan \in [Proc -> 0..Permits]
    /\ pc \in [Crawler -> {"idle", "wait", "check", "fetch", "note", "release"}]
    /\ hold \in [Crawler -> 0..Nothing]
    /\ host \in [Crawler -> Host]
    /\ fails \in [Proc -> [Host -> Nat]]
    /\ cool \in [Proc -> [Host -> BOOLEAN]]
    /\ dbcool \in [Host -> BOOLEAN]
    /\ starts \in 0..MaxStarts
    /\ faults \in 0..MaxFaults
    /\ \A g \in Crawler : Crawling(g) <=> hold[g] # Nothing

\* Two parts of SlotsAccounted ...
PlacesCounted == \A p \in Proc : chan[p] = Cardinality(Holders(p))
PermitsHeld   == \A i \in Slot : permit[i] \in Crawler => hold[permit[i]] = i

\* ... and what bounds the strikes: each above the third has a goroutine that
\* is about to reset them.
StrikesCovered ==
    \A p \in Proc, h \in Host :
        fails[p][h] <= Strikes - 1 + Cardinality(Noters(p, h))

CrawlInv == Shape /\ PlacesCounted /\ PermitsHeld /\ StrikesCovered

-----------------------------------------------------------------------------
(* Counting goroutines.                                                    *)

\* Sets of goroutines are finite and no larger than that of all of them.
LEMMA CrawlersFinite ==
    ASSUME NEW S \in SUBSET Crawler
    PROVE  /\ IsFiniteSet(S)
           /\ Cardinality(S) \in 0..Cardinality(Crawler)
           /\ Cardinality(Crawler) \in Nat
<1>1. IsFiniteSet(Crawler)  BY CrawlAssumption
<1>2. IsFiniteSet(S) /\ Cardinality(S) <= Cardinality(Crawler)  BY <1>1, FS_Subset
<1>3. Cardinality(S) \in Nat /\ Cardinality(Crawler) \in Nat  BY <1>1, <1>2, FS_CardinalityType
<1> QED  BY <1>2, <1>3

\* One goroutine that joins a set makes it larger by one, and one that leaves
\* makes it smaller by one.
LEMMA OneJoins ==
    ASSUME NEW S \in SUBSET Crawler, NEW g \in Crawler, g \notin S
    PROVE  Cardinality(S \cup {g}) = Cardinality(S) + 1
BY CrawlersFinite, FS_AddElement

LEMMA OneLeaves ==
    ASSUME NEW S \in SUBSET Crawler, NEW g \in S
    PROVE  Cardinality(S \ {g}) = Cardinality(S) - 1
BY CrawlersFinite, FS_RemoveElement

\* A step of no goroutine that holds a place, or takes one, keeps the count.
LEMMA PlacesKept ==
    ASSUME PlacesCounted, UNCHANGED chan,
           \A g \in Crawler : (hold'[g] = Local) <=> (hold[g] = Local)
    PROVE  PlacesCounted'
<1>1. \A p \in Proc : Holders(p)' = Holders(p)  BY DEF Holders, Of
<1> QED  BY <1>1 DEF PlacesCounted

\* So does a step that changes neither the strikes nor who is about to note.
LEMMA StrikesKept ==
    ASSUME StrikesCovered, UNCHANGED fails,
           \A g \in Crawler : (pc'[g] = "note") <=> (pc[g] = "note"),
           \A g \in Crawler : pc[g] = "note" => host'[g] = host[g]
    PROVE  StrikesCovered'
<1>1. \A p \in Proc, h \in Host : Noters(p, h)' = Noters(p, h)  BY DEF Noters, Of
<1> QED  BY <1>1 DEF StrikesCovered

-----------------------------------------------------------------------------
(* Each step keeps the invariant.                                          *)

LEMMA AcquirePermitStep ==
    ASSUME CrawlInv, NEW g \in Crawler, AcquirePermit(g)
    PROVE  CrawlInv'
<1> USE CrawlAssumption DEF AcquirePermit, Start, FirstFree, Goto, Crawling, cools, Slot, Local, Nothing
<1> Shape /\ PlacesCounted /\ PermitsHeld /\ StrikesCovered  BY DEF CrawlInv
<1>0. PICK i \in Slot :
            /\ permit' = [permit EXCEPT ![i] = g]
            /\ hold' = [hold EXCEPT ![g] = i]
    OBVIOUS
<1>a. hold[g] = Nothing /\ i # Local /\ i # Nothing
    <2>1. ~Crawling(g) /\ hold[g] = Permits + 1  BY DEF Shape
    <2>2. i \in 0..(Permits - 1) /\ Permits \in Nat  OBVIOUS
    <2> QED  BY <2>1, <2>2
<1>1. Shape'
    <2>1. permit' \in [Slot -> Crawler \cup {NoCrawler, Orphan}]  BY <1>0 DEF Shape
    <2>2. hold' \in [Crawler -> 0..Nothing]  BY <1>0 DEF Shape
    <2>3. host' \in [Crawler -> Host] /\ starts' \in 0..MaxStarts  BY DEF Shape
    <2>4. \A f \in Crawler : Crawling(f)' <=> hold'[f] # Nothing  BY <1>0, <1>a DEF Shape
    <2> QED  BY <2>1, <2>2, <2>3, <2>4 DEF Shape
<1>2. PlacesCounted'
    <2>1. \A f \in Crawler : (hold'[f] = Local) <=> (hold[f] = Local)
        BY <1>0, <1>a DEF Shape
    <2> QED  BY <2>1, PlacesKept
<1>3. PermitsHeld'
    <2>1. \A k \in Slot : permit[k] # g  BY <1>a DEF PermitsHeld
    <2> QED  BY <1>0, <2>1 DEF PermitsHeld, Shape
<1>4. StrikesCovered'  BY StrikesKept DEF Shape
<1> QED  BY <1>1, <1>2, <1>3, <1>4 DEF CrawlInv

LEMMA AcquireFailsStep ==
    ASSUME CrawlInv, NEW g \in Crawler, AcquireDenied(g) \/ AcquireError(g)
    PROVE  CrawlInv'
<1> USE CrawlAssumption
        DEF AcquireDenied, AcquireError, Start, FirstFree, Fault, Goto, Crawling, cools, Slot, Local, Nothing
<1> Shape /\ PlacesCounted /\ PermitsHeld /\ StrikesCovered  BY DEF CrawlInv
<1>1. Shape'
    <2>1. permit' \in [Slot -> Crawler \cup {NoCrawler, Orphan}]  BY DEF Shape
    <2>2. /\ host' \in [Crawler -> Host]
          /\ starts' \in 0..MaxStarts
        <3>1. Start(g)  OBVIOUS
        <3>2. starts < MaxStarts /\ starts' = starts + 1  BY <3>1
        <3>3. PICK h \in Host : host' = [host EXCEPT ![g] = h]  BY <3>1
        <3>4. starts \in 0..MaxStarts /\ host \in [Crawler -> Host]  BY DEF Shape
        <3> QED  BY <3>2, <3>3, <3>4
    <2>3. faults' \in 0..MaxFaults  BY DEF Shape
    <2>4. pc' \in [Crawler -> {"idle", "wait", "check", "fetch", "note", "release"}]  BY DEF Shape
    <2>5. \A f \in Crawler : Crawling(f)' <=> hold'[f] # Nothing  BY DEF Shape
    <2> QED  BY <2>1, <2>2, <2>3, <2>4, <2>5 DEF Shape
<1>2. PlacesCounted'  BY PlacesKept DEF Shape
<1>3. PermitsHeld'  BY DEF PermitsHeld, Shape
<1>4. StrikesCovered'  BY StrikesKept DEF Shape
<1> QED  BY <1>1, <1>2, <1>3, <1>4 DEF CrawlInv

LEMMA AcquireLocalStep ==
    ASSUME CrawlInv, NEW g \in Crawler, AcquireLocal(g)
    PROVE  CrawlInv'
<1> USE CrawlAssumption DEF AcquireLocal, Goto, Crawling, cools, Slot, Local, Nothing
<1> Shape /\ PlacesCounted /\ PermitsHeld /\ StrikesCovered  BY DEF CrawlInv
<1> DEFINE q == ProcOf[g]
<1>0. q \in Proc /\ hold[g] = Nothing /\ g \in Of(q)  BY DEF Shape, Of
<1>1. Shape'  BY <1>0 DEF Shape
<1>2. PlacesCounted'
    <2>1. Holders(q)' = Holders(q) \cup {g} /\ g \notin Holders(q)
        BY <1>0 DEF Holders, Of, Shape
    <2>2. Cardinality(Holders(q)') = Cardinality(Holders(q)) + 1
        BY <2>1, OneJoins DEF Holders, Of
    <2>3. \A p \in Proc : p # q => Holders(p)' = Holders(p) /\ chan'[p] = chan[p]
        BY <1>0 DEF Holders, Of, Shape
    <2>4. chan'[q] = chan[q] + 1  BY <1>0 DEF Shape
    <2> QED  BY <1>0, <2>2, <2>3, <2>4 DEF PlacesCounted
<1>3. PermitsHeld'  BY <1>0 DEF PermitsHeld, Shape
<1>4. StrikesCovered'  BY StrikesKept DEF Shape
<1> QED  BY <1>1, <1>2, <1>3, <1>4 DEF CrawlInv

\* The steps between acquire and release that count no strike.
LEMMA PassStep ==
    ASSUME CrawlInv, NEW g \in Crawler, GiveUp(g) \/ Skip(g) \/ Pass(g) \/ Fetched(g)
    PROVE  CrawlInv'
<1> USE CrawlAssumption
        DEF GiveUp, Skip, Pass, Fetched, Fault, Goto, Crawling, cools, Slot, Local, Nothing
<1> Shape /\ PlacesCounted /\ PermitsHeld /\ StrikesCovered  BY DEF CrawlInv
<1>1. Shape'
    <2>1. faults' \in 0..MaxFaults  BY DEF Shape
    <2>2. pc' \in [Crawler -> {"idle", "wait", "check", "fetch", "note", "release"}]  BY DEF Shape
    <2>3. \A f \in Crawler : Crawling(f)' <=> hold'[f] # Nothing  BY DEF Shape
    <2> QED  BY <2>1, <2>2, <2>3 DEF Shape
<1>2. PlacesCounted'  BY PlacesKept DEF Shape
<1>3. PermitsHeld'  BY DEF PermitsHeld, Shape
<1>4. StrikesCovered'  BY StrikesKept DEF Shape
<1> QED  BY <1>1, <1>2, <1>3, <1>4 DEF CrawlInv

LEMMA FetchFailedStep ==
    ASSUME CrawlInv, NEW g \in Crawler, FetchFailed(g)
    PROVE  CrawlInv'
<1> USE CrawlAssumption DEF FetchFailed, Goto, Crawling, cools, Slot, Local, Nothing
<1> Shape /\ PlacesCounted /\ PermitsHeld /\ StrikesCovered  BY DEF CrawlInv
<1> DEFINE q == ProcOf[g]
           k == host[g]
           n == fails[q][k] + 1
<1>0. q \in Proc /\ k \in Host /\ g \in Of(q) /\ n \in Nat  BY DEF Shape, Of
<1>1. Shape'
    <2>1. pc' \in [Crawler -> {"idle", "wait", "check", "fetch", "note", "release"}]
        BY DEF Shape
    <2>2. fails' \in [Proc -> [Host -> Nat]]  BY <1>0 DEF Shape
    <2>3. \A f \in Crawler : Crawling(f)' <=> hold'[f] # Nothing  BY DEF Shape
    <2> QED  BY <2>1, <2>2, <2>3 DEF Shape
<1>2. PlacesCounted'  BY PlacesKept DEF Shape
<1>3. PermitsHeld'  BY DEF PermitsHeld, Shape
<1>4. StrikesCovered'
    <2> SUFFICES ASSUME NEW p \in Proc, NEW h \in Host
                 PROVE  fails'[p][h] <= Strikes - 1 + Cardinality(Noters(p, h)')
        BY DEF StrikesCovered
    <2>0. fails[p][h] <= Strikes - 1 + Cardinality(Noters(p, h))  BY DEF StrikesCovered
    <2>1. fails[p][h] \in Nat  BY DEF Shape
    <2>2. Cardinality(Noters(p, h)) \in Nat /\ Cardinality(Noters(p, h)') \in Nat
        <3>1. Noters(p, h) \in SUBSET Crawler /\ Noters(p, h)' \in SUBSET Crawler
            BY DEF Noters, Of
        <3> QED  BY <3>1, CrawlersFinite
    <2>3. CASE ~(p = q /\ h = k)
        <3>1. fails'[p][h] = fails[p][h]  BY <2>3 DEF Shape
        <3>2. Noters(p, h)' = Noters(p, h)  BY <2>3, <1>0 DEF Noters, Of, Shape
        <3> QED  BY <2>0, <3>1, <3>2
    <2>4. CASE p = q /\ h = k /\ n < Strikes
        <3>1. fails'[p][h] = n  BY <2>4, <1>0 DEF Shape
        <3> QED  BY <2>2, <2>4, <3>1, <1>0 DEF Strikes
    <2>5. CASE p = q /\ h = k /\ ~(n < Strikes)
        <3>1. fails'[p][h] = fails[p][h] + 1  BY <2>5, <1>0 DEF Shape
        <3>2. Noters(p, h)' = Noters(p, h) \cup {g} /\ g \notin Noters(p, h)
            BY <2>5, <1>0 DEF Noters, Of, Shape
        <3>3. Cardinality(Noters(p, h)') = Cardinality(Noters(p, h)) + 1
            BY <3>2, OneJoins DEF Noters, Of
        <3> QED  BY <2>0, <2>1, <2>2, <3>1, <3>3 DEF Strikes
    <2> QED  BY <2>3, <2>4, <2>5
<1> QED  BY <1>1, <1>2, <1>3, <1>4 DEF CrawlInv

LEMMA CoolDownStep ==
    ASSUME CrawlInv, NEW g \in Crawler, CoolDown(g)
    PROVE  CrawlInv'
<1> USE CrawlAssumption DEF CoolDown, Fault, Goto, Crawling, cools, Slot, Local, Nothing
<1> Shape /\ PlacesCounted /\ PermitsHeld /\ StrikesCovered  BY DEF CrawlInv
<1> DEFINE q == ProcOf[g]
           k == host[g]
<1>0. q \in Proc /\ k \in Host /\ g \in Of(q)  BY DEF Shape, Of
<1>1. Shape'
    <2>1. fails' \in [Proc -> [Host -> Nat]]  BY <1>0 DEF Shape
    <2>2. cool' \in [Proc -> [Host -> BOOLEAN]]  BY <1>0 DEF Shape
    <2>3. dbcool' \in [Host -> BOOLEAN]  BY <1>0 DEF Shape
    <2>6. faults' \in 0..MaxFaults  BY DEF Shape
    <2>4. pc' \in [Crawler -> {"idle", "wait", "check", "fetch", "note", "release"}]
        BY DEF Shape
    <2>5. \A f \in Crawler : Crawling(f)' <=> hold'[f] # Nothing  BY DEF Shape
    <2> QED  BY <2>1, <2>2, <2>3, <2>4, <2>5, <2>6 DEF Shape
<1>2. PlacesCounted'  BY PlacesKept DEF Shape
<1>3. PermitsHeld'  BY DEF PermitsHeld, Shape
<1>4. StrikesCovered'
    <2> SUFFICES ASSUME NEW p \in Proc, NEW h \in Host
                 PROVE  fails'[p][h] <= Strikes - 1 + Cardinality(Noters(p, h)')
        BY DEF StrikesCovered
    <2>1. CASE ~(p = q /\ h = k)
        <3>1. fails'[p][h] = fails[p][h]  BY <2>1 DEF Shape
        <3>2. Noters(p, h)' = Noters(p, h)  BY <2>1, <1>0 DEF Noters, Of, Shape
        <3> QED  BY <3>1, <3>2 DEF StrikesCovered
    <2>2. CASE p = q /\ h = k
        <3>1. fails'[p][h] = 0  BY <2>2, <1>0 DEF Shape
        <3>2. Noters(p, h)' \in SUBSET Crawler  BY DEF Noters, Of
        <3>3. Cardinality(Noters(p, h)') \in Nat  BY <3>2, CrawlersFinite
        <3> QED  BY <3>1, <3>3 DEF Strikes
    <2> QED  BY <2>1, <2>2
<1> QED  BY <1>1, <1>2, <1>3, <1>4 DEF CrawlInv

LEMMA ReleasePermitStep ==
    ASSUME CrawlInv, NEW g \in Crawler, ReleasePermit(g)
    PROVE  CrawlInv'
<1> USE CrawlAssumption DEF ReleasePermit, Fault, Goto, Crawling, cools, Slot, Local, Nothing
<1> Shape /\ PlacesCounted /\ PermitsHeld /\ StrikesCovered  BY DEF CrawlInv
<1>1. Shape'
    <2>1. permit' \in [Slot -> Crawler \cup {NoCrawler, Orphan}]  BY DEF Shape
    <2>2. hold' \in [Crawler -> 0..Nothing]  BY DEF Shape
    <2>3. faults' \in 0..MaxFaults  BY DEF Shape
    <2>4. pc' \in [Crawler -> {"idle", "wait", "check", "fetch", "note", "release"}]  BY DEF Shape
    <2>5. \A f \in Crawler : Crawling(f)' <=> hold'[f] # Nothing  BY DEF Shape
    <2> QED  BY <2>1, <2>2, <2>3, <2>4, <2>5 DEF Shape
<1>2. PlacesCounted'  BY PlacesKept DEF Shape
<1>3. PermitsHeld'  BY DEF PermitsHeld, Shape
<1>4. StrikesCovered'  BY StrikesKept DEF Shape
<1> QED  BY <1>1, <1>2, <1>3, <1>4 DEF CrawlInv

LEMMA ReleaseLocalStep ==
    ASSUME CrawlInv, NEW g \in Crawler, ReleaseLocal(g)
    PROVE  CrawlInv'
<1> USE CrawlAssumption DEF ReleaseLocal, Goto, Crawling, cools, Slot, Local, Nothing
<1> Shape /\ PlacesCounted /\ PermitsHeld /\ StrikesCovered  BY DEF CrawlInv
<1> DEFINE q == ProcOf[g]
<1>0. q \in Proc /\ g \in Holders(q)  BY DEF Shape, Of, Holders
<1>a. Holders(q) \in SUBSET Crawler  BY DEF Holders, Of
<1>b. Cardinality(Holders(q) \ {g}) = Cardinality(Holders(q)) - 1  BY <1>0, <1>a, OneLeaves
<1>c. Cardinality(Holders(q) \ {g}) \in Nat  BY <1>a, CrawlersFinite
<1>d. chan[q] = Cardinality(Holders(q)) /\ chan[q] \in 0..Permits  BY <1>0 DEF PlacesCounted, Shape
<1>1. Shape'
    <2>1. chan' \in [Proc -> 0..Permits]  BY <1>b, <1>c, <1>d DEF Shape
    <2> QED  BY <2>1 DEF Shape
<1>2. PlacesCounted'
    <2>1. Holders(q)' = Holders(q) \ {g}  BY <1>0 DEF Holders, Of, Shape
    <2>2. chan'[q] = chan[q] - 1  BY <1>0 DEF Shape
    <2>3. \A p \in Proc : p # q => Holders(p)' = Holders(p) /\ chan'[p] = chan[p]
        BY <1>0 DEF Holders, Of, Shape
    <2> QED  BY <1>0, <1>b, <1>d, <2>1, <2>2, <2>3 DEF PlacesCounted
<1>3. PermitsHeld'  BY DEF PermitsHeld, Shape
<1>4. StrikesCovered'  BY StrikesKept DEF Shape
<1> QED  BY <1>1, <1>2, <1>3, <1>4 DEF CrawlInv

\* Time touches no goroutine.
LEMMA TimeStep ==
    ASSUME CrawlInv, \/ \E i \in Slot : Expire(i)
           \/ \E h \in Host : WarmUpRow(h) \/ \E p \in Proc : WarmUp(p, h)
    PROVE  CrawlInv'
<1> USE CrawlAssumption DEF Expire, WarmUpRow, WarmUp, Crawling, cools, Slot, Local, Nothing
<1> Shape /\ PlacesCounted /\ PermitsHeld /\ StrikesCovered  BY DEF CrawlInv
<1>1. Shape'
    <2>1. permit' \in [Slot -> Crawler \cup {NoCrawler, Orphan}]  BY DEF Shape
    <2>2. cool' \in [Proc -> [Host -> BOOLEAN]]
        <3>1. \/ UNCHANGED cool
              \/ \E h \in Host, p \in Proc : cool' = [cool EXCEPT ![p][h] = FALSE]
            OBVIOUS
        <3>2. \A p \in Proc : cool[p] \in [Host -> BOOLEAN]  BY DEF Shape
        <3>3. \A p \in Proc, h \in Host : [cool[p] EXCEPT ![h] = FALSE] \in [Host -> BOOLEAN]
            BY <3>2
        <3>4. cool \in [Proc -> [Host -> BOOLEAN]]  BY DEF Shape
        <3>5. ASSUME NEW h \in Host, NEW p \in Proc, cool' = [cool EXCEPT ![p][h] = FALSE]
              PROVE  cool' \in [Proc -> [Host -> BOOLEAN]]
            BY <3>3, <3>4, <3>5
        <3> QED  BY <3>1, <3>4, <3>5
    <2>3. dbcool' \in [Host -> BOOLEAN]  BY DEF Shape
    <2>4. \A f \in Crawler : Crawling(f)' <=> hold'[f] # Nothing  BY DEF Shape
    <2> QED  BY <2>1, <2>2, <2>3, <2>4 DEF Shape
<1>2. PlacesCounted'  BY PlacesKept DEF Shape
<1>3. PermitsHeld'  BY DEF PermitsHeld, Shape
<1>4. StrikesCovered'  BY StrikesKept DEF Shape
<1> QED  BY <1>1, <1>2, <1>3, <1>4 DEF CrawlInv

LEMMA RestartStep ==
    ASSUME CrawlInv, NEW q \in Proc, Restart(q)
    PROVE  CrawlInv'
<1> USE CrawlAssumption DEF Restart, Fault, Crawling, cools, Slot, Local, Nothing
<1> Shape /\ PlacesCounted /\ PermitsHeld /\ StrikesCovered  BY DEF CrawlInv
<1>1. Shape'  BY DEF Shape, Of
<1>2. PlacesCounted'
    <2>1. Holders(q)' = {} /\ chan'[q] = 0  BY DEF Holders, Of, Shape
    <2>2. \A p \in Proc : p # q => Holders(p)' = Holders(p) /\ chan'[p] = chan[p]
        BY DEF Holders, Of, Shape
    <2>3. Cardinality({}) = 0  BY FS_EmptySet
    <2> QED  BY <2>1, <2>2, <2>3 DEF PlacesCounted
<1>3. PermitsHeld'  BY DEF PermitsHeld, Shape, Of
<1>4. StrikesCovered'
    <2> SUFFICES ASSUME NEW p \in Proc, NEW h \in Host
                 PROVE  fails'[p][h] <= Strikes - 1 + Cardinality(Noters(p, h)')
        BY DEF StrikesCovered
    <2>1. CASE p # q
        <3>1. fails'[p][h] = fails[p][h] /\ Noters(p, h)' = Noters(p, h)
            BY <2>1 DEF Noters, Of, Shape
        <3> QED  BY <3>1 DEF StrikesCovered
    <2>2. CASE p = q
        <3>1. fails'[p][h] = 0  BY <2>2 DEF Shape
        <3>2. Noters(p, h)' \in SUBSET Crawler  BY DEF Noters, Of
        <3>3. Cardinality(Noters(p, h)') \in Nat  BY <3>2, CrawlersFinite
        <3> QED  BY <3>1, <3>3 DEF Strikes
    <2> QED  BY <2>1, <2>2
<1> QED  BY <1>1, <1>2, <1>3, <1>4 DEF CrawlInv

-----------------------------------------------------------------------------

LEMMA CrawlInit == Init => CrawlInv
<1> SUFFICES ASSUME Init PROVE CrawlInv  OBVIOUS
<1> USE CrawlAssumption DEF Init, Slot, Local, Nothing
<1>1. Shape  BY DEF Shape, Crawling
<1>2. PlacesCounted
    <2>1. \A p \in Proc : Holders(p) = {}  BY DEF Holders, Of
    <2> QED  BY <2>1, FS_EmptySet DEF PlacesCounted
<1>3. PermitsHeld  BY DEF PermitsHeld
<1>4. StrikesCovered
    <2> SUFFICES ASSUME NEW p \in Proc, NEW h \in Host
                 PROVE  fails[p][h] <= Strikes - 1 + Cardinality(Noters(p, h))
        BY DEF StrikesCovered
    <2>1. Noters(p, h) \in SUBSET Crawler  BY DEF Noters, Of
    <2>2. Cardinality(Noters(p, h)) \in Nat  BY <2>1, CrawlersFinite
    <2> QED  BY <2>2 DEF Strikes
<1> QED  BY <1>1, <1>2, <1>3, <1>4 DEF CrawlInv

LEMMA CrawlStep == CrawlInv /\ [Next]_vars => CrawlInv'
<1> SUFFICES ASSUME CrawlInv, [Next]_vars PROVE CrawlInv'  OBVIOUS
<1>1. ASSUME NEW g \in Crawler, Acquire(g) PROVE CrawlInv'
    BY <1>1, AcquirePermitStep, AcquireFailsStep DEF Acquire
<1>2. ASSUME NEW g \in Crawler, AcquireLocal(g) PROVE CrawlInv'
    BY <1>2, AcquireLocalStep
<1>3. ASSUME NEW g \in Crawler, GiveUp(g) PROVE CrawlInv'
    BY <1>3, PassStep
<1>4. ASSUME NEW g \in Crawler, Crawl(g) PROVE CrawlInv'
    BY <1>4, PassStep, FetchFailedStep, CoolDownStep, ReleasePermitStep, ReleaseLocalStep DEF Crawl
<1>5. ASSUME \/ \E i \in Slot : Expire(i)
             \/ \E h \in Host : WarmUpRow(h) \/ \E p \in Proc : WarmUp(p, h)
      PROVE CrawlInv'
    BY <1>5, TimeStep
<1>6. ASSUME NEW p \in Proc, Restart(p) PROVE CrawlInv'
    BY <1>6, RestartStep
<1>7. CASE UNCHANGED vars
    <2> USE <1>7 DEF vars, cools
    <2>1. Shape'  BY DEF CrawlInv, Shape, Crawling
    <2>2. PlacesCounted'  BY PlacesKept DEF CrawlInv
    <2>3. PermitsHeld'  BY DEF CrawlInv, PermitsHeld
    <2>4. StrikesCovered'  BY StrikesKept DEF CrawlInv
    <2> QED  BY <2>1, <2>2, <2>3, <2>4 DEF CrawlInv
<1> QED  BY <1>1, <1>2, <1>3, <1>4, <1>5, <1>6, <1>7 DEF Next

-----------------------------------------------------------------------------
(* How many crawl at once.                                                 *)

\* No two crawls are on the same permit.
LEMMA PermitsBound == Cardinality(OnPermit) <= Permits
<1> DEFINE f == [g \in OnPermit |-> hold[g]]
<1>1. f \in [OnPermit -> Slot]  BY DEF OnPermit
<1>2. \A a, b \in OnPermit : f[a] = f[b] => a = b  BY DEF OnPermit
<1>3. f \in Injection(OnPermit, Slot)  BY <1>1, <1>2 DEF Injection, IsInjective
<1>4. Permits \in Nat /\ Permits # 0  BY CrawlAssumption
<1>5. IsFiniteSet(Slot) /\ Cardinality(Slot) = Permits
    <2>1. IsFiniteSet(0..(Permits - 1))
          /\ Cardinality(0..(Permits - 1)) = IF 0 > Permits - 1 THEN 0 ELSE Permits - 1 - 0 + 1
        BY <1>4, FS_Interval
    <2> QED  BY <1>4, <2>1 DEF Slot
<1>6. Cardinality(OnPermit) <= Cardinality(Slot)  BY <1>3, <1>5, FS_Injection
<1> QED  BY <1>5, <1>6

\* The cap on crawls that the permits and the channels keep.
LEMMA Cap == CrawlInv => Capped
<1>1. CrawlInv => Capped
    <2> SUFFICES ASSUME CrawlInv, NEW p \in Proc
                 PROVE  Cardinality({g \in Of(p) : Crawling(g) /\ g \notin Overdue}) <= 2 * Permits
        BY PermitsBound DEF Capped
    <2> DEFINE S == {g \in Of(p) : Crawling(g) /\ g \notin Overdue}
    <2> HIDE DEF S
    <2>0. Permits \in Nat  BY CrawlAssumption
    <2>1. S \subseteq OnPermit \cup Holders(p)
        <3> SUFFICES ASSUME NEW g \in S  PROVE g \in OnPermit \cup Holders(p)  OBVIOUS
        <3>1. g \in Of(p) /\ g \in Crawler /\ Crawling(g) /\ g \notin Overdue  BY DEF S, Of
        <3>2. hold[g] \in 0..Nothing /\ hold[g] # Nothing  BY <3>1 DEF CrawlInv, Shape
        <3>3. hold[g] \in Slot \/ hold[g] = Local  BY <2>0, <3>2 DEF Slot, Local, Nothing
        <3> QED  BY <3>1, <3>3 DEF OnPermit, Overdue, Holders
    <2>2. OnPermit \in SUBSET Crawler /\ Holders(p) \in SUBSET Crawler
        BY DEF OnPermit, Holders, Of
    <2>3. Cardinality(Holders(p)) <= Permits  BY DEF CrawlInv, Shape, PlacesCounted
    <2>4. /\ IsFiniteSet(OnPermit) /\ IsFiniteSet(Holders(p))
          /\ Cardinality(OnPermit) \in Nat /\ Cardinality(Holders(p)) \in Nat
        BY <2>2, CrawlersFinite
    <2>5. /\ IsFiniteSet(OnPermit \cup Holders(p))
          /\ Cardinality(OnPermit \cup Holders(p)) =
                Cardinality(OnPermit) + Cardinality(Holders(p))
                - Cardinality(OnPermit \cap Holders(p))
        BY <2>4, FS_Union
    <2>6. Cardinality(OnPermit \cap Holders(p)) \in Nat  BY <2>2, CrawlersFinite
    <2>7. Cardinality(S) <= Cardinality(OnPermit \cup Holders(p))  BY <2>1, <2>5, FS_Subset
    <2>8. Cardinality(S) \in Nat  BY <2>1, <2>2, CrawlersFinite
    <2>9. Cardinality(S) <= 2 * Permits
        BY <2>0, <2>3, <2>4, <2>5, <2>6, <2>7, <2>8, PermitsBound
    <2> QED  BY <2>9 DEF S
<1> QED  BY <1>1

-----------------------------------------------------------------------------
(* The theorems.                                                           *)

\* The inductive invariant: the channel counts its holders, a permit in a
\* goroutine's name is the one it holds, and strikes beyond the third have a
\* goroutine on its way to reset them.
THEOREM Invariant == Spec => []CrawlInv
<1> QED  BY CrawlInit, CrawlStep, PTL DEF Spec

\* Every reachable state is well typed: however many goroutines fail on a host
\* between the two locks of noteFailure, its strikes exceed three by no more
\* than their number.
THEOREM Typing == Spec => []TypeOK
<1>1. CrawlInv => TypeOK
    <2> SUFFICES ASSUME CrawlInv PROVE TypeOK  OBVIOUS
    <2> Shape /\ StrikesCovered  BY DEF CrawlInv
    <2>1. ASSUME NEW p \in Proc, NEW h \in Host
          PROVE  fails[p][h] \in 0..(Strikes - 1 + Cardinality(Crawler))
        <3>1. fails[p][h] \in Nat  BY DEF Shape
        <3>2. Noters(p, h) \in SUBSET Crawler  BY DEF Noters, Of
        <3>3. /\ Cardinality(Noters(p, h)) \in 0..Cardinality(Crawler)
              /\ Cardinality(Crawler) \in Nat
            BY <3>2, CrawlersFinite
        <3>4. fails[p][h] <= Strikes - 1 + Cardinality(Noters(p, h))  BY DEF StrikesCovered
        <3> QED  BY <3>1, <3>3, <3>4 DEF Strikes
    <2>2. fails \in [Proc -> [Host -> 0..(Strikes - 1 + Cardinality(Crawler))]]
        BY <2>1 DEF Shape
    <2> QED  BY <2>2 DEF Shape, TypeOK
<1> QED  BY <1>1, Invariant, PTL

\* Every place in a channel and every permit in a goroutine's name belongs to
\* a crawl that is under way, and a process runs at most twice as many crawls
\* as there are permits, not counting those that outlive theirs.
THEOREM Accounted == Spec => []SlotsAccounted
<1>1. CrawlInv => SlotsAccounted
    BY Cap DEF CrawlInv, PlacesCounted, PermitsHeld, SlotsAccounted, Holders
<1> QED  BY <1>1, Invariant, PTL

\* A permit leaves its holder by its release, its restart or its expiry only.
THEOREM OnlyHolders == Spec => PermitIsHolders
<1>1. CrawlInv /\ [Next]_vars =>
        [\A i \in Slot : permit[i] \in Crawler /\ permit'[i] # permit[i] =>
            \/ hold'[permit[i]] = Nothing
            \/ Expire(i)]_vars
    <2> SUFFICES ASSUME CrawlInv, Next,
                        NEW i \in Slot, permit[i] \in Crawler, permit'[i] # permit[i]
                 PROVE  hold'[permit[i]] = Nothing \/ Expire(i)
        OBVIOUS
    <2> /\ permit \in [Slot -> Crawler \cup {NoCrawler, Orphan}]
        /\ hold \in [Crawler -> 0..Nothing]
        /\ NoCrawler \notin Crawler
        BY CrawlAssumption DEF CrawlInv, Shape
    <2>1. ~\E g \in Crawler : Acquire(g)
        BY DEF Acquire, AcquirePermit, AcquireDenied, AcquireError, FirstFree
    <2>2. ~\E g \in Crawler : AcquireLocal(g) \/ GiveUp(g)
        BY DEF AcquireLocal, GiveUp
    <2>3. ASSUME NEW g \in Crawler, Crawl(g)
          PROVE  hold'[permit[i]] = Nothing
        <3>1. ReleasePermit(g)
            BY <2>3 DEF Crawl, Skip, Pass, Fetched, FetchFailed, CoolDown, ReleaseLocal
        <3>2. permit[i] = g  BY <3>1 DEF ReleasePermit
        <3> QED  BY <3>1, <3>2 DEF ReleasePermit
    <2>4. ASSUME NEW j \in Slot, Expire(j)
          PROVE  Expire(i)
        <3>1. i = j  BY <2>4 DEF Expire
        <3> QED  BY <2>4, <3>1
    <2>5. ~\E h \in Host : WarmUpRow(h) \/ \E p \in Proc : WarmUp(p, h)
        BY DEF WarmUpRow, WarmUp
    <2>6. ASSUME NEW p \in Proc, Restart(p)
          PROVE  hold'[permit[i]] = Nothing
        BY <2>6 DEF Restart
    <2> QED  BY <2>1, <2>2, <2>3, <2>4, <2>5, <2>6 DEF Next
<1> QED  BY <1>1, Invariant, PTL DEF Spec, PermitIsHolders
=============================================================================
