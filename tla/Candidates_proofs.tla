-------------------------- MODULE Candidates_proofs --------------------------
(***************************************************************************)
(* For any searches, candidates, companies and failures: a firm becomes    *)
(* one company, a kept candidate leaves a scored lead behind, and the      *)
(* counters a finished search shows are its last ones.                     *)
(***************************************************************************)
EXTENDS Candidates, FiniteSetTheorems, TLAPS

\* The types the proof needs.
Typed ==
    /\ company \in [Company -> [domain : Domain \cup {NoDomain}, canon : Domain \cup {NoDomain},
                                ident : Ident \cup {NoIdent}, there : BOOLEAN]]
    /\ leads \in [Company -> 0..1]
    /\ scored \in [Company -> [lead : Nat, rules : Nat]]
    /\ raw \in [Candidate -> RawStatus]
    /\ shown \in [Job -> [Counters -> Nat]]
    /\ ctr \in [Job -> [Counters -> Nat]]
    /\ jpc \in [Job -> {"stream", "drain", "final", "done", "dead"}]
    /\ pc \in [Candidate -> {"new", "find", "crawl", "lead", "rules", "lost"} \cup Returned]
    /\ path \in [Candidate -> {"none", "created", "matched"}]
    /\ co \in [Candidate -> Company \cup {NoCompany}]
    /\ snap \in [Candidate -> [Counters -> Nat]]
    /\ faults \in 0..MaxFaults

\* How far a candidate has come, and what it therefore knows.
Placed ==
    \A c \in Candidate :
        /\ co[c] # NoCompany => co[c] \in There
        /\ path[c] # "none" => co[c] # NoCompany
        /\ pc[c] \in {"new", "find", "crawl"} => path[c] = "none" /\ co[c] = NoCompany
        /\ pc[c] \in {"lead", "rules"} => path[c] # "none"
        /\ raw[c] = "converted" => pc[c] \in Returned \cup {"lost"} /\ co[c] # NoCompany

\* The three parts of OneCompanyPerDomain.
DomainsDiffer ==
    \A k, l \in There : company[k].domain = company[l].domain /\ k # l =>
        company[k].domain = NoDomain

OneCreator ==
    \A c, d \in Candidate :
        path[c] = "created" /\ path[d] = "created" /\ co[c] = co[d] => c = d

Creators(j) == {c \in Of(j) : path[c] = "created"}

CreatedCounted ==
    \A j \in Job : jpc[j] # "dead" => ctr[j]["created"] = Cardinality(Creators(j))

\* The lead is there when its score is written, and both scores are when
\* Process returns.
LeadKept ==
    \A c \in Candidate :
        /\ pc[c] = "rules" \/ raw[c] = "converted" => leads[co[c]] = 1
        /\ pc[c] = "rules" /\ faults = 0 => scored[co[c]].lead > 0
        /\ pc[c] \in Returned /\ co[c] # NoCompany /\ faults = 0 =>
              leads[co[c]] = 1 /\ scored[co[c]].lead > 0 /\ scored[co[c]].rules > 0

\* Run flushes for the last time when no goroutine is left to overtake it.
FlushedLast ==
    \A j \in Job :
        /\ jpc[j] \in {"final", "done"} => \A c \in Of(j) : pc[c] \in {"new", "end"}
        /\ jpc[j] = "final" /\ shown[j] # ctr[j] => faults >= 1
        /\ jpc[j] = "done" /\ shown[j] # ctr[j] => faults >= 2

CandidateInv ==
    /\ Typed
    /\ Placed
    /\ DomainsDiffer
    /\ OneCreator
    /\ CreatedCounted
    /\ LeadKept
    /\ FlushedLast

-----------------------------------------------------------------------------
(* Parts of steps.                                                         *)

\* Count adds one to the counters it names, and touches no other search.
LEMMA Counted ==
    ASSUME Typed, NEW c \in Candidate, NEW which \in SUBSET Counters, Count(c, which)
    PROVE  /\ ctr' \in [Job -> [Counters -> Nat]]
           /\ \A j \in Job : j # JobOf[c] => ctr'[j] = ctr[j]
           /\ \A x \in Counters :
                 ctr'[JobOf[c]][x] = ctr[JobOf[c]][x] + (IF x \in which THEN 1 ELSE 0)
<1>1. JobOf[c] \in Job  BY CandidateAssumption
<1>2. ctr \in [Job -> [Counters -> Nat]]  BY DEF Typed
<1> DEFINE new == [x \in Counters |-> IF x \in which THEN ctr[JobOf[c]][x] + 1 ELSE ctr[JobOf[c]][x]]
<1>3. ctr' = [ctr EXCEPT ![JobOf[c]] = new]  BY DEF Count
<1>4. \A x \in Counters : ctr[JobOf[c]][x] \in Nat  BY <1>1, <1>2
<1>5. new \in [Counters -> Nat]  BY <1>4
<1>6. \A x \in Counters : new[x] = ctr[JobOf[c]][x] + (IF x \in which THEN 1 ELSE 0)  BY <1>4
<1> HIDE DEF new
<1> QED  BY <1>1, <1>2, <1>3, <1>5, <1>6

\* Nothing is created by counting something else, or nothing.
LEMMA CountsOthers ==
    ASSUME Typed, NEW c \in Candidate, NEW which \in SUBSET Counters, "created" \notin which,
           UNCHANGED ctr \/ Count(c, which)
    PROVE  /\ ctr' \in [Job -> [Counters -> Nat]]
           /\ \A j \in Job : j # JobOf[c] => ctr'[j] = ctr[j]
           /\ \A j \in Job : ctr'[j]["created"] = ctr[j]["created"]
<1>1. CASE UNCHANGED ctr  BY <1>1 DEF Typed
<1>2. CASE Count(c, which)
    <2>1. "created" \in Counters /\ JobOf[c] \in Job  BY CandidateAssumption DEF Counters
    <2>2. ctr[JobOf[c]]["created"] \in Nat  BY <2>1 DEF Typed
    <2>3. /\ ctr' \in [Job -> [Counters -> Nat]]
          /\ \A j \in Job : j # JobOf[c] => ctr'[j] = ctr[j]
          /\ ctr'[JobOf[c]]["created"] = ctr[JobOf[c]]["created"] + 0
        BY <1>2, <2>1, Counted
    <2> QED  BY <2>2, <2>3
<1> QED  BY <1>1, <1>2

\* The creators of a search are finitely many candidates.
LEMMA CreatorsFinite ==
    ASSUME NEW j \in Job
    PROVE  IsFiniteSet(Creators(j)) /\ Cardinality(Creators(j)) \in Nat
<1>1. Creators(j) \in SUBSET Candidate  BY DEF Creators, Of
<1>2. IsFiniteSet(Creators(j))  BY <1>1, CandidateAssumption, FS_Subset
<1> QED  BY <1>2, FS_CardinalityType

\* A step that creates nothing keeps the count of what is created.
LEMMA CreatedKept ==
    ASSUME CreatedCounted,
           \A j \in Job : jpc'[j] # "dead" =>
               jpc[j] # "dead" /\ ctr'[j]["created"] = ctr[j]["created"],
           \A c \in Candidate : (path'[c] = "created") <=> (path[c] = "created")
    PROVE  CreatedCounted'
<1>1. \A j \in Job : Creators(j)' = Creators(j)  BY DEF Creators, Of
<1> QED  BY <1>1 DEF CreatedCounted

\* A step of a goroutine that neither Run has waited for nor will be waited
\* for in vain leaves the last flush alone.
LEMMA FlushKept ==
    ASSUME FlushedLast, faults' >= faults, faults \in Nat, faults' \in Nat, UNCHANGED jpc,
           NEW c \in Candidate,
           pc[c] \notin {"new", "end"} \/ jpc[JobOf[c]] = "stream",
           \A d \in Candidate : d # c => pc'[d] = pc[d],
           \A j \in Job : j # JobOf[c] => ctr'[j] = ctr[j] /\ shown'[j] = shown[j]
    PROVE  FlushedLast'
<1>1. c \in Of(JobOf[c])  BY DEF Of
<1>2. JobOf[c] \in Job  BY CandidateAssumption
<1>3. jpc[JobOf[c]] \notin {"final", "done"}  BY <1>1, <1>2 DEF FlushedLast
<1>4. \A j \in Job : jpc[j] \in {"final", "done"} =>
        /\ \A d \in Of(j) : pc'[d] \in {"new", "end"}
        /\ ctr'[j] = ctr[j] /\ shown'[j] = shown[j]
    BY <1>3 DEF FlushedLast, Of
<1> QED  BY <1>4 DEF FlushedLast, Of

-----------------------------------------------------------------------------
(* The steps of Run.                                                       *)

LEMMA MainKeeps ==
    ASSUME CandidateInv, NEW j \in Job, StreamEnds(j) \/ RunFlush(j) \/ RunFinish(j)
    PROVE  CandidateInv'
<1> USE CandidateAssumption DEF StreamEnds, RunFlush, RunFinish, Fault, tables, locals
<1> Typed /\ Placed /\ DomainsDiffer /\ OneCreator /\ CreatedCounted /\ LeadKept /\ FlushedLast
    BY DEF CandidateInv
<1>0. /\ faults \in 0..MaxFaults
      /\ faults' \in 0..MaxFaults
      /\ faults' >= faults
    BY DEF Typed
<1>1. Typed'
    <2>1. shown' \in [Job -> [Counters -> Nat]]  BY DEF Typed
    <2>2. jpc' \in [Job -> {"stream", "drain", "final", "done", "dead"}]  BY DEF Typed
    <2> QED  BY <1>0, <2>1, <2>2 DEF Typed
<1>2. Placed'  BY DEF Placed, There
<1>3. DomainsDiffer'  BY DEF DomainsDiffer, There
<1>4. OneCreator'  BY DEF OneCreator
<1>5. CreatedCounted'  BY CreatedKept DEF Typed
<1>6. LeadKept'  BY <1>0 DEF LeadKept
<1>7. FlushedLast'
    <2> SUFFICES ASSUME NEW i \in Job
                 PROVE  /\ jpc'[i] \in {"final", "done"} => \A c \in Of(i) : pc'[c] \in {"new", "end"}
                        /\ jpc'[i] = "final" /\ shown'[i] # ctr'[i] => faults' >= 1
                        /\ jpc'[i] = "done" /\ shown'[i] # ctr'[i] => faults' >= 2
        BY DEF FlushedLast, Of
    <2>1. CASE i # j
        <3>1. jpc'[i] = jpc[i] /\ shown'[i] = shown[i] /\ ctr'[i] = ctr[i]  BY <2>1 DEF Typed
        <3> QED  BY <1>0, <3>1 DEF FlushedLast
    <2>2. CASE i = j /\ StreamEnds(j)
        BY <2>2 DEF Typed
    <2>3. CASE i = j /\ RunFlush(j)
        <3>1. jpc'[j] = "final"  BY <2>3 DEF Typed
        <3>2. shown'[j] = ctr[j] \/ faults' = faults + 1  BY <2>3 DEF Typed
        <3> QED  BY <1>0, <2>3, <3>1, <3>2
    <2>4. CASE i = j /\ RunFinish(j)
        <3>1. jpc[j] = "final" /\ jpc'[j] = "done"  BY <2>4 DEF Typed
        <3>2. shown'[j] = ctr[j] \/ (faults' = faults + 1 /\ shown' = shown)  BY <2>4 DEF Typed
        <3>3. shown[j] # ctr[j] => faults >= 1  BY <3>1 DEF FlushedLast
        <3> QED  BY <1>0, <2>4, <3>1, <3>2, <3>3 DEF FlushedLast
    <2> QED  BY <2>1, <2>2, <2>3, <2>4
<1> QED  BY <1>1, <1>2, <1>3, <1>4, <1>5, <1>6, <1>7 DEF CandidateInv

LEMMA JobLostKeeps ==
    ASSUME CandidateInv, NEW j \in Job, JobLost(j)
    PROVE  CandidateInv'
<1> USE CandidateAssumption DEF JobLost, tables, locals
<1> Typed /\ Placed /\ DomainsDiffer /\ OneCreator /\ CreatedCounted /\ LeadKept /\ FlushedLast
    BY DEF CandidateInv
<1>0. /\ \A c \in Candidate : pc'[c] = pc[c] \/ pc'[c] = "lost"
      /\ \A i \in Job : i # j => jpc'[i] = jpc[i] /\ ctr'[i] = ctr[i]
      /\ \A i \in Job : i # j => \A c \in Of(i) : pc'[c] = pc[c]
      /\ jpc'[j] = "dead"
    BY DEF Typed, Of
<1>1. Typed'
    <2>1. Zero \in [Counters -> Nat]  BY DEF Zero
    <2>2. ctr' \in [Job -> [Counters -> Nat]]  BY <2>1 DEF Typed
    <2>3. snap' \in [Candidate -> [Counters -> Nat]]  BY <2>1 DEF Typed
    <2>4. pc' \in [Candidate -> {"new", "find", "crawl", "lead", "rules", "lost"} \cup Returned]
        BY DEF Typed
    <2>5. jpc' \in [Job -> {"stream", "drain", "final", "done", "dead"}]  BY DEF Typed
    <2> QED  BY <2>2, <2>3, <2>4, <2>5 DEF Typed
<1>2. Placed'  BY <1>0 DEF Placed, There, Returned
<1>3. DomainsDiffer'  BY DEF DomainsDiffer, There
<1>4. OneCreator'  BY DEF OneCreator
<1>5. CreatedCounted'  BY <1>0, CreatedKept
<1>6. LeadKept'  BY <1>0 DEF LeadKept, Returned
<1>7. FlushedLast'  BY <1>0 DEF FlushedLast, Of
<1> QED  BY <1>1, <1>2, <1>3, <1>4, <1>5, <1>6, <1>7 DEF CandidateInv

-----------------------------------------------------------------------------
(* The steps of Process and what follows it.                               *)

\* Steps that find, make and score no company: they move the goroutine, count
\* and fail.
LEMMA BareKeeps ==
    ASSUME CandidateInv, NEW c \in Candidate,
           \/ Begin(c) \/ BeginError(c) \/ Seen(c) \/ EarlyFilter(c) \/ FindNone(c)
           \/ CrawlFailed(c) \/ LateFilter(c) \/ LoadCounters(c) \/ WriteCounters(c)
    PROVE  CandidateInv'
<1> USE CandidateAssumption DEF tables, locals, Goto, Return, Dispatched
<1> Typed /\ Placed /\ DomainsDiffer /\ OneCreator /\ CreatedCounted /\ LeadKept /\ FlushedLast
    BY DEF CandidateInv
<1> DEFINE Step == \/ Begin(c) \/ BeginError(c) \/ Seen(c) \/ EarlyFilter(c) \/ FindNone(c)
                   \/ CrawlFailed(c) \/ LateFilter(c) \/ LoadCounters(c) \/ WriteCounters(c)
<1>a. /\ UNCHANGED <<company, leads, scored, path, co, jpc>>
    BY DEF Begin, BeginError, Seen, EarlyFilter, FindNone, CrawlFailed, LateFilter,
           LoadCounters, WriteCounters
<1>b. faults' \in 0..MaxFaults /\ faults \in 0..MaxFaults /\ faults' >= faults
    <2>1. faults \in 0..MaxFaults /\ (UNCHANGED faults \/ Fault)
        BY DEF Typed, Begin, BeginError, Seen, EarlyFilter, FindNone, CrawlFailed, LateFilter,
               LoadCounters, WriteCounters
    <2> QED  BY <2>1 DEF Fault
<1>c. /\ ctr' \in [Job -> [Counters -> Nat]]
      /\ \A j \in Job : j # JobOf[c] => ctr'[j] = ctr[j]
      /\ \A j \in Job : ctr'[j]["created"] = ctr[j]["created"]
    <2>1. \/ UNCHANGED ctr
          \/ \E which \in {{"found", "discovered"}, {"found", "failed"}, {"failed"}, {"filtered"}} :
                Count(c, which)
        BY DEF Begin, BeginError, Seen, EarlyFilter, FindNone, CrawlFailed, LateFilter,
               LoadCounters, WriteCounters, Fail, Filtered
    <2>2. \A which \in {{"found", "discovered"}, {"found", "failed"}, {"failed"}, {"filtered"}} :
            which \in SUBSET Counters /\ "created" \notin which
        BY DEF Counters
    <2>3. {"failed"} \in SUBSET Counters /\ "created" \notin {"failed"}  BY DEF Counters
    <2> QED  BY <2>1, <2>2, <2>3, CountsOthers
<1>d. /\ pc' = [pc EXCEPT ![c] = pc'[c]]
      /\ \/ pc[c] \in {"new", "find"} /\ pc'[c] \in {"find", "crawl"}
         \/ pc[c] \in {"new", "find", "crawl"} /\ pc'[c] = "flush"
         \/ pc[c] \in {"flush", "write"} /\ pc'[c] \in {"write", "end"}
      /\ pc[c] = "new" => jpc[JobOf[c]] = "stream"
    BY DEF Typed, Begin, BeginError, Seen, EarlyFilter, FindNone, CrawlFailed, LateFilter,
           LoadCounters, WriteCounters, Fail, Filtered
<1>e. /\ raw' \in [Candidate -> RawStatus]
      /\ \A d \in Candidate : raw'[d] = "converted" => raw[d] = "converted"
    BY DEF Typed, Begin, BeginError, Seen, EarlyFilter, FindNone, CrawlFailed, LateFilter,
           LoadCounters, WriteCounters, Fail, Filtered, SetRaw, RawStatus
<1>f. /\ shown' \in [Job -> [Counters -> Nat]]
      /\ \A j \in Job : j # JobOf[c] => shown'[j] = shown[j]
    BY DEF Typed, Begin, BeginError, Seen, EarlyFilter, FindNone, CrawlFailed, LateFilter,
           LoadCounters, WriteCounters
<1>g. snap' \in [Candidate -> [Counters -> Nat]]
    <2>1. Zero \in [Counters -> Nat] /\ ctr[JobOf[c]] \in [Counters -> Nat]  BY DEF Zero, Typed
    <2>2. \/ UNCHANGED snap
          \/ snap' = [snap EXCEPT ![c] = ctr[JobOf[c]]]
          \/ snap' = [snap EXCEPT ![c] = Zero]
        BY DEF Begin, BeginError, Seen, EarlyFilter, FindNone, CrawlFailed, LateFilter,
               LoadCounters, WriteCounters
    <2> QED  BY <2>1, <2>2 DEF Typed
<1>h. pc' \in [Candidate -> {"new", "find", "crawl", "lead", "rules", "lost"} \cup Returned]
    BY <1>d DEF Typed, Returned
<1>1. Typed'  BY <1>a, <1>b, <1>c, <1>e, <1>f, <1>g, <1>h DEF Typed
<1>i. \A d \in Candidate : d # c => pc'[d] = pc[d]  BY <1>d DEF Typed
<1>2. Placed'
    <2> SUFFICES ASSUME NEW d \in Candidate
                 PROVE  /\ co[d] # NoCompany => co[d] \in There
                        /\ path[d] # "none" => co[d] # NoCompany
                        /\ pc'[d] \in {"new", "find", "crawl"} => path[d] = "none" /\ co[d] = NoCompany
                        /\ pc'[d] \in {"lead", "rules"} => path[d] # "none"
                        /\ raw'[d] = "converted" => pc'[d] \in Returned \cup {"lost"} /\ co[d] # NoCompany
        BY <1>a DEF Placed, There
    <2>1. CASE d = c  BY <1>d, <1>e, <2>1 DEF Placed, Returned
    <2>2. CASE d # c  BY <1>i, <1>e, <2>2 DEF Placed
    <2> QED  BY <2>1, <2>2
<1>3. DomainsDiffer'  BY <1>a DEF DomainsDiffer, There
<1>4. OneCreator'  BY <1>a DEF OneCreator
<1>5. CreatedCounted'  BY <1>a, <1>c, CreatedKept
<1>6. LeadKept'
    <2> SUFFICES ASSUME NEW d \in Candidate
                 PROVE  /\ pc'[d] = "rules" \/ raw'[d] = "converted" => leads[co[d]] = 1
                        /\ pc'[d] = "rules" /\ faults' = 0 => scored[co[d]].lead > 0
                        /\ pc'[d] \in Returned /\ co[d] # NoCompany /\ faults' = 0 =>
                              leads[co[d]] = 1 /\ scored[co[d]].lead > 0 /\ scored[co[d]].rules > 0
        BY <1>a DEF LeadKept
    <2>1. faults' = 0 => faults = 0  BY <1>b
    <2>2. CASE d = c  BY <1>d, <1>e, <2>1, <2>2 DEF Placed, LeadKept, Returned
    <2>3. CASE d # c  BY <1>i, <1>e, <2>1, <2>3 DEF LeadKept
    <2> QED  BY <2>2, <2>3
<1>7. FlushedLast'
    <2>1. pc[c] \notin {"new", "end"} \/ jpc[JobOf[c]] = "stream"  BY <1>d
    <2> QED  BY <1>a, <1>b, <1>c, <1>f, <1>i, <2>1, FlushKept
<1> QED  BY <1>1, <1>2, <1>3, <1>4, <1>5, <1>6, <1>7 DEF CandidateInv

\* The candidate is linked to a company that is there.
LEMMA MatchedKeeps ==
    ASSUME CandidateInv, NEW c \in Candidate, LinkExisting(c) \/ InsertConflict(c)
    PROVE  CandidateInv'
<1> USE CandidateAssumption DEF tables, locals, Goto
<1> Typed /\ Placed /\ DomainsDiffer /\ OneCreator /\ CreatedCounted /\ LeadKept /\ FlushedLast
    BY DEF CandidateInv
<1>a. /\ UNCHANGED <<company, leads, scored, shown, ctr, jpc, snap, faults>>
      /\ pc[c] \in {"find", "crawl"}
      /\ \E k \in There : Matched(c, k)
    BY DEF LinkExisting, InsertConflict, Duplicates, SameDomain, SameIdent, Conflict, Matched
<1>b. PICK k \in There : Matched(c, k)  BY <1>a
<1>c. /\ co' = [co EXCEPT ![c] = k]
      /\ path' = [path EXCEPT ![c] = "matched"]
      /\ raw' = [raw EXCEPT ![c] = "matched"]
      /\ pc' = [pc EXCEPT ![c] = "lead"]
      /\ path[c] = "none"
    BY <1>a, <1>b DEF Matched, SetRaw, Placed
<1>d. k \in Company /\ k # NoCompany  BY DEF There
<1>1. Typed'
    <2>1. raw' \in [Candidate -> RawStatus]  BY <1>c DEF Typed, RawStatus
    <2>2. co' \in [Candidate -> Company \cup {NoCompany}]  BY <1>c, <1>d DEF Typed
    <2>3. path' \in [Candidate -> {"none", "created", "matched"}]  BY <1>c DEF Typed
    <2>4. pc' \in [Candidate -> {"new", "find", "crawl", "lead", "rules", "lost"} \cup Returned]
        BY <1>c DEF Typed
    <2> QED  BY <1>a, <2>1, <2>2, <2>3, <2>4 DEF Typed
<1>2. Placed'  BY <1>a, <1>b, <1>c, <1>d DEF Placed, There, Typed
<1>3. DomainsDiffer'  BY <1>a DEF DomainsDiffer, There
<1>4. OneCreator'  BY <1>c DEF OneCreator, Typed
<1>5. CreatedCounted'
    <2>1. \A d \in Candidate : (path'[d] = "created") <=> (path[d] = "created")  BY <1>c DEF Typed
    <2> QED  BY <1>a, <2>1, CreatedKept
<1>6. LeadKept'
    <2>1. \A d \in Candidate : d # c =>
            pc'[d] = pc[d] /\ raw'[d] = raw[d] /\ co'[d] = co[d]  BY <1>c DEF Typed
    <2>2. pc'[c] = "lead" /\ raw'[c] = "matched"  BY <1>c DEF Typed
    <2> QED  BY <1>a, <2>1, <2>2 DEF LeadKept, Returned
<1>7. FlushedLast'
    <2>1. \A d \in Candidate : d # c => pc'[d] = pc[d]  BY <1>c DEF Typed
    <2>2. faults \in Nat  BY DEF Typed
    <2> QED  BY <1>a, <2>1, <2>2, FlushKept
<1> QED  BY <1>1, <1>2, <1>3, <1>4, <1>5, <1>6, <1>7 DEF CandidateInv

\* What a new row of companies is.
LEMMA NewRow ==
    ASSUME Typed, NEW c \in Candidate, NEW k \in Company \ There, NEW row \in NewRows(c),
           company' = [company EXCEPT ![k] = row]
    PROVE  /\ company' \in [Company -> [domain : Domain \cup {NoDomain}, canon : Domain \cup {NoDomain},
                                        ident : Ident \cup {NoIdent}, there : BOOLEAN]]
           /\ There' = There \cup {k}
           /\ company'[k].domain = DomainOf[c]
           /\ \A l \in There : company'[l] = company[l]
<1>1. /\ row \in [domain : Domain \cup {NoDomain}, canon : Domain \cup {NoDomain},
                  ident : Ident \cup {NoIdent}, there : BOOLEAN]
      /\ row.there
      /\ row.domain = DomainOf[c]
    <2>1. CASE DomainOf[c] = NoDomain
        <3>1. row = RowOf(NoDomain, NoDomain, IdentOf[c])  BY <2>1 DEF NewRows
        <3>2. IdentOf[c] \in Ident \cup {NoIdent}  BY CandidateAssumption
        <3> QED  BY <2>1, <3>1, <3>2 DEF RowOf
    <2>2. CASE DomainOf[c] # NoDomain
        <3>1. PICK k1 \in Domain, i1 \in Ident \cup {NoIdent} : row = RowOf(DomainOf[c], k1, i1)
            BY <2>2, CandidateAssumption DEF NewRows
        <3>2. DomainOf[c] \in Domain  BY <2>2, CandidateAssumption
        <3> QED  BY <3>1, <3>2 DEF RowOf
    <2> QED  BY <2>1, <2>2
<1>2. company' \in [Company -> [domain : Domain \cup {NoDomain}, canon : Domain \cup {NoDomain},
                                ident : Ident \cup {NoIdent}, there : BOOLEAN]]
    BY <1>1 DEF Typed
<1>3. company'[k] = row /\ \A l \in Company : l # k => company'[l] = company[l]  BY DEF Typed
<1>4. There' = There \cup {k}  BY <1>1, <1>3 DEF There
<1> QED  BY <1>1, <1>2, <1>3, <1>4 DEF There

\* The unique index lets a row in only if no other has its domain.
LEMMA NewDomain ==
    ASSUME Typed, DomainsDiffer, NEW c \in Candidate, NEW k \in Company \ There,
           NEW row \in NewRows(c), company' = [company EXCEPT ![k] = row], Conflict(c) = {}
    PROVE  DomainsDiffer'
<1>1. \A l \in There : DomainOf[c] # NoDomain => company[l].domain # DomainOf[c]
    BY DEF Conflict
<1>2. /\ There' = There \cup {k}
      /\ company'[k].domain = DomainOf[c]
      /\ \A l \in There : company'[l] = company[l]
    BY NewRow
<1> QED  BY <1>1, <1>2 DEF DomainsDiffer

LEMMA InsertKeeps ==
    ASSUME CandidateInv, NEW c \in Candidate, InsertCompany(c)
    PROVE  CandidateInv'
<1> USE CandidateAssumption DEF InsertCompany, Goto
<1> Typed /\ Placed /\ DomainsDiffer /\ OneCreator /\ CreatedCounted /\ LeadKept /\ FlushedLast
    BY DEF CandidateInv
<1>a. PICK k \in Company \ There, row \in NewRows(c) :
        company' = [company EXCEPT ![k] = row] /\ co' = [co EXCEPT ![c] = k]
    OBVIOUS
<1>b. /\ path' = [path EXCEPT ![c] = "created"]
      /\ raw' = [raw EXCEPT ![c] = "enriched"]
      /\ pc' = [pc EXCEPT ![c] = "lead"]
      /\ pc[c] = "crawl" /\ path[c] = "none"
      /\ UNCHANGED <<leads, scored, shown, jpc, snap, faults>>
    BY DEF SetRaw, Placed
<1>c. /\ company' \in [Company -> [domain : Domain \cup {NoDomain}, canon : Domain \cup {NoDomain},
                                   ident : Ident \cup {NoIdent}, there : BOOLEAN]]
      /\ There' = There \cup {k}
    BY <1>a, NewRow
<1>d. /\ ctr' \in [Job -> [Counters -> Nat]]
      /\ \A j \in Job : j # JobOf[c] => ctr'[j] = ctr[j]
      /\ ctr'[JobOf[c]]["created"] = ctr[JobOf[c]]["created"] + 1
    <2>1. Count(c, {"created"}) /\ {"created"} \in SUBSET Counters  BY DEF Counters
    <2>2. "created" \in Counters  BY DEF Counters
    <2> QED  BY <2>1, <2>2, Counted
<1>1. Typed'
    <2>1. raw' \in [Candidate -> RawStatus]  BY <1>b DEF Typed, RawStatus
    <2>2. co' \in [Candidate -> Company \cup {NoCompany}]  BY <1>a DEF Typed
    <2>3. path' \in [Candidate -> {"none", "created", "matched"}]  BY <1>b DEF Typed
    <2>4. pc' \in [Candidate -> {"new", "find", "crawl", "lead", "rules", "lost"} \cup Returned]
        BY <1>b DEF Typed
    <2> QED  BY <1>b, <1>c, <1>d, <2>1, <2>2, <2>3, <2>4 DEF Typed
<1>e. \A d \in Candidate : d # c =>
        co'[d] = co[d] /\ path'[d] = path[d] /\ pc'[d] = pc[d] /\ raw'[d] = raw[d]
    BY <1>a, <1>b DEF Typed
<1>f. co'[c] = k /\ path'[c] = "created" /\ pc'[c] = "lead" /\ raw'[c] = "enriched"
    BY <1>a, <1>b DEF Typed
<1>2. Placed'
    <2> SUFFICES ASSUME NEW d \in Candidate
                 PROVE  /\ co'[d] # NoCompany => co'[d] \in There'
                        /\ path'[d] # "none" => co'[d] # NoCompany
                        /\ pc'[d] \in {"new", "find", "crawl"} => path'[d] = "none" /\ co'[d] = NoCompany
                        /\ pc'[d] \in {"lead", "rules"} => path'[d] # "none"
                        /\ raw'[d] = "converted" => pc'[d] \in Returned \cup {"lost"} /\ co'[d] # NoCompany
        BY DEF Placed, Returned
    <2>1. CASE d = c  BY <1>a, <1>c, <1>f, <2>1
    <2>2. CASE d # c  BY <1>c, <1>e, <2>2 DEF Placed
    <2> QED  BY <2>1, <2>2
<1>3. DomainsDiffer'  BY <1>a, NewDomain
<1>4. OneCreator'
    <2>1. \A d \in Candidate : path[d] = "created" => co[d] # k  BY <1>a DEF Placed
    <2> QED  BY <1>b, <1>e, <1>f, <2>1 DEF OneCreator
<1>5. CreatedCounted'
    <2>1. c \in Of(JobOf[c]) /\ JobOf[c] \in Job  BY DEF Of
    <2>2. Creators(JobOf[c])' = Creators(JobOf[c]) \cup {c} /\ c \notin Creators(JobOf[c])
        BY <1>b, <1>e, <1>f, <2>1 DEF Creators, Of
    <2>3. Cardinality(Creators(JobOf[c])') = Cardinality(Creators(JobOf[c])) + 1
        BY <2>1, <2>2, CreatorsFinite, FS_AddElement
    <2>4. \A j \in Job : j # JobOf[c] => Creators(j)' = Creators(j)
        BY <1>e DEF Creators, Of
    <2> QED  BY <1>b, <1>d, <2>1, <2>3, <2>4 DEF CreatedCounted
<1>6. LeadKept'  BY <1>b, <1>e, <1>f DEF LeadKept, Returned
<1>7. FlushedLast'
    <2>1. faults \in Nat  BY DEF Typed
    <2> QED  BY <1>b, <1>d, <1>e, <2>1, FlushKept
<1> QED  BY <1>1, <1>2, <1>3, <1>4, <1>5, <1>6, <1>7 DEF CandidateInv

LEMMA InsertErrorKeeps ==
    ASSUME CandidateInv, NEW c \in Candidate, InsertErrorLate(c)
    PROVE  CandidateInv'
<1> USE CandidateAssumption DEF InsertErrorLate, Fail, Goto
<1> Typed /\ Placed /\ DomainsDiffer /\ OneCreator /\ CreatedCounted /\ LeadKept /\ FlushedLast
    BY DEF CandidateInv
<1>a. PICK k \in Company \ There, row \in NewRows(c) :
        /\ company' = [company EXCEPT ![k] = row]
        /\ \/ Matched(c, k)
           \/ SetRaw(c, "failed") /\ Count(c, {"failed"}) /\ Return(c) /\ UNCHANGED <<path, co>>
    OBVIOUS
<1>b. /\ UNCHANGED <<leads, scored, shown, jpc, snap>>
      /\ pc[c] = "crawl" /\ path[c] = "none" /\ co[c] = NoCompany
    BY DEF Placed
<1>g. faults \in 0..MaxFaults /\ faults' \in 0..MaxFaults /\ faults' = faults + 1
    BY DEF Typed, Fault
<1>c. /\ company' \in [Company -> [domain : Domain \cup {NoDomain}, canon : Domain \cup {NoDomain},
                                   ident : Ident \cup {NoIdent}, there : BOOLEAN]]
      /\ There' = There \cup {k}
    BY <1>a, NewRow
<1>d. /\ ctr' \in [Job -> [Counters -> Nat]]
      /\ \A j \in Job : j # JobOf[c] => ctr'[j] = ctr[j]
      /\ \A j \in Job : ctr'[j]["created"] = ctr[j]["created"]
    <2>1. UNCHANGED ctr \/ Count(c, {"failed"})  BY <1>a DEF Matched
    <2>2. {"failed"} \in SUBSET Counters /\ "created" \notin {"failed"}  BY DEF Counters
    <2> QED  BY <2>1, <2>2, CountsOthers
<1>e. \A d \in Candidate : d # c =>
        co'[d] = co[d] /\ path'[d] = path[d] /\ pc'[d] = pc[d] /\ raw'[d] = raw[d]
    BY <1>a DEF Typed, Matched, SetRaw, Return
<1>f. /\ \/ co'[c] = k /\ path'[c] = "matched" /\ pc'[c] = "lead" /\ raw'[c] = "matched"
         \/ co'[c] = NoCompany /\ path'[c] = "none" /\ pc'[c] = "flush" /\ raw'[c] = "failed"
      /\ raw' = [raw EXCEPT ![c] = raw'[c]]
      /\ pc' = [pc EXCEPT ![c] = pc'[c]]
      /\ co' = [co EXCEPT ![c] = co'[c]]
      /\ path' = [path EXCEPT ![c] = path'[c]]
    BY <1>a, <1>b DEF Typed, Matched, SetRaw, Return
<1>1. Typed'
    <2>1. raw' \in [Candidate -> RawStatus]  BY <1>f DEF Typed, RawStatus
    <2>2. co' \in [Candidate -> Company \cup {NoCompany}]
        <3>1. co' = co \/ co' = [co EXCEPT ![c] = k]  BY <1>a DEF Matched
        <3>2. k \in Company  OBVIOUS
        <3>3. co \in [Candidate -> Company \cup {NoCompany}]  BY DEF Typed
        <3> QED  BY <3>1, <3>2, <3>3
    <2>3. path' \in [Candidate -> {"none", "created", "matched"}]  BY <1>f DEF Typed
    <2>4. pc' \in [Candidate -> {"new", "find", "crawl", "lead", "rules", "lost"} \cup Returned]
        <3>1. pc' = [pc EXCEPT ![c] = "lead"] \/ pc' = [pc EXCEPT ![c] = "flush"]
            BY <1>a DEF Matched, Return
        <3>2. "flush" \in Returned  BY DEF Returned
        <3> QED  BY <3>1, <3>2 DEF Typed
    <2> QED  BY <1>b, <1>c, <1>d, <1>g, <2>1, <2>2, <2>3, <2>4 DEF Typed
<1>2. Placed'
    <2> SUFFICES ASSUME NEW d \in Candidate
                 PROVE  /\ co'[d] # NoCompany => co'[d] \in There'
                        /\ path'[d] # "none" => co'[d] # NoCompany
                        /\ pc'[d] \in {"new", "find", "crawl"} => path'[d] = "none" /\ co'[d] = NoCompany
                        /\ pc'[d] \in {"lead", "rules"} => path'[d] # "none"
                        /\ raw'[d] = "converted" => pc'[d] \in Returned \cup {"lost"} /\ co'[d] # NoCompany
        BY DEF Placed, Returned
    <2>1. CASE d = c  BY <1>a, <1>c, <1>f, <2>1
    <2>2. CASE d # c  BY <1>c, <1>e, <2>2 DEF Placed
    <2> QED  BY <2>1, <2>2
<1>3. DomainsDiffer'  BY <1>a, NewDomain
<1>4. OneCreator'  BY <1>e, <1>f DEF OneCreator
<1>5. CreatedCounted'
    <2>1. \A d \in Candidate : (path'[d] = "created") <=> (path[d] = "created")
        BY <1>b, <1>e, <1>f
    <2> QED  BY <1>b, <1>d, <2>1, CreatedKept
<1>6. LeadKept'
    <2>1. faults' # 0  BY <1>g
    <2> QED  BY <1>b, <1>e, <1>f, <2>1 DEF LeadKept, Returned
<1>7. FlushedLast'  BY <1>b, <1>d, <1>e, <1>g, FlushKept
<1> QED  BY <1>1, <1>2, <1>3, <1>4, <1>5, <1>6, <1>7 DEF CandidateInv

\* A company has a lead from now on, and perhaps a score.
LEMMA EnsureLeadKeeps ==
    ASSUME CandidateInv, NEW c \in Candidate, EnsureLead(c) \/ EnsureLeadError(c)
    PROVE  CandidateInv'
<1> USE CandidateAssumption DEF locals, Goto, Return
<1> Typed /\ Placed /\ DomainsDiffer /\ OneCreator /\ CreatedCounted /\ LeadKept /\ FlushedLast
    BY DEF CandidateInv
<1>a. /\ UNCHANGED <<company, shown, jpc, path, co, snap>>
      /\ pc[c] = "lead" /\ path[c] # "none"
    BY DEF EnsureLead, EnsureLeadError, Placed
<1>b. co[c] \in There /\ co[c] \in Company  BY <1>a DEF Placed, There
<1>c. faults \in 0..MaxFaults /\ faults' \in 0..MaxFaults /\ faults' >= faults
    <2>1. faults \in 0..MaxFaults /\ (UNCHANGED faults \/ Fault)
        BY DEF Typed, EnsureLead, EnsureLeadError
    <2> QED  BY <2>1 DEF Fault
<1>d. /\ ctr' \in [Job -> [Counters -> Nat]]
      /\ \A j \in Job : j # JobOf[c] => ctr'[j] = ctr[j]
      /\ \A j \in Job : ctr'[j]["created"] = ctr[j]["created"]
    <2>1. UNCHANGED ctr \/ \E which \in {{"failed"}, {"matched"}} : Count(c, which)
        BY DEF EnsureLead, EnsureLeadError
    <2>2. \A which \in {{"failed"}, {"matched"}} :
            which \in SUBSET Counters /\ "created" \notin which
        BY DEF Counters
    <2>3. {"failed"} \in SUBSET Counters /\ "created" \notin {"failed"}  BY DEF Counters
    <2> QED  BY <2>1, <2>2, <2>3, CountsOthers
<1>e. /\ leads' \in [Company -> 0..1]
      /\ \A k \in Company : leads[k] = 1 => leads'[k] = 1
    <2>1. UNCHANGED leads \/ leads' = [leads EXCEPT ![co[c]] = 1]  BY DEF EnsureLead, EnsureLeadError
    <2>2. leads \in [Company -> 0..1] /\ 1 \in 0..1  BY DEF Typed
    <2>3. CASE UNCHANGED leads  BY <2>2, <2>3
    <2>4. CASE leads' = [leads EXCEPT ![co[c]] = 1]
        <3>1. leads' \in [Company -> 0..1]  BY <2>2, <2>4
        <3>2. \A k \in Company : leads'[k] = 1 \/ leads'[k] = leads[k]  BY <2>2, <2>4
        <3> QED  BY <3>1, <3>2
    <2> QED  BY <2>1, <2>3, <2>4
<1>f. /\ scored' \in [Company -> [lead : Nat, rules : Nat]]
      /\ \A k \in Company : scored[k].lead > 0 => scored'[k].lead > 0
      /\ \A k \in Company : scored[k].rules > 0 => scored'[k].rules > 0
      /\ EnsureLead(c) /\ faults' = 0 => scored'[co[c]].lead > 0
    <2>1. CASE UNCHANGED scored /\ (EnsureLeadError(c) \/ Fault)
        <3>1. EnsureLeadError(c) => Fault  BY DEF EnsureLeadError
        <3>2. faults' # 0  BY <2>1, <3>1, <1>c DEF Fault
        <3> QED  BY <2>1, <3>2 DEF Typed
    <2>2. CASE EnsureLead(c) /\ scored' = [scored EXCEPT ![co[c]].lead = ScoreOf[c]]
        BY <1>b, <2>2 DEF Typed
    <2> QED  BY <2>1, <2>2 DEF EnsureLead, EnsureLeadError
<1>g. /\ raw' \in [Candidate -> RawStatus]
      /\ \A d \in Candidate : raw'[d] = "converted" => raw[d] = "converted"
    BY DEF Typed, EnsureLead, EnsureLeadError, SetRaw, RawStatus
<1>h. /\ pc' \in [Candidate -> {"new", "find", "crawl", "lead", "rules", "lost"} \cup Returned]
      /\ \A d \in Candidate : d # c => pc'[d] = pc[d]
      /\ \/ EnsureLead(c) /\ pc'[c] = "rules"
         \/ EnsureLeadError(c) /\ pc'[c] = "flush"
    BY DEF Typed, EnsureLead, EnsureLeadError, Returned
<1>1. Typed'  BY <1>a, <1>c, <1>d, <1>e, <1>f, <1>g, <1>h DEF Typed
<1>2. Placed'
    <2> SUFFICES ASSUME NEW d \in Candidate
                 PROVE  /\ co[d] # NoCompany => co[d] \in There
                        /\ path[d] # "none" => co[d] # NoCompany
                        /\ pc'[d] \in {"new", "find", "crawl"} => path[d] = "none" /\ co[d] = NoCompany
                        /\ pc'[d] \in {"lead", "rules"} => path[d] # "none"
                        /\ raw'[d] = "converted" => pc'[d] \in Returned \cup {"lost"} /\ co[d] # NoCompany
        BY <1>a DEF Placed, There
    <2>1. CASE d = c  BY <1>a, <1>g, <1>h, <2>1 DEF Placed, Returned
    <2>2. CASE d # c  BY <1>g, <1>h, <2>2 DEF Placed
    <2> QED  BY <2>1, <2>2
<1>3. DomainsDiffer'  BY <1>a DEF DomainsDiffer, There
<1>4. OneCreator'  BY <1>a DEF OneCreator
<1>5. CreatedCounted'  BY <1>a, <1>d, CreatedKept
<1>6. LeadKept'
    <2> SUFFICES ASSUME NEW d \in Candidate
                 PROVE  /\ pc'[d] = "rules" \/ raw'[d] = "converted" => leads'[co[d]] = 1
                        /\ pc'[d] = "rules" /\ faults' = 0 => scored'[co[d]].lead > 0
                        /\ pc'[d] \in Returned /\ co[d] # NoCompany /\ faults' = 0 =>
                              leads'[co[d]] = 1 /\ scored'[co[d]].lead > 0 /\ scored'[co[d]].rules > 0
        BY <1>a DEF LeadKept
    <2>1. faults' = 0 => faults = 0  BY <1>c
    <2>2. CASE d = c
        <3>1. raw[c] # "converted"  BY <1>a DEF Placed, Returned
        <3>2. EnsureLead(c) => leads'[co[c]] = 1  BY <1>b DEF EnsureLead, Typed
        <3>3. EnsureLeadError(c) => faults' # 0  BY <1>c DEF EnsureLeadError, Fault
        <3> QED  BY <1>f, <1>g, <1>h, <2>2, <3>1, <3>2, <3>3 DEF Returned
    <2>3. CASE d # c
        <3>1. co[d] # NoCompany => co[d] \in Company  BY DEF Placed, There
        <3>2. pc[d] = "rules" \/ raw[d] = "converted" => co[d] # NoCompany  BY DEF Placed
        <3> QED  BY <1>e, <1>f, <1>g, <1>h, <2>1, <2>3, <3>1, <3>2 DEF LeadKept
    <2> QED  BY <2>2, <2>3
<1>7. FlushedLast'  BY <1>a, <1>c, <1>d, <1>h, FlushKept
<1> QED  BY <1>1, <1>2, <1>3, <1>4, <1>5, <1>6, <1>7 DEF CandidateInv

\* The last step of Process writes the breakdown of the score.
LEMMA ScoredKeeps ==
    ASSUME CandidateInv, NEW c \in Candidate, MatchedScored(c) \/ BelowMinimum(c) \/ Convert(c)
    PROVE  CandidateInv'
<1> USE CandidateAssumption DEF ScoreRules, Goto, Return
<1> Typed /\ Placed /\ DomainsDiffer /\ OneCreator /\ CreatedCounted /\ LeadKept /\ FlushedLast
    BY DEF CandidateInv
<1>a. /\ UNCHANGED <<company, leads, shown, jpc, path, co, snap, faults>>
      /\ pc[c] = "rules" /\ path[c] # "none"
      /\ scored' = [scored EXCEPT ![co[c]].rules = ScoreOf[c]]
      /\ pc' = [pc EXCEPT ![c] = "flush"]
    BY DEF MatchedScored, BelowMinimum, Convert, Placed
<1>b. co[c] \in There /\ co[c] \in Company /\ co[c] # NoCompany  BY <1>a DEF Placed, There
<1>d. /\ ctr' \in [Job -> [Counters -> Nat]]
      /\ \A j \in Job : j # JobOf[c] => ctr'[j] = ctr[j]
      /\ \A j \in Job : ctr'[j]["created"] = ctr[j]["created"]
    <2>1. UNCHANGED ctr \/ \E which \in {{"filtered"}, {"matched"}} : Count(c, which)
        BY DEF MatchedScored, BelowMinimum, Convert
    <2>2. \A which \in {{"filtered"}, {"matched"}} :
            which \in SUBSET Counters /\ "created" \notin which
        BY DEF Counters
    <2>3. {"failed"} \in SUBSET Counters /\ "created" \notin {"failed"}  BY DEF Counters
    <2> QED  BY <2>1, <2>2, <2>3, CountsOthers
<1>f. /\ scored' \in [Company -> [lead : Nat, rules : Nat]]
      /\ \A k \in Company : scored'[k].lead = scored[k].lead
      /\ \A k \in Company : scored[k].rules > 0 => scored'[k].rules > 0
      /\ scored'[co[c]].rules > 0
    <2>1. ScoreOf[c] \in Nat /\ ScoreOf[c] > 0  OBVIOUS
    <2>2. scored \in [Company -> [lead : Nat, rules : Nat]]  BY DEF Typed
    <2>3. scored' = [scored EXCEPT ![co[c]] = [scored[co[c]] EXCEPT !.rules = ScoreOf[c]]]  BY <1>a
    <2>4. [scored[co[c]] EXCEPT !.rules = ScoreOf[c]] = [lead |-> scored[co[c]].lead, rules |-> ScoreOf[c]]
        BY <1>b, <2>2
    <2>5. [lead |-> scored[co[c]].lead, rules |-> ScoreOf[c]] \in [lead : Nat, rules : Nat]
        BY <1>b, <2>1, <2>2
    <2> QED  BY <1>b, <2>1, <2>2, <2>3, <2>4, <2>5
<1>g. /\ raw' \in [Candidate -> RawStatus]
      /\ \A d \in Candidate : d # c => raw'[d] = raw[d]
    BY DEF Typed, MatchedScored, BelowMinimum, Convert, SetRaw, RawStatus
<1>h. /\ pc' \in [Candidate -> {"new", "find", "crawl", "lead", "rules", "lost"} \cup Returned]
      /\ \A d \in Candidate : d # c => pc'[d] = pc[d]
      /\ pc'[c] = "flush"
    BY <1>a DEF Typed, Returned
<1>1. Typed'  BY <1>a, <1>d, <1>f, <1>g, <1>h DEF Typed
<1>2. Placed'
    <2> SUFFICES ASSUME NEW d \in Candidate
                 PROVE  /\ co[d] # NoCompany => co[d] \in There
                        /\ path[d] # "none" => co[d] # NoCompany
                        /\ pc'[d] \in {"new", "find", "crawl"} => path[d] = "none" /\ co[d] = NoCompany
                        /\ pc'[d] \in {"lead", "rules"} => path[d] # "none"
                        /\ raw'[d] = "converted" => pc'[d] \in Returned \cup {"lost"} /\ co[d] # NoCompany
        BY <1>a DEF Placed, There
    <2>1. CASE d = c  BY <1>b, <1>h, <2>1 DEF Placed, Returned
    <2>2. CASE d # c  BY <1>g, <1>h, <2>2 DEF Placed
    <2> QED  BY <2>1, <2>2
<1>3. DomainsDiffer'  BY <1>a DEF DomainsDiffer, There
<1>4. OneCreator'  BY <1>a DEF OneCreator
<1>5. CreatedCounted'  BY <1>a, <1>d, CreatedKept
<1>6. LeadKept'
    <2> SUFFICES ASSUME NEW d \in Candidate
                 PROVE  /\ pc'[d] = "rules" \/ raw'[d] = "converted" => leads[co[d]] = 1
                        /\ pc'[d] = "rules" /\ faults = 0 => scored'[co[d]].lead > 0
                        /\ pc'[d] \in Returned /\ co[d] # NoCompany /\ faults = 0 =>
                              leads[co[d]] = 1 /\ scored'[co[d]].lead > 0 /\ scored'[co[d]].rules > 0
        BY <1>a DEF LeadKept
    <2>1. CASE d = c
        <3>1. leads[co[c]] = 1 /\ (faults = 0 => scored[co[c]].lead > 0)  BY <1>a DEF LeadKept
        <3> QED  BY <1>b, <1>f, <1>h, <2>1, <3>1
    <2>2. CASE d # c
        <3>1. co[d] # NoCompany => co[d] \in Company  BY DEF Placed, There
        <3>2. pc[d] = "rules" => co[d] # NoCompany  BY DEF Placed
        <3> QED  BY <1>f, <1>g, <1>h, <2>2, <3>1, <3>2 DEF LeadKept
    <2> QED  BY <2>1, <2>2
<1>7. FlushedLast'
    <2>1. faults \in Nat  BY DEF Typed
    <2> QED  BY <1>a, <1>d, <1>h, <2>1, FlushKept
<1> QED  BY <1>1, <1>2, <1>3, <1>4, <1>5, <1>6, <1>7 DEF CandidateInv

-----------------------------------------------------------------------------

LEMMA CandidateInit == Init => CandidateInv
<1> SUFFICES ASSUME Init PROVE CandidateInv  OBVIOUS
<1> USE CandidateAssumption DEF Init
<1>0. Zero \in [Counters -> Nat] /\ Zero["created"] = 0  BY DEF Zero, Counters
<1>1. Typed
    <2>1. NoRow \in [domain : Domain \cup {NoDomain}, canon : Domain \cup {NoDomain},
                     ident : Ident \cup {NoIdent}, there : BOOLEAN]
        BY DEF NoRow
    <2>2. company \in [Company -> [domain : Domain \cup {NoDomain}, canon : Domain \cup {NoDomain},
                                   ident : Ident \cup {NoIdent}, there : BOOLEAN]]
        BY <2>1
    <2>3. raw \in [Candidate -> RawStatus]  BY DEF RawStatus
    <2> QED  BY <1>0, <2>2, <2>3 DEF Typed
<1>2. Placed  BY DEF Placed
<1>3. There = {}  BY DEF There, NoRow
<1>4. DomainsDiffer  BY <1>3 DEF DomainsDiffer
<1>5. OneCreator  BY DEF OneCreator
<1>6. CreatedCounted
    <2>1. \A j \in Job : Creators(j) = {}  BY DEF Creators, Of
    <2> QED  BY <1>0, <2>1, FS_EmptySet DEF CreatedCounted
<1>7. LeadKept  BY DEF LeadKept, Returned
<1>8. FlushedLast  BY DEF FlushedLast
<1> QED  BY <1>1, <1>2, <1>4, <1>5, <1>6, <1>7, <1>8 DEF CandidateInv

LEMMA CandidateStep == CandidateInv /\ [Next]_vars => CandidateInv'
<1> SUFFICES ASSUME CandidateInv, [Next]_vars PROVE CandidateInv'  OBVIOUS
<1>1. ASSUME NEW j \in Job, MainStep(j) PROVE CandidateInv'
    BY <1>1, MainKeeps, JobLostKeeps DEF MainStep
<1>2. ASSUME NEW c \in Candidate, Process(c) \/ LoadCounters(c) \/ WriteCounters(c)
      PROVE  CandidateInv'
    BY <1>2, BareKeeps, MatchedKeeps, InsertKeeps, InsertErrorKeeps, EnsureLeadKeeps, ScoredKeeps
       DEF Process
<1>3. CASE UNCHANGED vars
    <2> USE <1>3 DEF vars, tables, locals, CandidateInv
    <2>1. Typed'  BY DEF Typed
    <2>2. Placed'  BY DEF Placed, There
    <2>3. DomainsDiffer'  BY DEF DomainsDiffer, There
    <2>4. OneCreator'  BY DEF OneCreator
    <2>5. CreatedCounted'  BY CreatedKept
    <2>6. LeadKept'  BY DEF LeadKept
    <2>7. FlushedLast'  BY DEF FlushedLast, Of
    <2> QED  BY <2>1, <2>2, <2>3, <2>4, <2>5, <2>6, <2>7
<1> QED  BY <1>1, <1>2, <1>3 DEF Next

-----------------------------------------------------------------------------
(* The counters and the raw rows.                                          *)

BusyPC == {"find", "crawl", "lead", "rules"}

\* What is left of a candidate in raw_leads, wherever its goroutine is.
RawKnown ==
    \A c \in Candidate :
        /\ pc[c] = "new" => raw[c] = "none"
        /\ pc[c] \in {"find", "crawl"} => raw[c] = "normalized"
        /\ pc[c] \in {"lead", "rules"} =>
              raw[c] = (IF path[c] = "matched" THEN "matched" ELSE "enriched")
        /\ pc[c] \in Returned => raw[c] \in {"none", "matched", "filtered", "failed", "converted"}

MatchedRows(j) == {c \in Of(j) : raw[c] = "matched" /\ pc[c] \in Returned}
Rows(j, st)    == {c \in Of(j) : raw[c] = st}
Stored(j)      == {c \in Of(j) : raw[c] # "none"}
Busy(j)        == {c \in Of(j) : pc[c] \in BusyPC}

\* A counter of a search that is alive is the number of its raw rows of a
\* kind, unless something failed; whatever failed, what was found is counted
\* as something else once at most, and not while it is on its way.
CountersMean ==
    \A j \in Job : jpc[j] # "dead" =>
        /\ ctr[j]["found"] >= ctr[j]["matched"] + ctr[j]["filtered"] + ctr[j]["failed"]
                                + Cardinality(Busy(j))
        /\ faults = 0 =>
              /\ ctr[j]["matched"] = Cardinality(MatchedRows(j))
              /\ ctr[j]["filtered"] = Cardinality(Rows(j, "filtered"))
              /\ ctr[j]["failed"] = Cardinality(Rows(j, "failed"))
              /\ ctr[j]["found"] = Cardinality(Stored(j))
              /\ ctr[j]["discovered"] = Cardinality(Stored(j))

\* Sets of candidates are finite.
LEMMA CandidatesFinite ==
    ASSUME NEW S \in SUBSET Candidate
    PROVE  IsFiniteSet(S) /\ Cardinality(S) \in Nat
<1>1. IsFiniteSet(S)  BY CandidateAssumption, FS_Subset
<1> QED  BY <1>1, FS_CardinalityType

\* Candidates of two kinds add up if no candidate is of both.
LEMMA Disjoint ==
    ASSUME NEW S \in SUBSET Candidate, NEW T \in SUBSET Candidate, S \cap T = {}
    PROVE  Cardinality(S \cup T) = Cardinality(S) + Cardinality(T)
<1>1. IsFiniteSet(S) /\ Cardinality(S) \in Nat  BY CandidatesFinite
<1>2. IsFiniteSet(T) /\ Cardinality(T) \in Nat  BY CandidatesFinite
<1>3. Cardinality(S \cup T) = Cardinality(S) + Cardinality(T) - Cardinality(S \cap T)
    BY <1>1, <1>2, FS_Union
<1>4. Cardinality(S \cap T) = 0  BY FS_EmptySet
<1> QED  BY <1>1, <1>2, <1>3, <1>4

One(b) == IF b THEN 1 ELSE 0

\* Two sets that agree but on one candidate differ by it in number.
LEMMA OneDiffers ==
    ASSUME NEW S \in SUBSET Candidate, NEW T \in SUBSET Candidate, NEW c \in Candidate,
           \A d \in Candidate : d # c => (d \in S <=> d \in T)
    PROVE  /\ Cardinality(S) + One(c \in T) = Cardinality(T) + One(c \in S)
           /\ Cardinality(S) \in Nat /\ Cardinality(T) \in Nat
<1> DEFINE R == S \ {c}
<1>1. IsFiniteSet(R) /\ Cardinality(R) \in Nat
    <2>1. R \in SUBSET Candidate  OBVIOUS
    <2> QED  BY <2>1, CandidatesFinite
<1>2. Cardinality(R \cup {c}) = Cardinality(R) + 1
    <2>1. c \notin R  OBVIOUS
    <2> HIDE DEF R
    <2> QED  BY <1>1, <2>1, FS_AddElement
<1>3. /\ c \in S => S = R \cup {c}
      /\ c \notin S => S = R
      /\ c \in T => T = R \cup {c}
      /\ c \notin T => T = R
    OBVIOUS
<1> HIDE DEF R
<1>4. Cardinality(S) = Cardinality(R) + One(c \in S)
    <2>1. CASE c \in S  BY <1>1, <1>2, <1>3, <2>1 DEF One
    <2>2. CASE c \notin S  BY <1>1, <1>3, <2>2 DEF One
    <2> QED  BY <2>1, <2>2
<1>5. Cardinality(T) = Cardinality(R) + One(c \in T)
    <2>1. CASE c \in T  BY <1>1, <1>2, <1>3, <2>1 DEF One
    <2>2. CASE c \notin T  BY <1>1, <1>3, <2>2 DEF One
    <2> QED  BY <2>1, <2>2
<1> QED  BY <1>1, <1>4, <1>5 DEF One

\* A step of one goroutine that counts what becomes of its row.
LEMMA CountsKept ==
    ASSUME Typed, CountersMean, UNCHANGED jpc,
           faults' \in Nat, faults' >= faults,
           NEW c \in Candidate, NEW which \in SUBSET Counters,
           \A d \in Candidate : d # c => raw'[d] = raw[d] /\ pc'[d] = pc[d],
           \A j \in Job : j # JobOf[c] => ctr'[j] = ctr[j],
           \A x \in Counters : ctr'[JobOf[c]][x] = ctr[JobOf[c]][x] + One(x \in which),
           One("found" \in which) + One(pc[c] \in BusyPC) >=
               One("matched" \in which) + One("filtered" \in which) + One("failed" \in which)
                 + One(pc'[c] \in BusyPC),
           faults' = 0 =>
               /\ One("matched" \in which) + One(raw[c] = "matched" /\ pc[c] \in Returned) =
                     One(raw'[c] = "matched" /\ pc'[c] \in Returned)
               /\ One("filtered" \in which) + One(raw[c] = "filtered") = One(raw'[c] = "filtered")
               /\ One("failed" \in which) + One(raw[c] = "failed") = One(raw'[c] = "failed")
               /\ One("found" \in which) + One(raw[c] # "none") = One(raw'[c] # "none")
               /\ One("discovered" \in which) + One(raw[c] # "none") = One(raw'[c] # "none")
    PROVE  CountersMean'
<1> DEFINE i == JobOf[c]
<1>0. i \in Job /\ c \in Of(i) /\ faults \in Nat  BY CandidateAssumption DEF Of, Typed
<1>1. ASSUME NEW j \in Job, j # i
      PROVE  /\ Busy(j)' = Busy(j) /\ MatchedRows(j)' = MatchedRows(j) /\ Stored(j)' = Stored(j)
             /\ \A st : Rows(j, st)' = Rows(j, st)
             /\ ctr'[j] = ctr[j]
    BY <1>1 DEF Busy, MatchedRows, Stored, Rows, Of, Returned
<1>2. /\ Cardinality(Busy(i)) + One(pc'[c] \in BusyPC) = Cardinality(Busy(i)') + One(pc[c] \in BusyPC)
      /\ Cardinality(Busy(i)) \in Nat /\ Cardinality(Busy(i)') \in Nat
    <2>1. Busy(i) \in SUBSET Candidate /\ Busy(i)' \in SUBSET Candidate  BY DEF Busy, Of
    <2>2. \A d \in Candidate : d # c => (d \in Busy(i) <=> d \in Busy(i)')  BY DEF Busy, Of
    <2>3. (c \in Busy(i) <=> pc[c] \in BusyPC) /\ (c \in Busy(i)' <=> pc'[c] \in BusyPC)
        BY <1>0 DEF Busy, Of
    <2> QED  BY <2>1, <2>2, <2>3, OneDiffers DEF One
<1>3. /\ Cardinality(MatchedRows(i)) + One(raw'[c] = "matched" /\ pc'[c] \in Returned) =
            Cardinality(MatchedRows(i)') + One(raw[c] = "matched" /\ pc[c] \in Returned)
      /\ Cardinality(MatchedRows(i)) \in Nat /\ Cardinality(MatchedRows(i)') \in Nat
    <2>1. MatchedRows(i) \in SUBSET Candidate /\ MatchedRows(i)' \in SUBSET Candidate
        BY DEF MatchedRows, Of
    <2>2. \A d \in Candidate : d # c => (d \in MatchedRows(i) <=> d \in MatchedRows(i)')
        BY DEF MatchedRows, Of, Returned
    <2>3. /\ c \in MatchedRows(i) <=> raw[c] = "matched" /\ pc[c] \in Returned
          /\ c \in MatchedRows(i)' <=> raw'[c] = "matched" /\ pc'[c] \in Returned
        BY <1>0 DEF MatchedRows, Of, Returned
    <2> QED  BY <2>1, <2>2, <2>3, OneDiffers DEF One
<1>4. ASSUME NEW st \in {"filtered", "failed"}
      PROVE  /\ Cardinality(Rows(i, st)) + One(raw'[c] = st) =
                   Cardinality(Rows(i, st)') + One(raw[c] = st)
             /\ Cardinality(Rows(i, st)) \in Nat /\ Cardinality(Rows(i, st)') \in Nat
    <2>1. Rows(i, st) \in SUBSET Candidate /\ Rows(i, st)' \in SUBSET Candidate  BY DEF Rows, Of
    <2>2. \A d \in Candidate : d # c => (d \in Rows(i, st) <=> d \in Rows(i, st)')  BY DEF Rows, Of
    <2>3. (c \in Rows(i, st) <=> raw[c] = st) /\ (c \in Rows(i, st)' <=> raw'[c] = st)
        BY <1>0 DEF Rows, Of
    <2> QED  BY <2>1, <2>2, <2>3, OneDiffers DEF One
<1>5. /\ Cardinality(Stored(i)) + One(raw'[c] # "none") = Cardinality(Stored(i)') + One(raw[c] # "none")
      /\ Cardinality(Stored(i)) \in Nat /\ Cardinality(Stored(i)') \in Nat
    <2>1. Stored(i) \in SUBSET Candidate /\ Stored(i)' \in SUBSET Candidate  BY DEF Stored, Of
    <2>2. \A d \in Candidate : d # c => (d \in Stored(i) <=> d \in Stored(i)')  BY DEF Stored, Of
    <2>3. (c \in Stored(i) <=> raw[c] # "none") /\ (c \in Stored(i)' <=> raw'[c] # "none")
        BY <1>0 DEF Stored, Of
    <2> QED  BY <2>1, <2>2, <2>3, OneDiffers DEF One
<1>6. /\ {"found", "discovered", "matched", "filtered", "failed"} \subseteq Counters
      /\ \A x \in Counters : ctr[i][x] \in Nat
      /\ \A x : One(x \in which) \in 0..1
    BY <1>0 DEF Counters, Typed, One
<1> SUFFICES ASSUME NEW j \in Job, jpc[j] # "dead"
             PROVE  /\ ctr'[j]["found"] >= ctr'[j]["matched"] + ctr'[j]["filtered"] + ctr'[j]["failed"]
                                              + Cardinality(Busy(j)')
                    /\ faults' = 0 =>
                          /\ ctr'[j]["matched"] = Cardinality(MatchedRows(j)')
                          /\ ctr'[j]["filtered"] = Cardinality(Rows(j, "filtered")')
                          /\ ctr'[j]["failed"] = Cardinality(Rows(j, "failed")')
                          /\ ctr'[j]["found"] = Cardinality(Stored(j)')
                          /\ ctr'[j]["discovered"] = Cardinality(Stored(j)')
    BY DEF CountersMean
<1>7. faults' = 0 => faults = 0  BY <1>0
<1>8. CASE j # i  BY <1>1, <1>7, <1>8 DEF CountersMean
<1>9. CASE j = i
    <2> DEFINE C(x) == ctr[i][x]
               D(x) == ctr'[i][x]
    <2>0. /\ C("found") >= C("matched") + C("filtered") + C("failed") + Cardinality(Busy(i))
          /\ faults = 0 =>
                /\ C("matched") = Cardinality(MatchedRows(i))
                /\ C("filtered") = Cardinality(Rows(i, "filtered"))
                /\ C("failed") = Cardinality(Rows(i, "failed"))
                /\ C("found") = Cardinality(Stored(i))
                /\ C("discovered") = Cardinality(Stored(i))
        BY <1>9 DEF CountersMean
    <2>1. /\ C("found") \in Nat /\ D("found") = C("found") + One("found" \in which)
          /\ C("discovered") \in Nat /\ D("discovered") = C("discovered") + One("discovered" \in which)
          /\ C("matched") \in Nat /\ D("matched") = C("matched") + One("matched" \in which)
          /\ C("filtered") \in Nat /\ D("filtered") = C("filtered") + One("filtered" \in which)
          /\ C("failed") \in Nat /\ D("failed") = C("failed") + One("failed" \in which)
        BY <1>6
    <2>2. \A b \in BOOLEAN : One(b) \in 0..1  BY DEF One
    <2> HIDE DEF C, D
    <2>3. D("found") >= D("matched") + D("filtered") + D("failed") + Cardinality(Busy(i)')
        BY <1>2, <1>6, <2>0, <2>1 DEF One
    <2>4. ASSUME faults' = 0
          PROVE  /\ D("matched") = Cardinality(MatchedRows(i)')
                 /\ D("filtered") = Cardinality(Rows(i, "filtered")')
                 /\ D("failed") = Cardinality(Rows(i, "failed")')
                 /\ D("found") = Cardinality(Stored(i)')
                 /\ D("discovered") = Cardinality(Stored(i)')
        <3>0. faults = 0  BY <1>7, <2>4
        <3>1. D("matched") = Cardinality(MatchedRows(i)')
            BY <1>3, <2>0, <2>1, <2>4, <3>0 DEF One
        <3>2. D("filtered") = Cardinality(Rows(i, "filtered")')
            BY <1>4, <2>0, <2>1, <2>4, <3>0 DEF One
        <3>3. D("failed") = Cardinality(Rows(i, "failed")')
            BY <1>4, <2>0, <2>1, <2>4, <3>0 DEF One
        <3>4. D("found") = Cardinality(Stored(i)') /\ D("discovered") = Cardinality(Stored(i)')
            BY <1>5, <2>0, <2>1, <2>4, <3>0 DEF One
        <3> QED  BY <3>1, <3>2, <3>3, <3>4
    <2> QED  BY <1>9, <2>3, <2>4 DEF D
<1> QED  BY <1>8, <1>9

\* A step of one goroutine that counts nothing.
LEMMA NothingCounted ==
    ASSUME Typed, CountersMean, UNCHANGED <<jpc, ctr>>,
           faults' \in Nat, faults' >= faults,
           NEW c \in Candidate,
           \A d \in Candidate : d # c => raw'[d] = raw[d] /\ pc'[d] = pc[d],
           pc'[c] \in BusyPC => pc[c] \in BusyPC,
           faults' = 0 =>
               /\ (raw[c] = "matched" /\ pc[c] \in Returned) <=> (raw'[c] = "matched" /\ pc'[c] \in Returned)
               /\ raw[c] = "filtered" <=> raw'[c] = "filtered"
               /\ raw[c] = "failed" <=> raw'[c] = "failed"
               /\ raw[c] # "none" <=> raw'[c] # "none"
    PROVE  CountersMean'
<1> DEFINE which == {}
<1>1. which \in SUBSET Counters  OBVIOUS
<1>2. \A x : One(x \in which) = 0  BY DEF One
<1>3. \A x \in Counters : ctr[JobOf[c]][x] \in Nat  BY CandidateAssumption DEF Typed
<1> HIDE DEF which
<1>4. \A x \in Counters : ctr'[JobOf[c]][x] = ctr[JobOf[c]][x] + One(x \in which)
    BY <1>2, <1>3
<1>5. One("found" \in which) + One(pc[c] \in BusyPC) >=
        One("matched" \in which) + One("filtered" \in which) + One("failed" \in which)
          + One(pc'[c] \in BusyPC)
    <2>1. One(pc[c] \in BusyPC) >= One(pc'[c] \in BusyPC)
          /\ One(pc[c] \in BusyPC) \in Nat /\ One(pc'[c] \in BusyPC) \in Nat
        BY DEF One
    <2> QED  BY <1>2, <2>1
<1>6. ASSUME faults' = 0
      PROVE  /\ One("matched" \in which) + One(raw[c] = "matched" /\ pc[c] \in Returned) =
                   One(raw'[c] = "matched" /\ pc'[c] \in Returned)
             /\ One("filtered" \in which) + One(raw[c] = "filtered") = One(raw'[c] = "filtered")
             /\ One("failed" \in which) + One(raw[c] = "failed") = One(raw'[c] = "failed")
             /\ One("found" \in which) + One(raw[c] # "none") = One(raw'[c] # "none")
             /\ One("discovered" \in which) + One(raw[c] # "none") = One(raw'[c] # "none")
    BY <1>2, <1>6 DEF One
<1> QED  BY <1>1, <1>4, <1>5, <1>6, CountsKept

\* The raw row of a candidate follows its goroutine.
LEMMA RawStep ==
    ASSUME CandidateInv, RawKnown, NEW c \in Candidate,
           Process(c) \/ LoadCounters(c) \/ WriteCounters(c)
    PROVE  RawKnown'
<1> USE DEF Goto, Return, SetRaw, Returned, Typed, Placed, RawKnown
<1> Typed /\ Placed  BY DEF CandidateInv
<1>1. CASE Begin(c) \/ BeginError(c) \/ Seen(c)
    BY <1>1 DEF Begin, BeginError, Seen, Dispatched, locals
<1>2. CASE EarlyFilter(c) \/ LateFilter(c) \/ CrawlFailed(c)
    BY <1>2 DEF EarlyFilter, LateFilter, CrawlFailed, Filtered, Fail, locals
<1>3. CASE FindNone(c)
    BY <1>3 DEF FindNone, locals
<1>4. CASE LinkExisting(c) \/ InsertConflict(c)
    BY <1>4 DEF LinkExisting, InsertConflict, Matched
<1>5. CASE InsertCompany(c)
    BY <1>5 DEF InsertCompany
<1>6. CASE InsertErrorLate(c)
    <2>1. \/ /\ raw' = [raw EXCEPT ![c] = "matched"]
             /\ pc' = [pc EXCEPT ![c] = "lead"]
             /\ path' = [path EXCEPT ![c] = "matched"]
          \/ /\ raw' = [raw EXCEPT ![c] = "failed"]
             /\ pc' = [pc EXCEPT ![c] = "flush"]
             /\ path' = path
        BY <1>6 DEF InsertErrorLate, Matched, Fail
    <2> QED  BY <2>1
<1>7. CASE EnsureLead(c) \/ EnsureLeadError(c)
    BY <1>7 DEF EnsureLead, EnsureLeadError, locals
<1>8. CASE MatchedScored(c) \/ BelowMinimum(c) \/ Convert(c)
    BY <1>8 DEF MatchedScored, BelowMinimum, Convert, ScoreRules
<1>9. CASE LoadCounters(c) \/ WriteCounters(c)
    BY <1>9 DEF LoadCounters, WriteCounters
<1> QED  BY <1>1, <1>2, <1>3, <1>4, <1>5, <1>6, <1>7, <1>8, <1>9 DEF Process

\* Each action of a goroutine counts what becomes of its row.
LEMMA CountersStep ==
    ASSUME CandidateInv, RawKnown, CountersMean, NEW c \in Candidate,
           Process(c) \/ LoadCounters(c) \/ WriteCounters(c)
    PROVE  CountersMean'
<1> USE DEF Goto, Return, SetRaw, Returned, BusyPC, One
<1> Typed /\ Placed  BY DEF CandidateInv
<1>a. /\ raw \in [Candidate -> RawStatus]
      /\ pc \in [Candidate -> {"new", "find", "crawl", "lead", "rules", "lost"} \cup Returned]
      /\ faults \in 0..MaxFaults /\ MaxFaults \in Nat
    BY CandidateAssumption DEF Typed
<1>b. ASSUME NEW which \in SUBSET Counters, Count(c, which)
      PROVE  /\ \A j \in Job : j # JobOf[c] => ctr'[j] = ctr[j]
             /\ \A x \in Counters : ctr'[JobOf[c]][x] = ctr[JobOf[c]][x] + One(x \in which)
    BY <1>b, Counted
<1>c. \A S \in SUBSET {"found", "discovered", "created", "matched", "filtered", "failed"} :
        S \in SUBSET Counters
    BY DEF Counters
<1>1. CASE Begin(c)
    <2>1. Count(c, {"found", "discovered"})  BY <1>1 DEF Begin
    <2>2. {"found", "discovered"} \in SUBSET Counters  BY <1>c
    <2>3. /\ raw' = [raw EXCEPT ![c] = "normalized"] /\ pc' = [pc EXCEPT ![c] = "find"]
          /\ UNCHANGED <<jpc, faults>> /\ pc[c] = "new" /\ raw[c] = "none"
        BY <1>1 DEF Begin, Dispatched, RawKnown
    <2> QED  BY <1>a, <1>b, <2>1, <2>2, <2>3, CountsKept
<1>2. CASE BeginError(c)
    <2>1. Count(c, {"found", "failed"})  BY <1>2 DEF BeginError
    <2>2. {"found", "failed"} \in SUBSET Counters  BY <1>c
    <2>3. /\ UNCHANGED <<raw, jpc>> /\ pc' = [pc EXCEPT ![c] = "flush"]
          /\ faults' = faults + 1 /\ pc[c] = "new"
        BY <1>2 DEF BeginError, Dispatched, Fault
    <2> QED  BY <1>a, <1>b, <2>1, <2>2, <2>3, CountsKept
<1>3. CASE Seen(c) \/ LoadCounters(c) \/ WriteCounters(c)
    <2>1. /\ UNCHANGED <<raw, ctr, jpc>>
          /\ pc' = [pc EXCEPT ![c] = pc'[c]]
          /\ \/ pc[c] = "new" /\ raw[c] = "none" /\ pc'[c] = "flush"
             \/ pc[c] \in Returned /\ pc'[c] \in Returned
          /\ faults' \in Nat /\ faults' >= faults
        BY <1>3, <1>a DEF Seen, LoadCounters, WriteCounters, Dispatched, RawKnown, Fault
    <2>2. \A d \in Candidate : d # c => raw'[d] = raw[d] /\ pc'[d] = pc[d]  BY <1>a, <2>1
    <2> QED  BY <1>a, <2>1, <2>2, NothingCounted
<1>4. CASE EarlyFilter(c) \/ LateFilter(c)
    <2>1. Count(c, {"filtered"})  BY <1>4 DEF EarlyFilter, LateFilter, Filtered
    <2>2. {"filtered"} \in SUBSET Counters  BY <1>c
    <2>3. /\ raw' = [raw EXCEPT ![c] = "filtered"] /\ pc' = [pc EXCEPT ![c] = "flush"]
          /\ UNCHANGED <<jpc, faults>> /\ pc[c] \in {"find", "crawl"} /\ raw[c] = "normalized"
        BY <1>4 DEF EarlyFilter, LateFilter, Filtered, RawKnown
    <2> QED  BY <1>a, <1>b, <2>1, <2>2, <2>3, CountsKept
<1>5. CASE CrawlFailed(c)
    <2>1. Count(c, {"failed"})  BY <1>5 DEF CrawlFailed, Fail
    <2>2. {"failed"} \in SUBSET Counters  BY <1>c
    <2>3. /\ raw' = [raw EXCEPT ![c] = "failed"] /\ pc' = [pc EXCEPT ![c] = "flush"]
          /\ UNCHANGED <<jpc, faults>> /\ pc[c] = "crawl" /\ raw[c] = "normalized"
        BY <1>5 DEF CrawlFailed, Fail, RawKnown
    <2> QED  BY <1>a, <1>b, <2>1, <2>2, <2>3, CountsKept
<1>6. CASE FindNone(c)
    <2>1. /\ UNCHANGED <<raw, ctr, jpc>> /\ pc' = [pc EXCEPT ![c] = "crawl"]
          /\ pc[c] = "find" /\ raw[c] = "normalized"
          /\ faults' \in Nat /\ faults' >= faults
        BY <1>6, <1>a DEF FindNone, RawKnown, Fault
    <2> QED  BY <1>a, <2>1, NothingCounted
<1>7. CASE LinkExisting(c) \/ InsertConflict(c)
    <2>1. /\ UNCHANGED <<ctr, jpc, faults>>
          /\ raw' = [raw EXCEPT ![c] = "matched"] /\ pc' = [pc EXCEPT ![c] = "lead"]
          /\ pc[c] \in {"find", "crawl"} /\ raw[c] = "normalized"
        BY <1>7 DEF LinkExisting, InsertConflict, Matched, RawKnown
    <2> QED  BY <1>a, <2>1, NothingCounted
<1>8. CASE InsertCompany(c)
    <2>1. Count(c, {"created"})  BY <1>8 DEF InsertCompany
    <2>2. {"created"} \in SUBSET Counters  BY <1>c
    <2>3. /\ raw' = [raw EXCEPT ![c] = "enriched"] /\ pc' = [pc EXCEPT ![c] = "lead"]
          /\ UNCHANGED <<jpc, faults>> /\ pc[c] = "crawl" /\ raw[c] = "normalized"
        BY <1>8 DEF InsertCompany, RawKnown
    <2> QED  BY <1>a, <1>b, <2>1, <2>2, <2>3, CountsKept
<1>9. CASE InsertErrorLate(c)
    <2>0. /\ UNCHANGED jpc /\ faults' = faults + 1 /\ pc[c] = "crawl"
        BY <1>9 DEF InsertErrorLate, Fault
    <2>1. ASSUME NEW k, Matched(c, k)
          PROVE  CountersMean'
        <3>1. UNCHANGED ctr /\ pc' = [pc EXCEPT ![c] = "lead"] /\ raw' = [raw EXCEPT ![c] = "matched"]
            BY <2>1 DEF Matched
        <3> QED  BY <1>a, <2>0, <3>1, NothingCounted
    <2>2. CASE Fail(c)
        <3>1. /\ Count(c, {"failed"})
              /\ pc' = [pc EXCEPT ![c] = "flush"] /\ raw' = [raw EXCEPT ![c] = "failed"]
            BY <2>2 DEF Fail
        <3>2. {"failed"} \in SUBSET Counters  BY <1>c
        <3> QED  BY <1>a, <1>b, <2>0, <3>1, <3>2, CountsKept
    <2> QED  BY <1>9, <2>1, <2>2 DEF InsertErrorLate
<1>10. CASE EnsureLead(c)
    <2>1. /\ UNCHANGED <<raw, ctr, jpc>> /\ pc' = [pc EXCEPT ![c] = "rules"]
          /\ pc[c] = "lead"
          /\ faults' \in Nat /\ faults' >= faults
        BY <1>10, <1>a DEF EnsureLead, Fault
    <2> QED  BY <1>a, <2>1, NothingCounted
<1>11. CASE EnsureLeadError(c)
    <2>0. /\ UNCHANGED jpc /\ faults' = faults + 1 /\ pc[c] = "lead"
          /\ pc' = [pc EXCEPT ![c] = "flush"]
        BY <1>11 DEF EnsureLeadError, Fault
    <2>1. /\ Count(c, {"failed"}) \/ Count(c, {"matched"})
          /\ \A d \in Candidate : d # c => raw'[d] = raw[d]
        BY <1>11, <1>a DEF EnsureLeadError
    <2>2. {"failed"} \in SUBSET Counters /\ {"matched"} \in SUBSET Counters  BY <1>c
    <2>3. CASE Count(c, {"failed"})  BY <1>a, <1>b, <2>0, <2>1, <2>2, <2>3, CountsKept
    <2>4. CASE Count(c, {"matched"})  BY <1>a, <1>b, <2>0, <2>1, <2>2, <2>4, CountsKept
    <2> QED  BY <2>1, <2>3, <2>4
<1>12. CASE MatchedScored(c)
    <2>1. Count(c, {"matched"})  BY <1>12 DEF MatchedScored
    <2>2. {"matched"} \in SUBSET Counters  BY <1>c
    <2>3. /\ UNCHANGED <<raw, jpc, faults>> /\ pc' = [pc EXCEPT ![c] = "flush"]
          /\ pc[c] = "rules" /\ raw[c] = "matched"
        BY <1>12 DEF MatchedScored, ScoreRules, RawKnown
    <2> QED  BY <1>a, <1>b, <2>1, <2>2, <2>3, CountsKept
<1>13. CASE BelowMinimum(c)
    <2>1. Count(c, {"filtered"})  BY <1>13 DEF BelowMinimum
    <2>2. {"filtered"} \in SUBSET Counters  BY <1>c
    <2>3. /\ raw' = [raw EXCEPT ![c] = "filtered"] /\ pc' = [pc EXCEPT ![c] = "flush"]
          /\ UNCHANGED <<jpc, faults>> /\ pc[c] = "rules" /\ raw[c] = "enriched"
        BY <1>13 DEF BelowMinimum, ScoreRules, RawKnown
    <2> QED  BY <1>a, <1>b, <2>1, <2>2, <2>3, CountsKept
<1>14. CASE Convert(c)
    <2>1. /\ raw' = [raw EXCEPT ![c] = "converted"] /\ pc' = [pc EXCEPT ![c] = "flush"]
          /\ UNCHANGED <<ctr, jpc, faults>> /\ pc[c] = "rules" /\ raw[c] = "enriched"
        BY <1>14 DEF Convert, ScoreRules, RawKnown
    <2> QED  BY <1>a, <2>1, NothingCounted
<1> QED  BY <1>1, <1>2, <1>3, <1>4, <1>5, <1>6, <1>7, <1>8, <1>9, <1>10, <1>11, <1>12, <1>13, <1>14
         DEF Process

\* Steps of Run leave the rows and the counters of those alive alone.
LEMMA MainCounters ==
    ASSUME CandidateInv, RawKnown, CountersMean, NEW i \in Job, MainStep(i)
    PROVE  RawKnown' /\ CountersMean'
<1> Typed  BY DEF CandidateInv
<1>1. /\ UNCHANGED <<raw, path>>
      /\ faults \in Nat /\ faults' \in Nat /\ faults' >= faults
    BY CandidateAssumption
       DEF MainStep, StreamEnds, RunFlush, RunFinish, JobLost, Fault, tables, locals, Typed
<1>2. \A c \in Candidate : pc'[c] = pc[c] \/ pc'[c] = "lost"
    BY DEF MainStep, StreamEnds, RunFlush, RunFinish, JobLost, locals
<1>3. \A j \in Job : jpc'[j] # "dead" =>
        jpc[j] # "dead" /\ ctr'[j] = ctr[j] /\ \A c \in Of(j) : pc'[c] = pc[c]
    BY DEF MainStep, StreamEnds, RunFlush, RunFinish, JobLost, Of, locals, Typed
<1>4. RawKnown'  BY <1>1, <1>2 DEF RawKnown, Returned
<1>5. \A j \in Job : jpc'[j] # "dead" =>
        /\ Busy(j)' = Busy(j) /\ MatchedRows(j)' = MatchedRows(j) /\ Stored(j)' = Stored(j)
        /\ \A st : Rows(j, st)' = Rows(j, st)
    BY <1>1, <1>3 DEF Busy, MatchedRows, Stored, Rows, Of, BusyPC, Returned
<1>6. CountersMean'  BY <1>1, <1>3, <1>5 DEF CountersMean
<1> QED  BY <1>4, <1>6

-----------------------------------------------------------------------------
(* No counter exceeds the number of candidates.                            *)

Total == Cardinality(Candidate)

Started(j) == {c \in Of(j) : pc[c] # "new"}

\* What is found is counted when its goroutine starts, and a search that has
\* died counts no more.
Begun ==
    \A j \in Job :
        /\ jpc[j] = "dead" => ctr[j] = Zero /\ \A c \in Of(j) : pc[c] = "lost"
        /\ ctr[j]["found"] <= Cardinality(Started(j))
        /\ ctr[j]["discovered"] <= Cardinality(Started(j))

\* The copies of the counters, and the keys a search remembers.
Copies ==
    /\ shown \in [Job -> [Counters -> 0..Total]]
    /\ snap \in [Candidate -> [Counters -> 0..Total]]
    /\ seen \in [Job -> SUBSET {KeyOf[c] : c \in Candidate}]

\* Some of the candidates are no more than all of them.
LEMMA SomeOfAll ==
    ASSUME NEW S \in SUBSET Candidate
    PROVE  Cardinality(S) \in 0..Total /\ Total \in Nat
<1>1. Cardinality(S) <= Total /\ Total \in Nat
    BY CandidateAssumption, FS_Subset, FS_CardinalityType DEF Total
<1> QED  BY <1>1, CandidatesFinite

\* Every counter counts candidates, each once at most.
LEMMA CountersBounded ==
    ASSUME CandidateInv, CountersMean, Begun
    PROVE  ctr \in [Job -> [Counters -> 0..Total]]
<1> Typed /\ CreatedCounted  BY DEF CandidateInv
<1> SUFFICES ASSUME NEW j \in Job, NEW x \in Counters  PROVE ctr[j][x] \in 0..Total
    BY DEF Typed
<1>1. /\ \A y \in Counters : ctr[j][y] \in Nat
      /\ {"found", "discovered", "created", "matched", "filtered", "failed"} = Counters
      /\ Total \in Nat
    BY CandidateAssumption, FS_CardinalityType DEF Typed, Counters, Total
<1>2. CASE jpc[j] = "dead"  BY <1>1, <1>2 DEF Begun, Zero
<1>3. CASE jpc[j] # "dead"
    <2>1. /\ Cardinality(Started(j)) \in 0..Total
          /\ Cardinality(Creators(j)) \in 0..Total
          /\ Cardinality(Busy(j)) \in 0..Total
        BY SomeOfAll DEF Started, Creators, Busy, Of
    <2>2. /\ ctr[j]["found"] <= Cardinality(Started(j))
          /\ ctr[j]["discovered"] <= Cardinality(Started(j))
          /\ ctr[j]["created"] = Cardinality(Creators(j))
          /\ ctr[j]["found"] >= ctr[j]["matched"] + ctr[j]["filtered"] + ctr[j]["failed"]
                                  + Cardinality(Busy(j))
        BY <1>3 DEF Begun, CreatedCounted, CountersMean
    <2>3. /\ ctr[j]["found"] <= Total /\ ctr[j]["discovered"] <= Total /\ ctr[j]["created"] <= Total
          /\ ctr[j]["matched"] <= Total /\ ctr[j]["filtered"] <= Total /\ ctr[j]["failed"] <= Total
        BY <1>1, <2>1, <2>2
    <2> QED  BY <1>1, <2>3
<1> QED  BY <1>2, <1>3

\* A goroutine starts once, and is counted then or not at all.
LEMMA GoroutineCounts ==
    ASSUME CandidateInv, NEW c \in Candidate, Process(c) \/ LoadCounters(c) \/ WriteCounters(c)
    PROVE  /\ UNCHANGED jpc
           /\ pc[c] # "lost" /\ pc'[c] \notin {"new", "lost"}
           /\ \A d \in Candidate : d # c => pc'[d] = pc[d]
           /\ \E which \in SUBSET Counters :
                 /\ UNCHANGED ctr \/ Count(c, which)
                 /\ which \cap {"found", "discovered"} # {} => pc[c] = "new"
<1> USE DEF Goto, Return, Dispatched
<1> pc \in [Candidate -> {"new", "find", "crawl", "lead", "rules", "lost"} \cup Returned]
    BY DEF CandidateInv, Typed
<1>0. {"found", "discovered", "created", "matched", "filtered", "failed"} = Counters
    BY DEF Counters
<1>1. CASE Begin(c)
    <2> {"found", "discovered"} \in SUBSET Counters  BY <1>0
    <2> QED  BY <1>1 DEF Begin
<1>2. CASE BeginError(c)
    <2> {"found", "failed"} \in SUBSET Counters  BY <1>0
    <2> QED  BY <1>2 DEF BeginError
<1>3. CASE \/ Seen(c) \/ LinkExisting(c) \/ FindNone(c) \/ InsertConflict(c) \/ EnsureLead(c)
           \/ Convert(c) \/ LoadCounters(c) \/ WriteCounters(c)
    <2> {} \in SUBSET Counters  OBVIOUS
    <2> QED
        BY <1>3 DEF Seen, LinkExisting, Matched, FindNone, InsertConflict, EnsureLead, Convert,
           ScoreRules, LoadCounters, WriteCounters, Returned
<1>4. CASE EarlyFilter(c) \/ LateFilter(c) \/ BelowMinimum(c)
    <2> {"filtered"} \in SUBSET Counters  BY <1>0
    <2> QED  BY <1>4 DEF EarlyFilter, LateFilter, Filtered, BelowMinimum, ScoreRules
<1>5. CASE CrawlFailed(c) \/ InsertErrorLate(c)
    <2> {"failed"} \in SUBSET Counters  BY <1>0
    <2> QED  BY <1>5 DEF CrawlFailed, Fail, InsertErrorLate, Matched
<1>6. CASE InsertCompany(c)
    <2> {"created"} \in SUBSET Counters  BY <1>0
    <2> QED  BY <1>6 DEF InsertCompany
<1>7. CASE EnsureLeadError(c) \/ MatchedScored(c)
    <2> {"failed"} \in SUBSET Counters /\ {"matched"} \in SUBSET Counters  BY <1>0
    <2> QED  BY <1>7 DEF EnsureLeadError, MatchedScored, ScoreRules
<1> QED  BY <1>1, <1>2, <1>3, <1>4, <1>5, <1>6, <1>7 DEF Process

LEMMA BegunGoroutine ==
    ASSUME CandidateInv, Begun, NEW c \in Candidate,
           Process(c) \/ LoadCounters(c) \/ WriteCounters(c)
    PROVE  Begun'
<1> DEFINE i == JobOf[c]
<1> Typed  BY DEF CandidateInv
<1>0. i \in Job /\ c \in Of(i)  BY CandidateAssumption DEF Of
<1>1. PICK which \in SUBSET Counters :
        /\ UNCHANGED ctr \/ Count(c, which)
        /\ which \cap {"found", "discovered"} # {} => pc[c] = "new"
    BY GoroutineCounts
<1>2. /\ UNCHANGED jpc /\ pc[c] # "lost" /\ pc'[c] \notin {"new", "lost"}
      /\ \A d \in Candidate : d # c => pc'[d] = pc[d]
    BY GoroutineCounts
<1>3. jpc[i] # "dead"  BY <1>0, <1>2 DEF Begun
<1>4. /\ \A j \in Job : j # i => ctr'[j] = ctr[j]
      /\ \A x \in {"found", "discovered"} :
            ctr[i][x] \in Nat /\ ctr'[i][x] \in {ctr[i][x], ctr[i][x] + One(pc[c] = "new")}
    <2>0. {"found", "discovered"} \subseteq Counters  BY DEF Counters
    <2>1. CASE UNCHANGED ctr  BY <1>0, <2>0, <2>1 DEF Typed
    <2>2. CASE Count(c, which)
        <3>1. /\ \A j \in Job : j # i => ctr'[j] = ctr[j]
              /\ \A x \in Counters : ctr'[i][x] = ctr[i][x] + (IF x \in which THEN 1 ELSE 0)
            BY <2>2, Counted
        <3>2. \A x \in Counters : ctr[i][x] \in Nat  BY <1>0 DEF Typed
        <3> QED  BY <1>1, <2>0, <3>1, <3>2 DEF One
    <2> QED  BY <1>1, <2>1, <2>2
<1>5. /\ Cardinality(Started(i)) + 1 = Cardinality(Started(i)') + One(pc[c] # "new")
      /\ Cardinality(Started(i)) \in Nat /\ Cardinality(Started(i)') \in Nat
    <2>1. Started(i) \in SUBSET Candidate /\ Started(i)' \in SUBSET Candidate  BY DEF Started, Of
    <2>2. \A d \in Candidate : d # c => (d \in Started(i) <=> d \in Started(i)')
        BY <1>2 DEF Started, Of
    <2>3. (c \in Started(i) <=> pc[c] # "new") /\ c \in Started(i)'  BY <1>0, <1>2 DEF Started, Of
    <2> QED  BY <2>1, <2>2, <2>3, OneDiffers DEF One
<1> SUFFICES ASSUME NEW j \in Job
             PROVE  /\ jpc[j] = "dead" => ctr'[j] = Zero /\ \A d \in Of(j) : pc'[d] = "lost"
                    /\ ctr'[j]["found"] <= Cardinality(Started(j)')
                    /\ ctr'[j]["discovered"] <= Cardinality(Started(j)')
    BY <1>2 DEF Begun, Of
<1>6. CASE j # i
    <2>1. Started(j)' = Started(j) /\ \A d \in Of(j) : pc'[d] = pc[d]
        BY <1>2, <1>6 DEF Started, Of
    <2> QED  BY <1>4, <1>6, <2>1 DEF Begun
<1>7. CASE j = i
    <2>1. ctr[i]["found"] <= Cardinality(Started(i)) /\ ctr[i]["discovered"] <= Cardinality(Started(i))
        BY <1>0 DEF Begun
    <2>2. pc[c] = "new" \/ pc[c] # "new"  OBVIOUS
    <2> QED  BY <1>3, <1>4, <1>5, <1>7, <2>1, <2>2 DEF One
<1> QED  BY <1>6, <1>7

LEMMA BegunMain ==
    ASSUME CandidateInv, Begun, NEW i \in Job, MainStep(i)
    PROVE  Begun'
<1> Typed  BY DEF CandidateInv
<1>1. CASE JobLost(i)
    <2>1. /\ jpc' = [jpc EXCEPT ![i] = "dead"] /\ ctr' = [ctr EXCEPT ![i] = Zero]
          /\ \A d \in Candidate : pc'[d] = IF d \in Of(i) THEN "lost" ELSE pc[d]
        BY <1>1 DEF JobLost
    <2>2. ctr'[i] = Zero /\ \A d \in Of(i) : pc'[d] = "lost"  BY <2>1 DEF Typed, Of
    <2>3. Zero["found"] = 0 /\ Zero["discovered"] = 0  BY DEF Zero, Counters
    <2>4. Cardinality(Started(i)') \in Nat
        <3>1. Started(i)' \in SUBSET Candidate  BY DEF Started, Of
        <3> QED  BY <3>1, CandidatesFinite
    <2>5. ASSUME NEW j \in Job, j # i
          PROVE  /\ jpc'[j] = jpc[j] /\ ctr'[j] = ctr[j] /\ Started(j)' = Started(j)
                 /\ \A d \in Of(j) : pc'[d] = pc[d]
        BY <2>1, <2>5 DEF Typed, Started, Of
    <2> QED  BY <2>2, <2>3, <2>4, <2>5 DEF Begun, Of
<1>2. CASE StreamEnds(i) \/ RunFlush(i) \/ RunFinish(i)
    <2>1. /\ UNCHANGED <<ctr, pc>>
          /\ \A j \in Job : jpc'[j] = "dead" => jpc[j] = "dead"
        BY <1>2 DEF StreamEnds, RunFlush, RunFinish, Typed
    <2> QED  BY <2>1 DEF Begun, Started, Of
<1> QED  BY <1>1, <1>2 DEF MainStep

\* Flushes copy counters, and remembered keys are keys of candidates.
LEMMA CopiesStep ==
    ASSUME CandidateInv, CountersMean, Begun, Copies, [Next]_vars
    PROVE  Copies'
<1> Typed  BY DEF CandidateInv
<1>1. ctr \in [Job -> [Counters -> 0..Total]]  BY CountersBounded
<1>2. Zero \in [Counters -> 0..Total]
    <2> Total \in Nat  BY CandidateAssumption, FS_CardinalityType DEF Total
    <2> QED  BY DEF Zero
<1>3. JobOf \in [Candidate -> Job]  BY CandidateAssumption
<1> USE DEF Copies
<1>4. ASSUME NEW j \in Job, MainStep(j)  PROVE Copies'
    BY <1>1, <1>2, <1>4 DEF MainStep, StreamEnds, RunFlush, RunFinish, JobLost, tables, locals
<1>5. ASSUME NEW c \in Candidate, Begin(c) \/ BeginError(c)  PROVE Copies'
    BY <1>3, <1>5 DEF Begin, BeginError, locals
<1>6. ASSUME NEW c \in Candidate, Process(c), ~Begin(c), ~BeginError(c)  PROVE Copies'
    BY <1>6 DEF Process, Seen, EarlyFilter, LinkExisting, FindNone, CrawlFailed, LateFilter,
       InsertCompany, InsertConflict, InsertErrorLate, EnsureLead, EnsureLeadError,
       MatchedScored, BelowMinimum, Convert, ScoreRules, locals
<1>7. ASSUME NEW c \in Candidate, LoadCounters(c) \/ WriteCounters(c)  PROVE Copies'
    BY <1>1, <1>2, <1>3, <1>7 DEF LoadCounters, WriteCounters
<1>8. CASE UNCHANGED vars  BY <1>8 DEF vars, locals
<1> QED  BY <1>4, <1>5, <1>6, <1>7, <1>8 DEF Next

-----------------------------------------------------------------------------
(* The theorems.                                                           *)

\* The inductive invariant: a company a candidate knows is there, its lead is
\* written before its score, and its creator is counted with its row.
THEOREM Invariant == Spec => []CandidateInv
<1> QED  BY CandidateInit, CandidateStep, PTL DEF Spec

\* However many searches meet however many candidates of a domain, it becomes
\* one company, and every company, with a domain or without, has one creator
\* at most, who was counted once.
THEOREM OneCompany == Spec => []OneCompanyPerDomain
<1>1. CandidateInv => OneCompanyPerDomain
    BY DEF CandidateInv, DomainsDiffer, OneCreator, CreatedCounted, Creators, OneCompanyPerDomain
<1> QED  BY <1>1, Invariant, PTL

\* A kept candidate leaves a scored lead behind, whoever else died.
THEOREM Kept == Spec => []KeptHasLead
<1>1. CandidateInv => KeptHasLead
    BY DEF CandidateInv, LeadKept, KeptHasLead
<1> QED  BY <1>1, Invariant, PTL

\* A finished search shows its last counters unless both of its own flushes
\* failed, however its goroutines' flushes overtook each other.
THEOREM LastCounters == Spec => []FinalCounts
<1>1. CandidateInv => FinalCounts
    BY DEF CandidateInv, FlushedLast, FinalCounts
<1> QED  BY <1>1, Invariant, PTL

\* The counters of a search that is alive mean what CountersMean says.
LEMMA CountersAlways == Spec => [](RawKnown /\ CountersMean)
<1>1. Init => RawKnown /\ CountersMean
    <2> SUFFICES ASSUME Init PROVE RawKnown /\ CountersMean  OBVIOUS
    <2>1. RawKnown  BY DEF Init, RawKnown, Returned
    <2>2. \A j \in Job : /\ Busy(j) = {} /\ MatchedRows(j) = {} /\ Stored(j) = {}
                         /\ Rows(j, "filtered") = {} /\ Rows(j, "failed") = {}
        BY DEF Init, Busy, BusyPC, MatchedRows, Stored, Rows, Of
    <2>3. \A x \in Counters : Zero[x] = 0  BY DEF Zero
    <2>4. \A j \in Job : ctr[j] = Zero  BY DEF Init
    <2>5. {"found", "discovered", "matched", "filtered", "failed"} \subseteq Counters  BY DEF Counters
    <2>6. CountersMean  BY <2>2, <2>3, <2>4, <2>5, FS_EmptySet DEF CountersMean
    <2> QED  BY <2>1, <2>6
<1>2. CandidateInv /\ RawKnown /\ CountersMean /\ [Next]_vars => RawKnown' /\ CountersMean'
    <2> SUFFICES ASSUME CandidateInv, RawKnown, CountersMean, [Next]_vars
                 PROVE  RawKnown' /\ CountersMean'
        OBVIOUS
    <2>1. CASE \E j \in Job : MainStep(j)  BY <2>1, MainCounters
    <2>2. CASE \E c \in Candidate : Process(c) \/ LoadCounters(c) \/ WriteCounters(c)
        BY <2>2, RawStep, CountersStep
    <2>3. CASE UNCHANGED vars
        <3> USE <2>3 DEF vars, tables, locals
        <3>1. RawKnown'  BY DEF RawKnown
        <3>2. CountersMean'  BY DEF CountersMean, Busy, MatchedRows, Stored, Rows
        <3> QED  BY <3>1, <3>2
    <2> QED  BY <2>1, <2>2, <2>3 DEF Next
<1> QED  BY <1>1, <1>2, Invariant, PTL DEF Spec

\* The counters of a finished search agree with the raw rows it has stored.
THEOREM RowsCounted == Spec => []CountersMatchRows
<1>1. CandidateInv /\ RawKnown /\ CountersMean => CountersMatchRows
    <2> SUFFICES ASSUME CandidateInv, RawKnown, CountersMean, NEW j \in Job, jpc[j] = "done"
                 PROVE  /\ ctr[j]["found"] >= ctr[j]["matched"] + ctr[j]["filtered"] + ctr[j]["failed"]
                        /\ faults = 0 =>
                              /\ ctr[j]["matched"] = Cardinality(Rows(j, "matched"))
                              /\ ctr[j]["filtered"] = Cardinality(Rows(j, "filtered"))
                              /\ ctr[j]["failed"] = Cardinality(Rows(j, "failed"))
                              /\ ctr[j]["found"] = ctr[j]["discovered"]
                              /\ ctr[j]["found"] = ctr[j]["matched"] + ctr[j]["filtered"]
                                     + ctr[j]["failed"] + Cardinality(Rows(j, "converted"))
        BY DEF CountersMatchRows, Rows
    <2> DEFINE M == Rows(j, "matched")
               F == Rows(j, "filtered")
               X == Rows(j, "failed")
               V == Rows(j, "converted")
    <2>1. \A c \in Of(j) : pc[c] \in {"new", "end"}  BY DEF CandidateInv, FlushedLast
    <2>2. \A c \in Of(j) : raw[c] # "none" =>
            pc[c] \in Returned /\ raw[c] \in {"matched", "filtered", "failed", "converted"}
        BY <2>1 DEF RawKnown, Of, Returned
    <2>3. MatchedRows(j) = M  BY <2>2 DEF MatchedRows, Rows
    <2>4. Stored(j) = (M \cup F) \cup (X \cup V)  BY <2>2 DEF Stored, Rows
    <2>5. /\ M \cap F = {} /\ X \cap V = {} /\ (M \cup F) \cap (X \cup V) = {}
        BY DEF Rows
    <2>6. \A S \in {M, F, X, V, M \cup F, X \cup V, Busy(j)} : S \in SUBSET Candidate
        BY DEF Rows, Of, Busy
    <2>7. \A S \in {M, F, X, V, M \cup F, X \cup V, Busy(j)} :
            IsFiniteSet(S) /\ Cardinality(S) \in Nat
        BY <2>6, CandidatesFinite
    <2>8. \A x \in {"found", "discovered", "matched", "filtered", "failed"} : ctr[j][x] \in Nat
        BY DEF CandidateInv, Typed, Counters
    <2>9. Cardinality(Stored(j)) = Cardinality(M) + Cardinality(F) + Cardinality(X) + Cardinality(V)
        <3>0. /\ M \in SUBSET Candidate /\ Cardinality(M) \in Nat
              /\ F \in SUBSET Candidate /\ Cardinality(F) \in Nat
              /\ X \in SUBSET Candidate /\ Cardinality(X) \in Nat
              /\ V \in SUBSET Candidate /\ Cardinality(V) \in Nat
            BY <2>6, <2>7
        <3> HIDE DEF M, F, X, V
        <3>1. Cardinality(M \cup F) = Cardinality(M) + Cardinality(F)
            BY <2>5, <3>0, Disjoint
        <3>2. Cardinality(X \cup V) = Cardinality(X) + Cardinality(V)
            BY <2>5, <3>0, Disjoint
        <3>3. Cardinality(Stored(j)) = Cardinality(M \cup F) + Cardinality(X \cup V)
            BY <2>4, <2>5, <3>0, Disjoint
        <3> QED  BY <3>0, <3>1, <3>2, <3>3
    <2> QED  BY <2>3, <2>7, <2>8, <2>9 DEF CountersMean
<1> QED  BY <1>1, CountersAlways, Invariant, PTL

\* Every reachable state is well typed: no counter, and no copy of one that a
\* late flush writes, exceeds the number of candidates.
THEOREM Typing == Spec => []TypeOK
<1>1. Init => Begun /\ Copies
    <2> SUFFICES ASSUME Init  PROVE Begun /\ Copies  OBVIOUS
    <2>1. Total \in Nat  BY CandidateAssumption, FS_CardinalityType DEF Total
    <2>2. Zero \in [Counters -> 0..Total] /\ Zero["found"] = 0 /\ Zero["discovered"] = 0
        BY <2>1 DEF Zero, Counters
    <2>3. \A j \in Job : Started(j) \in SUBSET Candidate  BY DEF Started, Of
    <2>4. \A j \in Job : Cardinality(Started(j)) \in Nat  BY <2>3, CandidatesFinite
    <2>5. Begun  BY <2>2, <2>4 DEF Init, Begun
    <2>6. Copies  BY <2>2 DEF Init, Copies
    <2> QED  BY <2>5, <2>6
<1>2. CandidateInv /\ CountersMean /\ Begun /\ Copies /\ [Next]_vars => Begun' /\ Copies'
    <2> SUFFICES ASSUME CandidateInv, CountersMean, Begun, Copies, [Next]_vars
                 PROVE  Begun' /\ Copies'
        OBVIOUS
    <2>1. CASE UNCHANGED vars
        BY <2>1, CopiesStep DEF vars, locals, Begun, Started, Of
    <2> QED  BY <2>1, BegunGoroutine, BegunMain, CopiesStep DEF Next
<1>3. CandidateInv /\ CountersMean /\ Begun /\ Copies => TypeOK
    <2> SUFFICES ASSUME CandidateInv, CountersMean, Begun, Copies  PROVE TypeOK
        OBVIOUS
    <2>1. ctr \in [Job -> [Counters -> 0..Total]]  BY CountersBounded
    <2>2. \A c \in Candidate :
            pc[c] \in {"lead", "rules"} => co[c] \in There /\ path[c] # "none"
        BY DEF CandidateInv, Placed
    <2> QED  BY <2>1, <2>2 DEF CandidateInv, Typed, Copies, Total, TypeOK
<1> QED  BY <1>1, <1>2, <1>3, Invariant, CountersAlways, PTL DEF Spec

=============================================================================
