----------------------------- MODULE Candidates -----------------------------
(***************************************************************************)
(* What running searches do with the candidates they dispatch: one         *)
(* goroutine per candidate takes it through Process (normalize, dedupe,    *)
(* crawl, persist, score) while the loop of Run dispatches, flushes the    *)
(* counters and waits.  Several searches of one tenant run at the same     *)
(* time and share its companies and leads.                                 *)
(*                                                                         *)
(* A step ends where another goroutine can see or change what was done:    *)
(* a candidate's raw_leads row is its own, rows of companies and leads are *)
(* never removed, so statements on the one and repeated reads of the other *)
(* go with their neighbours.  What a crawl finds and what a lead scores    *)
(* are choices; statements on the raw row do not fail.  When searches      *)
(* pause and stop is told in SearchLifecycle.                              *)
(***************************************************************************)
EXTENDS Integers, FiniteSets

CONSTANTS
    Job,         \* running searches of one tenant
    Candidate,   \* what their sources stream
    Company,     \* ids a companies row can get
    Domain,      \* canonical domains
    Ident,       \* other identities: phone, e-mail, external id, name and city
    NoDomain, NoIdent, NoCompany,
    JobOf,       \* the search a candidate belongs to
    KeyOf,       \* its key in j.seen: website, domain or e-mail and name
    DomainOf,    \* its domain, NoDomain without a website
    IdentOf,     \* what else the source says of its identity
    ScoreOf,     \* the score its data earns
    MinScore,    \* filters.min_score
    FlushEvery,  \* Run flushes when found is a multiple of this (10)
    MaxFaults,   \* bound on failing statements
    MaxCrashes   \* bound on searches that die

ASSUME CandidateAssumption ==
    /\ IsFiniteSet(Candidate)
    /\ JobOf \in [Candidate -> Job]
    /\ DomainOf \in [Candidate -> Domain \cup {NoDomain}]
    /\ IdentOf \in [Candidate -> Ident \cup {NoIdent}]
    /\ NoDomain \notin Domain /\ NoIdent \notin Ident /\ NoCompany \notin Company
    /\ ScoreOf \in [Candidate -> Nat \ {0}]
    /\ MinScore \in Nat
    /\ FlushEvery \in Nat \ {0}
    /\ MaxFaults \in Nat
    /\ MaxCrashes \in Nat

VARIABLES
    company,  \* companies: domain, canonical domain and identity of a row
    leads,    \* the number of leads rows of a company
    scored,   \* its score in leads and in lead_scores, 0 before the first
    raw,      \* raw_leads.status of a candidate
    shown,    \* the counters in the lead_searches row
    ctr,      \* the counters of the Job (atomics)
    seen,     \* j.seen
    jpc,      \* where Run is in its loop
    pc,       \* where the candidate's goroutine is
    path,     \* how it came to its company: created or matched
    co,       \* companyID
    snap,     \* the counters its Flush has loaded
    faults

tables == <<company, leads, scored>>
locals == <<path, co, snap>>
vars   == <<tables, raw, shown, ctr, seen, jpc, pc, locals, faults>>

NoRow          == [domain |-> NoDomain, canon |-> NoDomain, ident |-> NoIdent, there |-> FALSE]
RowOf(d, k, i) == [domain |-> d, canon |-> k, ident |-> i, there |-> TRUE]
There          == {k \in Company : company[k].there}
Of(j)          == {c \in Candidate : JobOf[c] = j}

Counters == {"found", "discovered", "created", "matched", "filtered", "failed"}
Zero     == [x \in Counters |-> 0]

\* "discovered" and "crawled" last no longer than a statement.
RawStatus == {"none", "normalized", "matched", "enriched", "converted", "filtered",
              "failed"}
Returned  == {"flush", "write", "end"}

TypeOK ==
    /\ company \in [Company -> [domain : Domain \cup {NoDomain}, canon : Domain \cup {NoDomain},
                                ident : Ident \cup {NoIdent}, there : BOOLEAN]]
    /\ leads \in [Company -> 0..1]
    /\ scored \in [Company -> [lead : Nat, rules : Nat]]
    /\ raw \in [Candidate -> RawStatus]
    /\ shown \in [Job -> [Counters -> 0..Cardinality(Candidate)]]
    /\ ctr \in [Job -> [Counters -> 0..Cardinality(Candidate)]]
    /\ seen \in [Job -> SUBSET {KeyOf[c] : c \in Candidate}]
    /\ jpc \in [Job -> {"stream", "drain", "final", "done", "dead"}]
    /\ pc \in [Candidate -> {"new", "find", "crawl", "lead", "rules", "lost"}
                                \cup Returned]
    /\ path \in [Candidate -> {"none", "created", "matched"}]
    /\ co \in [Candidate -> Company \cup {NoCompany}]
    /\ snap \in [Candidate -> [Counters -> 0..Cardinality(Candidate)]]
    /\ faults \in 0..MaxFaults
    /\ \A c \in Candidate :
          pc[c] \in {"lead", "rules"} => co[c] \in There /\ path[c] # "none"

Init ==
    /\ company = [k \in Company |-> NoRow]
    /\ leads = [k \in Company |-> 0]
    /\ scored = [k \in Company |-> [lead |-> 0, rules |-> 0]]
    /\ raw = [c \in Candidate |-> "none"]
    /\ shown = [j \in Job |-> Zero]
    /\ ctr = [j \in Job |-> Zero]
    /\ seen = [j \in Job |-> {}]
    /\ jpc = [j \in Job |-> "stream"]
    /\ pc = [c \in Candidate |-> "new"]
    /\ path = [c \in Candidate |-> "none"]
    /\ co = [c \in Candidate |-> NoCompany]
    /\ snap = [c \in Candidate |-> Zero]
    /\ faults = 0

\* One more statement that fails.
Fault == faults < MaxFaults /\ faults' = faults + 1

Goto(c, where) == pc' = [pc EXCEPT ![c] = where]

\* Process returns.
Return(c) == Goto(c, "flush")

Count(c, which) ==
    ctr' = [ctr EXCEPT ![JobOf[c]] = [x \in Counters |-> IF x \in which THEN @[x] + 1 ELSE @[x]]]

SetRaw(c, st) == raw' = [raw EXCEPT ![c] = st]

-----------------------------------------------------------------------------
(* The loop of Run.                                                        *)

\* Mutant: the last flush does not wait for the goroutines.
RunFlushAtOnce(j) ==
    /\ jpc[j] = "drain"
    /\ shown' = [shown EXCEPT ![j] = ctr[j]]
    /\ jpc' = [jpc EXCEPT ![j] = "final"]
    /\ UNCHANGED <<tables, raw, ctr, seen, pc, locals, faults>>

StreamEnds(j) ==
    /\ jpc[j] = "stream"
    /\ jpc' = [jpc EXCEPT ![j] = "drain"]
    /\ UNCHANGED <<tables, raw, shown, ctr, seen, pc, locals, faults>>

\* eg.Wait, then Flush.
RunFlush(j) ==
    /\ jpc[j] = "drain"
    /\ \A c \in Of(j) : pc[c] \in {"new", "end"}
    /\ \/ shown' = [shown EXCEPT ![j] = ctr[j]] /\ UNCHANGED faults
       \/ Fault /\ UNCHANGED shown
    /\ jpc' = [jpc EXCEPT ![j] = "final"]
    /\ UNCHANGED <<tables, raw, ctr, seen, pc, locals>>

\* Finish flushes once more.
RunFinish(j) ==
    /\ jpc[j] = "final"
    /\ \/ shown' = [shown EXCEPT ![j] = ctr[j]] /\ UNCHANGED faults
       \/ Fault /\ UNCHANGED shown
    /\ jpc' = [jpc EXCEPT ![j] = "done"]
    /\ UNCHANGED <<tables, raw, ctr, seen, pc, locals>>

\* The worker dies, or its context ends: nothing more is written, and what
\* the Job kept in memory is gone.
JobLost(j) ==
    /\ jpc[j] \notin {"done", "dead"}
    /\ Cardinality({i \in Job : jpc[i] = "dead"}) < MaxCrashes
    /\ jpc' = [jpc EXCEPT ![j] = "dead"]
    /\ pc' = [c \in Candidate |-> IF c \in Of(j) THEN "lost" ELSE pc[c]]
    /\ snap' = [c \in Candidate |-> IF c \in Of(j) THEN Zero ELSE snap[c]]
    /\ ctr' = [ctr EXCEPT ![j] = Zero]
    /\ seen' = [seen EXCEPT ![j] = {}]
    /\ UNCHANGED <<tables, raw, shown, path, co, faults>>

-----------------------------------------------------------------------------
(* Process, up to the company.                                             *)

\* Run hands the candidate to a goroutine (eg.Go), which starts Process.
Dispatched(c) == jpc[JobOf[c]] = "stream" /\ pc[c] = "new"

\* A new key is remembered and counted, and the raw row inserted.
Begin(c) ==
    LET j == JobOf[c] IN
    /\ Dispatched(c)
    /\ KeyOf[c] \notin seen[j]
    /\ seen' = [seen EXCEPT ![j] = @ \cup {KeyOf[c]}]
    /\ Count(c, {"found", "discovered"})
    /\ SetRaw(c, "normalized")
    /\ Goto(c, "find")
    /\ UNCHANGED <<tables, shown, jpc, locals, faults>>

\* The INSERT of the raw row fails: counted, and not stored.
BeginError(c) ==
    LET j == JobOf[c] IN
    /\ Dispatched(c)
    /\ KeyOf[c] \notin seen[j]
    /\ Fault
    /\ seen' = [seen EXCEPT ![j] = @ \cup {KeyOf[c]}]
    /\ Count(c, {"found", "failed"})
    /\ Return(c)
    /\ UNCHANGED <<tables, raw, shown, jpc, locals>>

\* A key seen before drops the candidate before it is counted.
Seen(c) ==
    /\ Dispatched(c)
    /\ KeyOf[c] \in seen[JobOf[c]]
    /\ Return(c)
    /\ UNCHANGED <<tables, raw, shown, ctr, seen, jpc, locals, faults>>

\* fail: a failed candidate is counted, and its row says so.
Fail(c) == Count(c, {"failed"}) /\ SetRaw(c, "failed") /\ Return(c)

\* filtered: so is one that a filter drops.
Filtered(c) == Count(c, {"filtered"}) /\ SetRaw(c, "filtered") /\ Return(c)

\* filters.has_website
EarlyFilter(c) ==
    /\ pc[c] = "find"
    /\ DomainOf[c] = NoDomain
    /\ Filtered(c)
    /\ UNCHANGED <<tables, shown, seen, jpc, locals, faults>>

\* The companies FindDuplicate links to: by domain, else by identity.  Names
\* alike in the same city are an identity; a weaker likeness is noted on the
\* raw row and links nothing.
SameDomain(c) ==
    {k \in There : DomainOf[c] # NoDomain /\ DomainOf[c] \in {company[k].domain, company[k].canon}}
SameIdent(c) == {k \in There : IdentOf[c] # NoIdent /\ IdentOf[c] = company[k].ident}

Duplicates(c) == IF SameDomain(c) # {} THEN SameDomain(c) ELSE SameIdent(c)

\* Mutant: a known company is not looked at again.
MatchedAndDropped(c, k) ==
    /\ co' = [co EXCEPT ![c] = k]
    /\ path' = [path EXCEPT ![c] = "matched"]
    /\ SetRaw(c, "matched")
    /\ Count(c, {"matched"})
    /\ Return(c)

\* The raw row is linked to company k, which then gets its lead and a score.
Matched(c, k) ==
    /\ co' = [co EXCEPT ![c] = k]
    /\ path' = [path EXCEPT ![c] = "matched"]
    /\ SetRaw(c, "matched")
    /\ Goto(c, "lead")
    /\ UNCHANGED ctr

\* linkExisting; crawling a stale company again leaves these tables alone.
LinkExisting(c) ==
    /\ pc[c] = "find"
    /\ \E k \in Duplicates(c) : Matched(c, k)
    /\ UNCHANGED <<tables, shown, seen, jpc, snap, faults>>

\* An error of FindDuplicate's queries reads as "no such company".
FindNone(c) ==
    /\ pc[c] = "find"
    /\ IF Duplicates(c) = {} THEN UNCHANGED faults ELSE Fault
    /\ Goto(c, "crawl")
    /\ UNCHANGED <<tables, raw, shown, ctr, seen, jpc, locals>>

\* No page could be fetched; or no website and nobody to contact, or no name.
CrawlFailed(c) ==
    /\ pc[c] = "crawl"
    /\ Fail(c)
    /\ UNCHANGED <<tables, shown, seen, jpc, locals, faults>>

\* filters.has_email, has_phone and has_whatsapp look at what the crawl found.
LateFilter(c) ==
    /\ pc[c] = "crawl"
    /\ DomainOf[c] # NoDomain \/ IdentOf[c] # NoIdent
    /\ Filtered(c)
    /\ UNCHANGED <<tables, shown, seen, jpc, locals, faults>>

-----------------------------------------------------------------------------
(* persistNew: the company, its lead and its score.                        *)

\* The row to insert: the crawl may have ended on another domain, and fills
\* in what the source left out.
NewRows(c) ==
    IF DomainOf[c] = NoDomain
    THEN {RowOf(NoDomain, NoDomain, IdentOf[c])}
    ELSE {RowOf(DomainOf[c], k, i) :
             k \in Domain, i \in IF IdentOf[c] = NoIdent THEN Ident \cup {NoIdent} ELSE {IdentOf[c]}}

\* The unique index on (tenant_id, domain) WHERE domain <> ''.
Conflict(c) == {k \in There : DomainOf[c] # NoDomain /\ company[k].domain = DomainOf[c]}

InsertCompany(c) ==
    /\ pc[c] = "crawl"
    /\ DomainOf[c] # NoDomain \/ IdentOf[c] # NoIdent
    /\ Conflict(c) = {}
    /\ \E k \in Company \ There, row \in NewRows(c) :
          /\ company' = [company EXCEPT ![k] = row]
          /\ co' = [co EXCEPT ![c] = k]
    /\ path' = [path EXCEPT ![c] = "created"]
    /\ Count(c, {"created"})
    /\ SetRaw(c, "enriched")
    /\ Goto(c, "lead")
    /\ UNCHANGED <<leads, scored, shown, seen, jpc, snap, faults>>

\* Mutant: the INSERT updates on conflict and returns the row it found.
InsertOrUpdate(c) ==
    /\ pc[c] = "crawl"
    /\ \E k \in Conflict(c) : co' = [co EXCEPT ![c] = k]
    /\ path' = [path EXCEPT ![c] = "created"]
    /\ Count(c, {"created"})
    /\ SetRaw(c, "enriched")
    /\ Goto(c, "lead")
    /\ UNCHANGED <<tables, shown, seen, jpc, snap, faults>>

\* ON CONFLICT DO NOTHING returns no row, which reads as an error: the
\* company somebody inserted since FindDuplicate is selected and matched.
InsertConflict(c) ==
    /\ pc[c] = "crawl"
    /\ \E k \in Conflict(c) : Matched(c, k)
    /\ UNCHANGED <<tables, shown, seen, jpc, snap, faults>>

\* Mutant: after an error the id is used although no SELECT has found one.
InsertErrorGoesOn(c) ==
    /\ pc[c] = "crawl"
    /\ Fault
    /\ Goto(c, "lead")
    /\ UNCHANGED <<tables, raw, shown, ctr, seen, jpc, locals>>

\* A real error, of an INSERT that took effect: with a domain the candidate
\* is matched to the company it has just inserted itself, unless the SELECT
\* for it fails as well.
InsertErrorLate(c) ==
    /\ pc[c] = "crawl"
    /\ DomainOf[c] # NoDomain \/ IdentOf[c] # NoIdent
    /\ Conflict(c) = {}
    /\ Fault
    /\ \E k \in Company \ There, row \in NewRows(c) :
          /\ company' = [company EXCEPT ![k] = row]
          /\ \/ DomainOf[c] # NoDomain /\ Matched(c, k)
             \/ Fail(c) /\ UNCHANGED <<path, co>>
    /\ UNCHANGED <<leads, scored, shown, seen, jpc, snap>>

\* ensureLead: INSERT ... ON CONFLICT DO NOTHING, then SELECT; scoreLead then
\* writes the score to the same row, unless that UPDATE fails ...
EnsureLead(c) ==
    /\ pc[c] = "lead"
    /\ leads' = [leads EXCEPT ![co[c]] = 1]
    /\ \/ scored' = [scored EXCEPT ![co[c]].lead = ScoreOf[c]] /\ UNCHANGED faults
       \/ Fault /\ UNCHANGED scored
    /\ Goto(c, "rules")
    /\ UNCHANGED <<company, raw, shown, ctr, seen, jpc, locals>>

\* Without the lead's id a new company's candidate fails, though its company
\* was counted as created; a known one's is matched all the same.
EnsureLeadError(c) ==
    /\ pc[c] = "lead"
    /\ Fault
    /\ \/ leads' = [leads EXCEPT ![co[c]] = 1]
       \/ UNCHANGED leads
    /\ IF path[c] = "created"
       THEN SetRaw(c, "failed") /\ Count(c, {"failed"})
       ELSE UNCHANGED raw /\ Count(c, {"matched"})
    /\ Return(c)
    /\ UNCHANGED <<company, scored, shown, seen, jpc, locals>>

\* ... and its breakdown to lead_scores in a statement of its own.
ScoreRules(c) ==
    /\ pc[c] = "rules"
    /\ scored' = [scored EXCEPT ![co[c]].rules = ScoreOf[c]]
    /\ Return(c)
    /\ UNCHANGED <<company, leads, shown, seen, jpc, path, co, snap>>

MatchedScored(c) ==
    /\ path[c] = "matched"
    /\ ScoreRules(c)
    /\ Count(c, {"matched"})
    /\ UNCHANGED <<raw, faults>>

\* Mutant: the minimum score does not end persistNew.
BelowMinimumGoesOn(c) ==
    /\ path[c] = "created"
    /\ ScoreOf[c] < MinScore
    /\ ScoreRules(c)
    /\ Count(c, {"filtered"})
    /\ SetRaw(c, "converted")
    /\ UNCHANGED faults

\* The minimum score drops the candidate; the company and the lead stay.
BelowMinimum(c) ==
    /\ path[c] = "created"
    /\ ScoreOf[c] < MinScore
    /\ ScoreRules(c)
    /\ Count(c, {"filtered"})
    /\ SetRaw(c, "filtered")
    /\ UNCHANGED faults

Convert(c) ==
    /\ path[c] = "created"
    /\ ScoreOf[c] >= MinScore
    /\ ScoreRules(c)
    /\ SetRaw(c, "converted")
    /\ UNCHANGED <<ctr, faults>>

-----------------------------------------------------------------------------
(* After Process the goroutine may flush.                                  *)

\* The loads of the single counters count as one: a flush that sees some of
\* them later than the others differs in what it shows before the last one.
LoadCounters(c) ==
    LET now == ctr[JobOf[c]] IN
    /\ pc[c] = "flush"
    /\ IF now["found"] % FlushEvery = 0
       THEN snap' = [snap EXCEPT ![c] = now] /\ Goto(c, "write")
       ELSE Goto(c, "end") /\ UNCHANGED snap
    /\ UNCHANGED <<tables, raw, shown, ctr, seen, jpc, path, co, faults>>

WriteCounters(c) ==
    /\ pc[c] = "write"
    /\ \/ shown' = [shown EXCEPT ![JobOf[c]] = snap[c]] /\ UNCHANGED faults
       \/ Fault /\ UNCHANGED shown
    /\ snap' = [snap EXCEPT ![c] = Zero]
    /\ Goto(c, "end")
    /\ UNCHANGED <<tables, raw, ctr, seen, jpc, path, co>>

-----------------------------------------------------------------------------

MainStep(j) ==
    \/ StreamEnds(j)
    \/ RunFlush(j)
    \/ RunFinish(j)
    \/ JobLost(j)

Process(c) ==
    \/ Begin(c)
    \/ BeginError(c)
    \/ Seen(c)
    \/ EarlyFilter(c)
    \/ LinkExisting(c)
    \/ FindNone(c)
    \/ CrawlFailed(c)
    \/ LateFilter(c)
    \/ InsertCompany(c)
    \/ InsertConflict(c)
    \/ InsertErrorLate(c)
    \/ EnsureLead(c)
    \/ EnsureLeadError(c)
    \/ MatchedScored(c)
    \/ BelowMinimum(c)
    \/ Convert(c)

Next ==
    \/ \E j \in Job : MainStep(j)
    \/ \E c \in Candidate : Process(c) \/ LoadCounters(c) \/ WriteCounters(c)

Spec == Init /\ [][Next]_vars

-----------------------------------------------------------------------------
(* Properties.                                                             *)

\* However many searches find the same domain at the same time, it becomes one
\* companies row, and a row is counted as created by one candidate of one
\* search, once.  A firm that one of them knows without its domain is not
\* promised one row: nothing stops two inserts after two FindNone then.
OneCompanyPerDomain ==
    /\ \A k, l \in There : company[k].domain = company[l].domain /\ k # l =>
          company[k].domain = NoDomain
    /\ \A c, d \in Candidate : path[c] = "created" /\ path[d] = "created" /\ co[c] = co[d] => c = d
    /\ \A j \in Job : jpc[j] # "dead" =>
          ctr[j]["created"] = Cardinality({c \in Of(j) : path[c] = "created"})

\* A candidate that is linked to a company, converted or dropped for its
\* score leaves a lead with a score behind, also when the search that
\* created the company died before it came to the lead.
KeptHasLead ==
    \A c \in Candidate :
        /\ raw[c] = "converted" => leads[co[c]] = 1
        /\ pc[c] \in Returned /\ co[c] # NoCompany /\ faults = 0 =>
              leads[co[c]] = 1 /\ scored[co[c]].lead > 0 /\ scored[co[c]].rules > 0

\* The counters of a finished search agree with the raw rows it has stored:
\* every candidate found is in one of them, and in one only.
CountersMatchRows ==
    LET Rows(j, st) == Cardinality({c \in Of(j) : raw[c] = st}) IN
    \A j \in Job : jpc[j] = "done" =>
        /\ ctr[j]["found"] >= ctr[j]["matched"] + ctr[j]["filtered"] + ctr[j]["failed"]
        /\ faults = 0 =>
              /\ ctr[j]["matched"] = Rows(j, "matched")
              /\ ctr[j]["filtered"] = Rows(j, "filtered")
              /\ ctr[j]["failed"] = Rows(j, "failed")
              /\ ctr[j]["found"] = ctr[j]["discovered"]
              /\ ctr[j]["found"] = ctr[j]["matched"] + ctr[j]["filtered"] + ctr[j]["failed"]
                                     + Rows(j, "converted")

\* The counters a finished search shows are its last ones, though flushes of
\* several goroutines overtake each other: only two failures hide them.
FinalCounts ==
    \A j \in Job : jpc[j] = "done" /\ shown[j] # ctr[j] => faults >= 2

=============================================================================
