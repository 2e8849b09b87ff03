------------------------------ MODULE LeadBook ------------------------------
(***************************************************************************)
(* The leads of a tenant after they were found: users set their status and *)
(* edit their company, and RefreshLead, asked for by a user, by a bulk     *)
(* action or by the daily sweep over stale hot leads, crawls the site once *)
(* more and scores the lead anew, which sets its status again; so does a   *)
(* search that meets the company.  A lead and its company are one here.    *)
(* Of a company's data only what a score can tell apart is kept: whether   *)
(* the fields a refresh may fill are filled.  archived_at and owner_id,    *)
(* which no code reads back, are left out.                                 *)
(***************************************************************************)
EXTENDS Scoring, FiniteSets

CONSTANTS
    Lead,
    NoLead,     \* no lead in hand
    Dead,       \* leads without a website, or whose site never yields a page
    Worker,     \* goroutines that refresh on request, or run a search
    Sweep,      \* the one that runs lead:refresh-stale
    SweepLimit, \* RefreshStale's limit
    BulkLimit,  \* ids a bulk refresh takes
    Choices,    \* statuses users choose
    Rich,       \* leads a search has found with every field filled
    Filled,     \* signals of the fields a refresh may fill
    Custom,     \* what the tenant's rules add to a set of signals
    Broken,     \* what those add that were read before reading them failed
    MaxClicks,  \* bound on what users and searches do
    MaxDays,    \* bound on leads going stale
    MaxFaults   \* bound on failing statements and lost workers

validLeadStatus == {"new", "qualified", "hot", "contacted", "archived"}

ASSUME LeadBookAssumption ==
    /\ IsFiniteSet(Lead)
    /\ NoLead \notin Lead
    /\ Dead \subseteq Lead
    /\ Rich \subseteq Lead
    /\ Sweep \notin Worker
    /\ SweepLimit \in Nat \ {0}
    /\ BulkLimit \in Nat \ {0}
    /\ Choices \subseteq validLeadStatus
    /\ Filled \subseteq Known
    /\ Custom \in [SUBSET Signal -> Int]
    /\ Broken \in [SUBSET Signal -> SUBSET Int]
    /\ MaxClicks \in Nat
    /\ MaxDays \in Nat
    /\ MaxFaults \in Nat

Runner == Worker \cup {Sweep}

VARIABLES
    filled,  \* companies: the fields a refresh fills are not empty
    stale,   \* last_enriched_at is NULL or older than EnrichFreshDays
    status,  \* leads.status
    score,   \* leads.lead_score
    row,     \* lead_scores.score
    company, \* companies.lead_score
    pc,      \* where a runner is in RefreshLead
    todo,    \* ids of its task still to refresh
    cur,     \* the lead it is at
    earned,  \* the score that what it has loaded earns
    late,    \* leads a user has set while the sweep runs
    blurred, \* leads whose last scoring overlapped another or failed half-way
    clicks, days, faults

book == <<filled, stale, status>>
scores == <<score, row, company, blurred>>
runner == <<pc, todo, cur, earned>>
bounds == <<clicks, days, faults>>
vars == <<book, scores, runner, late, bounds>>

TypeOK ==
    /\ filled \in [Lead -> BOOLEAN]
    /\ stale \in [Lead -> BOOLEAN]
    /\ status \in [Lead -> validLeadStatus]
    /\ score \in [Lead -> 0..100]
    /\ row \in [Lead -> 0..100]
    /\ company \in [Lead -> 0..100]
    /\ pc \in [Runner -> {"idle", "next", "crawl", "load", "lead", "row", "company"}]
    /\ todo \in [Runner -> SUBSET Lead]
    /\ cur \in [Runner -> Lead \cup {NoLead}]
    /\ earned \in [Runner -> 0..100]
    /\ late \subseteq Lead
    /\ blurred \subseteq Lead
    /\ clicks \in 0..MaxClicks
    /\ days \in 0..MaxDays
    /\ faults \in 0..MaxFaults
    /\ \A r \in Runner : cur[r] = NoLead <=> pc[r] \in {"idle", "next"}
    /\ Cardinality(todo[Sweep]) <= SweepLimit
    /\ \A w \in Worker : Cardinality(todo[w]) <= BulkLimit

ScoreOf(sig) == Evaluate(sig, Custom[sig])

\* What is known of a company whose fields are filled, or not.
Seen(f) == IF f THEN Known ELSE Known \ Filled

\* The leads were found by searches whose criteria they met, and are fresh.
Init ==
    /\ filled = [l \in Lead |-> l \in Rich]
    /\ stale = [l \in Lead |-> FALSE]
    /\ score = [l \in Lead |-> ScoreOf(Seen(filled[l]) \cup Criteria)]
    /\ row = score
    /\ company = score
    /\ status = [l \in Lead |-> StatusForScore(score[l])]
    /\ pc = [r \in Runner |-> "idle"]
    /\ todo = [r \in Runner |-> {}]
    /\ cur = [r \in Runner |-> NoLead]
    /\ earned = [r \in Runner |-> 0]
    /\ late = {}
    /\ blurred = {}
    /\ clicks = 0
    /\ days = 0
    /\ faults = 0

Click == clicks < MaxClicks /\ clicks' = clicks + 1
Fault == faults < MaxFaults /\ faults' = faults + 1

Goto(r, where) == pc' = [pc EXCEPT ![r] = where]

-----------------------------------------------------------------------------
(* Users.                                                                  *)

\* One UPDATE for the leads selected; the form of a single lead may leave the
\* status as it is.
SetStatus(L, st) ==
    /\ Click
    /\ status' = [l \in Lead |-> IF l \in L THEN st ELSE status[l]]
    /\ late' = IF pc[Sweep] = "idle" THEN late ELSE late \cup L
    /\ UNCHANGED <<filled, stale, scores, runner, days, faults>>

HandleLeadUpdate(l) == \E st \in Choices : SetStatus({l}, st)

\* archive, restore, status_qualified, status_contacted and status_new.
HandleLeadBulk ==
    \E L \in SUBSET Lead, st \in Choices \ {"hot"} :
        Cardinality(L) > 1 /\ SetStatus(L, st)

\* The form overwrites every field, also one a refresh has filled since it
\* was shown, and does not score the lead.
HandleCompanyUpdate(l) ==
    /\ Click
    /\ filled' = [filled EXCEPT ![l] = ~@]
    /\ UNCHANGED <<stale, status, scores, runner, late, days, faults>>

\* A task starts on a runner.
Begin(r, L) ==
    /\ pc[r] = "idle"
    /\ Goto(r, "next")
    /\ todo' = [todo EXCEPT ![r] = L]
    /\ UNCHANGED <<cur, earned>>

HandleLeadRefresh(w, l) ==
    /\ Click
    /\ Begin(w, {l})
    /\ UNCHANGED <<book, scores, late, days, faults>>

\* EnqueueLeadBulkRefresh takes the first hundred ids.
HandleBulkRefresh(w) ==
    /\ Click
    /\ \E L \in SUBSET Lead :
          Cardinality(L) \in 2..BulkLimit /\ Begin(w, L)
    /\ UNCHANGED <<book, scores, late, days, faults>>

\* A search links the lead's company, stamps it if it was stale and a page
\* came, and scores it on what it has found, by its own criteria; it has none
\* of the tenant's rules if reading them failed.
SearchScores(w, l) ==
    /\ pc[w] = "idle"
    /\ Click
    /\ Goto(w, "lead")
    /\ cur' = [cur EXCEPT ![w] = l]
    /\ \/ UNCHANGED stale
       \/ l \notin Dead /\ stale' = [stale EXCEPT ![l] = FALSE]
    /\ \E f \in BOOLEAN, met \in {{}, Criteria} :
          \/ earned' = [earned EXCEPT ![w] = ScoreOf(Seen(f) \cup met)] /\ UNCHANGED faults
          \/ earned' = [earned EXCEPT ![w] = Evaluate(Seen(f) \cup met, 0)] /\ Fault
    /\ UNCHANGED <<filled, status, scores, todo, late, days>>

-----------------------------------------------------------------------------
(* RefreshStale.                                                           *)

\* Mutant: the hot leads are found by their score.
DueByScore(l) == StatusForScore(score[l]) = "hot" /\ stale[l]

Due(l) == status[l] = "hot" /\ stale[l]

\* Mutant: the loop takes one lead more than the limit.
TopOfOneMore(L) ==
    {S \in SUBSET L :
        /\ Cardinality(S) = IF Cardinality(L) <= SweepLimit THEN Cardinality(L) ELSE SweepLimit + 1
        /\ \A l \in S, k \in L \ S : score[l] >= score[k]}

\* ORDER BY lead_score DESC LIMIT: the order of equal scores is open.
TopOf(L) ==
    {S \in SUBSET L :
        /\ Cardinality(S) = IF Cardinality(L) < SweepLimit THEN Cardinality(L) ELSE SweepLimit
        /\ \A l \in S, k \in L \ S : score[l] >= score[k]}

SweepStart ==
    LET due == {l \in Lead : Due(l)} IN
    /\ due # {}
    /\ \E S \in TopOf(due) : Begin(Sweep, S)
    /\ late' = {}
    /\ UNCHANGED <<book, scores, bounds>>

-----------------------------------------------------------------------------
(* RefreshLead.                                                            *)

RefreshNext(r) ==
    /\ pc[r] = "next"
    /\ \E l \in todo[r] :
          /\ cur' = [cur EXCEPT ![r] = l]
          /\ todo' = [todo EXCEPT ![r] = @ \ {l}]
    /\ Goto(r, "crawl")
    /\ UNCHANGED <<book, scores, earned, late, bounds>>

RefreshReturn(r) ==
    /\ pc[r] = "next"
    /\ todo[r] = {}
    /\ Goto(r, "idle")
    /\ late' = IF r = Sweep THEN {} ELSE late
    /\ UNCHANGED <<book, scores, todo, cur, earned, bounds>>

Leave(r) ==
    /\ Goto(r, "next")
    /\ cur' = [cur EXCEPT ![r] = NoLead]
    /\ earned' = [earned EXCEPT ![r] = 0]

\* No website or no page: nothing is written, not even that it was tried.  A
\* site of any kind may be down, or the read of the lead fail.
RefreshNothing(r) ==
    /\ pc[r] = "crawl"
    /\ IF cur[r] \in Dead THEN UNCHANGED faults ELSE Fault
    /\ Leave(r)
    /\ UNCHANGED <<book, scores, todo, late, clicks, days>>

\* Mutant: the company is stamped only when the crawl filled something.
RefreshFillStampsFinds(r) ==
    /\ pc[r] = "crawl"
    /\ cur[r] \notin Dead
    /\ \E found \in BOOLEAN :
          /\ filled' = [filled EXCEPT ![cur[r]] = @ \/ found]
          /\ stale' = [stale EXCEPT ![cur[r]] = @ /\ ~found]
    /\ Goto(r, "load")
    /\ UNCHANGED <<status, scores, todo, cur, earned, late, bounds>>

\* The crawl fills what is empty and stamps the company; nobody looks whether
\* the UPDATE failed.
RefreshFill(r) ==
    /\ pc[r] = "crawl"
    /\ cur[r] \notin Dead
    /\ \/ /\ \E found \in BOOLEAN : filled' = [filled EXCEPT ![cur[r]] = @ \/ found]
          /\ stale' = [stale EXCEPT ![cur[r]] = FALSE]
          /\ UNCHANGED faults
       \/ Fault /\ UNCHANGED <<filled, stale>>
    /\ Goto(r, "load")
    /\ UNCHANGED <<status, scores, todo, cur, earned, late, clicks, days>>

\* The contact's address, the website and the phones are read for the scoring
\* by three statements, without the criteria of any search, and then the
\* tenant's rules; a read that fails leaves its fields empty, and of the rules
\* those remain that had been read.
Reads == {{"has_email", "email_verified"}, {"has_website"}, {"has_phone", "has_whatsapp"}}

RefreshLoad(r) ==
    LET sig == Seen(filled[cur[r]])
        Earn(n) == earned' = [earned EXCEPT ![r] = n]
    IN
    /\ pc[r] = "load"
    /\ \/ Earn(ScoreOf(sig)) /\ UNCHANGED faults
       \/ \E lost \in Reads : Earn(ScoreOf(sig \ lost)) /\ Fault
       \/ \E n \in Broken[sig] : Earn(Evaluate(sig, n)) /\ Fault
    /\ Goto(r, "lead")
    /\ UNCHANGED <<book, scores, todo, cur, late, clicks, days>>

\* Another runner that has written some of its score of l.
Scoring(l) == {r \in Runner : cur[r] = l /\ pc[r] \in {"row", "company"}}

\* scoreLead: the lead with its status, ...
ScoreLead(r) ==
    LET l == cur[r] IN
    /\ pc[r] = "lead"
    /\ score' = [score EXCEPT ![l] = earned[r]]
    /\ status' = [status EXCEPT ![l] = StatusForScore(earned[r])]
    /\ blurred' = IF Scoring(l) = {} THEN blurred \ {l} ELSE blurred \cup {l}
    /\ Goto(r, "row")
    /\ UNCHANGED <<filled, stale, row, company, todo, cur, earned, late, bounds>>

\* ... the score with its breakdown, ...
ScoreRow(r) ==
    /\ pc[r] = "row"
    /\ row' = [row EXCEPT ![cur[r]] = earned[r]]
    /\ Goto(r, "company")
    /\ UNCHANGED <<book, score, company, blurred, todo, cur, earned, late, bounds>>

\* Mutant: ... a company's score, once set, is only raised.
ScoreCompanyRaises(r) ==
    /\ pc[r] = "company"
    /\ company' = [company EXCEPT ![cur[r]] = IF @ > earned[r] THEN @ ELSE earned[r]]
    /\ Leave(r)
    /\ UNCHANGED <<book, score, row, blurred, todo, late, bounds>>

\* ... and the company.
ScoreCompany(r) ==
    /\ pc[r] = "company"
    /\ company' = [company EXCEPT ![cur[r]] = earned[r]]
    /\ Leave(r)
    /\ UNCHANGED <<book, score, row, blurred, todo, late, bounds>>

\* A statement of scoreLead fails, and nobody looks.
ScoreError(r) ==
    /\ Fault
    /\ \/ pc[r] = "lead" /\ Goto(r, "row") /\ UNCHANGED <<cur, earned>>
       \/ pc[r] = "row" /\ Goto(r, "company") /\ UNCHANGED <<cur, earned>>
       \/ pc[r] = "company" /\ Leave(r)
    /\ blurred' = blurred \cup {cur[r]}
    /\ UNCHANGED <<book, score, row, company, todo, late, clicks, days>>

\* The worker dies.  asynq delivers its task again (a sweep makes a new list,
\* so this is the next SweepStart) or has no retry left.
RunnerLost(r) ==
    /\ pc[r] # "idle"
    /\ Fault
    /\ Goto(r, "idle")
    /\ todo' = [todo EXCEPT ![r] = {}]
    /\ cur' = [cur EXCEPT ![r] = NoLead]
    /\ earned' = [earned EXCEPT ![r] = 0]
    /\ blurred' = IF pc[r] \in {"row", "company"} THEN blurred \cup {cur[r]} ELSE blurred
    /\ UNCHANGED <<book, score, row, company, late, clicks, days>>

\* For some companies EnrichFreshDays have passed since they were stamped.
DaysPass ==
    /\ days < MaxDays
    /\ days' = days + 1
    /\ \E L \in SUBSET Lead \ {{}} : stale' = [l \in Lead |-> stale[l] \/ l \in L]
    /\ UNCHANGED <<filled, status, scores, runner, late, clicks, faults>>

-----------------------------------------------------------------------------

Refresh(r) ==
    \/ RefreshNext(r)
    \/ RefreshReturn(r)
    \/ RefreshNothing(r)
    \/ RefreshFill(r)
    \/ RefreshLoad(r)
    \/ ScoreLead(r)
    \/ ScoreRow(r)
    \/ ScoreCompany(r)

Users ==
    \/ \E l \in Lead : HandleLeadUpdate(l) \/ HandleCompanyUpdate(l)
    \/ HandleLeadBulk
    \/ \E w \in Worker :
          HandleBulkRefresh(w) \/ \E l \in Lead : HandleLeadRefresh(w, l) \/ SearchScores(w, l)

Next ==
    \/ Users
    \/ SweepStart
    \/ \E r \in Runner : Refresh(r) \/ ScoreError(r) \/ RunnerLost(r)
    \/ DaysPass

Spec == Init /\ [][Next]_vars

\* The scheduler enqueues a sweep every day, and a task that runs goes on: a
\* crawl has its timeouts.
Fairness == WF_vars(SweepStart) /\ \A r \in Runner : WF_vars(Refresh(r))

FairSpec == Spec /\ Fairness

-----------------------------------------------------------------------------
(* Properties.                                                             *)

\* What a user made of a lead stands against the daily sweep: it rescores a
\* lead that is not hot only if a user has set it since the sweep made its
\* list.  (A refresh a user asks for, and a search,
\* do set the status of an archived lead again.)
SweepSparesArchived ==
    [][\A l \in Lead :
          status[l] = "archived" /\ status'[l] # "archived" /\ pc[Sweep] # pc'[Sweep] =>
              l \in late]_vars

\* The three places a score is kept in agree whenever nobody is writing them,
\* unless the last scorings overlapped or one of them failed half-way; and
\* the next scoring that is alone sets them right.
ScoresAgree ==
    \A l \in Lead : l \notin blurred /\ Scoring(l) = {} =>
        row[l] = score[l] /\ company[l] = score[l]

\* As many dead leads as the sweep takes stand before l: they are never
\* stamped, so they may take all its places every day.
Crowded(l) ==
    Cardinality({d \in Dead : Due(d) /\ score[d] >= score[l]}) >= SweepLimit

\* A hot lead that has gone stale is refreshed, or stops being hot, or dead
\* leads crowd it out: nothing else starves it.
StaleHotRefreshed ==
    \A l \in Lead \ Dead : Due(l) ~> (~Due(l) \/ Crowded(l))

=============================================================================
