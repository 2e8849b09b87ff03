-------------------------- MODULE LeadBook_proofs --------------------------
(***************************************************************************)
(* What a score can be; that the three scores of a lead agree and the      *)
(* daily sweep spares what users have archived, for any number of leads,   *)
(* runners, clicks and failures.                                           *)
(***************************************************************************)
EXTENDS LeadBook, FiniteSetTheorems, TLAPS

-----------------------------------------------------------------------------
(* What a score can be, for every set of signals.                          *)

\* Whatever the tenant's rules add or take away, a score is in 0..100.
THEOREM ScoreBounded ==
    ASSUME NEW sig \in SUBSET Signal, NEW custom \in Int
    PROVE  Evaluate(sig, custom) \in 0..100
  BY DEF Evaluate, Clamp, DefaultRules, Points

\* A refresh scores a lead without the criteria of a search: by the built-in
\* rules alone it never leaves a lead hot, not even a perfect one.
THEOREM RefreshNeverHot ==
    ASSUME NEW sig \in SUBSET Known
    PROVE  StatusForScore(Evaluate(sig, 0)) # "hot"
<1> /\ "industry_match" \notin sig
    /\ "location_match" \notin sig
    /\ "employee_match" \notin sig
  BY DEF Known
<1> QED  BY DEF Evaluate, Clamp, DefaultRules, Points, StatusForScore

\* By the built-in rules a lead is hot only if it meets the criteria of its
\* search and everything is known of it: no signal can be missing.
THEOREM HotNeedsAll ==
    ASSUME NEW sig \in SUBSET (Known \cup Criteria),
           StatusForScore(Evaluate(sig, 0)) = "hot"
    PROVE  sig = Known \cup Criteria
<1>1. "employee_match" \notin sig
  BY DEF Known, Criteria
<1>2. ASSUME NEW s \in Known \cup Criteria, s \notin sig
      PROVE  FALSE
  BY <1>1, <1>2 DEF Evaluate, Clamp, DefaultRules, Points, StatusForScore, Known, Criteria
<1> QED  BY <1>2

\* The label a score is shown with and the status it sets agree.
THEOREM LabelAgrees ==
    ASSUME NEW n \in 0..100
    PROVE  /\ Label(n) = "Hot" <=> StatusForScore(n) = "hot"
           /\ Label(n) = "Low" <=> StatusForScore(n) = "new"
  BY DEF Label, StatusForScore

-----------------------------------------------------------------------------
(* The inductive invariant.                                                *)

\* TypeOK without its bounds on the lists.
Typed ==
    /\ filled \in [Lead -> BOOLEAN]
    /\ stale \in [Lead -> BOOLEAN]
    /\ status \in [Lead -> validLeadStatus]
    /\ score \in [Lead -> 0..100]
    /\ row \in [Lead -> 0..100]
    /\ company \in [Lead -> 0..100]
    /\ pc \in [Runner -> {"idle", "next", "crawl", "load", "lead", "row", "company"}]
    /\ todo \in [Runner -> SUBSET Lead]
    /\ cur \in [Runner -> Lead \cup {NoLead}]
    /\ earned \in [Runner -> 0..100]
    /\ late \subseteq Lead
    /\ blurred \subseteq Lead
    /\ clicks \in 0..MaxClicks
    /\ days \in 0..MaxDays
    /\ faults \in 0..MaxFaults
    /\ \A r \in Runner : cur[r] = NoLead <=> pc[r] \in {"idle", "next"}

\* No list outgrows its limit.
Listed ==
    /\ Cardinality(todo[Sweep]) <= SweepLimit
    /\ \A w \in Worker : Cardinality(todo[w]) <= BulkLimit

\* A lead that is not blurred has at most one runner that is writing its
\* scores, and what is written so far is that runner's.
Agreeing ==
    \A l \in Lead \ blurred :
        /\ \A r, q \in Scoring(l) : r = q
        /\ \A r \in Scoring(l) :
              /\ score[l] = earned[r]
              /\ pc[r] = "company" => row[l] = score[l]
        /\ Scoring(l) = {} => row[l] = score[l] /\ company[l] = score[l]

\* What a running sweep still has on its list was not archived when it made it.
Sparing ==
    pc[Sweep] # "idle" => \A l \in Lead : l \in todo[Sweep] \/ cur[Sweep] = l =>
        status[l] # "archived" \/ l \in late

LeadBookInv == Typed /\ Listed /\ Agreeing /\ Sparing

\* What most steps need of the constants.
LEMMA Params ==
    /\ NoLead \notin Lead
    /\ Dead \subseteq Lead
    /\ SweepLimit \in Nat \ {0}
    /\ BulkLimit \in Nat \ {0}
    /\ Choices \subseteq validLeadStatus
    /\ MaxClicks \in Nat
    /\ MaxDays \in Nat
    /\ MaxFaults \in Nat
  BY LeadBookAssumption

\* A set of leads is finite, and one without an element is not larger.
LEMMA Lists == \A L \in SUBSET Lead : IsFiniteSet(L) /\ Cardinality(L) \in Nat
  BY LeadBookAssumption, FS_Subset, FS_CardinalityType

LEMMA Shorter == \A L \in SUBSET Lead, l \in Lead : Cardinality(L \ {l}) <= Cardinality(L)
<1> SUFFICES ASSUME NEW L \in SUBSET Lead, NEW l \in Lead  PROVE Cardinality(L \ {l}) <= Cardinality(L)
  OBVIOUS
<1> IsFiniteSet(L) /\ Cardinality(L) \in Nat  BY Lists
<1> QED  BY FS_Subset

LEMMA Empty == Cardinality({}) = 0
  BY FS_EmptySet

\* What a score earns is a status, and never the archive.
LEMMA Earned == \A n \in 0..100 : StatusForScore(n) \in validLeadStatus \ {"archived"}
  BY DEF StatusForScore, validLeadStatus

\* Whatever the tenant's rules add, a score is between 0 and 100.
LEMMA Scores == \A sig \in SUBSET (Known \cup Criteria) : ScoreOf(sig) \in 0..100
<1> SUFFICES ASSUME NEW sig \in SUBSET (Known \cup Criteria)  PROVE ScoreOf(sig) \in 0..100
  OBVIOUS
<1>1. Custom[sig] \in Int
  BY LeadBookAssumption DEF Signal
<1>2. DefaultRules(sig) \in Int
  BY DEF DefaultRules, Points
<1> QED  BY <1>1, <1>2 DEF ScoreOf, Evaluate, Clamp

\* So it is with the rules that are left when reading them fails.
LEMMA ScoresBroken ==
    \A sig \in SUBSET (Known \cup Criteria), n \in Int : Evaluate(sig, n) \in 0..100
<1> SUFFICES ASSUME NEW sig \in SUBSET (Known \cup Criteria), NEW n \in Int
             PROVE  Evaluate(sig, n) \in 0..100
  OBVIOUS
<1>1. DefaultRules(sig) \in Int
  BY DEF DefaultRules, Points
<1> QED  BY <1>1 DEF Evaluate, Clamp

LEMMA Seeing == \A f \in BOOLEAN : Seen(f) \subseteq Known
  BY DEF Seen

LEMMA Runners == Sweep \in Runner /\ Sweep \notin Worker /\ Worker \subseteq Runner
  BY LeadBookAssumption DEF Runner

-----------------------------------------------------------------------------
(* Each step keeps the invariant.                                          *)

LEMMA SetStatusStep ==
    ASSUME LeadBookInv, NEW L \in SUBSET Lead, NEW st \in validLeadStatus, SetStatus(L, st)
    PROVE  LeadBookInv'
<1> USE Params, Runners
    DEF SetStatus, book, scores, runner, bounds, Click, Fault, Goto, Leave, Begin
<1> Typed /\ Listed /\ Agreeing /\ Sparing  BY DEF LeadBookInv
<1>1. Typed'  BY DEF Typed
<1>2. Listed'  BY Lists, Shorter, Empty DEF Typed, Listed
<1>3. Agreeing'  BY DEF Typed, Agreeing, Scoring
<1>4. Sparing'  BY DEF Typed, Sparing
<1> QED  BY <1>1, <1>2, <1>3, <1>4 DEF LeadBookInv

LEMMA HandleCompanyUpdateStep ==
    ASSUME LeadBookInv, NEW l \in Lead, HandleCompanyUpdate(l)
    PROVE  LeadBookInv'
<1> USE Params, Runners
    DEF HandleCompanyUpdate, book, scores, runner, bounds, Click, Fault, Goto, Leave, Begin
<1> Typed /\ Listed /\ Agreeing /\ Sparing  BY DEF LeadBookInv
<1>1. Typed'  BY DEF Typed
<1>2. Listed'  BY Lists, Shorter, Empty DEF Typed, Listed
<1>3. Agreeing'  BY DEF Typed, Agreeing, Scoring
<1>4. Sparing'  BY DEF Typed, Sparing
<1> QED  BY <1>1, <1>2, <1>3, <1>4 DEF LeadBookInv

LEMMA HandleLeadRefreshStep ==
    ASSUME LeadBookInv, NEW w \in Worker, NEW l \in Lead, HandleLeadRefresh(w, l)
    PROVE  LeadBookInv'
<1> USE Params, Runners
    DEF HandleLeadRefresh, book, scores, runner, bounds, Click, Fault, Goto, Leave, Begin
<1> Typed /\ Listed /\ Agreeing /\ Sparing  BY DEF LeadBookInv
<1>1. Typed'  BY DEF Typed
<1>2. Listed'
  <2> Cardinality({l}) = 1  BY FS_Singleton
  <2> \A q \in Runner : todo'[q] = IF q = w THEN {l} ELSE todo[q]  BY DEF Typed
  <2> QED  BY DEF Listed
<1>3. Agreeing'  BY DEF Typed, Agreeing, Scoring
<1>4. Sparing'  BY DEF Typed, Sparing
<1> QED  BY <1>1, <1>2, <1>3, <1>4 DEF LeadBookInv

LEMMA HandleBulkRefreshStep ==
    ASSUME LeadBookInv, NEW w \in Worker, HandleBulkRefresh(w)
    PROVE  LeadBookInv'
<1> USE Params, Runners
    DEF HandleBulkRefresh, book, scores, runner, bounds, Click, Fault, Goto, Leave, Begin
<1> Typed /\ Listed /\ Agreeing /\ Sparing  BY DEF LeadBookInv
<1>1. Typed'  BY DEF Typed
<1>2. Listed'  BY Lists, Shorter, Empty DEF Typed, Listed
<1>3. Agreeing'  BY DEF Typed, Agreeing, Scoring
<1>4. Sparing'  BY DEF Typed, Sparing
<1> QED  BY <1>1, <1>2, <1>3, <1>4 DEF LeadBookInv

LEMMA SearchScoresStep ==
    ASSUME LeadBookInv, NEW w \in Worker, NEW l \in Lead, SearchScores(w, l)
    PROVE  LeadBookInv'
<1> USE Params, Runners
    DEF SearchScores, book, scores, runner, bounds, Click, Fault, Goto, Leave, Begin
<1> Typed /\ Listed /\ Agreeing /\ Sparing  BY DEF LeadBookInv
<1>1. Typed'
  <2>1. \A f \in BOOLEAN, met \in {{}, Criteria} : Seen(f) \cup met \in SUBSET (Known \cup Criteria)
    BY Seeing
  <2>2. \A f \in BOOLEAN, met \in {{}, Criteria} :
            ScoreOf(Seen(f) \cup met) \in 0..100 /\ Evaluate(Seen(f) \cup met, 0) \in 0..100
    BY <2>1, Scores, ScoresBroken
  <2>3. earned' \in [Runner -> 0..100]
    <3>1. \E f \in BOOLEAN, met \in {{}, Criteria} :
             \/ earned' = [earned EXCEPT ![w] = ScoreOf(Seen(f) \cup met)]
             \/ earned' = [earned EXCEPT ![w] = Evaluate(Seen(f) \cup met, 0)]
      OBVIOUS
    <3>2. \E n \in 0..100 : earned' = [earned EXCEPT ![w] = n]
      BY <2>2, <3>1
    <3>3. earned \in [Runner -> 0..100]
      BY DEF Typed
    <3> QED  BY <3>2, <3>3
  <2>4. stale' \in [Lead -> BOOLEAN]
    <3>1. stale' = stale \/ stale' = [stale EXCEPT ![l] = FALSE]
      OBVIOUS
    <3> QED  BY <3>1 DEF Typed
  <2>5. faults' \in 0..MaxFaults /\ clicks' \in 0..MaxClicks
    BY DEF Typed
  <2>6. pc' \in [Runner -> {"idle", "next", "crawl", "load", "lead", "row", "company"}]
    BY DEF Typed
  <2>7. cur' \in [Runner -> Lead \cup {NoLead}] /\ \A r \in Runner : cur'[r] = NoLead <=> pc'[r] \in {"idle", "next"}
    BY DEF Typed
  <2> QED  BY <2>3, <2>4, <2>5, <2>6, <2>7 DEF Typed
<1>2. Listed'  BY Lists, Shorter, Empty DEF Typed, Listed
<1>3. Agreeing'  BY DEF Typed, Agreeing, Scoring
<1>4. Sparing'  BY DEF Typed, Sparing
<1> QED  BY <1>1, <1>2, <1>3, <1>4 DEF LeadBookInv

LEMMA SweepStartStep ==
    ASSUME LeadBookInv, SweepStart
    PROVE  LeadBookInv'
<1> USE Params, Runners
    DEF SweepStart, book, scores, runner, bounds, Click, Fault, Goto, Leave, Begin
<1> Typed /\ Listed /\ Agreeing /\ Sparing  BY DEF LeadBookInv
<1>1. Typed'  BY DEF Typed, Due, TopOf
<1>2. Listed'  BY Lists, Shorter, Empty DEF Typed, Listed, Due, TopOf
<1>3. Agreeing'  BY DEF Typed, Agreeing, Scoring
<1>4. Sparing'  BY DEF Typed, Sparing, Due, TopOf
<1> QED  BY <1>1, <1>2, <1>3, <1>4 DEF LeadBookInv

LEMMA RefreshNextStep ==
    ASSUME LeadBookInv, NEW r \in Runner, RefreshNext(r)
    PROVE  LeadBookInv'
<1> USE Params, Runners
    DEF RefreshNext, book, scores, runner, bounds, Click, Fault, Goto, Leave, Begin
<1> Typed /\ Listed /\ Agreeing /\ Sparing  BY DEF LeadBookInv
<1>1. Typed'  BY DEF Typed
<1>2. Listed'
  <2>1. PICK l \in todo[r] : todo' = [todo EXCEPT ![r] = @ \ {l}]
    OBVIOUS
  <2>2. Cardinality(todo[r] \ {l}) <= Cardinality(todo[r])  BY Shorter DEF Typed
  <2>3. \A q \in Runner : todo'[q] = IF q = r THEN todo[r] \ {l} ELSE todo[q]  BY <2>1 DEF Typed
  <2>4. \A q \in Runner : Cardinality(todo[q]) \in Nat  BY Lists DEF Typed
  <2>5. \A q \in Runner : Cardinality(todo'[q]) <= Cardinality(todo[q])  BY <2>2, <2>3, <2>4
  <2>6. \A q \in Runner : Cardinality(todo'[q]) \in Nat
    <3>1. \A q \in Runner : todo'[q] \in SUBSET Lead  BY <1>1 DEF Typed
    <3> QED  BY <3>1, Lists
  <2>7. SweepLimit \in Nat /\ BulkLimit \in Nat  BY Params
  <2> HIDE DEF RefreshNext
  <2>8. \A q \in Runner, n \in Nat : Cardinality(todo[q]) <= n => Cardinality(todo'[q]) <= n
    BY <2>4, <2>5, <2>6
  <2> QED  BY <2>7, <2>8 DEF Listed
<1>3. Agreeing'  BY DEF Typed, Agreeing, Scoring
<1>4. Sparing'  BY DEF Typed, Sparing
<1> QED  BY <1>1, <1>2, <1>3, <1>4 DEF LeadBookInv

LEMMA RefreshReturnStep ==
    ASSUME LeadBookInv, NEW r \in Runner, RefreshReturn(r)
    PROVE  LeadBookInv'
<1> USE Params, Runners
    DEF RefreshReturn, book, scores, runner, bounds, Click, Fault, Goto, Leave, Begin
<1> Typed /\ Listed /\ Agreeing /\ Sparing  BY DEF LeadBookInv
<1>1. Typed'  BY DEF Typed
<1>2. Listed'  BY Lists, Shorter, Empty DEF Typed, Listed
<1>3. Agreeing'  BY DEF Typed, Agreeing, Scoring
<1>4. Sparing'  BY DEF Typed, Sparing
<1> QED  BY <1>1, <1>2, <1>3, <1>4 DEF LeadBookInv

LEMMA RefreshNothingStep ==
    ASSUME LeadBookInv, NEW r \in Runner, RefreshNothing(r)
    PROVE  LeadBookInv'
<1> USE Params, Runners
    DEF RefreshNothing, book, scores, runner, bounds, Click, Fault, Goto, Leave, Begin
<1> Typed /\ Listed /\ Agreeing /\ Sparing  BY DEF LeadBookInv
<1>1. Typed'  BY DEF Typed
<1>2. Listed'  BY Lists, Shorter, Empty DEF Typed, Listed
<1>3. Agreeing'  BY DEF Typed, Agreeing, Scoring
<1>4. Sparing'  BY DEF Typed, Sparing
<1> QED  BY <1>1, <1>2, <1>3, <1>4 DEF LeadBookInv

LEMMA RefreshFillStep ==
    ASSUME LeadBookInv, NEW r \in Runner, RefreshFill(r)
    PROVE  LeadBookInv'
<1> USE Params, Runners
    DEF RefreshFill, book, scores, runner, bounds, Click, Fault, Goto, Leave, Begin
<1> Typed /\ Listed /\ Agreeing /\ Sparing  BY DEF LeadBookInv
<1>1. Typed'
  <2>1. filled' \in [Lead -> BOOLEAN] /\ stale' \in [Lead -> BOOLEAN]
    BY ZenonT(30) DEF Typed
  <2>2. pc' \in [Runner -> {"idle", "next", "crawl", "load", "lead", "row", "company"}]
    BY DEF Typed
  <2>3. faults' \in 0..MaxFaults
    BY DEF Typed
  <2> QED  BY <2>1, <2>2, <2>3 DEF Typed
<1>2. Listed'  BY Lists, Shorter, Empty DEF Typed, Listed
<1>3. Agreeing'  BY DEF Typed, Agreeing, Scoring
<1>4. Sparing'  BY DEF Typed, Sparing
<1> QED  BY <1>1, <1>2, <1>3, <1>4 DEF LeadBookInv

\* What a refresh may load, with a read that fails or not, earns a score.
LEMMA LoadedBounded ==
    ASSUME NEW r \in Runner, RefreshLoad(r), Seen(filled[cur[r]]) \subseteq Known
    PROVE  \E n \in 0..100 : earned' = [earned EXCEPT ![r] = n]
<1> DEFINE sig == Seen(filled[cur[r]])
<1> HIDE DEF sig
<1>1. sig \in SUBSET (Known \cup Criteria) /\ \A lost \in Reads : sig \ lost \in SUBSET (Known \cup Criteria)
  BY DEF sig
<1>2. Broken[sig] \subseteq Int
  BY <1>1, LeadBookAssumption DEF Signal
<1>3. \/ earned' = [earned EXCEPT ![r] = ScoreOf(sig)]
      \/ \E lost \in Reads : earned' = [earned EXCEPT ![r] = ScoreOf(sig \ lost)]
      \/ \E n \in Broken[sig] : earned' = [earned EXCEPT ![r] = Evaluate(sig, n)]
  BY DEF RefreshLoad, sig
<1> QED  BY <1>1, <1>2, <1>3, Scores, ScoresBroken

LEMMA RefreshLoadStep ==
    ASSUME LeadBookInv, NEW r \in Runner, RefreshLoad(r)
    PROVE  LeadBookInv'
<1> USE Params, Runners
    DEF RefreshLoad, book, scores, runner, bounds, Click, Fault, Goto, Leave, Begin
<1> Typed /\ Listed /\ Agreeing /\ Sparing  BY DEF LeadBookInv
<1>1. Typed'
  <2>1. filled[cur[r]] \in BOOLEAN
    BY DEF Typed
  <2>2. Seen(filled[cur[r]]) \subseteq Known
    BY <2>1, Seeing
  <2>3. earned' \in [Runner -> 0..100]
    <3>1. \E n \in 0..100 : earned' = [earned EXCEPT ![r] = n]
      BY <2>2, LoadedBounded
    <3>2. earned \in [Runner -> 0..100]
      BY DEF Typed
    <3> QED  BY <3>1, <3>2
  <2>4. pc' \in [Runner -> {"idle", "next", "crawl", "load", "lead", "row", "company"}]
    BY DEF Typed
  <2>5. faults' \in 0..MaxFaults
    <3>1. faults' = faults \/ (faults < MaxFaults /\ faults' = faults + 1)
      OBVIOUS
    <3>2. faults \in 0..MaxFaults /\ MaxFaults \in Nat
      BY DEF Typed
    <3> HIDE DEF RefreshLoad
    <3> QED  BY <3>1, <3>2
  <2> QED  BY <2>3, <2>4, <2>5 DEF Typed
<1>2. Listed'  BY Lists, Shorter, Empty DEF Typed, Listed
<1>3. Agreeing'
  <2>1. /\ UNCHANGED <<scores, cur>>
        /\ pc[r] = "load"
        /\ pc' = [pc EXCEPT ![r] = "lead"]
        /\ \A q \in Runner : q # r => earned'[q] = earned[q]
    <3>1. \E n : earned' = [earned EXCEPT ![r] = n]
      BY DEF RefreshLoad
    <3> QED  BY <3>1 DEF Typed
  <2> HIDE DEF RefreshLoad
  <2>2. \A l \in Lead : Scoring(l)' = Scoring(l)
    BY <2>1 DEF Typed, Scoring
  <2>3. \A l \in Lead : \A q \in Scoring(l) : q # r /\ earned'[q] = earned[q] /\ pc'[q] = pc[q]
    <3>1. \A l \in Lead : \A q \in Scoring(l) : q \in Runner /\ q # r
      BY <2>1 DEF Scoring
    <3>2. \A q \in Runner : q # r => pc'[q] = pc[q]
      BY <2>1 DEF Typed
    <3> QED  BY <2>1, <3>1, <3>2
  <2> QED  BY <2>1, <2>2, <2>3 DEF Agreeing
<1>4. Sparing'  BY DEF Typed, Sparing
<1> QED  BY <1>1, <1>2, <1>3, <1>4 DEF LeadBookInv

LEMMA ScoreLeadStep ==
    ASSUME LeadBookInv, NEW r \in Runner, ScoreLead(r)
    PROVE  LeadBookInv'
<1> USE Params, Runners
    DEF ScoreLead, book, scores, runner, bounds, Click, Fault, Goto, Leave, Begin
<1> Typed /\ Listed /\ Agreeing /\ Sparing  BY DEF LeadBookInv
<1>1. Typed'  BY Earned, Scores DEF Typed
<1>2. Listed'  BY Lists, Shorter, Empty DEF Typed, Listed
<1>3. Agreeing'  BY Earned, Scores DEF Typed, Agreeing, Scoring
<1>4. Sparing'  BY Earned, Scores DEF Typed, Sparing
<1> QED  BY <1>1, <1>2, <1>3, <1>4 DEF LeadBookInv

LEMMA ScoreRowStep ==
    ASSUME LeadBookInv, NEW r \in Runner, ScoreRow(r)
    PROVE  LeadBookInv'
<1> USE Params, Runners
    DEF ScoreRow, book, scores, runner, bounds, Click, Fault, Goto, Leave, Begin
<1> Typed /\ Listed /\ Agreeing /\ Sparing  BY DEF LeadBookInv
<1>1. Typed'  BY Scores DEF Typed
<1>2. Listed'  BY Lists, Shorter, Empty DEF Typed, Listed
<1>3. Agreeing'  BY Scores DEF Typed, Agreeing, Scoring
<1>4. Sparing'  BY Scores DEF Typed, Sparing
<1> QED  BY <1>1, <1>2, <1>3, <1>4 DEF LeadBookInv

LEMMA ScoreCompanyStep ==
    ASSUME LeadBookInv, NEW r \in Runner, ScoreCompany(r)
    PROVE  LeadBookInv'
<1> USE Params, Runners
    DEF ScoreCompany, book, scores, runner, bounds, Click, Fault, Goto, Leave, Begin
<1> Typed /\ Listed /\ Agreeing /\ Sparing  BY DEF LeadBookInv
<1>1. Typed'  BY Scores DEF Typed
<1>2. Listed'  BY Lists, Shorter, Empty DEF Typed, Listed
<1>3. Agreeing'  BY Scores DEF Typed, Agreeing, Scoring
<1>4. Sparing'  BY Scores DEF Typed, Sparing
<1> QED  BY <1>1, <1>2, <1>3, <1>4 DEF LeadBookInv

LEMMA ScoreErrorStep ==
    ASSUME LeadBookInv, NEW r \in Runner, ScoreError(r)
    PROVE  LeadBookInv'
<1> USE Params, Runners
    DEF ScoreError, book, scores, runner, bounds, Click, Fault, Goto, Leave, Begin
<1> Typed /\ Listed /\ Agreeing /\ Sparing  BY DEF LeadBookInv
<1>1. Typed'  BY DEF Typed
<1>2. Listed'  BY Lists, Shorter, Empty DEF Typed, Listed
<1>3. Agreeing'  BY DEF Typed, Agreeing, Scoring
<1>4. Sparing'  BY DEF Typed, Sparing
<1> QED  BY <1>1, <1>2, <1>3, <1>4 DEF LeadBookInv

LEMMA RunnerLostStep ==
    ASSUME LeadBookInv, NEW r \in Runner, RunnerLost(r)
    PROVE  LeadBookInv'
<1> USE Params, Runners
    DEF RunnerLost, book, scores, runner, bounds, Click, Fault, Goto, Leave, Begin
<1> Typed /\ Listed /\ Agreeing /\ Sparing  BY DEF LeadBookInv
<1>1. Typed'  BY DEF Typed
<1>2. Listed'  BY Lists, Shorter, Empty DEF Typed, Listed
<1>3. Agreeing'  BY DEF Typed, Agreeing, Scoring
<1>4. Sparing'  BY DEF Typed, Sparing
<1> QED  BY <1>1, <1>2, <1>3, <1>4 DEF LeadBookInv

LEMMA DaysPassStep ==
    ASSUME LeadBookInv, DaysPass
    PROVE  LeadBookInv'
<1> USE Params, Runners
    DEF DaysPass, book, scores, runner, bounds, Click, Fault, Goto, Leave, Begin
<1> Typed /\ Listed /\ Agreeing /\ Sparing  BY DEF LeadBookInv
<1>1. Typed'
  <2>1. stale' \in [Lead -> BOOLEAN]  BY ZenonT(30) DEF Typed
  <2>2. days' \in 0..MaxDays  BY DEF Typed
  <2> QED  BY <2>1, <2>2 DEF Typed
<1>2. Listed'  BY Lists, Shorter, Empty DEF Typed, Listed
<1>3. Agreeing'  BY DEF Typed, Agreeing, Scoring
<1>4. Sparing'  BY DEF Typed, Sparing
<1> QED  BY <1>1, <1>2, <1>3, <1>4 DEF LeadBookInv

-----------------------------------------------------------------------------

LEMMA Start == Init => LeadBookInv
<1> SUFFICES ASSUME Init  PROVE LeadBookInv
  OBVIOUS
<1> USE Runners
<1>1. filled \in [Lead -> BOOLEAN] /\ stale \in [Lead -> BOOLEAN]
  <2>1. filled = [l \in Lead |-> l \in Rich] /\ stale = [l \in Lead |-> FALSE]
    BY DEF Init
  <2>2. \A l \in Lead : (l \in Rich) \in BOOLEAN
    OBVIOUS
  <2>3. filled \in [Lead -> BOOLEAN]
    BY <2>1, <2>2, Zenon
  <2>4. stale \in [Lead -> BOOLEAN]
    BY <2>1
  <2> QED  BY <2>3, <2>4
<1>2. /\ score = [l \in Lead |-> ScoreOf(Seen(filled[l]) \cup Criteria)]
      /\ status = [l \in Lead |-> StatusForScore(score[l])]
      /\ row = score /\ company = score
      /\ pc = [r \in Runner |-> "idle"]
      /\ todo = [r \in Runner |-> {}]
      /\ cur = [r \in Runner |-> NoLead]
      /\ earned = [r \in Runner |-> 0]
      /\ late = {} /\ blurred = {} /\ clicks = 0 /\ days = 0 /\ faults = 0
  BY DEF Init
<1>3. score \in [Lead -> 0..100]
  <2>1. \A l \in Lead : Seen(filled[l]) \cup Criteria \in SUBSET (Known \cup Criteria)
    BY <1>1, Seeing
  <2> QED  BY <2>1, <1>2, Scores
<1>4. status \in [Lead -> validLeadStatus]
  BY <1>2, <1>3, Earned
<1>5. Typed
  <2>1. row \in [Lead -> 0..100] /\ company \in [Lead -> 0..100]
    BY <1>2, <1>3
  <2>2. /\ pc \in [Runner -> {"idle", "next", "crawl", "load", "lead", "row", "company"}]
        /\ todo \in [Runner -> SUBSET Lead]
        /\ cur \in [Runner -> Lead \cup {NoLead}]
        /\ \A r \in Runner : cur[r] = NoLead <=> pc[r] \in {"idle", "next"}
    BY <1>2
  <2>4. earned \in [Runner -> 0..100]
    <3>1. 0 \in 0..100  OBVIOUS
    <3> QED  BY <1>2, <3>1
  <2>3. clicks \in 0..MaxClicks /\ days \in 0..MaxDays /\ faults \in 0..MaxFaults
    <3>1. clicks = 0 /\ days = 0 /\ faults = 0
      BY <1>2
    <3> QED  BY <3>1, Params
  <2> QED  BY <1>1, <1>2, <1>3, <1>4, <2>1, <2>2, <2>3, <2>4 DEF Typed
<1>6. Listed
  <2>1. todo[Sweep] = {} /\ \A w \in Worker : todo[w] = {}
    BY <1>2
  <2>2. 0 <= SweepLimit /\ 0 <= BulkLimit
    BY Params
  <2> QED  BY <2>1, <2>2, Empty DEF Listed
<1>7. Agreeing
  BY <1>2 DEF Agreeing, Scoring
<1>8. Sparing
  BY <1>2 DEF Sparing
<1> QED  BY <1>5, <1>6, <1>7, <1>8 DEF LeadBookInv

LEMMA Step == LeadBookInv /\ [Next]_vars => LeadBookInv'
<1> SUFFICES ASSUME LeadBookInv, [Next]_vars  PROVE LeadBookInv'
  OBVIOUS
<1>1. ASSUME NEW l \in Lead, HandleLeadUpdate(l)  PROVE LeadBookInv'
  BY <1>1, SetStatusStep, LeadBookAssumption DEF HandleLeadUpdate
<1>2. CASE HandleLeadBulk
  BY <1>2, SetStatusStep, LeadBookAssumption DEF HandleLeadBulk
<1>3. ASSUME NEW l \in Lead, HandleCompanyUpdate(l)  PROVE LeadBookInv'
  BY <1>3, HandleCompanyUpdateStep
<1>4. ASSUME NEW w \in Worker, HandleBulkRefresh(w)  PROVE LeadBookInv'
  BY <1>4, HandleBulkRefreshStep
<1>5. ASSUME NEW w \in Worker, NEW l \in Lead, HandleLeadRefresh(w, l) \/ SearchScores(w, l)
      PROVE LeadBookInv'
  BY <1>5, HandleLeadRefreshStep, SearchScoresStep
<1>6. CASE SweepStart
  BY <1>6, SweepStartStep
<1>7. ASSUME NEW r \in Runner, Refresh(r)  PROVE LeadBookInv'
  BY <1>7, RefreshNextStep, RefreshReturnStep, RefreshNothingStep, RefreshFillStep,
     RefreshLoadStep, ScoreLeadStep, ScoreRowStep, ScoreCompanyStep DEF Refresh
<1>8. ASSUME NEW r \in Runner, ScoreError(r) \/ RunnerLost(r)  PROVE LeadBookInv'
  BY <1>8, ScoreErrorStep, RunnerLostStep
<1>9. CASE DaysPass
  BY <1>9, DaysPassStep
<1>10. CASE UNCHANGED vars
  BY <1>10 DEF vars, book, scores, runner, bounds, LeadBookInv, Typed, Listed, Agreeing, Sparing, Scoring
<1> QED
  BY <1>1, <1>2, <1>3, <1>4, <1>5, <1>6, <1>7, <1>8, <1>9, <1>10 DEF Next, Users

\* The inductive invariant: a score that nobody has blurred is written by one
\* runner, and what the sweep has listed was not archived then.
THEOREM Invariant == Spec => []LeadBookInv
  BY Start, Step, PTL DEF Spec

\* The lists keep their limits and everything its type, in every state.
THEOREM Typing == Spec => []TypeOK
<1>1. LeadBookInv => TypeOK
  BY DEF LeadBookInv, Typed, Listed, TypeOK
<1> QED  BY <1>1, Invariant, PTL

\* scoreLead leaves the lead, its breakdown and its company with one score,
\* unless it overlapped another or failed half-way.
THEOREM OneScore == Spec => []ScoresAgree
<1>1. LeadBookInv => ScoresAgree
  BY DEF LeadBookInv, Agreeing, ScoresAgree
<1> QED  BY <1>1, Invariant, PTL

\* RefreshStale takes no lead out of the archive that was in it when it made
\* its list.
THEOREM ArchiveIsSpared == Spec => SweepSparesArchived
<1>1. LeadBookInv /\ [Next]_vars =>
        [\A l \in Lead : status[l] = "archived" /\ status'[l] # "archived" /\ pc[Sweep] # pc'[Sweep] =>
            l \in late]_vars
  <2> SUFFICES ASSUME LeadBookInv, Next, NEW l \in Lead, status[l] = "archived",
                      status'[l] # "archived", pc[Sweep] # pc'[Sweep]
               PROVE l \in late
    OBVIOUS
  <2> USE Runners DEF book, scores, runner, bounds, Goto
  <2>1. ASSUME NEW r \in Runner, ScoreLead(r)  PROVE l \in late
    BY <2>1 DEF ScoreLead, LeadBookInv, Typed, Sparing
  <2>2. ASSUME NEW k \in Lead, HandleLeadUpdate(k) \/ HandleCompanyUpdate(k)
        PROVE FALSE
    BY <2>2 DEF HandleLeadUpdate, SetStatus, HandleCompanyUpdate
  <2>3. CASE HandleLeadBulk
    BY <2>3 DEF HandleLeadBulk, SetStatus
  <2>4. CASE SweepStart
    BY <2>4 DEF SweepStart
  <2>5. ASSUME NEW w \in Worker, HandleBulkRefresh(w) \/ \E k \in Lead : HandleLeadRefresh(w, k) \/ SearchScores(w, k)
        PROVE FALSE
    BY <2>5 DEF HandleBulkRefresh, HandleLeadRefresh, SearchScores
  <2>6. ASSUME NEW r \in Runner, ~ScoreLead(r), Refresh(r) \/ ScoreError(r) \/ RunnerLost(r)
        PROVE FALSE
    BY <2>6 DEF Refresh, RefreshNext, RefreshReturn, RefreshNothing, RefreshFill, RefreshLoad,
       ScoreRow, ScoreCompany, ScoreError, RunnerLost
  <2>7. CASE DaysPass
    BY <2>7 DEF DaysPass
  <2> QED  BY <2>1, <2>2, <2>3, <2>4, <2>5, <2>6, <2>7 DEF Next, Users
<1> QED  BY <1>1, Invariant, PTL DEF Spec, SweepSparesArchived

-----------------------------------------------------------------------------
(* What a refresh knows of a lead.                                         *)

\* Without the criteria of a search, built-in rules add 65 points at most.
LEMMA KnownIsNotHot ==
    ASSUME NEW sig \in SUBSET Known, NEW n \in Int, n < 25
    PROVE  Evaluate(sig, n) < 90
<1>1. "industry_match" \notin sig /\ "location_match" \notin sig /\ "employee_match" \notin sig
  BY DEF Known
<1>2. DefaultRules(sig) \in Int /\ DefaultRules(sig) <= 65
  BY <1>1 DEF DefaultRules, Points
<1> QED  BY <1>2 DEF Evaluate, Clamp

\* The tenant's rules add less than 25 points to what is known of a company.
Modest == \A sig \in SUBSET Known : Custom[sig] < 25 /\ \A n \in Broken[sig] : n < 25

\* What a sweep has loaded earns no hot score.
SweepSees == earned[Sweep] < 90

LEMMA SweepLoads ==
    ASSUME Modest, RefreshLoad(Sweep), Seen(filled[cur[Sweep]]) \subseteq Known
    PROVE  \E n \in {k \in 0..100 : k < 90} : earned' = [earned EXCEPT ![Sweep] = n]
<1> DEFINE sig == Seen(filled[cur[Sweep]])
<1> HIDE DEF sig
<1>1. sig \in SUBSET Known /\ \A lost \in Reads : sig \ lost \in SUBSET Known
  BY DEF sig
<1>2. \/ earned' = [earned EXCEPT ![Sweep] = ScoreOf(sig)]
      \/ \E lost \in Reads : earned' = [earned EXCEPT ![Sweep] = ScoreOf(sig \ lost)]
      \/ \E n \in Broken[sig] : earned' = [earned EXCEPT ![Sweep] = Evaluate(sig, n)]
  BY DEF RefreshLoad, sig
<1>3. \A k \in SUBSET Known : Custom[k] \in Int /\ Broken[k] \in SUBSET Int
  BY LeadBookAssumption DEF Signal
<1>4. \A k \in SUBSET Known : ScoreOf(k) < 90 /\ \A n \in Broken[k] : Evaluate(k, n) < 90
  BY <1>3, KnownIsNotHot DEF Modest, ScoreOf
<1>5. \A k \in SUBSET Known : ScoreOf(k) \in 0..100 /\ \A n \in Broken[k] : Evaluate(k, n) \in 0..100
  BY <1>3, Scores, ScoresBroken
<1> QED  BY <1>1, <1>2, <1>4, <1>5

LEMMA SweepSeesStep == Modest /\ LeadBookInv /\ SweepSees /\ [Next]_vars => SweepSees'
<1> SUFFICES ASSUME Modest, LeadBookInv, SweepSees, [Next]_vars  PROVE SweepSees'
  OBVIOUS
<1> earned \in [Runner -> 0..100]  BY DEF LeadBookInv, Typed
<1> USE Runners DEF runner, Goto, Leave, Begin, SweepSees
<1>1. CASE Users
  BY <1>1 DEF Users, HandleLeadUpdate, SetStatus, HandleCompanyUpdate, HandleLeadBulk,
     HandleBulkRefresh, HandleLeadRefresh, SearchScores
<1>2. CASE SweepStart \/ DaysPass
  BY <1>2 DEF SweepStart, DaysPass
<1>3. ASSUME NEW r \in Runner, RefreshLoad(r)  PROVE SweepSees'
  <2>1. cur[r] \in Lead /\ filled[cur[r]] \in BOOLEAN
    BY <1>3 DEF RefreshLoad, LeadBookInv, Typed
  <2>2. Seen(filled[cur[r]]) \subseteq Known
    BY <2>1, Seeing
  <2>3. CASE r = Sweep
    BY <1>3, <2>2, <2>3, SweepLoads
  <2>4. CASE r # Sweep
    BY <1>3, <2>2, <2>4, LoadedBounded
  <2> QED  BY <2>3, <2>4
<1>4. ASSUME NEW r \in Runner, ~RefreshLoad(r), Refresh(r)  PROVE SweepSees'
  BY <1>4 DEF Refresh, RefreshNext, RefreshReturn, RefreshNothing, RefreshFill,
     ScoreLead, ScoreRow, ScoreCompany
<1>5. ASSUME NEW r \in Runner, ScoreError(r) \/ RunnerLost(r)  PROVE SweepSees'
  BY <1>5 DEF ScoreError, RunnerLost
<1>6. CASE UNCHANGED vars
  BY <1>6 DEF vars
<1> QED  BY <1>1, <1>2, <1>3, <1>4, <1>5, <1>6 DEF Next

\* RefreshStale makes no lead hot, and leaves none hot that it scores, unless
\* the tenant's own rules add 25 points: the built-in signals of a search's
\* industry and location, which a hot lead owes 30 of its points to, are not
\* there when RefreshLead scores it (refresh.go:83-84).
THEOREM SweepCools ==
    ASSUME Modest
    PROVE  Spec => [][\A l \in Lead : pc[Sweep] = "lead" /\ pc'[Sweep] = "row" /\ score'[l] # score[l] =>
                          status'[l] # "hot"]_vars
<1> DEFINE Cools ==
        \A l \in Lead : pc[Sweep] = "lead" /\ pc'[Sweep] = "row" /\ score'[l] # score[l] =>
            status'[l] # "hot"
<1>1. Init => SweepSees
  <2>1. 0 < 90  OBVIOUS
  <2>2. Init => earned[Sweep] = 0  BY Runners DEF Init
  <2> QED  BY <2>1, <2>2 DEF SweepSees
<1>2. LeadBookInv /\ SweepSees /\ [Next]_vars => SweepSees'
  BY SweepSeesStep
<1>3. Spec => []SweepSees
  BY <1>1, <1>2, Invariant, PTL DEF Spec
<1>4. LeadBookInv /\ SweepSees /\ [Next]_vars => [Cools]_vars
  <2> SUFFICES ASSUME LeadBookInv, SweepSees, Next, NEW l \in Lead,
                      pc[Sweep] = "lead", pc'[Sweep] = "row", score'[l] # score[l]
               PROVE status'[l] # "hot"
    OBVIOUS
  <2>1. score \in [Lead -> 0..100] /\ status \in [Lead -> validLeadStatus]
        /\ pc \in [Runner -> {"idle", "next", "crawl", "load", "lead", "row", "company"}]
    BY DEF LeadBookInv, Typed
  <2>2. ScoreLead(Sweep)
    BY <2>1, Runners DEF Next, Users, HandleLeadUpdate, HandleLeadBulk, SetStatus, HandleCompanyUpdate,
       HandleBulkRefresh, HandleLeadRefresh, SearchScores, SweepStart, DaysPass, Refresh,
       RefreshNext, RefreshReturn, RefreshNothing, RefreshFill, RefreshLoad, ScoreLead, ScoreRow,
       ScoreCompany, ScoreError, RunnerLost, Begin, Leave, Goto, scores, runner
  <2>3. earned[Sweep] \in 0..100
    BY Runners DEF LeadBookInv, Typed
  <2>4. l = cur[Sweep] /\ status'[l] = StatusForScore(earned[Sweep])
    BY <2>1, <2>2 DEF ScoreLead
  <2> QED  BY <2>3, <2>4 DEF StatusForScore, SweepSees
<1> QED  BY <1>3, <1>4, Invariant, PTL DEF Spec

=============================================================================
