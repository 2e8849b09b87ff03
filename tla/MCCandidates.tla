---------------------------- MODULE MCCandidates ----------------------------
\* A small tenant: the first search meets the same page of a firm twice, the
\* second another page of it and a directory entry without a website.
EXTENDS Candidates, TLC

CONSTANTS j1, j2, c1, c2, c3, c4, a, p

FirmJobs    == c1 :> j1 @@ c2 :> j1 @@ c3 :> j2 @@ c4 :> j2
FirmKeys    == c1 :> 1 @@ c2 :> 1 @@ c3 :> 1 @@ c4 :> 2
FirmDomains == c1 :> a @@ c2 :> a @@ c3 :> a @@ c4 :> NoDomain
FirmIdents  == c1 :> p @@ c2 :> p @@ c3 :> p @@ c4 :> p
FirmScores  == c1 :> 2 @@ c2 :> 2 @@ c3 :> 1 @@ c4 :> 2

Symmetry == Permutations(Company)
=============================================================================
