--------------------------- MODULE MCSearchLifecycle ---------------------------
(***************************************************************************)
(* Instances of SearchLifecycle for TLC, and its refinement of the         *)
(* contract.                                                               *)
(***************************************************************************)
EXTENDS SearchLifecycle, TLC

Symmetry == Permutations(Search) \cup Permutations(Worker) \cup Permutations(Request)

================================================================================
