------------------------------ MODULE MCOutreach ------------------------------
(* Small instances of Outreach for TLC: a sequence, and symmetry. *)
EXTENDS Outreach, TLC

TwoEmails == <<"email", "wait", "email">>

\* The batches are interchangeable, and so are the contacts.
Symmetry == Permutations(Batch) \cup Permutations(Contact)

===============================================================================
