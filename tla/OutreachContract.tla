--------------------------- MODULE OutreachContract ---------------------------
(***************************************************************************)
(* What a contact may expect of a campaign, without batches, claims and    *)
(* statements: the emails come in order and each of them once, none comes  *)
(* once the campaign is over for the contact, and hardly one after it has  *)
(* been suppressed.  A failure excuses one mail too many, to each contact, *)
(* and a lapse in its claims any number of them, to one contact.           *)
(***************************************************************************)
EXTENDS Integers, Sequences

CONSTANTS Contact, Steps

VARIABLES
    mailed,      \* how often a contact got the mail of a step
    over,        \* the campaign is over for the contact
    suppressed,  \* it is on the suppression list
    late,        \* what it got since
    lapsed,      \* two may write to it at once
    failures

vars == <<mailed, over, suppressed, late, lapsed, failures>>

StepNo == 1..Len(Steps)

Init ==
    /\ mailed = [c \in Contact |-> [i \in StepNo |-> 0]]
    /\ over = [c \in Contact |-> FALSE]
    /\ suppressed = [c \in Contact |-> FALSE]
    /\ late = [c \in Contact |-> 0]
    /\ lapsed = [c \in Contact |-> FALSE]
    /\ failures = 0

\* One mail: all emails before it have come, and it is new or a failure
\* stands for each time it came, or its contact has lapsed.
Mail(c, i) ==
    /\ mailed' = [mailed EXCEPT ![c][i] = @ + 1]
    /\ ~over[c]
    /\ Steps[i] = "email"
    /\ \A j \in StepNo : j < i /\ Steps[j] = "email" => mailed[c][j] > 0
    /\ mailed[c][i] <= failures \/ lapsed[c]
    /\ IF suppressed[c]
       THEN /\ late[c] <= failures \/ lapsed[c]
            /\ late' = [late EXCEPT ![c] = @ + 1]
       ELSE UNCHANGED late
    /\ UNCHANGED <<over, suppressed, lapsed, failures>>

MayFail == failures' \in {failures, failures + 1}

\* The campaign is over for a contact, for good: it has had all its mails,
\* has replied or unsubscribed, cannot be reached, or a failure cost it the
\* rest.
End(c) ==
    /\ over' = [over EXCEPT ![c] = TRUE]
    /\ ~over[c]
    /\ MayFail
    /\ UNCHANGED <<mailed, suppressed, late, lapsed>>

\* The contact unsubscribes, or its address bounces.
Suppress(c) ==
    /\ suppressed' = [suppressed EXCEPT ![c] = TRUE]
    /\ UNCHANGED <<mailed, over, late, lapsed, failures>>

Fail ==
    /\ failures' = failures + 1
    /\ UNCHANGED <<mailed, over, suppressed, late, lapsed>>

\* Two may write to the contact at once, from now on.
Lapse(c) ==
    /\ lapsed' = [lapsed EXCEPT ![c] = TRUE]
    /\ UNCHANGED <<mailed, over, suppressed, late, failures>>

Next ==
    \/ Fail
    \/ \E c \in Contact :
          Suppress(c) \/ Lapse(c) \/ End(c) \/ \E i \in StepNo : Mail(c, i)

Spec == Init /\ [][Next]_vars

===============================================================================
