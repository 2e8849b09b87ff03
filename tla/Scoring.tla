------------------------------- MODULE Scoring -------------------------------
(***************************************************************************)
(* The score of a lead: the built-in weights of the signals that hold, and *)
(* what the tenant's own rules add, clamped to 0..100.  A set of signals   *)
(* stands for Signals; the sum is written out, as the list of rules is.    *)
(***************************************************************************)
EXTENDS Integers

\* What the search asked for, which only a search can match ...
Criteria == {"industry_match", "location_match"}

\* ... and what is known of a company.
Known == {"has_website", "has_email", "email_verified", "has_phone", "has_whatsapp"}

\* No code sets employee_match.
Signal == Known \cup Criteria \cup {"employee_match"}

Points(sig, s, weight) == IF s \in sig THEN weight ELSE 0

DefaultRules(sig) ==
    Points(sig, "has_website", 10) + Points(sig, "has_email", 15)
    + Points(sig, "email_verified", 20) + Points(sig, "has_phone", 10)
    + Points(sig, "has_whatsapp", 10) + Points(sig, "industry_match", 20)
    + Points(sig, "location_match", 10) + Points(sig, "employee_match", 15)

Clamp(n) == IF n < 0 THEN 0 ELSE IF n > 100 THEN 100 ELSE n

\* custom is what the tenant's rules add, together.
Evaluate(sig, custom) == Clamp(DefaultRules(sig) + custom)

StatusForScore(n) ==
    IF n >= 90 THEN "hot" ELSE IF n >= 50 THEN "qualified" ELSE "new"

Label(n) ==
    IF n >= 90 THEN "Hot" ELSE IF n >= 70 THEN "Strong" ELSE IF n >= 50 THEN "Medium" ELSE "Low"

=============================================================================
