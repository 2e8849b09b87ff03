----------------------------- MODULE MCLeadBook -----------------------------
\* A lead and two whose sites are dead, and a sweep that takes two; the
\* tenant has a rule that lets a company that is filled stay hot.
EXTENDS LeadBook, TLC

WebsiteBonus == [sig \in SUBSET Signal |-> IF "has_website" \in sig THEN 30 ELSE 0]

\* Reading that one rule fails.
NoRule == [sig \in SUBSET Signal |-> {0}]
=============================================================================
