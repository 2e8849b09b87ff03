----------------------------- MODULE MCWebhooks -----------------------------
\* An event that both webhooks subscribe to.
EXTENDS Webhooks, TLC

CONSTANTS e1, h1, h2

Both == e1 :> {h1, h2}
=============================================================================
