----------------------------- MODULE MCSiteCrawl -----------------------------
\* A home page with links that lead back and to each other, an old address of
\* one of them, a link that leaves the site, and a tail of pages, the last of
\* them too deep for any crawl.
EXTENDS SiteCrawl, TLC

CONSTANTS home, team, old, jobs, portal, news, archive, attic

MCLinks ==
    home :> {old, team, jobs} @@ old :> {} @@ jobs :> {} @@ portal :> {home} @@
    team :> {home, news} @@ news :> {archive} @@ archive :> {attic} @@ attic :> {}

MCLands == [u \in Url |-> CASE u = old -> team [] u = jobs -> portal [] OTHER -> u]
=============================================================================
