---------------------------- MODULE MCCrawlSlots ----------------------------
\* Two goroutines of one process and one of another.
EXTENDS CrawlSlots, TLC

CONSTANTS p1, p2, g1, g2, g3

TwoAndOne == g1 :> p1 @@ g2 :> p1 @@ g3 :> p2
=============================================================================
