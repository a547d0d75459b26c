--------------------------- MODULE MCRateLimiter ---------------------------
(* RateLimiter on small sets of goroutines.                                 *)
EXTENDS RateLimiter

CONSTANTS t1, t2, t3

TwoThreads == {t1, t2}
ThreeThreads == {t1, t2, t3}
=============================================================================
