--------------------------- MODULE MCRateLimiter ---------------------------
(* Small instances of RateLimiter for TLC. *)
EXTENDS RateLimiter, TLC

CONSTANTS i1, i2, i3, t1, t2

\* The requests are interchangeable, and so are the sources that are not counted.
MCSymmetry == Permutations({t1, t2}) \cup Permutations({i2, i3})
=============================================================================
