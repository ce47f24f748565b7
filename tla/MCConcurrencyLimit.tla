------------------------- MODULE MCConcurrencyLimit -------------------------
(* A small instance of ConcurrencyLimit for TLC. *)
EXTENDS ConcurrencyLimit

CONSTANTS a1, a2, a3, b1, b2, c1, h1, a, b, c

\* a may fill the two slots alone; h1 is a probe of a.
MCSourceOf == [r \in Reqs |-> CASE r \in {b1, b2} -> b [] r = c1 -> c [] OTHER -> a]
=============================================================================
