------------------------------ MODULE MCPipeline ------------------------------
(* A small instance of Pipeline for TLC: requests to unmatched paths, two of   *)
(* one source and one of another, for one slot, and a scrape; any two of them  *)
(* are served, at the same time or in turn.                                    *)
EXTENDS Pipeline

CONSTANTS e1, e2, e3, m1, a, b

MCSourceOf == [r \in Reqs |-> IF r = e3 THEN b ELSE a]
MCPathOf   == [r \in Reqs |-> IF r = m1 THEN "/metrics" ELSE "/unknown"]
MCSeries   == <<"/metrics", "other">>
=============================================================================
