------------------------------- MODULE MCMemory -------------------------------
(* Values of the constants of Memory for TLC: a value of 3 bytes opens to 1, one *)
(* of 4 to 2, which is streamed in two chunks.                                   *)
EXTENDS Memory

MCLengths == {0, 3, 4}
===============================================================================
