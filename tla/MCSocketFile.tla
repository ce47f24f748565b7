----------------------------- MODULE MCSocketFile -----------------------------
(* Two processes on one path, one of which takes over from the other.          *)
EXTENDS SocketFile

CONSTANTS p1, p2
===============================================================================
