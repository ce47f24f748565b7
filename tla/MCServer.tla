------------------------------ MODULE MCServer ------------------------------
(* Small instances of Server for TLC. *)
EXTENDS Server

CONSTANTS tcp, unix, c1, c2, c3

\* Nobody connects to the Unix socket, whose listener may still fail or be closed.
MCListenerOf == [c \in Conns |-> tcp]
=============================================================================
