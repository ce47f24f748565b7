------------------------------ MODULE SocketFile ------------------------------
(***************************************************************************)
(* The file of the Unix socket, when a process starts while another still  *)
(* serves or stops: listenUnix takes the path over, and the one that stops *)
(* removes what it finds there.                                            *)
(***************************************************************************)
CONSTANT Processes  \* processes of one SOCKET_PATH

VARIABLES pc,      \* new, remove, bind, protect, serving, stopping, unlink or over
          file,    \* what the path names: a socket or something else, with its owner
          removed  \* history: who removed whose socket when it stopped

vars == <<pc, file, removed>>

Operator == "operator"
NoFile   == [kind |-> "none", owner |-> Operator]

Moves(p, to) == pc' = [pc EXCEPT ![p] = to]

Init ==
  /\ pc = [p \in Processes |-> "new"]
  /\ file \in {NoFile, [kind |-> "socket", owner |-> Operator], [kind |-> "other", owner |-> Operator]}
  /\ removed = {}

\* The path is free, or names an old socket, or something that is left alone.
Look(p) ==
  /\ pc[p] = "new"
  /\ Moves(p, CASE file.kind = "none"   -> "bind"
                [] file.kind = "socket" -> "remove"
                [] file.kind = "other"  -> "over")
  /\ UNCHANGED <<file, removed>>

\* os.Remove fails when another process was faster.
RemoveOld(p) ==
  /\ pc[p] = "remove"
  /\ Moves(p, IF file = NoFile THEN "over" ELSE "bind")
  /\ file' = NoFile /\ UNCHANGED removed

\* net.Listen fails on a path that exists.
Bind(p) ==
  /\ pc[p] = "bind"
  /\ IF file = NoFile
     THEN Moves(p, "protect") /\ file' = [kind |-> "socket", owner |-> p]
     ELSE Moves(p, "over") /\ file' = file
  /\ UNCHANGED removed

\* The permissions and the group are set on the path; where that fails, the listener is closed.
Protect(p) ==
  /\ pc[p] = "protect"
  /\ \/ file # NoFile /\ Moves(p, "serving") /\ file' = file
     \/ Moves(p, "over") /\ file' = NoFile
  /\ UNCHANGED removed

\* The listener of package net removes the path that it has created.
CloseListener(p) ==
  /\ pc[p] = "serving"
  /\ Moves(p, "stopping")
  /\ file' = NoFile /\ UNCHANGED removed

\* removeSocket looks at what the path names...
LookAgain(p) ==
  /\ pc[p] = "stopping"
  /\ Moves(p, IF file.kind = "socket" THEN "unlink" ELSE "over")
  /\ UNCHANGED <<file, removed>>

\* ... and removes it.
RemoveSocket(p) ==
  /\ pc[p] = "unlink"
  /\ Moves(p, "over")
  /\ removed' = IF file = NoFile THEN removed ELSE removed \cup {<<p, file.owner>>}
  /\ file' = NoFile

\* The path is replaced by something else.
Replace ==
  /\ file.kind = "socket"
  /\ file' = [kind |-> "other", owner |-> Operator]
  /\ UNCHANGED <<pc, removed>>

Next ==
  \/ Replace
  \/ \E p \in Processes :
       \/ Look(p) \/ RemoveOld(p) \/ Bind(p) \/ Protect(p)
       \/ CloseListener(p) \/ LookAgain(p) \/ RemoveSocket(p)

Spec == Init /\ [][Next]_vars

\* A process that stops only removes its own socket (the comment of removeSocket).
RemovesOnlyItsOwn == \A r \in removed : r[1] = r[2]
===============================================================================
