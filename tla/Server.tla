------------------------------- MODULE Server -------------------------------
(***************************************************************************)
(* The life of the server process: serve starts one accept loop per        *)
(* listener, waits for a signal or the failure of a listener, shuts down   *)
(* within a deadline and ends.  Every listener is a limitListener: a       *)
(* connection takes one of MaxConnections slots before it is accepted and  *)
(* gives it back when it is closed, by its own goroutine or by the server. *)
(*                                                                         *)
(* http.Server is external: its accept loop, its Shutdown, which waits for *)
(* the accept loops before it drains, and its Close are modelled from what *)
(* serve relies on.  A new connection counts as active until its first     *)
(* request ends; the identity of a closed connection is used again.        *)
(***************************************************************************)
EXTENDS Integers, FiniteSets

CONSTANTS Listeners,      \* TCP, Unix socket
          Conns,          \* identities of connections
          ListenerOf,     \* ListenerOf[c]: the listener that accepts c
          MaxConnections  \* MAX_CONNECTIONS, when it is not 0

ASSUME ConnsAssumption ==
  IsFiniteSet(Conns) /\ ListenerOf \in [Conns -> Listeners]
ASSUME MaxConnectionsAssumption == MaxConnections \in Nat \ {0}

VARIABLES acc,        \* acc[l]: the accept loop of l
          slots,      \* slots[l]: how many slots of l are taken
          done,       \* done[l]: the channel that Close closes first
          open,       \* open[l]: the socket that Close closes next
          conn,       \* conn[c]: the goroutine of c
          cut,        \* cut[c]: whether the server closes c, beside its goroutine
          freed,      \* the connections that have given their slot back
          main,       \* what serve is doing
          signalled,  \* a signal has been received
          errs        \* listeners whose failure is in the channel

listenerVars == <<done, open>>
connVars == <<conn, cut, freed>>
vars == <<acc, slots, listenerVars, connVars, main, signalled, errs>>

TypeOK ==
  /\ acc \in [Listeners -> {"starting",  \* Serve has not been called yet
                            "slot",      \* in Accept, waiting for a slot
                            "accept",    \* in Accept of the socket, a slot taken
                            "ended"}]
  /\ slots \in [Listeners -> 0..MaxConnections]
  /\ done \in [Listeners -> BOOLEAN]
  /\ open \in [Listeners -> BOOLEAN]
  /\ conn \in [Conns -> {"off", "active", "idle", "closing"}]
  /\ cut \in [Conns -> {"no", "closing", "closed"}]
  /\ freed \in SUBSET Conns
  /\ main \in {"waiting", "closing", "draining", "forcing", "ended"}
  /\ signalled \in BOOLEAN
  /\ errs \in SUBSET Listeners

Init ==
  /\ acc = [l \in Listeners |-> "starting"]
  /\ slots = [l \in Listeners |-> 0]
  /\ done = [l \in Listeners |-> FALSE]
  /\ open = [l \in Listeners |-> TRUE]
  /\ conn = [c \in Conns |-> "off"]
  /\ cut = [c \in Conns |-> "no"]
  /\ freed = {}
  /\ main = "waiting"
  /\ signalled = FALSE
  /\ errs = {}

-----------------------------------------------------------------------------
(* The accept loop *)

ShuttingDown == main # "waiting"

\* When serve returns, the process ends: nothing happens any more.
Running == main # "ended"

Loop(l, state) == acc' = [acc EXCEPT ![l] = state]

Close(l) ==
  /\ done' = [done EXCEPT ![l] = TRUE]
  /\ open' = [open EXCEPT ![l] = FALSE]

\* Serve closes its listener when it returns, even when it comes too late.
Start(l) ==
  /\ Running
  /\ acc[l] = "starting"
  /\ IF ShuttingDown THEN Loop(l, "ended") /\ Close(l)
                     ELSE Loop(l, "slot") /\ UNCHANGED listenerVars
  /\ UNCHANGED <<slots, connVars, main, signalled, errs>>

\* Faulty variant: a connection is accepted whether there is a slot or not.
TakeAnySlot(l) ==
  /\ Running
  /\ acc[l] = "slot"
  /\ slots' = [slots EXCEPT ![l] = @ + 1]
  /\ Loop(l, "accept")
  /\ UNCHANGED <<listenerVars, connVars, main, signalled, errs>>

TakeSlot(l) ==
  /\ Running
  /\ acc[l] = "slot"
  /\ slots[l] < MaxConnections
  /\ slots' = [slots EXCEPT ![l] = @ + 1]
  /\ Loop(l, "accept")
  /\ UNCHANGED <<listenerVars, connVars, main, signalled, errs>>

\* Faulty variant: Accept only waits for a slot.
DoneIgnored(l) == FALSE /\ UNCHANGED vars

\* The other case of the select: the listener is closed.
DoneSeen(l) ==
  /\ Running
  /\ acc[l] = "slot"
  /\ done[l]
  /\ Loop(l, "ended")
  /\ UNCHANGED <<slots, listenerVars, connVars, main, signalled, errs>>

Accepted(l) ==
  /\ Running
  /\ acc[l] = "accept"
  /\ open[l]
  /\ \E c \in Conns :
       /\ ListenerOf[c] = l
       /\ conn[c] = "off"
       /\ conn' = [conn EXCEPT ![c] = "active"]
       /\ cut' = [cut EXCEPT ![c] = "no"]
       /\ freed' = freed \ {c}
  /\ Loop(l, "slot")
  /\ UNCHANGED <<slots, listenerVars, main, signalled, errs>>

\* Faulty variant: an error of the socket does not give the slot back.
RetryLeaks(l) ==
  /\ Running
  /\ acc[l] = "accept" /\ open[l]
  /\ Loop(l, "slot")
  /\ UNCHANGED <<slots, listenerVars, connVars, main, signalled, errs>>

\* A temporary error of the socket: the loop tries again.
Retry(l) ==
  /\ Running
  /\ acc[l] = "accept" /\ open[l]
  /\ slots' = [slots EXCEPT ![l] = @ - 1]
  /\ Loop(l, "slot")
  /\ UNCHANGED <<listenerVars, connVars, main, signalled, errs>>

\* The socket is closed, or fails for good: the loop ends and closes the
\* listener; unless the server is shutting down, serve is told.
SocketFails(l) ==
  /\ Running
  /\ acc[l] = "accept"
  /\ slots' = [slots EXCEPT ![l] = @ - 1]
  /\ Loop(l, "ended")
  /\ Close(l)
  /\ errs' = IF ShuttingDown THEN errs ELSE errs \cup {l}
  /\ UNCHANGED <<connVars, main, signalled>>

-----------------------------------------------------------------------------
(* Connections *)

\* Faulty variant: every Close of a connection gives a slot back.
GiveBackAgain(c) ==
  /\ slots' = [slots EXCEPT ![ListenerOf[c]] = IF @ > 0 THEN @ - 1 ELSE @]
  /\ freed' = freed \cup {c}

\* limitConn.Close gives the slot back first, and once.
GiveBack(c) ==
  /\ slots' = IF c \in freed THEN slots ELSE [slots EXCEPT ![ListenerOf[c]] = @ - 1]
  /\ freed' = freed \cup {c}

\* The request ends; the connection is kept for another, except at shutdown.
RequestDone(c) ==
  /\ Running /\ ~ShuttingDown
  /\ conn[c] = "active"
  /\ conn' = [conn EXCEPT ![c] = "idle"]
  /\ UNCHANGED <<acc, slots, listenerVars, cut, freed, main, signalled, errs>>

\* A request that has been read although the connection is being closed counts.
NextRequest(c) ==
  /\ Running
  /\ conn[c] = "idle" /\ cut[c] # "closed"
  /\ conn' = [conn EXCEPT ![c] = "active"]
  /\ UNCHANGED <<acc, slots, listenerVars, cut, freed, main, signalled, errs>>

\* The goroutine of c ends: last request, client gone, timeout, panic, or the
\* server has closed c; it calls Close in any case.
CloseConn(c) ==
  /\ Running
  /\ conn[c] \in {"active", "idle"}
  /\ conn' = [conn EXCEPT ![c] = "closing"]
  /\ GiveBack(c)
  /\ UNCHANGED <<acc, listenerVars, cut, main, signalled, errs>>

\* The connection is closed, which takes time (TLS sends an alert).
ConnClosed(c) ==
  /\ Running
  /\ conn[c] = "closing" /\ cut[c] # "closing"
  /\ conn' = [conn EXCEPT ![c] = "off"]
  /\ UNCHANGED <<acc, slots, listenerVars, cut, freed, main, signalled, errs>>

-----------------------------------------------------------------------------
(* serve *)

Signal ==
  /\ Running
  /\ ~signalled
  /\ signalled' = TRUE
  /\ UNCHANGED <<acc, slots, listenerVars, connVars, main, errs>>

\* The select of serve; from now on http.Server is shutting down.
Notice ==
  /\ main = "waiting"
  /\ signalled \/ errs # {}
  /\ main' = "closing"
  /\ UNCHANGED <<acc, slots, listenerVars, connVars, signalled, errs>>

\* limitListener.Close, for each listener being served: the channel first,
\* then the socket.
CloseDone(l) ==
  /\ main = "closing" /\ acc[l] # "starting"
  /\ ~done[l]
  /\ done' = [done EXCEPT ![l] = TRUE]
  /\ UNCHANGED <<acc, slots, open, connVars, main, signalled, errs>>

CloseSocket(l) ==
  /\ main = "closing"
  /\ done[l] /\ open[l]
  /\ open' = [open EXCEPT ![l] = FALSE]
  /\ UNCHANGED <<acc, slots, done, connVars, main, signalled, errs>>

\* Shutdown waits for every accept loop before it drains, whatever the deadline.
Drain ==
  /\ main = "closing"
  /\ \A l \in Listeners : acc[l] = "starting" \/ (acc[l] = "ended" /\ ~open[l])
  /\ main' = "draining"
  /\ UNCHANGED <<acc, slots, listenerVars, connVars, signalled, errs>>

Cut(c) ==
  /\ cut' = [cut EXCEPT ![c] = "closing"]
  /\ GiveBack(c)
  /\ UNCHANGED <<acc, listenerVars, conn, main, signalled, errs>>

\* Shutdown closes the idle connections one by one, Close all of them.
Cutting == \E c \in Conns : cut[c] = "closing"
Tracked == {c \in Conns : conn[c] # "off" /\ cut[c] = "no"}

CutIdle(c) ==
  /\ main = "draining" /\ ~Cutting
  /\ c \in Tracked /\ conn[c] = "idle"
  /\ Cut(c)

CutAny(c) ==
  /\ main = "forcing" /\ ~Cutting
  /\ c \in Tracked
  /\ Cut(c)

CutDone(c) ==
  /\ Running
  /\ cut[c] = "closing"
  /\ cut' = [cut EXCEPT ![c] = "closed"]
  /\ UNCHANGED <<acc, slots, listenerVars, conn, freed, main, signalled, errs>>

\* shutdownTimeout has elapsed.
Deadline ==
  /\ main = "draining" /\ ~Cutting
  /\ main' = "forcing"
  /\ UNCHANGED <<acc, slots, listenerVars, connVars, signalled, errs>>

\* No connection is left: serve returns and the process ends.
End ==
  /\ main \in {"draining", "forcing"}
  /\ Tracked = {} /\ ~Cutting
  /\ main' = "ended"
  /\ UNCHANGED <<acc, slots, listenerVars, connVars, signalled, errs>>

Ended == ~Running /\ UNCHANGED vars

-----------------------------------------------------------------------------
AcceptStep(l) == Start(l) \/ TakeSlot(l) \/ DoneSeen(l)

SocketClosed(l) == ~open[l] /\ SocketFails(l)

MainStep ==
  \/ Notice
  \/ Drain
  \/ Deadline
  \/ End
  \/ \E l \in Listeners : CloseDone(l) \/ CloseSocket(l)
  \/ \E c \in Conns : CutIdle(c) \/ CutAny(c) \/ CutDone(c)

Next ==
  \/ MainStep
  \/ Signal
  \/ \E l \in Listeners : AcceptStep(l) \/ Accepted(l) \/ Retry(l) \/ SocketFails(l)
  \/ \E c \in Conns : RequestDone(c) \/ NextRequest(c) \/ CloseConn(c) \/ ConnClosed(c)
  \/ Ended

\* Goroutines run, the deadline passes and closing a connection ends; clients
\* and handlers may take for ever.
Fairness ==
  /\ WF_vars(MainStep)
  /\ \A l \in Listeners : WF_vars(AcceptStep(l)) /\ WF_vars(SocketClosed(l))
  /\ \A c \in Conns : WF_vars(ConnClosed(c))

Spec == Init /\ [][Next]_vars /\ Fairness

-----------------------------------------------------------------------------
(* Properties *)

ConnsOf(l) == {c \in Conns : ListenerOf[c] = l /\ conn[c] # "off"}

\* Every slot taken belongs to one connection, or to the accept loop that is
\* about to get one: none is lost when the socket fails, none is given back
\* twice when the server and the connection both close it (limitConn.Close).
SlotsAreExact ==
  \A l \in Listeners :
    slots[l] = Cardinality(ConnsOf(l) \ freed) + (IF acc[l] = "accept" THEN 1 ELSE 0)

\* A signal or the failure of a listener ends the process, even when every slot
\* is taken, clients keep their connections open and handlers never return.
EndsWhenAsked == signalled \/ errs # {} ~> ~Running

\* An accept loop that waits for a slot gets one or ends, as long as
\* connections end: no sequence of errors and closes uses the slots up.
AcceptResumes ==
  (\A c \in Conns : []<>(conn[c] = "off")) =>
    \A l \in Listeners : acc[l] = "slot" ~> acc[l] # "slot" \/ ~Running
=============================================================================
