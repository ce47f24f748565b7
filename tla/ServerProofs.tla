---------------------------- MODULE ServerProofs ----------------------------
(***************************************************************************)
(* The bookkeeping of the connection slots of Server, for any number of    *)
(* listeners and connections and any limit.                                *)
(***************************************************************************)
EXTENDS Server, FiniteSetTheorems, TLAPS

\* The connections of l that have a slot.
Held(l) == ConnsOf(l) \ freed

InAccept(l) == IF acc[l] = "accept" THEN 1 ELSE 0

\* The inductive invariant: a connection about to be gone has no slot to lose.
IInv ==
  /\ TypeOK
  /\ SlotsAreExact
  /\ \A c \in Conns : conn[c] = "closing" => c \in freed

LEMMA Finite ==
  ASSUME NEW l \in Listeners
  PROVE  /\ IsFiniteSet(Held(l)) /\ Cardinality(Held(l)) \in Nat
         /\ (IsFiniteSet(Held(l)'))
<1>1. Held(l) \subseteq Conns /\ Held(l)' \subseteq Conns
  BY DEF Held, ConnsOf
<1>2. QED
  BY <1>1, ConnsAssumption, FS_Subset, FS_CardinalityType

\* What the invariant says of one listener.
LEMMA Count ==
  ASSUME IInv, NEW l \in Listeners
  PROVE  /\ slots[l] \in 0..MaxConnections
         /\ slots[l] = Cardinality(Held(l)) + InAccept(l)
         /\ Cardinality(Held(l)) \in Nat
BY Finite DEF IInv, TypeOK, SlotsAreExact, Held, InAccept

\* A step that keeps the slots, who has one and who is accepting.
LEMMA NeutralStep ==
  ASSUME IInv, TypeOK', slots' = slots, freed' = freed,
         \A l \in Listeners : acc'[l] = "accept" <=> acc[l] = "accept",
         \A c \in Conns : /\ conn'[c] = "off" <=> conn[c] = "off"
                          /\ conn'[c] = "closing" => conn[c] = "closing"
  PROVE  IInv'
<1>1. \A l \in Listeners : (ConnsOf(l) \ freed)' = ConnsOf(l) \ freed
  BY DEF ConnsOf
<1>2. SlotsAreExact'
  BY <1>1 DEF IInv, SlotsAreExact
<1>3. QED
  BY <1>2 DEF IInv

LEMMA InitIInv == Init => IInv
<1> SUFFICES ASSUME Init PROVE IInv
  OBVIOUS
<1>1. TypeOK
  <2>1. slots \in [Listeners -> 0..MaxConnections]
    BY MaxConnectionsAssumption DEF Init
  <2>2. acc \in [Listeners -> {"starting", "slot", "accept", "ended"}]
    BY DEF Init
  <2>3. /\ conn \in [Conns -> {"off", "active", "idle", "closing"}]
        /\ cut \in [Conns -> {"no", "closing", "closed"}]
    BY DEF Init
  <2>4. done \in [Listeners -> BOOLEAN] /\ open \in [Listeners -> BOOLEAN]
    BY DEF Init
  <2>5. QED
    BY <2>1, <2>2, <2>3, <2>4 DEF Init, TypeOK
<1>2. \A l \in Listeners : ConnsOf(l) \ freed = {}
  BY DEF Init, ConnsOf
<1>3. SlotsAreExact
  BY <1>2, FS_EmptySet DEF Init, SlotsAreExact
<1>4. QED
  BY <1>1, <1>3 DEF Init, IInv

-----------------------------------------------------------------------------
(* The steps that move a slot *)

\* The loop of l takes a slot that is free.
LEMMA TakePreserves ==
  ASSUME IInv, NEW l \in Listeners, TakeSlot(l)
  PROVE  IInv'
<1>1. /\ acc[l] = "slot" /\ acc' = [acc EXCEPT ![l] = "accept"]
      /\ slots' = [slots EXCEPT ![l] = @ + 1] /\ slots[l] < MaxConnections
      /\ UNCHANGED <<listenerVars, connVars, main, signalled, errs>>
  BY DEF TakeSlot, Loop
<1>2. slots[l] + 1 \in 0..MaxConnections
  BY <1>1, Count, MaxConnectionsAssumption
<1>3. TypeOK'
  BY <1>1, <1>2 DEF IInv, TypeOK, listenerVars, connVars
<1>4. \A m \in Listeners : (ConnsOf(m) \ freed)' = ConnsOf(m) \ freed
  BY <1>1 DEF ConnsOf, connVars
<1>5. ASSUME NEW m \in Listeners
      PROVE  slots'[m] = Cardinality((ConnsOf(m) \ freed)')
                         + (IF acc'[m] = "accept" THEN 1 ELSE 0)
  BY <1>1, <1>4, Count DEF IInv, TypeOK, Held, InAccept
<1>6. QED
  BY <1>1, <1>3, <1>5 DEF IInv, SlotsAreExact, connVars

\* The loop of l leaves the socket without a connection and gives its slot back.
LEMMA AcceptFailsPreserves ==
  ASSUME IInv, NEW l \in Listeners, NEW state \in {"slot", "ended"},
         acc[l] = "accept", Loop(l, state),
         slots' = [slots EXCEPT ![l] = @ - 1],
         done' \in [Listeners -> BOOLEAN], open' \in [Listeners -> BOOLEAN],
         errs' \in SUBSET Listeners,
         UNCHANGED <<connVars, main, signalled>>
  PROVE  IInv'
<1>1. slots[l] - 1 \in 0..MaxConnections
  BY Count, MaxConnectionsAssumption DEF InAccept
<1>2. acc' = [acc EXCEPT ![l] = state]
  BY DEF Loop
<1>3. TypeOK'
  BY <1>1, <1>2 DEF IInv, TypeOK, connVars
<1>4. \A m \in Listeners : (ConnsOf(m) \ freed)' = ConnsOf(m) \ freed
  BY DEF ConnsOf, connVars
<1>5. ASSUME NEW m \in Listeners
      PROVE  slots'[m] = Cardinality((ConnsOf(m) \ freed)')
                         + (IF acc'[m] = "accept" THEN 1 ELSE 0)
  BY <1>2, <1>4, Count DEF IInv, TypeOK, Held, InAccept
<1>6. QED
  BY <1>3, <1>5 DEF IInv, SlotsAreExact, connVars

\* The slot of the accept loop becomes that of the connection.
LEMMA AcceptedPreserves ==
  ASSUME IInv, NEW l \in Listeners, Accepted(l)
  PROVE  IInv'
<1>1. PICK c \in Conns :
        /\ ListenerOf[c] = l /\ conn[c] = "off"
        /\ conn' = [conn EXCEPT ![c] = "active"]
        /\ cut' = [cut EXCEPT ![c] = "no"]
        /\ freed' = freed \ {c}
  BY DEF Accepted
<1>2. /\ acc[l] = "accept" /\ acc' = [acc EXCEPT ![l] = "slot"]
      /\ UNCHANGED <<slots, listenerVars, main, signalled, errs>>
  BY DEF Accepted, Loop
<1>3. TypeOK'
  BY <1>1, <1>2 DEF IInv, TypeOK, listenerVars
<1>4. Held(l)' = Held(l) \cup {c} /\ c \notin Held(l)
  BY <1>1 DEF IInv, TypeOK, Held, ConnsOf
<1>5. Cardinality(Held(l)') = Cardinality(Held(l)) + 1
  BY <1>4, Finite, FS_AddElement
<1>6. ASSUME NEW m \in Listeners, m # l PROVE Held(m)' = Held(m)
  BY <1>1, <1>6 DEF IInv, TypeOK, Held, ConnsOf
<1>7. ASSUME NEW m \in Listeners
      PROVE  slots'[m] = Cardinality(Held(m)') + InAccept(m)'
  BY <1>2, <1>5, <1>6, Count DEF IInv, TypeOK, InAccept
<1>8. SlotsAreExact'
  BY <1>7 DEF SlotsAreExact, Held, InAccept
<1>9. QED
  BY <1>1, <1>3, <1>8 DEF IInv, TypeOK

\* limitConn.Close gives back the slot of the connection, and no other.
LEMMA GiveBackPreserves ==
  ASSUME IInv, NEW c \in Conns, GiveBack(c), conn[c] # "off",
         conn' \in {conn, [conn EXCEPT ![c] = "closing"]},
         cut' \in [Conns -> {"no", "closing", "closed"}],
         UNCHANGED <<acc, listenerVars, main, signalled, errs>>
  PROVE  IInv'
<1> DEFINE l == ListenerOf[c]
<1>1. l \in Listeners /\ freed' = freed \cup {c}
  BY ConnsAssumption DEF GiveBack
<1>2. conn' \in [Conns -> {"off", "active", "idle", "closing"}]
  BY DEF IInv, TypeOK
<1>3. \A m \in Listeners : Held(m)' = Held(m) \ {c}
  BY <1>1 DEF IInv, TypeOK, Held, ConnsOf
<1>4. \A m \in Listeners : InAccept(m)' = InAccept(m)
  BY DEF InAccept
<1>5. ASSUME NEW m \in Listeners
      PROVE  /\ slots'[m] \in 0..MaxConnections
             /\ slots'[m] = Cardinality(Held(m)') + InAccept(m)'
  <2>1. CASE m = l /\ c \notin freed
    <3>1. c \in Held(l)
      BY <2>1 DEF Held, ConnsOf
    <3>2. /\ Cardinality(Held(l)') = Cardinality(Held(l)) - 1
          /\ Cardinality(Held(l)') \in Nat
      BY <1>1, <1>3, <3>1, Finite, FS_RemoveElement, FS_CardinalityType
    <3>3. slots'[l] = slots[l] - 1
      BY <1>1, <2>1 DEF GiveBack, IInv, TypeOK
    <3>4. InAccept(l) \in Nat
      BY DEF InAccept
    <3>5. QED
      BY <1>1, <1>4, <2>1, <3>2, <3>3, <3>4, Count, MaxConnectionsAssumption
  <2>2. CASE m # l \/ c \in freed
    <3>1. Held(m)' = Held(m)
      BY <1>3, <2>2 DEF Held, ConnsOf
    <3>2. slots'[m] = slots[m]
      BY <1>1, <2>2 DEF GiveBack, IInv, TypeOK
    <3>3. QED
      BY <1>4, <3>1, <3>2, Count
  <2>3. QED
    BY <2>1, <2>2
<1>6. slots' \in [Listeners -> 0..MaxConnections]
  <2>1. DOMAIN slots' = Listeners /\ slots' = [m \in Listeners |-> slots'[m]]
    BY DEF GiveBack, IInv, TypeOK
  <2>2. QED
    BY <1>5, <2>1
<1>7. TypeOK'
  BY <1>1, <1>2, <1>6 DEF IInv, TypeOK, listenerVars
<1>8. SlotsAreExact'
  BY <1>5 DEF SlotsAreExact, Held, InAccept
<1>9. QED
  BY <1>1, <1>7, <1>8 DEF IInv, TypeOK

\* A connection that is gone had given its slot back.
LEMMA GonePreserves ==
  ASSUME IInv, NEW c \in Conns, ConnClosed(c)
  PROVE  IInv'
<1>1. /\ conn[c] = "closing" /\ conn' = [conn EXCEPT ![c] = "off"] /\ c \in freed
      /\ UNCHANGED <<acc, slots, listenerVars, cut, freed, main, signalled, errs>>
  BY DEF IInv, ConnClosed
<1>2. TypeOK'
  BY <1>1 DEF IInv, TypeOK, listenerVars
<1>3. \A m \in Listeners : (ConnsOf(m) \ freed)' = ConnsOf(m) \ freed
  BY <1>1 DEF IInv, TypeOK, ConnsOf
<1>4. SlotsAreExact'
  BY <1>1, <1>3 DEF IInv, SlotsAreExact
<1>5. QED
  BY <1>1, <1>2, <1>4 DEF IInv, TypeOK

-----------------------------------------------------------------------------
(* The other steps *)

LEMMA LoopStepPreserves ==
  ASSUME IInv, NEW l \in Listeners, Start(l) \/ DoneSeen(l)
  PROVE  IInv'
<1>1. /\ acc' \in {[acc EXCEPT ![l] = "slot"], [acc EXCEPT ![l] = "ended"]}
      /\ acc[l] # "accept"
      /\ UNCHANGED <<slots, connVars, main, signalled, errs>>
  BY DEF Start, DoneSeen, Loop
<1>2. done' \in [Listeners -> BOOLEAN] /\ open' \in [Listeners -> BOOLEAN]
  BY DEF Start, DoneSeen, Close, listenerVars, IInv, TypeOK
<1>3. TypeOK'
  BY <1>1, <1>2 DEF IInv, TypeOK, connVars
<1>4. \A m \in Listeners : acc'[m] = "accept" <=> acc[m] = "accept"
  BY <1>1 DEF IInv, TypeOK
<1>5. QED
  BY <1>1, <1>3, <1>4, NeutralStep DEF connVars

LEMMA RequestStepPreserves ==
  ASSUME IInv, NEW c \in Conns, RequestDone(c) \/ NextRequest(c)
  PROVE  IInv'
<1>1. /\ conn' \in {[conn EXCEPT ![c] = "idle"], [conn EXCEPT ![c] = "active"]}
      /\ conn[c] \in {"idle", "active"}
      /\ UNCHANGED <<acc, slots, listenerVars, cut, freed, main, signalled, errs>>
  BY DEF RequestDone, NextRequest
<1>2. TypeOK'
  BY <1>1 DEF IInv, TypeOK, listenerVars
<1>3. \A d \in Conns : /\ conn'[d] = "off" <=> conn[d] = "off"
                       /\ conn'[d] = "closing" => conn[d] = "closing"
  BY <1>1 DEF IInv, TypeOK
<1>4. QED
  BY <1>1, <1>2, <1>3, NeutralStep

LEMMA ServeStepPreserves ==
  ASSUME IInv,
         \/ Signal \/ Notice \/ Drain \/ Deadline \/ End \/ Ended
         \/ \E l \in Listeners : CloseDone(l) \/ CloseSocket(l)
         \/ \E c \in Conns : CutDone(c)
  PROVE  IInv'
<1>1. UNCHANGED <<acc, slots, conn, freed>>
  BY DEF Signal, Notice, Drain, Deadline, End, Ended, CloseDone, CloseSocket,
         CutDone, vars, listenerVars, connVars
<1>2. TypeOK'
  BY DEF Signal, Notice, Drain, Deadline, End, Ended, CloseDone, CloseSocket,
         CutDone, vars, listenerVars, connVars, IInv, TypeOK
<1>3. QED
  BY <1>1, <1>2, NeutralStep

LEMMA NextIInv == IInv /\ [Next]_vars => IInv'
<1> SUFFICES ASSUME IInv, [Next]_vars PROVE IInv'
  OBVIOUS
<1>1. CASE UNCHANGED vars
  BY <1>1 DEF vars, listenerVars, connVars, IInv, TypeOK, SlotsAreExact, ConnsOf
<1>2. ASSUME NEW l \in Listeners, Retry(l) PROVE IInv'
  <2>1. /\ acc[l] = "accept" /\ Loop(l, "slot")
        /\ slots' = [slots EXCEPT ![l] = @ - 1]
        /\ UNCHANGED <<listenerVars, connVars, main, signalled, errs>>
    BY <1>2 DEF Retry
  <2>2. /\ done' \in [Listeners -> BOOLEAN] /\ open' \in [Listeners -> BOOLEAN]
        /\ errs' \in SUBSET Listeners
    BY <2>1 DEF listenerVars, IInv, TypeOK
  <2>3. QED
    BY <2>1, <2>2, AcceptFailsPreserves
<1>3. ASSUME NEW l \in Listeners, SocketFails(l) PROVE IInv'
  <2>1. /\ acc[l] = "accept" /\ Loop(l, "ended")
        /\ slots' = [slots EXCEPT ![l] = @ - 1]
        /\ UNCHANGED <<connVars, main, signalled>>
    BY <1>3 DEF SocketFails
  <2>2. /\ done' \in [Listeners -> BOOLEAN] /\ open' \in [Listeners -> BOOLEAN]
        /\ errs' \in SUBSET Listeners
    BY <1>3 DEF SocketFails, Close, IInv, TypeOK
  <2>3. QED
    BY <2>1, <2>2, AcceptFailsPreserves
<1>4. ASSUME NEW c \in Conns, CloseConn(c) \/ CutIdle(c) \/ CutAny(c) PROVE IInv'
  <2>1. /\ conn[c] # "off" /\ GiveBack(c)
        /\ conn' \in {conn, [conn EXCEPT ![c] = "closing"]}
        /\ UNCHANGED <<acc, listenerVars, main, signalled, errs>>
    BY <1>4 DEF CloseConn, CutIdle, CutAny, Cut, Tracked
  <2>2. cut' \in [Conns -> {"no", "closing", "closed"}]
    BY <1>4 DEF CloseConn, CutIdle, CutAny, Cut, IInv, TypeOK
  <2>3. QED
    BY <2>1, <2>2, GiveBackPreserves
<1>5. QED
  BY <1>1, <1>2, <1>3, <1>4, TakePreserves, AcceptedPreserves, GonePreserves,
     LoopStepPreserves, RequestStepPreserves, ServeStepPreserves
     DEF Next, MainStep, AcceptStep

LEMMA Invariance == Spec => []IInv
BY InitIInv, NextIInv, PTL DEF Spec

-----------------------------------------------------------------------------
(* What the invariant gives. *)

\* Every variable keeps its type; in particular a listener never has more than
\* MaxConnections slots taken (the buffer of limitListener.slots).
THEOREM TypeCorrect == Spec => []TypeOK
<1>1. IInv => TypeOK
  BY DEF IInv
<1>2. QED
  BY <1>1, Invariance, PTL

\* Every slot taken belongs to one connection or to the accept loop: limitConn.Close
\* gives it back once, whoever closes the connection, and no error loses one.
THEOREM SlotsAlwaysExact == Spec => []SlotsAreExact
<1>1. IInv => SlotsAreExact
  BY DEF IInv
<1>2. QED
  BY <1>1, Invariance, PTL

=============================================================================
