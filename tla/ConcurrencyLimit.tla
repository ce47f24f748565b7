-------------------------- MODULE ConcurrencyLimit --------------------------
(***************************************************************************)
(* ConcurrencyLimitMiddleware: at most Limit requests are handled at once, *)
(* and one source holds at most its share of the slots.  A request counts  *)
(* for its source from acquire to release, the wait for a slot and the     *)
(* drain of a rejected body included; the slots are the buffer of a Go     *)
(* channel, which hands a slot that is given back to a blocked sender.     *)
(*                                                                         *)
(* Requests are goroutines of the HTTP server, used again and again.  The  *)
(* runtime serves the oldest blocked sender; here it may serve any of them.*)
(***************************************************************************)
EXTENDS Integers, FiniteSets

CONSTANTS Reqs,        \* requests in flight
          Monitoring,  \* those for /health or /metrics, which are exempt
          Sources,     \* what clientIP returns: addresses or identities
          SourceOf,    \* SourceOf[r]: the source of r
          Limit,       \* MAX_CONCURRENT_REQUESTS
          PerIPShare   \* a source may hold 1/PerIPShare of the slots (4 in the code)

ASSUME ReqsAssumption     == IsFiniteSet(Reqs) /\ Monitoring \subseteq Reqs
ASSUME SourceOfAssumption == SourceOf \in [Reqs -> Sources]
ASSUME LimitAssumption    == Limit \in Nat \ {0} /\ PerIPShare \in Nat \ {0}

VARIABLES pc,     \* pc[r]: where r is in the middleware
          slots,  \* len(slots): how many slots are taken
          inUse   \* the table of perIP: how many requests of each active source

vars == <<pc, slots, inUse>>

\* What r does in each phase, and what it holds: nothing in idle, exempt and
\* refused; a slot in handling; a place in its source's share in all the others.
Phases == {"idle",
           "exempt",    \* served without limit
           "refused",   \* over the share of its source: its body is drained
           "counted",   \* before the fast path
           "slow",      \* no slot was free: about to wait
           "waiting",   \* blocked on the channel, its timer armed
           "handling",  \* served, in a slot
           "rejected",  \* the wait is over: its body is drained
           "leaving"}   \* gives its place in the share back

Counting == {"counted", "slow", "waiting", "handling", "rejected", "leaving"}

Handling     == {r \in Reqs : pc[r] = "handling"}
CountedOf(s) == {r \in Reqs : SourceOf[r] = s /\ pc[r] \in Counting}
Waiting      == {r \in Reqs : pc[r] = "waiting"}

TypeOK ==
  /\ pc \in [Reqs -> Phases]
  /\ slots \in Nat
  /\ DOMAIN inUse \subseteq Sources
  /\ inUse \in [DOMAIN inUse -> Nat]

Init ==
  /\ pc = [r \in Reqs |-> "idle"]
  /\ slots = 0
  /\ inUse = [s \in {} |-> 0]

-----------------------------------------------------------------------------
(* ipSlots *)

\* Faulty variant: a source may hold every slot.
ShareOfAll == Limit

\* Faulty variant: a limit below PerIPShare leaves no slot to a source.
ShareRoundedDown == Limit \div PerIPShare

Share == IF Limit \div PerIPShare < 1 THEN 1 ELSE Limit \div PerIPShare

Count(s) == IF s \in DOMAIN inUse THEN inUse[s] ELSE 0

Acquired(s) ==
  [t \in DOMAIN inUse \cup {s} |-> IF t = s THEN Count(s) + 1 ELSE inUse[t]]

\* Faulty variant: the entry of a source that has left stays in the table.
ReleasedKept(s) == [inUse EXCEPT ![s] = Count(s) - 1]

\* The table only keeps the active sources.
Released(s) ==
  [t \in IF Count(s) <= 1 THEN DOMAIN inUse \ {s} ELSE DOMAIN inUse |->
     IF t = s THEN inUse[t] - 1 ELSE inUse[t]]

-----------------------------------------------------------------------------
(* The middleware *)

Move(r, phase) == pc' = [pc EXCEPT ![r] = phase]

Exempt(r) ==
  /\ pc[r] = "idle" /\ r \in Monitoring
  /\ Move(r, "exempt")
  /\ UNCHANGED <<slots, inUse>>

ExemptServed(r) ==
  /\ pc[r] = "exempt"
  /\ Move(r, "idle")
  /\ UNCHANGED <<slots, inUse>>

\* Faulty variant: the bound is checked with the slot not counted yet.
AcquireOneMore(r) ==
  /\ pc[r] = "idle" /\ r \notin Monitoring
  /\ Count(SourceOf[r]) <= Share
  /\ inUse' = Acquired(SourceOf[r])
  /\ Move(r, "counted")
  /\ UNCHANGED slots

Acquire(r) ==
  /\ pc[r] = "idle" /\ r \notin Monitoring
  /\ Count(SourceOf[r]) < Share
  /\ inUse' = Acquired(SourceOf[r])
  /\ Move(r, "counted")
  /\ UNCHANGED slots

Refuse(r) ==
  /\ pc[r] = "idle" /\ r \notin Monitoring
  /\ Count(SourceOf[r]) >= Share
  /\ Move(r, "refused")
  /\ UNCHANGED <<slots, inUse>>

\* The 503 is sent once the body is drained, or after one second.
RefusedAnswered(r) ==
  /\ pc[r] = "refused"
  /\ Move(r, "idle")
  /\ UNCHANGED <<slots, inUse>>

\* A free slot is taken, on the fast path or when about to wait.
Take(r) ==
  /\ pc[r] \in {"counted", "slow"}
  /\ slots < Limit
  /\ slots' = slots + 1
  /\ Move(r, "handling")
  /\ UNCHANGED inUse

NoFreeSlot(r) ==
  /\ pc[r] \in {"counted", "slow"}
  /\ slots >= Limit
  /\ Move(r, IF pc[r] = "counted" THEN "slow" ELSE "waiting")
  /\ UNCHANGED <<slots, inUse>>

\* Faulty variant: nothing bounds the wait.
TimeoutNever(r) == FALSE /\ UNCHANGED vars

\* concurrencyWait has elapsed.
Timeout(r) ==
  /\ pc[r] \in {"slow", "waiting"}
  /\ Move(r, "rejected")
  /\ UNCHANGED <<slots, inUse>>

\* The client has left during the wait.
ClientGone(r) ==
  /\ pc[r] \in {"slow", "waiting"}
  /\ Move(r, "leaving")
  /\ UNCHANGED <<slots, inUse>>

RejectedAnswered(r) ==
  /\ pc[r] = "rejected"
  /\ Move(r, "leaving")
  /\ UNCHANGED <<slots, inUse>>

\* The handler returns or panics: its slot goes to a blocked sender, if any.
Finish(r) ==
  /\ pc[r] = "handling"
  /\ \/ /\ \E w \in Waiting : pc' = [pc EXCEPT ![r] = "leaving", ![w] = "handling"]
        /\ UNCHANGED slots
     \/ /\ Waiting = {}
        /\ Move(r, "leaving")
        /\ slots' = slots - 1
  /\ UNCHANGED inUse

Release(r) ==
  /\ pc[r] = "leaving"
  /\ inUse' = Released(SourceOf[r])
  /\ Move(r, "idle")
  /\ UNCHANGED slots

-----------------------------------------------------------------------------
\* The steps that wait for nothing but the clock.
Step(r) ==
  \/ ExemptServed(r)
  \/ RefusedAnswered(r)
  \/ Take(r)
  \/ NoFreeSlot(r)
  \/ Timeout(r)
  \/ RejectedAnswered(r)
  \/ Release(r)

Next ==
  \E r \in Reqs :
    \/ Exempt(r)
    \/ Acquire(r)
    \/ Refuse(r)
    \/ ClientGone(r)
    \/ Finish(r)
    \/ Step(r)

\* Goroutines run and timers fire; a handler may take for ever.
Fairness == \A r \in Reqs : WF_vars(Step(r))

Spec == Init /\ [][Next]_vars /\ Fairness

-----------------------------------------------------------------------------
(* Properties *)

\* Never more than Limit requests are handled, nor more than its share counted
\* for a source, whatever timeouts, departures and hand-offs interleave.
LimitsHold ==
  /\ Cardinality(Handling) <= Limit
  /\ \A s \in Sources : Cardinality(CountedOf(s)) <= Share

\* No slot and no place in a share is lost or given back twice, on any of the
\* ways out (served, panicked, timed out, client gone), and the table has an
\* entry for the active sources only (ipSlots.release).
NothingLeaks ==
  /\ slots = Cardinality(Handling)
  /\ \A s \in Sources : Count(s) = Cardinality(CountedOf(s))
  /\ DOMAIN inUse = {s \in Sources : CountedOf(s) # {}}

\* One client cannot block the service: a request waits only when all the slots are
\* taken, which takes PerIPShare sources, or one per slot when the limit is below it
\* (ConcurrencyLimitMiddleware).
SaturationTakesManySources ==
  Waiting # {} =>
    Cardinality({SourceOf[r] : r \in Handling}) >= IF Limit < PerIPShare THEN Limit ELSE PerIPShare

\* Whatever the limit, a source is refused only for what it already has in the service: the
\* rounding of its share shuts nobody out (ipSlots.acquire).
NoSourceIsShutOut ==
  [][\A r \in Reqs :
       pc[r] = "idle" /\ pc'[r] = "refused" => CountedOf(SourceOf[r]) # {}]_vars

\* Every request is soon served or refused, even when no handler ever returns.
WaitIsBounded ==
  \A r \in Reqs :
    /\ pc[r] \in {"counted", "slow", "waiting"}
         ~> pc[r] \in {"handling", "rejected", "leaving"}
    /\ pc[r] \in {"refused", "rejected", "leaving"} ~> pc[r] = "idle"
=============================================================================
