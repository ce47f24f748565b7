--------------------------- MODULE PipelineProofs ---------------------------
(***************************************************************************)
(* ConcurrencyLimit and Pipeline, for any number of requests, sources,     *)
(* paths and codes, any limit and any share:                               *)
(*   the bounds and the bookkeeping of the limiter (IInv);                 *)
(*   the limiter inside the pipeline, whose steps implement it;            *)
(*   when an answer can have started (PInv);                               *)
(*   the books of each path, which balance at every step (Books), over     *)
(*   sums of counters that are unfolded by induction on finite sets;       *)
(*   the page of a scrape, read counter by counter (ScrapeInv).            *)
(***************************************************************************)
EXTENDS Pipeline, FiniteSetTheorems, FunctionTheorems, SequenceTheorems,
        WellFoundedInduction, TLAPS

\* The inductive invariant: what the counters count, what bounds them, and no
\* request waits while a slot is free.
IInv ==
  /\ TypeOK
  /\ NothingLeaks
  /\ LimitsHold
  /\ Waiting # {} => slots = Limit

-----------------------------------------------------------------------------
(* Sets and counters *)

LEMMA ShareType == Share \in Nat \ {0}
BY LimitAssumption DEF Share

\* The sets that are counted are finite.
LEMMA Finite ==
  /\ IsFiniteSet(Handling) /\ Cardinality(Handling) \in Nat
  /\ \A s : IsFiniteSet(CountedOf(s)) /\ Cardinality(CountedOf(s)) \in Nat
<1>1. ASSUME NEW T \in SUBSET Reqs PROVE IsFiniteSet(T) /\ Cardinality(T) \in Nat
  BY ReqsAssumption, FS_Subset, FS_CardinalityType
<1>2. QED
  BY <1>1 DEF Handling, CountedOf

\* A count is 0 when nobody of the source counts, and only then.
LEMMA CountZero ==
  ASSUME IInv, NEW s \in Sources
  PROVE  /\ Count(s) \in Nat
         /\ Count(s) = 0 <=> CountedOf(s) = {}
         /\ s \in DOMAIN inUse <=> Count(s) > 0
BY Finite, FS_EmptySet DEF IInv, NothingLeaks

\* A step that moves one request between two phases that count alike.
LEMMA NeutralStep ==
  ASSUME IInv, NEW r \in Reqs, NEW ph \in Phases, Move(r, ph),
         UNCHANGED <<slots, inUse>>,
         pc[r] # "handling", ph # "handling",
         pc[r] \in Counting <=> ph \in Counting,
         ph = "waiting" => slots = Limit
  PROVE  IInv'
<1>1. pc \in [Reqs -> Phases] /\ pc' = [pc EXCEPT ![r] = ph]
  BY DEF IInv, TypeOK, Move
<1>2. Handling' = Handling
  BY <1>1 DEF Handling
<1>3. \A s : CountedOf(s)' = CountedOf(s)
  BY <1>1 DEF CountedOf
<1>4. Waiting' # {} => slots = Limit
  BY <1>1 DEF Waiting, IInv
<1>5. TypeOK'
  BY <1>1 DEF IInv, TypeOK
<1>6. NothingLeaks' /\ LimitsHold'
  BY <1>2, <1>3 DEF IInv, NothingLeaks, LimitsHold, Count
<1>7. QED
  BY <1>4, <1>5, <1>6 DEF IInv

LEMMA InitIInv == Init => IInv
<1> SUFFICES ASSUME Init PROVE IInv
  OBVIOUS
<1>1. Handling = {} /\ Waiting = {} /\ \A s : CountedOf(s) = {}
  BY DEF Init, Handling, Waiting, CountedOf, Counting
<1>2. DOMAIN inUse = {}
  BY DEF Init
<1>3. TypeOK
  BY <1>2 DEF Init, TypeOK, Phases
<1>4. NothingLeaks
  BY <1>1, <1>2, FS_EmptySet DEF Init, NothingLeaks, Count
<1>5. LimitsHold
  BY <1>1, FS_EmptySet, ShareType, LimitAssumption DEF LimitsHold
<1>6. QED
  BY <1>1, <1>3, <1>4, <1>5 DEF IInv

\* A source below its share gets one more place.
LEMMA AcquirePreserves ==
  ASSUME IInv, NEW r \in Reqs, Acquire(r)
  PROVE  IInv'
<1> DEFINE s == SourceOf[r]
<1>1. /\ pc \in [Reqs -> Phases] /\ pc[r] = "idle" /\ s \in Sources
      /\ pc' = [pc EXCEPT ![r] = "counted"] /\ slots' = slots
      /\ inUse' = Acquired(s) /\ Count(s) < Share
  BY SourceOfAssumption DEF Acquire, Move, IInv, TypeOK
<1>2. Handling' = Handling /\ Waiting' = Waiting
  BY <1>1 DEF Handling, Waiting
<1>3. CountedOf(s)' = CountedOf(s) \cup {r} /\ r \notin CountedOf(s)
  BY <1>1 DEF CountedOf, Counting
<1>4. ASSUME NEW t \in Sources, t # s PROVE CountedOf(t)' = CountedOf(t)
  BY <1>1, <1>4 DEF CountedOf
<1>5. Cardinality(CountedOf(s)') = Cardinality(CountedOf(s)) + 1
  BY <1>3, Finite, FS_AddElement
<1>6. /\ DOMAIN inUse' = DOMAIN inUse \cup {s}
      /\ Count(s)' = Count(s) + 1
      /\ \A t \in Sources : t # s => Count(t)' = Count(t)
  BY <1>1 DEF Acquired, Count
<1>7. Count(s) \in Nat
  BY <1>1, CountZero
<1>8. TypeOK'
  <2>1. inUse' \in [DOMAIN inUse' -> Nat]
    BY <1>1, <1>7 DEF Acquired, IInv, TypeOK
  <2>2. QED
    BY <1>1, <1>6, <2>1 DEF IInv, TypeOK, Phases
<1>9. NothingLeaks'
  BY <1>1, <1>2, <1>3, <1>4, <1>5, <1>6 DEF IInv, NothingLeaks
<1>10. LimitsHold'
  BY <1>1, <1>2, <1>4, <1>5, <1>7, ShareType DEF IInv, NothingLeaks, LimitsHold
<1>11. QED
  BY <1>1, <1>2, <1>8, <1>9, <1>10 DEF IInv

\* A free slot goes to one request.
LEMMA TakePreserves ==
  ASSUME IInv, NEW r \in Reqs, Take(r)
  PROVE  IInv'
<1>1. /\ pc \in [Reqs -> Phases] /\ pc[r] \in {"counted", "slow"}
      /\ pc' = [pc EXCEPT ![r] = "handling"] /\ inUse' = inUse
      /\ slots \in Nat /\ slots < Limit /\ slots' = slots + 1
  BY DEF Take, Move, IInv, TypeOK
<1>2. Handling' = Handling \cup {r} /\ r \notin Handling
  BY <1>1 DEF Handling
<1>3. \A s : CountedOf(s)' = CountedOf(s)
  BY <1>1 DEF CountedOf, Counting
<1>4. Waiting' = {}
  BY <1>1, LimitAssumption DEF IInv, Waiting
<1>5. Cardinality(Handling') = Cardinality(Handling) + 1
  BY <1>2, Finite, FS_AddElement
<1>6. TypeOK'
  BY <1>1 DEF IInv, TypeOK, Phases
<1>7. NothingLeaks'
  BY <1>1, <1>3, <1>5 DEF IInv, NothingLeaks, Count
<1>8. LimitsHold'
  BY <1>1, <1>3, <1>5, LimitAssumption DEF IInv, NothingLeaks, LimitsHold
<1>9. QED
  BY <1>4, <1>6, <1>7, <1>8 DEF IInv

\* A slot given back goes to a waiting request or becomes free.
LEMMA FinishPreserves ==
  ASSUME IInv, NEW r \in Reqs, Finish(r)
  PROVE  IInv'
<1>1. /\ pc \in [Reqs -> Phases] /\ pc[r] = "handling" /\ inUse' = inUse
      /\ slots \in Nat /\ slots = Cardinality(Handling)
  BY DEF Finish, IInv, TypeOK, NothingLeaks
<1>2. CASE Waiting # {}
  <2>1. PICK w \in Waiting : pc' = [pc EXCEPT ![r] = "leaving", ![w] = "handling"]
    BY <1>2 DEF Finish
  <2>2. slots' = slots
    BY <1>2 DEF Finish
  <2>3. w \in Reqs /\ pc[w] = "waiting" /\ w # r
    BY <1>1, <2>1 DEF Waiting
  <2>4. Handling' = (Handling \ {r}) \cup {w} /\ r \in Handling /\ w \notin Handling
    BY <1>1, <2>1, <2>3 DEF Handling
  <2>5. Cardinality(Handling') = Cardinality(Handling)
    <3>1. IsFiniteSet(Handling \ {r}) /\ Cardinality(Handling \ {r}) = Cardinality(Handling) - 1
      BY <2>4, Finite, FS_RemoveElement
    <3>2. Cardinality(Handling') = Cardinality(Handling \ {r}) + 1
      BY <2>4, <3>1, FS_AddElement
    <3>3. QED
      BY <3>1, <3>2, Finite
  <2>6. \A s : CountedOf(s)' = CountedOf(s)
    BY <1>1, <2>1, <2>3 DEF CountedOf, Counting
  <2>7. slots = Limit
    BY <1>2 DEF IInv
  <2>8. TypeOK'
    BY <1>1, <2>1, <2>2, <2>3 DEF IInv, TypeOK, Phases
  <2>9. NothingLeaks' /\ LimitsHold'
    BY <1>1, <2>2, <2>5, <2>6 DEF IInv, NothingLeaks, LimitsHold, Count
  <2>10. QED
    BY <2>2, <2>7, <2>8, <2>9 DEF IInv
<1>3. CASE Waiting = {}
  <2>1. pc' = [pc EXCEPT ![r] = "leaving"] /\ slots' = slots - 1
    BY <1>3 DEF Finish, Move
  <2>2. Handling' = Handling \ {r} /\ r \in Handling
    BY <1>1, <2>1 DEF Handling
  <2>3. Cardinality(Handling') = Cardinality(Handling) - 1
    BY <2>2, Finite, FS_RemoveElement
  <2>4. Cardinality(Handling') \in Nat
    BY <2>2, Finite, FS_RemoveElement, FS_CardinalityType
  <2>5. \A s : CountedOf(s)' = CountedOf(s)
    BY <1>1, <2>1 DEF CountedOf, Counting
  <2>6. Waiting' = {}
    BY <1>1, <1>3, <2>1 DEF Waiting
  <2>7. TypeOK'
    BY <1>1, <2>1, <2>3, <2>4 DEF IInv, TypeOK, Phases
  <2>8. NothingLeaks'
    BY <1>1, <2>1, <2>3, <2>5 DEF IInv, NothingLeaks, Count
  <2>9. LimitsHold'
    BY <1>1, <2>3, <2>5, LimitAssumption DEF IInv, LimitsHold
  <2>10. QED
    BY <2>6, <2>7, <2>8, <2>9 DEF IInv
<1>4. QED
  BY <1>2, <1>3

\* A place in a share is given back, and the entry of the last one removed.
LEMMA ReleasePreserves ==
  ASSUME IInv, NEW r \in Reqs, Release(r)
  PROVE  IInv'
<1> DEFINE s == SourceOf[r]
<1>1. /\ pc \in [Reqs -> Phases] /\ pc[r] = "leaving" /\ s \in Sources
      /\ pc' = [pc EXCEPT ![r] = "idle"] /\ slots' = slots
      /\ inUse' = Released(s)
  BY SourceOfAssumption DEF Release, Move, IInv, TypeOK
<1>2. Handling' = Handling /\ Waiting' = Waiting
  BY <1>1 DEF Handling, Waiting
<1>3. CountedOf(s)' = CountedOf(s) \ {r} /\ r \in CountedOf(s)
  BY <1>1 DEF CountedOf, Counting
<1>4. ASSUME NEW t \in Sources, t # s PROVE CountedOf(t)' = CountedOf(t)
  BY <1>1, <1>4 DEF CountedOf
<1>5. /\ Cardinality(CountedOf(s)') = Cardinality(CountedOf(s)) - 1
      /\ IsFiniteSet(CountedOf(s)')
  BY <1>3, Finite, FS_RemoveElement
<1>6. Count(s) \in Nat \ {0} /\ s \in DOMAIN inUse
  BY <1>1, <1>3, CountZero
<1>7. \A t \in Sources : t # s =>
         Count(t)' = Count(t) /\ (t \in DOMAIN inUse' <=> t \in DOMAIN inUse)
  BY <1>1 DEF Released, Count
<1>8. Count(s)' = Count(s) - 1 /\ (s \in DOMAIN inUse' <=> Count(s) > 1)
  BY <1>1, <1>6 DEF Released, Count
<1>9. s \in DOMAIN inUse' <=> CountedOf(s)' # {}
  BY <1>1, <1>5, <1>6, <1>8, FS_EmptySet DEF IInv, NothingLeaks
<1>10. DOMAIN inUse' \subseteq DOMAIN inUse
  BY <1>1 DEF Released
<1>11. TypeOK'
  <2>1. ASSUME NEW t \in DOMAIN inUse' PROVE inUse'[t] \in Nat
    BY <1>1, <1>6, <1>10, <2>1 DEF Released, Count, IInv, TypeOK
  <2>2. inUse' \in [DOMAIN inUse' -> Nat]
    BY <1>1, <2>1 DEF Released
  <2>3. QED
    BY <1>1, <1>10, <2>2 DEF IInv, TypeOK, Phases
<1>12. NothingLeaks'
  <2>1. \A t \in Sources : Count(t)' = Cardinality(CountedOf(t)')
    BY <1>1, <1>4, <1>5, <1>7, <1>8 DEF IInv, NothingLeaks
  <2>2. \A t \in Sources : t \in DOMAIN inUse' <=> CountedOf(t)' # {}
    BY <1>4, <1>7, <1>9 DEF IInv, NothingLeaks
  <2>3. QED
    BY <1>1, <1>2, <1>10, <2>1, <2>2 DEF IInv, TypeOK, NothingLeaks
<1>13. LimitsHold'
  BY <1>1, <1>2, <1>4, <1>5, Finite, ShareType DEF IInv, LimitsHold
<1>14. QED
  BY <1>1, <1>2, <1>11, <1>12, <1>13 DEF IInv

LEMMA NextIInv == IInv /\ [Next]_vars => IInv'
<1> SUFFICES ASSUME IInv, [Next]_vars PROVE IInv'
  OBVIOUS
<1>1. CASE UNCHANGED vars
  BY <1>1 DEF vars, IInv, TypeOK, NothingLeaks, LimitsHold, Handling, CountedOf,
              Waiting, Count
<1>2. ASSUME NEW r \in Reqs, Exempt(r) \/ ExemptServed(r) \/ Refuse(r) \/ RefusedAnswered(r)
      PROVE  IInv'
  <2>1. PICK ph \in {"idle", "exempt", "refused"} :
          /\ Move(r, ph) /\ UNCHANGED <<slots, inUse>>
          /\ pc[r] \in {"idle", "exempt", "refused"}
    BY <1>2 DEF Exempt, ExemptServed, Refuse, RefusedAnswered
  <2>2. QED
    BY <2>1, NeutralStep DEF Phases, Counting
<1>3. ASSUME NEW r \in Reqs, Timeout(r) \/ ClientGone(r) \/ RejectedAnswered(r)
      PROVE  IInv'
  <2>1. PICK ph \in {"rejected", "leaving"} :
          /\ Move(r, ph) /\ UNCHANGED <<slots, inUse>>
          /\ pc[r] \in {"slow", "waiting", "rejected"}
    BY <1>3 DEF Timeout, ClientGone, RejectedAnswered
  <2>2. QED
    BY <2>1, NeutralStep DEF Phases, Counting
<1>4. ASSUME NEW r \in Reqs, NoFreeSlot(r)
      PROVE  IInv'
  <2>1. PICK ph \in {"slow", "waiting"} :
          /\ Move(r, ph) /\ UNCHANGED <<slots, inUse>>
          /\ pc[r] \in {"counted", "slow"}
    BY <1>4 DEF NoFreeSlot
  <2>2. slots = Limit
    BY <1>4, LimitAssumption DEF NoFreeSlot, IInv, TypeOK, NothingLeaks, LimitsHold
  <2>3. QED
    BY <2>1, <2>2, NeutralStep DEF Phases, Counting
<1>5. QED
  BY <1>1, <1>2, <1>3, <1>4, AcquirePreserves, TakePreserves, FinishPreserves,
     ReleasePreserves DEF Next, Step

LEMMA Invariance == Spec => []IInv
BY InitIInv, NextIInv, PTL DEF Spec

-----------------------------------------------------------------------------
(* What the invariant gives. *)

\* Every variable keeps its type.
THEOREM TypeCorrect == Spec => []TypeOK
<1>1. IInv => TypeOK
  BY DEF IInv
<1>2. QED
  BY <1>1, Invariance, PTL

\* The limit and the shares hold however the requests interleave.
THEOREM LimitsAlwaysHold == Spec => []LimitsHold
<1>1. IInv => LimitsHold
  BY DEF IInv
<1>2. QED
  BY <1>1, Invariance, PTL

\* Slots and places in a share are neither lost nor given back twice.
THEOREM NothingEverLeaks == Spec => []NothingLeaks
<1>1. IInv => NothingLeaks
  BY DEF IInv
<1>2. QED
  BY <1>1, Invariance, PTL

-----------------------------------------------------------------------------
(* How many sources it takes to hold every slot. *)

Holders == {SourceOf[r] : r \in Handling}

HeldBy(s) == {r \in Handling : SourceOf[r] = s}

\* The requests of a source can be numbered within its share.
LEMMA Numbering ==
  ASSUME IInv, NEW s \in Sources
  PROVE  Injection(HeldBy(s), 1..Share) # {}
<1>1. HeldBy(s) \subseteq CountedOf(s)
  BY DEF HeldBy, Handling, CountedOf, Counting
<1>2. /\ IsFiniteSet(HeldBy(s))
      /\ Cardinality(HeldBy(s)) <= Cardinality(CountedOf(s))
      /\ Cardinality(CountedOf(s)) <= Share
  BY <1>1, Finite, FS_Subset DEF IInv, LimitsHold
<1>3. /\ Cardinality(HeldBy(s)) \in Nat
      /\ ExistsBijection(1..Cardinality(HeldBy(s)), HeldBy(s))
  BY <1>2, FS_CardinalityType
<1>4. ExistsBijection(HeldBy(s), 1..Cardinality(HeldBy(s)))
  BY <1>3, Fun_ExistsBijSymmetric
<1>5. PICK f \in [HeldBy(s) -> 1..Cardinality(HeldBy(s))] : IsInjective(f)
  BY <1>4 DEF ExistsBijection, Bijection, Injection
<1>6. 1..Cardinality(HeldBy(s)) \subseteq 1..Share
  BY <1>2, <1>3, Finite, ShareType
<1>7. f \in [HeldBy(s) -> 1..Share]
  BY <1>5, <1>6
<1>8. QED
  BY <1>5, <1>7 DEF Injection

\* No more requests are handled than the shares of the sources that hold them.
LEMMA SharesCover ==
  ASSUME IInv
  PROVE  /\ IsFiniteSet(Holders)
         /\ Cardinality(Handling) <= Cardinality(Holders) * Share
<1> DEFINE number == [s \in Holders |-> CHOOSE f : f \in Injection(HeldBy(s), 1..Share)]
           place == [r \in Handling |-> <<SourceOf[r], number[SourceOf[r]][r]>>]
<1>1. Holders \subseteq Sources /\ \A r \in Handling : SourceOf[r] \in Holders
  BY SourceOfAssumption DEF Holders, Handling
<1>2. IsFiniteSet(Holders)
  <2> DEFINE f == [r \in Handling |-> SourceOf[r]]
  <2>1. f \in Surjection(Handling, Holders)
    BY DEF Surjection, Holders
  <2>2. QED
    BY <2>1, Finite, FS_Surjection
<1>3. ASSUME NEW s \in Holders
      PROVE  /\ number[s] \in [HeldBy(s) -> 1..Share]
             /\ IsInjective(number[s])
  BY <1>1, Numbering DEF Injection
<1>4. ASSUME NEW r \in Handling
      PROVE  place[r] \in Holders \X (1..Share)
  <2>1. r \in HeldBy(SourceOf[r])
    BY DEF HeldBy
  <2>2. QED
    BY <1>1, <1>3, <2>1
<1>5. ASSUME NEW q \in Handling, NEW r \in Handling, place[q] = place[r]
      PROVE  q = r
  <2> HIDE DEF number
  <2>1. SourceOf[q] = SourceOf[r] /\ number[SourceOf[q]][q] = number[SourceOf[r]][r]
    <3>1. /\ place[q] = <<SourceOf[q], number[SourceOf[q]][q]>>
          /\ place[r] = <<SourceOf[r], number[SourceOf[r]][r]>>
      OBVIOUS
    <3>2. <<SourceOf[q], number[SourceOf[q]][q]>>[1]
            = <<SourceOf[r], number[SourceOf[r]][r]>>[1]
      BY <1>5, <3>1
    <3>3. <<SourceOf[q], number[SourceOf[q]][q]>>[2]
            = <<SourceOf[r], number[SourceOf[r]][r]>>[2]
      BY <1>5, <3>1
    <3>4. QED
      BY <3>2, <3>3
  <2>2. q \in HeldBy(SourceOf[r]) /\ r \in HeldBy(SourceOf[r])
    BY <2>1 DEF HeldBy
  <2>3. SourceOf[r] \in Holders
    BY <1>1
  <2>4. QED
    BY <1>3, <2>1, <2>2, <2>3 DEF IsInjective
<1>6. place \in Injection(Handling, Holders \X (1..Share))
  BY <1>4, <1>5 DEF Injection, IsInjective
<1>7. /\ IsFiniteSet(1..Share) /\ Cardinality(1..Share) = Share
  BY FS_Interval, ShareType
<1>8. /\ IsFiniteSet(Holders \X (1..Share))
      /\ Cardinality(Holders \X (1..Share)) = Cardinality(Holders) * Share
  BY <1>2, <1>7, FS_Product
<1>9. Cardinality(Handling) <= Cardinality(Holders) * Share
  BY <1>6, <1>8, FS_Injection
<1>10. QED
  BY <1>2, <1>9

\* A limit of PerIPShare or more takes PerIPShare sources to fill, a smaller one a source per
\* slot; fewer leave a slot free, so nobody waits.
THEOREM SaturationAlwaysTakesManySources == Spec => []SaturationTakesManySources
<1>1. IInv => SaturationTakesManySources
  <2> SUFFICES ASSUME IInv, Waiting # {}
               PROVE  Cardinality(Holders) >= IF Limit < PerIPShare THEN Limit ELSE PerIPShare
    BY DEF SaturationTakesManySources, Holders
  <2> DEFINE n == Cardinality(Holders)
  <2>1. Limit <= n * Share /\ n \in Nat
    BY SharesCover, FS_CardinalityType DEF IInv, NothingLeaks
  <2>2. CASE Limit < PerIPShare
    <3>1. Share = 1
      BY <2>2, LimitAssumption DEF Share
    <3>2. n * Share = n
      BY <2>1, <3>1
    <3>3. QED
      BY <2>1, <2>2, <3>2
  <2>3. CASE Limit >= PerIPShare
    <3>1. Share * PerIPShare <= Limit
      BY <2>3, LimitAssumption DEF Share
    <3>2. ASSUME n < PerIPShare PROVE FALSE
      <4>1. n * Share < PerIPShare * Share
        BY <2>1, <3>2, ShareType, LimitAssumption
      <4>2. QED
        BY <2>1, <3>1, <4>1, ShareType, LimitAssumption
    <3>3. QED
      BY <2>1, <2>3, <3>2, LimitAssumption
  <2>4. QED
    BY <2>2, <2>3, LimitAssumption
<1>2. QED
  BY <1>1, Invariance, PTL

\* A share is never 0 and the table counts exactly, so a source that is refused has a request
\* counted already, for every limit and PerIPShare.
THEOREM NobodyIsShutOut == Spec => NoSourceIsShutOut
<1> DEFINE Fair == \A r \in Reqs : pc[r] = "idle" /\ pc'[r] = "refused" => CountedOf(SourceOf[r]) # {}
<1>1. IInv /\ [Next]_vars => [Fair]_vars
  <2> SUFFICES ASSUME IInv, Next, NEW r \in Reqs, pc[r] = "idle", pc'[r] = "refused"
               PROVE  CountedOf(SourceOf[r]) # {}
    OBVIOUS
  <2>1. PICK q \in Reqs : \/ Exempt(q) \/ Acquire(q) \/ Refuse(q)
                          \/ ClientGone(q) \/ Finish(q) \/ Step(q)
    BY DEF Next
  <2>2. pc \in [Reqs -> Phases]
    BY DEF IInv, TypeOK
  <2>3. Refuse(r)
    BY <2>1, <2>2 DEF Exempt, Acquire, Refuse, ClientGone, Finish, Step, ExemptServed,
       RefusedAnswered, Take, NoFreeSlot, Timeout, RejectedAnswered, Release, Move, Waiting
  <2>4. Count(SourceOf[r]) >= Share /\ SourceOf[r] \in Sources
    BY <2>3, SourceOfAssumption DEF Refuse
  <2>5. Cardinality(CountedOf(SourceOf[r])) >= Share
    BY <2>4 DEF IInv, NothingLeaks
  <2>6. QED
    BY <2>5, ShareType, FS_EmptySet
<1>2. QED
  BY <1>1, Invariance, PTL DEF NoSourceIsShutOut, Spec

-----------------------------------------------------------------------------
(* Induction and sums over finite sets *)

LEMMA Least ==
  ASSUME NEW S \in SUBSET Nat, S # {}
  PROVE  \E m \in S : \A i \in S : m <= i
<1> DEFINE R == {p \in Nat \X Nat : p[1] < p[2]}
<1>1. IsWellFoundedOn(R, Nat)
  BY NatLessThanWellFounded DEF OpToRel
<1>2. PICK m \in S : \A i \in S : <<i, m>> \notin R
  <2> HIDE DEF R
  <2> QED BY <1>1, WFMin
<1>3. ASSUME NEW i \in S
      PROVE  m <= i
  <2>1. <<i, m>> \in Nat \X Nat /\ <<i, m>>[1] = i /\ <<i, m>>[2] = m
    OBVIOUS
  <2>2. ~(i < m)
    BY <1>2, <2>1
  <2>3. QED
    BY <2>2
<1>4. QED
  BY <1>3

\* What a finite set has when the sets with one element less have it, every finite set has.
LEMMA SubsetInduction ==
  ASSUME NEW U, IsFiniteSet(U), NEW P,
         \A s \in SUBSET U : (\A x \in s : s \ {x} \in P) => s \in P
  PROVE  \A s \in SUBSET U : s \in P
<1>1. PICK bad : bad = {n \in Nat : \E s \in SUBSET U : Cardinality(s) = n /\ s \notin P}
  OBVIOUS
<1>2. ASSUME NEW s \in SUBSET U
      PROVE  IsFiniteSet(s) /\ Cardinality(s) \in Nat
  BY FS_Subset, FS_CardinalityType
<1>3. SUFFICES ASSUME bad # {} PROVE FALSE
  BY <1>1, <1>2
<1>4. bad \in SUBSET Nat
  BY <1>1
<1>5. PICK m \in bad : \A i \in bad : m <= i
  BY <1>3, <1>4, Least
<1>6. PICK s \in SUBSET U : Cardinality(s) = m /\ s \notin P
  BY <1>1, <1>5
<1>7. ASSUME NEW x \in s
      PROVE  s \ {x} \in P
  <2>1. Cardinality(s \ {x}) = m - 1 /\ m \in Nat /\ m - 1 \in Nat
    BY <1>2, <1>6, FS_RemoveElement, FS_Subset, FS_CardinalityType
  <2>2. ~(m <= m - 1)
    BY <2>1
  <2>3. m - 1 \notin bad
    BY <1>5, <2>2
  <2>4. QED
    BY <1>1, <2>1, <2>3
<1>8. QED
  BY <1>6, <1>7

Pick(s) == CHOOSE y \in s : TRUE

Sums(g, f, s) == IF s = {} THEN 0 ELSE f[Pick(s)] + g[s \ {Pick(s)}]

IsSum(g, f, S) == g = [s \in SUBSET S |-> Sums(g, f, s)]

LEMMA PickFacts == \A s : s # {} => Pick(s) \in s
BY DEF Pick

LEMMA SumIsFold ==
  ASSUME NEW f, NEW S
  PROVE  SumOver(f, S) = (CHOOSE g : IsSum(g, f, S))[S]
BY DEF SumOver, FoldFunctionOnSet, MapThenFoldSet, IsSum, Sums, Pick

LEMMA SumUnique ==
  ASSUME NEW f, NEW S, IsFiniteSet(S), NEW g, NEW h, IsSum(g, f, S), IsSum(h, f, S)
  PROVE  g[S] = h[S]
<1>1. PICK P : P = {s \in SUBSET S : g[s] = h[s]}
  OBVIOUS
<1>2. ASSUME NEW s \in SUBSET S, \A x \in s : s \ {x} \in P
      PROVE  s \in P
  <2>1. g[s] = Sums(g, f, s) /\ h[s] = Sums(h, f, s)
    BY DEF IsSum
  <2>2. s # {} => g[s \ {Pick(s)}] = h[s \ {Pick(s)}]
    BY <1>1, <1>2, PickFacts
  <2>3. QED
    BY <1>1, <2>1, <2>2 DEF Sums
<1>3. \A s \in SUBSET S : s \in P
  BY <1>2, SubsetInduction
<1>4. QED
  BY <1>1, <1>3

\* The recursion of the fold, which is unfolded once.
Unfolds(f, s) ==
  SumOver(f, s) = IF s = {} THEN 0 ELSE f[Pick(s)] + SumOver(f, s \ {Pick(s)})

LEMMA SumUnfolds ==
  ASSUME NEW f, NEW U, IsFiniteSet(U)
  PROVE  \A s \in SUBSET U : Unfolds(f, s)
<1>1. PICK P : P = {s \in SUBSET U : \A t \in SUBSET s : Unfolds(f, t)}
  OBVIOUS
<1>2. ASSUME NEW s \in SUBSET U, \A x \in s : s \ {x} \in P
      PROVE  s \in P
  <2>1. PICK h : h = [t \in SUBSET s |->
                        IF t = s THEN IF s = {} THEN 0 ELSE f[Pick(s)] + SumOver(f, s \ {Pick(s)})
                        ELSE SumOver(f, t)]
    OBVIOUS
  <2>2. ASSUME NEW t \in SUBSET s
        PROVE  h[t] = Sums(h, f, t)
    <3>1. t # {} => Pick(t) \in t /\ t \ {Pick(t)} \in SUBSET s /\ t \ {Pick(t)} # s
      BY PickFacts
    <3>2. t # {} => h[t \ {Pick(t)}] = SumOver(f, t \ {Pick(t)})
      BY <2>1, <3>1
    <3>3. CASE t = s
      BY <2>1, <3>2, <3>3 DEF Sums
    <3>4. CASE t # s
      <4>1. PICK x \in s : x \notin t
        BY <3>4
      <4>2. t \in SUBSET (s \ {x}) /\ s \ {x} \in P
        BY <1>2, <4>1
      <4>3. Unfolds(f, t)
        BY <1>1, <4>2
      <4>4. h[t] = SumOver(f, t)
        BY <2>1, <3>4
      <4>5. QED
        BY <3>2, <4>3, <4>4 DEF Unfolds, Sums
    <3>5. QED
      BY <3>3, <3>4
  <2>3. IsSum(h, f, s)
    <3>1. h = [t \in SUBSET s |-> Sums(h, f, t)]
      BY <2>1, <2>2
    <3>2. QED
      BY <3>1 DEF IsSum
  <2>4. PICK g : g = CHOOSE k : IsSum(k, f, s)
    OBVIOUS
  <2>5. IsSum(g, f, s)
    BY <2>3, <2>4
  <2>6. SumOver(f, s) = h[s]
    <3>1. IsFiniteSet(s)
      BY FS_Subset
    <3>2. g[s] = h[s]
      BY <2>3, <2>5, <3>1, SumUnique
    <3>3. QED
      BY <2>4, <3>2, SumIsFold
  <2>7. Unfolds(f, s)
    BY <2>1, <2>6 DEF Unfolds
  <2>8. ASSUME NEW t \in SUBSET s, t # s
        PROVE  Unfolds(f, t)
    <3>1. PICK x \in s : x \notin t
      BY <2>8
    <3>2. t \in SUBSET (s \ {x}) /\ s \ {x} \in P
      BY <1>2, <3>1
    <3>3. QED
      BY <1>1, <3>2
  <2>9. QED
    BY <1>1, <2>7, <2>8
<1>3. \A s \in SUBSET U : s \in P
  BY <1>2, SubsetInduction
<1>4. QED
  BY <1>1, <1>3

LEMMA SumEmpty == \A f : SumOver(f, {}) = 0
<1>1. IsFiniteSet({}) /\ {} \in SUBSET {}
  BY FS_EmptySet
<1>2. QED
  BY <1>1, SumUnfolds DEF Unfolds

Naturals(f, S) == \A y \in S : f[y] \in Nat

LEMMA SumNat ==
  ASSUME NEW f, NEW U, IsFiniteSet(U), Naturals(f, U)
  PROVE  \A s \in SUBSET U : SumOver(f, s) \in Nat
<1>1. PICK P : P = {s \in SUBSET U : SumOver(f, s) \in Nat}
  OBVIOUS
<1>2. ASSUME NEW s \in SUBSET U, \A x \in s : s \ {x} \in P
      PROVE  s \in P
  <2>1. Unfolds(f, s)
    BY SumUnfolds
  <2>2. s # {} => f[Pick(s)] \in Nat /\ SumOver(f, s \ {Pick(s)}) \in Nat
    BY <1>1, <1>2, PickFacts DEF Naturals
  <2>3. QED
    BY <1>1, <2>1, <2>2 DEF Unfolds
<1>3. \A s \in SUBSET U : s \in P
  BY <1>2, SubsetInduction
<1>4. QED
  BY <1>1, <1>3

\* The terms may be added in any order.
LEMMA SumSplits ==
  ASSUME NEW f, NEW U, IsFiniteSet(U), Naturals(f, U)
  PROVE  \A s \in SUBSET U, x \in U : x \in s => SumOver(f, s) = f[x] + SumOver(f, s \ {x})
<1>1. PICK P : P = {s \in SUBSET U : \A x \in s : SumOver(f, s) = f[x] + SumOver(f, s \ {x})}
  OBVIOUS
<1>2. ASSUME NEW s \in SUBSET U, \A x \in s : s \ {x} \in P
      PROVE  s \in P
  <2> SUFFICES ASSUME NEW x \in s PROVE SumOver(f, s) = f[x] + SumOver(f, s \ {x})
    BY <1>1
  <2>1. PICK c \in s : c = Pick(s)
    BY PickFacts
  <2>2. SumOver(f, s) = f[c] + SumOver(f, s \ {c})
    BY <2>1, SumUnfolds DEF Unfolds
  <2>3. CASE x # c
    <3>1. PICK r \in SUBSET U : r = s \ {c, x}
      OBVIOUS
    <3>2. SumOver(f, s \ {c}) = f[x] + SumOver(f, r)
      <4>1. x \in s \ {c} /\ s \ {c} \in P /\ (s \ {c}) \ {x} = r
        BY <1>2, <2>3, <3>1
      <4>2. QED
        BY <1>1, <4>1
    <3>3. SumOver(f, s \ {x}) = f[c] + SumOver(f, r)
      <4>1. c \in s \ {x} /\ s \ {x} \in P /\ (s \ {x}) \ {c} = r
        BY <1>2, <2>3, <3>1
      <4>2. QED
        BY <1>1, <4>1
    <3>4. SumOver(f, r) \in Nat /\ f[x] \in Nat /\ f[c] \in Nat
      BY SumNat DEF Naturals
    <3>5. QED
      BY <2>2, <3>2, <3>3, <3>4
  <2>4. QED
    BY <2>2, <2>3
<1>3. \A s \in SUBSET U : s \in P
  BY <1>2, SubsetInduction
<1>4. QED
  BY <1>1, <1>3

\* The sum depends on its terms only.
LEMMA SumSame ==
  ASSUME NEW f, NEW g, NEW U, IsFiniteSet(U), \A y \in U : f[y] = g[y]
  PROVE  SumOver(f, U) = SumOver(g, U)
<1>1. PICK P : P = {s \in SUBSET U : SumOver(f, s) = SumOver(g, s)}
  OBVIOUS
<1>2. ASSUME NEW s \in SUBSET U, \A x \in s : s \ {x} \in P
      PROVE  s \in P
  <2>1. Unfolds(f, s) /\ Unfolds(g, s)
    BY SumUnfolds
  <2>2. s # {} => /\ f[Pick(s)] = g[Pick(s)]
                  /\ SumOver(f, s \ {Pick(s)}) = SumOver(g, s \ {Pick(s)})
    BY <1>1, <1>2, PickFacts
  <2>3. QED
    BY <1>1, <2>1, <2>2 DEF Unfolds
<1>3. \A s \in SUBSET U : s \in P
  BY <1>2, SubsetInduction
<1>4. QED
  BY <1>1, <1>3

\* Fewer and smaller terms make a smaller sum.
LEMMA SumBelow ==
  ASSUME NEW f, NEW g, NEW U, IsFiniteSet(U), NEW V \in SUBSET U,
         Naturals(f, V), Naturals(g, U), \A y \in V : f[y] <= g[y]
  PROVE  SumOver(f, V) <= SumOver(g, U)
<1>1. PICK P : P = {s \in SUBSET U : SumOver(f, V \cap s) <= SumOver(g, s)}
  OBVIOUS
<1>2. ASSUME NEW s \in SUBSET U, \A x \in s : s \ {x} \in P
      PROVE  s \in P
  <2>1. CASE s = {}
    <3>1. V \cap s = {}
      BY <2>1
    <3>2. QED
      BY <1>1, <2>1, <3>1, SumEmpty
  <2>2. CASE s # {}
    <3>1. PICK x : x \in s
      BY <2>2
    <3>2. SumOver(g, s) = g[x] + SumOver(g, s \ {x})
      BY <3>1, SumSplits
    <3>3. SumOver(f, V \cap (s \ {x})) <= SumOver(g, s \ {x})
      BY <1>1, <1>2, <3>1
    <3>4. /\ IsFiniteSet(V) /\ V \cap (s \ {x}) \in SUBSET V /\ V \cap s \in SUBSET V
          /\ s \ {x} \in SUBSET U
      BY FS_Subset
    <3>5. /\ SumOver(f, V \cap (s \ {x})) \in Nat /\ SumOver(g, s \ {x}) \in Nat /\ g[x] \in Nat
      BY <3>1, <3>4, SumNat DEF Naturals
    <3>6. CASE x \in V
      <4>1. x \in V \cap s /\ (V \cap s) \ {x} = V \cap (s \ {x})
        BY <3>1, <3>6
      <4>2. SumOver(f, V \cap s) = f[x] + SumOver(f, V \cap (s \ {x}))
        BY <3>4, <3>6, <4>1, SumSplits
      <4>3. f[x] \in Nat /\ f[x] <= g[x]
        BY <3>6 DEF Naturals
      <4>4. QED
        BY <1>1, <3>2, <3>3, <3>5, <4>2, <4>3
    <3>7. CASE x \notin V
      <4>1. V \cap s = V \cap (s \ {x})
        BY <3>7
      <4>2. QED
        BY <1>1, <3>2, <3>3, <3>5, <4>1
    <3>8. QED
      BY <3>6, <3>7
  <2>3. QED
    BY <2>1, <2>2
<1>3. U \in P
  BY <1>2, SubsetInduction
<1>4. V \cap U = V
  OBVIOUS
<1>5. QED
  BY <1>1, <1>3, <1>4

\* One term that grows makes the sum grow by as much.
LEMMA SumGrows ==
  ASSUME NEW f, NEW g, NEW U, IsFiniteSet(U), Naturals(f, U), NEW x \in U, g[x] = f[x] + 1,
         \A y \in U \ {x} : f[y] = g[y]
  PROVE  SumOver(g, U) = SumOver(f, U) + 1
<1>1. IsFiniteSet(U \ {x}) /\ U \ {x} \in SUBSET U /\ f[x] \in Nat
  BY FS_Subset DEF Naturals
<1>2. SumOver(f, U \ {x}) = SumOver(g, U \ {x})
  BY <1>1, SumSame
<1>3. Naturals(g, U)
  BY <1>1 DEF Naturals
<1>4. /\ SumOver(f, U) = f[x] + SumOver(f, U \ {x})
      /\ SumOver(g, U) = g[x] + SumOver(g, U \ {x})
  BY <1>3, SumSplits
<1>5. SumOver(f, U \ {x}) \in Nat
  BY <1>1, SumNat
<1>6. QED
  BY <1>1, <1>2, <1>4, <1>5

-----------------------------------------------------------------------------
(* The limiter in the pipeline *)

AllVars == <<Limits, pvars>>

LEMMA LimitStep ==
  ASSUME NEW r \in Reqs, Arrive(r) \/ Served(r)
  PROVE  [Next]_Limits
<1>1. CASE Arrive(r) \/ RateLimited(r) \/ Answer(r) \/ Read(r) \/ Recover(r) \/ Observe(r)
  <2>1. UNCHANGED Limits
    BY <1>1 DEF Arrive, RateLimited, Answer, Read, Recover, Observe
  <2>2. QED
    BY <2>1
<1>2. CASE Enter(r) \/ Wait(r) \/ Reject(r) \/ Return(r) \/ Panic(r) \/ GiveShareBack(r)
  <2>1. Next
    BY <1>2 DEF Enter, Wait, Reject, Return, Panic, GiveShareBack, Leave, Next, Step
  <2>2. QED
    BY <2>1
<1>3. QED
  BY <1>1, <1>2 DEF Served

LEMMA LimitSteps == [PipeNext]_AllVars => [Next]_Limits
<1>1. UNCHANGED AllVars \/ Quiet => [Next]_Limits
  BY DEF AllVars, Quiet
<1>2. QED
  BY <1>1, LimitStep DEF PipeNext

\* The middlewares and the handlers around the limiter only ever make its own steps:
\* no panic, refusal or departure gives back a slot or a share it does not hold.
THEOREM LimitIsImplemented == PipeSpec => ImplementsLimit
<1>1. PipeInit => Init
  BY DEF PipeInit
<1>2. [PipeNext]_<<Limits, pvars>> => [Next]_Limits
  BY LimitSteps DEF AllVars
<1>3. QED
  BY <1>1, <1>2, PTL DEF PipeSpec, ImplementsLimit

LEMMA PipeIInv == PipeSpec => []IInv
<1>1. [Next]_Limits => [Next]_vars
  BY DEF Limits, vars
<1>2. IInv /\ [Next]_Limits => IInv'
  BY <1>1, NextIInv
<1>3. ImplementsLimit => []IInv
  BY <1>2, InitIInv, PTL DEF ImplementsLimit
<1>4. QED
  BY <1>3, LimitIsImplemented

\* The limit, the shares and their bookkeeping hold in the whole pipeline, through
\* panics, refusals and departures.
THEOREM LimitsHoldInPipeline == PipeSpec => [](LimitsHold /\ NothingLeaks)
<1>1. IInv => LimitsHold /\ NothingLeaks
  BY DEF IInv
<1>2. QED
  BY <1>1, PipeIInv, PTL

-----------------------------------------------------------------------------
(* The books of the pipeline *)

Stages == {"idle", "limits", "inner", "unwind", "observe"}

PipeTyped ==
  /\ stage \in [Reqs -> Stages]
  /\ status \in [Reqs -> Codes \cup {0}]
  /\ panicked \in [Reqs -> BOOLEAN]
  /\ DOMAIN todo = Reqs /\ DOMAIN toRead = Reqs /\ DOMAIN page = Reqs
  /\ counter \in [Counters -> Nat]
  /\ ended \in [Paths -> Nat] /\ aborted \in [Paths -> Nat]

\* Where an answer can have started.
AnswerInv ==
  \A r \in Reqs :
    /\ stage[r] # "inner" => pc[r] = "idle"
    /\ stage[r] \in {"idle", "limits"} => status[r] = 0 /\ ~panicked[r]
    /\ stage[r] = "inner" /\ pc[r] \in {"counted", "slow", "waiting", "refused", "rejected"} =>
         status[r] = 0 /\ ~panicked[r]
    /\ stage[r] = "inner" /\ pc[r] \in {"handling", "exempt"} => status[r] \notin {429, 503}
    /\ panicked[r] => status[r] \notin {429, 503}

\* What r counts under: the status of its answer, 200 if it wrote none.
AnswerOf(r) == IF status[r] = 0 THEN 200 ELSE status[r]

\* What may be left of Observation(p, code, d).
RestOf(t, s, m, h) == {<<t, s, m, h>>, <<t, s, h>>, <<s, m, h>>, <<s, h>>, <<m, h>>, <<h>>, <<>>}

Remaining(p, code, d) ==
  RestOf(<<"total", p>>, <<"status", p, code>>, <<"sum", p>>, <<"bucket", p, d>>)

Kinds(s) == {s[i][1] : i \in DOMAIN s}

Observing(r) == stage[r] = "observe"

TodoInv ==
  \A r \in Reqs : Observing(r) =>
    /\ AnswerOf(r) \in Codes
    /\ \E d \in 1..Bounds + 1 : todo[r] \in Remaining(SeriesOf(r), AnswerOf(r), d)

\* The counters of one kind and one path, and the requests that still owe them one.
Account(k, p) == {c \in Counters : c[1] = k /\ c[2] = p}

Booked(k, p) == SumOver(counter, Account(k, p))

Counted(p)  == {r \in Reqs : Observing(r) /\ SeriesOf(r) = p}
Owing(k, p) == {r \in Counted(p) : k \in Kinds(todo[r])}

Due(p) == ended[p] - aborted[p] + Cardinality(Counted(p))

BooksInv ==
  \A p \in Paths :
    /\ \A k \in {"total", "status", "bucket"} :
         Booked(k, p) + Cardinality(Owing(k, p)) = Due(p)
    /\ Booked("sum", p) + Cardinality(Owing("status", p) \cup Owing("sum", p)) <= Due(p)

\* The limiters count a refusal before its status is counted.
CodeAccount(k) == {<<"status", p, k>> : p \in Paths}

Pending(k) == {r \in Reqs : status[r] = k /\ (Observing(r) => "status" \in Kinds(todo[r]))}

Refusals(c, k) == counter[c] = SumOver(counter, CodeAccount(k)) + Cardinality(Pending(k))

RefusalInv == Refusals(<<"rateLimited">>, 429) /\ Refusals(<<"overloaded">>, 503)

-----------------------------------------------------------------------------
(* Types, and when an answer can have started *)

PInv == IInv /\ PipeTyped /\ AnswerInv /\ TodoInv

LEMMA CodesFacts == Codes \subseteq Nat \ {0} /\ {200, 429, 500, 503} \subseteq Codes
BY CodesAssumption DEF Codes

LEMMA PathsFacts ==
  /\ Unmatched \in Paths
  /\ \A r \in Reqs : SeriesOf(r) \in Paths
BY SeriesAssumption DEF Paths, SeriesOf

\* An element is put at the end of two or three others.
LEMMA Joined ==
  ASSUME NEW t, NEW a, NEW m, NEW h
  PROVE  /\ <<t, a>> \o <<h>> = <<t, a, h>>
         /\ <<t, a, m>> \o <<h>> = <<t, a, m, h>>
<1> DEFINE S == {t, a, m, h}
<1>1. /\ <<t, a>> \in Seq(S) /\ <<t, a, m>> \in Seq(S) /\ <<h>> \in Seq(S)
      /\ <<t, a, h>> \in Seq(S) /\ <<t, a, m, h>> \in Seq(S)
  OBVIOUS
<1>2. /\ <<t, a>> \o <<h>> \in Seq(S) /\ Len(<<t, a>> \o <<h>>) = 3
      /\ <<t, a, m>> \o <<h>> \in Seq(S) /\ Len(<<t, a, m>> \o <<h>>) = 4
  BY <1>1
<1>3. /\ \A i \in 1..3 : (<<t, a>> \o <<h>>)[i] = <<t, a, h>>[i]
      /\ \A i \in 1..4 : (<<t, a, m>> \o <<h>>)[i] = <<t, a, m, h>>[i]
  BY <1>1
<1>4. Len(<<t, a, h>>) = 3 /\ Len(<<t, a, m, h>>) = 4
  BY <1>1
<1> HIDE DEF S
<1>5. <<t, a>> \o <<h>> = <<t, a, h>>
  BY <1>1, <1>2, <1>3, <1>4, SeqEqual
<1>6. <<t, a, m>> \o <<h>> = <<t, a, m, h>>
  <2>1. PICK u, v : u = <<t, a, m>> \o <<h>> /\ v = <<t, a, m, h>>
    OBVIOUS
  <2>2. u \in Seq(S) /\ v \in Seq(S) /\ Len(u) = Len(v) /\ \A i \in 1..Len(u) : u[i] = v[i]
    BY <1>1, <1>2, <1>3, <1>4, <2>1
  <2>3. u = v
    BY <2>2, SeqEqual
  <2>4. QED
    BY <2>1, <2>3
<1>7. QED
  BY <1>5, <1>6

\* What is left of an observation loses its head, which is a counter of its path.
LEMMA HeadOfRest ==
  ASSUME NEW p \in Paths, NEW code \in Codes, NEW d \in 1..Bounds + 1,
         NEW s \in Remaining(p, code, d), s # <<>>
  PROVE  /\ Tail(s) \in Remaining(p, code, d)
         /\ Head(s) \in {<<"total", p>>, <<"status", p, code>>, <<"sum", p>>, <<"bucket", p, d>>}
         /\ Head(s) \in Counters
<1>1. ASSUME NEW t, NEW a, NEW m, NEW h, NEW u \in RestOf(t, a, m, h), u # <<>>
      PROVE  Tail(u) \in RestOf(t, a, m, h) /\ Head(u) \in {t, a, m, h}
  <2>1. CASE u = <<t, a, m, h>>
    BY <2>1 DEF RestOf
  <2>2. CASE u = <<t, a, h>>
    BY <2>2 DEF RestOf
  <2>3. CASE u = <<a, m, h>>
    BY <2>3 DEF RestOf
  <2>4. CASE u = <<a, h>>
    BY <2>4 DEF RestOf
  <2>5. CASE u = <<m, h>>
    BY <2>5 DEF RestOf
  <2>6. CASE u = <<h>>
    BY <2>6 DEF RestOf
  <2>7. QED
    BY <1>1, <2>1, <2>2, <2>3, <2>4, <2>5, <2>6 DEF RestOf
<1>2. /\ Tail(s) \in Remaining(p, code, d)
      /\ Head(s) \in {<<"total", p>>, <<"status", p, code>>, <<"sum", p>>, <<"bucket", p, d>>}
  BY <1>1 DEF Remaining
<1>3. {<<"total", p>>, <<"status", p, code>>, <<"sum", p>>, <<"bucket", p, d>>} \subseteq Counters
  BY DEF Counters
<1>4. QED
  BY <1>2, <1>3

LEMMA ObservationIsRemaining ==
  ASSUME NEW p, NEW code, NEW d \in 0..Bounds
  PROVE  Observation(p, code, d) \in Remaining(p, code, d + 1)
<1> DEFINE t == <<"total", p>>
           a == <<"status", p, code>>
           m == <<"sum", p>>
           h == <<"bucket", p, d + 1>>
<1>1. /\ <<t, a>> \o <<>> = <<t, a>> /\ <<t, a>> \o <<m>> = <<t, a, m>>
      /\ <<t, a>> \o <<h>> = <<t, a, h>> /\ <<t, a, m>> \o <<h>> = <<t, a, m, h>>
  BY Joined
<1>2. Observation(p, code, d) = (<<t, a>> \o (IF d = 0 THEN <<>> ELSE <<m>>)) \o <<h>>
  BY DEF Observation
<1>3. Remaining(p, code, d + 1) = RestOf(t, a, m, h)
  BY DEF Remaining
<1> HIDE DEF t, a, m, h
<1>4. Observation(p, code, d) \in {<<t, a, m, h>>, <<t, a, h>>}
  BY <1>1, <1>2
<1>5. QED
  BY <1>3, <1>4 DEF RestOf

LEMMA InitPInv == PipeInit => PInv
<1> SUFFICES ASSUME PipeInit PROVE PInv
  OBVIOUS
<1>1. IInv
  BY InitIInv DEF PipeInit
<1>2. PipeTyped
  BY DEF PipeInit, PipeTyped, Stages
<1>3. AnswerInv
  BY DEF PipeInit, AnswerInv, Init
<1>4. TodoInv
  BY DEF PipeInit, TodoInv, Observing
<1>5. QED
  BY <1>1, <1>2, <1>3, <1>4 DEF PInv

LEMMA IncrementedType ==
  ASSUME PipeTyped, NEW c \in Counters
  PROVE  /\ Incremented(c) \in [Counters -> Nat]
         /\ Incremented(c)[c] = counter[c] + 1
         /\ \A e \in Counters : e # c => Incremented(c)[e] = counter[e]
BY DEF PipeTyped, Incremented

LEMMA RefusalCounters ==
  {<<"rateLimited">>, <<"overloaded">>, <<"panics">>} \subseteq Counters
BY DEF Counters

\* The limiter's own step, seen from a request: its phase stays in its type.
LEMMA PhaseTyped ==
  ASSUME PInv, NEW r \in Reqs, Arrive(r) \/ Served(r)
  PROVE  pc \in [Reqs -> Phases] /\ pc' \in [Reqs -> Phases] /\ IInv'
<1>1. [Next]_vars
  BY LimitStep DEF Limits, vars
<1>2. IInv'
  BY <1>1, NextIInv DEF PInv
<1>3. QED
  BY <1>2 DEF PInv, IInv, TypeOK

LEMMA ArriveAnswers ==
  ASSUME PInv, NEW r \in Reqs, Arrive(r)
  PROVE  PipeTyped' /\ AnswerInv'
<1>1. FrontCodes \subseteq Codes \ {0, 429, 503}
  BY CodesAssumption DEF Codes
<1> DEFINE Goes(ph, n) == /\ stage' = [stage EXCEPT ![r] = ph]
                          /\ status' = [status EXCEPT ![r] = n]
                          /\ n \notin {429, 503}
                          /\ ph = "limits" => n = 0
<1>2. UNCHANGED <<pc, panicked, todo, counter, toRead, page, ended, aborted>> /\ stage[r] = "idle"
  BY DEF Arrive, Limits
<1>3. PICK ph \in {"limits", "unwind"} : \E n \in Codes \cup {0} : Goes(ph, n)
  <2>1. CASE stage' = [stage EXCEPT ![r] = "limits"] /\ UNCHANGED status
    <3>1. status[r] = 0 /\ status' = [status EXCEPT ![r] = 0]
      BY <1>2, <2>1 DEF PInv, PipeTyped, AnswerInv
    <3>2. 0 \notin {429, 503}
      OBVIOUS
    <3>3. Goes("limits", 0)
      BY <2>1, <3>1, <3>2, Zenon
    <3>4. QED
      BY <3>3
  <2>2. ASSUME NEW code \in FrontCodes,
               status' = [status EXCEPT ![r] = code], stage' = [stage EXCEPT ![r] = "unwind"]
        PROVE  Goes("unwind", code) /\ code \in Codes \cup {0}
    BY <1>1, <2>2
  <2>3. QED
    BY <2>1, <2>2 DEF Arrive
<1>4. PICK n \in Codes \cup {0} : Goes(ph, n)
  BY <1>3
<1>5. PipeTyped'
  BY <1>2, <1>4 DEF PInv, PipeTyped, Stages
<1>6. AnswerInv'
  BY <1>2, <1>4 DEF PInv, PipeTyped, AnswerInv
<1>7. QED
  BY <1>5, <1>6

LEMMA RateLimitedAnswers ==
  ASSUME PInv, NEW r \in Reqs, RateLimited(r)
  PROVE  PipeTyped' /\ AnswerInv'
<1>1. /\ UNCHANGED <<pc, panicked, todo, toRead, page, ended, aborted>>
      /\ stage[r] = "limits"
      /\ stage' = [stage EXCEPT ![r] = "unwind"]
      /\ status' = [status EXCEPT ![r] = 429]
      /\ counter' = Incremented(<<"rateLimited">>)
  BY DEF RateLimited, Limits
<1>2. counter' \in [Counters -> Nat]
  BY <1>1, IncrementedType, RefusalCounters DEF PInv
<1>3. PipeTyped'
  BY <1>1, <1>2, CodesFacts DEF PInv, PipeTyped, Stages
<1>4. AnswerInv'
  BY <1>1 DEF PInv, PipeTyped, AnswerInv
<1>5. QED
  BY <1>3, <1>4

LEMMA EnterAnswers ==
  ASSUME PInv, NEW r \in Reqs, Enter(r)
  PROVE  PipeTyped' /\ AnswerInv'
<1>1. /\ UNCHANGED <<status, panicked, todo, counter, toRead, page, ended, aborted>>
      /\ stage[r] = "limits"
      /\ stage' = [stage EXCEPT ![r] = "inner"]
  BY DEF Enter
<1>2. PICK ph \in {"exempt", "counted", "refused"} : pc' = [pc EXCEPT ![r] = ph]
  BY DEF Enter, Exempt, Acquire, Refuse, Move
<1>3. PipeTyped'
  BY <1>1 DEF PInv, PipeTyped, Stages
<1>4. AnswerInv'
  BY <1>1, <1>2 DEF PInv, PipeTyped, AnswerInv, IInv, TypeOK
<1>5. QED
  BY <1>3, <1>4

LEMMA WaitAnswers ==
  ASSUME PInv, NEW r \in Reqs, Wait(r)
  PROVE  PipeTyped' /\ AnswerInv'
<1>1. UNCHANGED pvars /\ stage[r] = "inner"
  BY DEF Wait
<1>2. PICK ph \in {"handling", "slow", "waiting", "rejected", "leaving"} :
        /\ pc' = [pc EXCEPT ![r] = ph]
        /\ pc[r] \in {"counted", "slow", "waiting"}
  BY DEF Wait, Take, NoFreeSlot, Timeout, ClientGone, Move
<1>3. PipeTyped'
  BY <1>1 DEF PInv, PipeTyped, pvars
<1>4. AnswerInv'
  BY <1>1, <1>2 DEF PInv, PipeTyped, AnswerInv, IInv, TypeOK, pvars
<1>5. QED
  BY <1>3, <1>4

LEMMA RejectAnswers ==
  ASSUME PInv, NEW r \in Reqs, Reject(r)
  PROVE  PipeTyped' /\ AnswerInv'
<1>1. /\ UNCHANGED <<panicked, todo, toRead, page, ended, aborted>>
      /\ stage[r] = "inner"
      /\ stage' = [stage EXCEPT ![r] = IF pc'[r] = "idle" THEN "unwind" ELSE "inner"]
      /\ status' = [status EXCEPT ![r] = 503]
      /\ counter' = Incremented(<<"overloaded">>)
  BY DEF Reject
<1>2. PICK ph \in {"idle", "leaving"} :
        pc' = [pc EXCEPT ![r] = ph] /\ pc[r] \in {"refused", "rejected"}
  BY DEF Reject, RefusedAnswered, RejectedAnswered, Move
<1>3. counter' \in [Counters -> Nat]
  BY <1>1, IncrementedType, RefusalCounters DEF PInv
<1>4. PipeTyped'
  BY <1>1, <1>3, CodesFacts DEF PInv, PipeTyped, Stages
<1>5. AnswerInv'
  BY <1>1, <1>2 DEF PInv, PipeTyped, AnswerInv, IInv, TypeOK
<1>6. QED
  BY <1>4, <1>5

LEMMA AnswerAnswers ==
  ASSUME PInv, NEW r \in Reqs, Answer(r)
  PROVE  PipeTyped' /\ AnswerInv'
<1>1. /\ UNCHANGED <<pc, stage, panicked, todo, counter, page, ended, aborted>>
      /\ DOMAIN toRead' = Reqs
      /\ stage[r] = "inner" /\ pc[r] \in {"handling", "exempt"}
  BY DEF Answer, InHandler, Limits, PInv, PipeTyped
<1>2. PICK code \in Codes \ {429, 503} : status' = [status EXCEPT ![r] = code]
  <2>1. PICK code \in HandlerCodes : status' = [status EXCEPT ![r] = code]
    BY DEF Answer
  <2>2. code \in Codes \ {429, 503}
    BY CodesAssumption DEF Codes
  <2>3. QED
    BY <2>1, <2>2
<1>3. PipeTyped'
  BY <1>1, <1>2 DEF PInv, PipeTyped
<1>4. AnswerInv'
  BY <1>1, <1>2 DEF PInv, PipeTyped, AnswerInv
<1>5. QED
  BY <1>3, <1>4

LEMMA ReadAnswers ==
  ASSUME PInv, NEW r \in Reqs, Read(r)
  PROVE  PipeTyped' /\ AnswerInv'
<1>1. /\ UNCHANGED <<pc, stage, status, panicked, todo, counter, ended, aborted>>
      /\ DOMAIN toRead' = Reqs /\ DOMAIN page' = Reqs
  BY DEF Read, Limits, PInv, PipeTyped
<1>2. QED
  BY <1>1 DEF PInv, PipeTyped, AnswerInv

\* A request that leaves the handler may hand its slot to one that waits.
LEMMA LeaveFacts ==
  ASSUME PInv, NEW r \in Reqs, InHandler(r), Leave(r)
  PROVE  /\ pc'[r] \in {"idle", "leaving"}
         /\ \A q \in Reqs : q # r =>
              pc'[q] = pc[q] \/ (pc[q] = "waiting" /\ pc'[q] = "handling")
         /\ stage[r] = "inner"
         /\ stage' = [stage EXCEPT ![r] = IF pc'[r] = "idle" THEN "unwind" ELSE "inner"]
         /\ DOMAIN pc' = Reqs
<1>1. pc \in [Reqs -> Phases]
  BY DEF PInv, IInv, TypeOK
<1>2. CASE ExemptServed(r)
  BY <1>1, <1>2 DEF ExemptServed, Move, Leave, InHandler
<1>3. CASE Finish(r)
  <2>1. pc[r] = "handling"
    BY <1>3 DEF Finish
  <2>2. ASSUME NEW w \in Waiting, pc' = [pc EXCEPT ![r] = "leaving", ![w] = "handling"]
        PROVE  /\ pc'[r] \in {"idle", "leaving"}
               /\ \A q \in Reqs : q # r =>
                    pc'[q] = pc[q] \/ (pc[q] = "waiting" /\ pc'[q] = "handling")
    BY <1>1, <2>1, <2>2 DEF Waiting
  <2>3. CASE pc' = [pc EXCEPT ![r] = "leaving"]
    BY <1>1, <2>3 DEF Leave, InHandler
  <2>4. (\E w \in Waiting : pc' = [pc EXCEPT ![r] = "leaving", ![w] = "handling"])
          \/ pc' = [pc EXCEPT ![r] = "leaving"]
    BY <1>3 DEF Finish, Move
  <2>5. CASE \E w \in Waiting : pc' = [pc EXCEPT ![r] = "leaving", ![w] = "handling"]
    BY <1>1, <2>2, <2>5 DEF Leave, InHandler
  <2>6. QED
    BY <2>3, <2>4, <2>5
<1>4. QED
  BY <1>2, <1>3 DEF Leave

LEMMA ReturnAnswers ==
  ASSUME PInv, NEW r \in Reqs, Return(r)
  PROVE  PipeTyped' /\ AnswerInv'
<1>1. UNCHANGED <<status, panicked, todo, counter, toRead, page, ended, aborted>>
  BY DEF Return
<1>2. /\ pc'[r] \in {"idle", "leaving"}
      /\ \A q \in Reqs : q # r =>
           pc'[q] = pc[q] \/ (pc[q] = "waiting" /\ pc'[q] = "handling")
      /\ stage[r] = "inner"
      /\ stage' = [stage EXCEPT ![r] = IF pc'[r] = "idle" THEN "unwind" ELSE "inner"]
  BY LeaveFacts DEF Return
<1>3. PipeTyped'
  BY <1>1, <1>2 DEF PInv, PipeTyped, Stages
<1>4. AnswerInv'
  BY <1>1, <1>2 DEF PInv, PipeTyped, AnswerInv
<1>5. QED
  BY <1>3, <1>4

LEMMA PanicAnswers ==
  ASSUME PInv, NEW r \in Reqs, Panic(r)
  PROVE  PipeTyped' /\ AnswerInv'
<1>1. /\ UNCHANGED <<status, todo, counter, toRead, page, ended, aborted>>
      /\ panicked' = [panicked EXCEPT ![r] = TRUE]
      /\ pc[r] \in {"handling", "exempt"}
  BY DEF Panic, InHandler
<1>2. /\ pc'[r] \in {"idle", "leaving"}
      /\ \A q \in Reqs : q # r =>
           pc'[q] = pc[q] \/ (pc[q] = "waiting" /\ pc'[q] = "handling")
      /\ stage[r] = "inner"
      /\ stage' = [stage EXCEPT ![r] = IF pc'[r] = "idle" THEN "unwind" ELSE "inner"]
  BY LeaveFacts DEF Panic
<1>3. PipeTyped'
  BY <1>1, <1>2 DEF PInv, PipeTyped, Stages
<1>4. AnswerInv'
  BY <1>1, <1>2 DEF PInv, PipeTyped, AnswerInv
<1>5. QED
  BY <1>3, <1>4

LEMMA GiveShareBackAnswers ==
  ASSUME PInv, NEW r \in Reqs, GiveShareBack(r)
  PROVE  PipeTyped' /\ AnswerInv'
<1>1. /\ UNCHANGED <<status, panicked, todo, counter, toRead, page, ended, aborted>>
      /\ stage' = [stage EXCEPT ![r] = "unwind"]
      /\ pc' = [pc EXCEPT ![r] = "idle"]
  BY DEF GiveShareBack, Release, Move
<1>2. PipeTyped'
  BY <1>1 DEF PInv, PipeTyped, Stages
<1>3. AnswerInv'
  BY <1>1 DEF PInv, PipeTyped, AnswerInv, IInv, TypeOK
<1>4. QED
  BY <1>2, <1>3

LEMMA RecoverAnswers ==
  ASSUME PInv, NEW r \in Reqs, Recover(r)
  PROVE  PipeTyped' /\ AnswerInv'
<1>1. stage[r] = "unwind" /\ UNCHANGED <<pc, toRead>>
  BY DEF Recover, Limits
<1>2. counter' \in [Counters -> Nat]
  BY IncrementedType, RefusalCounters DEF Recover, PInv, PipeTyped
<1>3. CASE Abort(r) /\ panicked[r]
  <2>1. /\ stage' = [stage EXCEPT ![r] = "idle"]
        /\ panicked' = [panicked EXCEPT ![r] = FALSE]
        /\ status' = [status EXCEPT ![r] = 0]
        /\ todo' = todo
        /\ DOMAIN page' = DOMAIN page
    BY <1>3 DEF Abort, Done
  <2>2. ended' \in [Paths -> Nat] /\ aborted' \in [Paths -> Nat]
    BY <1>3, PathsFacts DEF Abort, Done, PInv, PipeTyped
  <2>3. PipeTyped'
    BY <1>1, <1>2, <2>1, <2>2 DEF PInv, PipeTyped, Stages
  <2>4. AnswerInv'
    BY <1>1, <2>1 DEF PInv, PipeTyped, AnswerInv
  <2>5. QED
    BY <2>3, <2>4
<1>4. CASE /\ StartObserving(r)
           /\ \/ panicked[r] /\ status' = [status EXCEPT ![r] = 500]
              \/ UNCHANGED status
  <2>1. /\ stage' = [stage EXCEPT ![r] = "observe"]
        /\ UNCHANGED <<ended, aborted, page, panicked>>
        /\ DOMAIN todo' = Reqs
    BY <1>4 DEF StartObserving, PInv, PipeTyped
  <2>2. PipeTyped'
    BY <1>1, <1>2, <1>4, <2>1, CodesFacts DEF PInv, PipeTyped, Stages
  <2>3. AnswerInv'
    BY <1>1, <1>4, <2>1 DEF PInv, PipeTyped, AnswerInv
  <2>4. QED
    BY <2>2, <2>3
<1>5. QED
  BY <1>3, <1>4 DEF Recover

\* What is left to move is a counter.
LEMMA NextCounter ==
  ASSUME PInv, NEW r \in Reqs, Observing(r), todo[r] # <<>>
  PROVE  Head(todo[r]) \in Counters
BY HeadOfRest, PathsFacts DEF PInv, TodoInv

LEMMA ObserveAnswers ==
  ASSUME PInv, NEW r \in Reqs, Observe(r)
  PROVE  PipeTyped' /\ AnswerInv'
<1>1. stage[r] = "observe" /\ UNCHANGED <<pc, toRead, aborted>>
  BY DEF Observe, Limits
<1>2. CASE todo[r] # <<>>
  <2>1. /\ counter' = Incremented(Head(todo[r]))
        /\ DOMAIN todo' = Reqs
        /\ UNCHANGED <<stage, status, panicked, page, ended>>
    BY <1>2 DEF Observe, PInv, PipeTyped
  <2>2. counter' \in [Counters -> Nat]
    BY <1>1, <1>2, <2>1, NextCounter, IncrementedType DEF PInv, Observing
  <2>3. PipeTyped'
    BY <1>1, <2>1, <2>2 DEF PInv, PipeTyped
  <2>4. AnswerInv'
    BY <1>1, <2>1 DEF PInv, AnswerInv
  <2>5. QED
    BY <2>3, <2>4
<1>3. CASE todo[r] = <<>>
  <2>1. /\ stage' = [stage EXCEPT ![r] = "idle"]
        /\ panicked' = [panicked EXCEPT ![r] = FALSE]
        /\ status' = [status EXCEPT ![r] = 0]
        /\ UNCHANGED <<todo, counter>>
        /\ DOMAIN page' = DOMAIN page
    BY <1>3 DEF Observe, Done
  <2>2. ended' \in [Paths -> Nat]
    BY <1>3, PathsFacts DEF Observe, Done, PInv, PipeTyped
  <2>3. PipeTyped'
    BY <1>1, <2>1, <2>2 DEF PInv, PipeTyped, Stages
  <2>4. AnswerInv'
    BY <1>1, <2>1 DEF PInv, PipeTyped, AnswerInv
  <2>5. QED
    BY <2>3, <2>4
<1>4. QED
  BY <1>2, <1>3

\* A step of a request leaves the others where they are.
LEMMA OthersKeep ==
  ASSUME PInv, NEW r \in Reqs, Arrive(r) \/ Served(r), NEW q \in Reqs, q # r
  PROVE  /\ stage'[q] = stage[q] /\ status'[q] = status[q] /\ todo'[q] = todo[q]
         /\ panicked'[q] = panicked[q] /\ toRead'[q] = toRead[q] /\ page'[q] = page[q]
<1> USE DEF PInv, PipeTyped
<1>1. CASE Arrive(r)
  <2>1. CASE stage' = [stage EXCEPT ![r] = "limits"] /\ UNCHANGED status
    BY <1>1, <2>1 DEF Arrive
  <2>2. ASSUME NEW code, status' = [status EXCEPT ![r] = code],
               stage' = [stage EXCEPT ![r] = "unwind"]
        PROVE  stage'[q] = stage[q] /\ status'[q] = status[q]
    BY <2>2
  <2>3. QED
    BY <1>1, <2>1, <2>2 DEF Arrive
<1>2. CASE RateLimited(r)
  BY <1>2 DEF RateLimited
<1>3. CASE Enter(r)
  BY <1>3 DEF Enter
<1>4. CASE Wait(r)
  BY <1>4 DEF Wait, pvars
<1>5. CASE Reject(r)
  BY <1>5 DEF Reject
<1>6. CASE Answer(r)
  BY <1>6 DEF Answer
<1>7. CASE Read(r)
  BY <1>7 DEF Read
<1>8. CASE Return(r)
  BY <1>8 DEF Return, Leave
<1>9. CASE Panic(r)
  BY <1>9 DEF Panic, Leave
<1>10. CASE GiveShareBack(r)
  BY <1>10 DEF GiveShareBack
<1>11. CASE Recover(r)
  BY <1>11 DEF Recover, Abort, Done, StartObserving
<1>12. CASE Observe(r)
  BY <1>12 DEF Observe, Done
<1>13. QED
  BY <1>1, <1>2, <1>3, <1>4, <1>5, <1>6, <1>7, <1>8, <1>9, <1>10, <1>11, <1>12 DEF Served

\* The steps before the way out.
Inward(r) ==
  \/ Arrive(r) \/ RateLimited(r) \/ Enter(r) \/ Wait(r) \/ Reject(r)
  \/ Answer(r) \/ Read(r) \/ Return(r) \/ Panic(r) \/ GiveShareBack(r)

LEMMA InwardFacts ==
  ASSUME PInv, NEW r \in Reqs, Inward(r)
  PROVE  /\ ~Observing(r) /\ ~Observing(r)'
         /\ UNCHANGED <<todo, ended, aborted>>
         /\ status[r] = 0 \/ status'[r] = status[r]
<1> USE DEF PInv, PipeTyped, Observing
<1>1. CASE Arrive(r)
  <2>1. CASE stage' = [stage EXCEPT ![r] = "limits"] /\ UNCHANGED status
    BY <1>1, <2>1 DEF Arrive
  <2>2. ASSUME NEW code, stage' = [stage EXCEPT ![r] = "unwind"]
        PROVE  stage'[r] = "unwind"
    BY <2>2
  <2>3. status[r] = 0
    BY <1>1 DEF Arrive, AnswerInv
  <2>4. QED
    BY <1>1, <2>1, <2>2, <2>3 DEF Arrive
<1>2. CASE RateLimited(r)
  BY <1>2 DEF RateLimited, AnswerInv
<1>3. CASE Enter(r)
  BY <1>3 DEF Enter
<1>4. CASE Wait(r)
  BY <1>4 DEF Wait, pvars
<1>5. CASE Reject(r)
  BY <1>5 DEF Reject, AnswerInv, RefusedAnswered, RejectedAnswered
<1>6. CASE Answer(r)
  BY <1>6 DEF Answer, InHandler
<1>7. CASE Read(r)
  BY <1>7 DEF Read, InHandler
<1>8. CASE Return(r)
  BY <1>8 DEF Return, Leave, InHandler
<1>9. CASE Panic(r)
  BY <1>9 DEF Panic, Leave, InHandler
<1>10. CASE GiveShareBack(r)
  BY <1>10 DEF GiveShareBack
<1>11. QED
  BY <1>1, <1>2, <1>3, <1>4, <1>5, <1>6, <1>7, <1>8, <1>9, <1>10 DEF Inward

LEMMA ServedInwardOr ==
  ASSUME NEW r, Arrive(r) \/ Served(r)
  PROVE  Inward(r) \/ Recover(r) \/ Observe(r)
BY DEF Served, Inward

\* What Recovery and Metrics make of a request that comes back.
LEMMA RecoverFacts ==
  ASSUME PInv, NEW r \in Reqs, Recover(r)
  PROVE  \/ /\ Abort(r) /\ panicked[r] /\ status[r] # 0
         \/ /\ StartObserving(r) /\ stage'[r] = "observe"
            /\ status'[r] = status[r] \/ (status[r] = 0 /\ status'[r] = 500 /\ panicked[r])
            /\ \E d \in 0..Bounds :
                 todo'[r] = Observation(SeriesOf(r), AnswerOf(r)', d)
<1>1. CASE Abort(r) /\ panicked[r] /\ status[r] # 0
  BY <1>1
<1>2. CASE /\ StartObserving(r)
           /\ \/ panicked[r] /\ status[r] = 0 /\ status' = [status EXCEPT ![r] = 500]
              \/ UNCHANGED status
  <2>1. stage'[r] = "observe"
    BY <1>2 DEF StartObserving, PInv, PipeTyped
  <2>2. status'[r] = status[r] \/ (status[r] = 0 /\ status'[r] = 500 /\ panicked[r])
    BY <1>2 DEF PInv, PipeTyped
  <2>3. PICK d \in 0..Bounds : todo' = [todo EXCEPT ![r] = Observation(SeriesOf(r), Reported(r), d)]
    BY <1>2 DEF StartObserving
  <2>4. todo'[r] = Observation(SeriesOf(r), Reported(r), d)
    BY <2>3 DEF PInv, PipeTyped
  <2>5. Reported(r) = AnswerOf(r)'
    BY DEF Reported, AnswerOf
  <2>6. QED
    BY <1>2, <2>1, <2>2, <2>4, <2>5
<1>3. QED
  BY <1>1, <1>2 DEF Recover

LEMMA TodoStep ==
  ASSUME PInv, NEW r \in Reqs, Arrive(r) \/ Served(r), PipeTyped'
  PROVE  TodoInv'
<1> DEFINE Left(q) ==
      /\ AnswerOf(q) \in Codes
      /\ \E d \in 1..Bounds + 1 : todo[q] \in Remaining(SeriesOf(q), AnswerOf(q), d)
<1>1. ASSUME NEW q \in Reqs, q # r, Observing(q)'
      PROVE  Left(q)'
  <2>1. Observing(q) /\ AnswerOf(q)' = AnswerOf(q) /\ todo'[q] = todo[q]
    BY <1>1, OthersKeep DEF Observing, AnswerOf
  <2>2. Left(q)
    BY <2>1 DEF PInv, TodoInv
  <2>3. QED
    BY <2>1, <2>2 DEF SeriesOf
<1>2. ASSUME Observing(r)'
      PROVE  Left(r)'
  <2>1. AnswerOf(r)' \in Codes
    BY CodesFacts DEF AnswerOf, PipeTyped
  <2>2. CASE Recover(r)
    <3>1. PICK d \in 0..Bounds : todo'[r] = Observation(SeriesOf(r), AnswerOf(r)', d)
      <4>1. ~Abort(r)
        BY <1>2 DEF Abort, Done, Observing, PInv, PipeTyped
      <4>2. QED
        BY <2>2, <4>1, RecoverFacts
    <3>2. todo'[r] \in Remaining(SeriesOf(r), AnswerOf(r)', d + 1) /\ d + 1 \in 1..Bounds + 1
      BY <3>1, ObservationIsRemaining, BoundsAssumption
    <3>3. QED
      BY <2>1, <3>2 DEF SeriesOf
  <2>3. CASE Observe(r)
    <3>1. stage[r] = "observe" /\ todo[r] # <<>>
      BY <1>2, <2>3 DEF Observe, Done, Observing, PInv, PipeTyped
    <3>2. todo'[r] = Tail(todo[r]) /\ AnswerOf(r)' = AnswerOf(r)
      BY <2>3, <3>1 DEF Observe, AnswerOf, PInv, PipeTyped
    <3>3. PICK d \in 1..Bounds + 1 : todo[r] \in Remaining(SeriesOf(r), AnswerOf(r), d)
      BY <3>1 DEF PInv, TodoInv, Observing
    <3>4. todo'[r] \in Remaining(SeriesOf(r), AnswerOf(r)', d)
      BY <2>1, <3>1, <3>2, <3>3, HeadOfRest, PathsFacts
    <3>5. QED
      BY <2>1, <3>4 DEF SeriesOf
  <2>4. ~Inward(r)
    BY <1>2, InwardFacts
  <2>5. QED
    BY <2>2, <2>3, <2>4, ServedInwardOr
<1>3. QED
  BY <1>1, <1>2 DEF TodoInv

LEMMA PInvStep ==
  ASSUME PInv, NEW r \in Reqs, Arrive(r) \/ Served(r)
  PROVE  PInv'
<1>1. PipeTyped' /\ AnswerInv'
  BY ArriveAnswers, RateLimitedAnswers, EnterAnswers, WaitAnswers, RejectAnswers,
     AnswerAnswers, ReadAnswers, ReturnAnswers, PanicAnswers, GiveShareBackAnswers,
     RecoverAnswers, ObserveAnswers DEF Served
<1>2. TodoInv'
  BY <1>1, TodoStep
<1>3. QED
  BY <1>1, <1>2, PhaseTyped DEF PInv

LEMMA PInvKept == PInv /\ UNCHANGED AllVars => PInv'
<1> SUFFICES ASSUME PInv, UNCHANGED AllVars PROVE PInv'
  OBVIOUS
<1>1. UNCHANGED vars /\ UNCHANGED pvars
  BY DEF AllVars, Limits, vars
<1>2. IInv'
  BY <1>1, NextIInv DEF PInv
<1>3. PipeTyped' /\ AnswerInv'
  BY <1>1 DEF PInv, PipeTyped, AnswerInv, vars, pvars
<1>4. TodoInv'
  BY <1>1 DEF PInv, TodoInv, Observing, AnswerOf, SeriesOf, pvars
<1>5. QED
  BY <1>2, <1>3, <1>4 DEF PInv

LEMMA NextPInv == PInv /\ [PipeNext]_AllVars => PInv'
BY PInvStep, PInvKept DEF PipeNext, Quiet, AllVars

LEMMA PipeInvariance == PipeSpec => []PInv
<1>1. PInv /\ [PipeNext]_<<Limits, pvars>> => PInv'
  BY NextPInv DEF AllVars
<1>2. QED
  BY <1>1, InitPInv, PTL DEF PipeSpec

\* An answer that has started is never replaced by another: the middlewares write
\* before the handler or not at all, and a panic after the first byte aborts.
THEOREM AnswersAreFinal == PipeSpec => AnswerIsFinal
<1> DEFINE Final == \A r \in Reqs : status[r] # 0 /\ status'[r] # status[r] => stage'[r] = "idle"
<1>1. ASSUME PInv, NEW r \in Reqs, Arrive(r) \/ Served(r)
      PROVE  Final
  <2> SUFFICES ASSUME status[r] # 0, status'[r] # status[r] PROVE stage'[r] = "idle"
    BY <1>1, OthersKeep
  <2>1. ~Inward(r)
    BY <1>1, InwardFacts
  <2>2. CASE Recover(r)
    <3>1. Abort(r)
      BY <1>1, <2>2, RecoverFacts
    <3>2. QED
      BY <1>1, <3>1 DEF Abort, Done, PInv, PipeTyped
  <2>3. CASE Observe(r)
    BY <1>1, <2>3 DEF Observe, Done, PInv, PipeTyped
  <2>4. QED
    BY <1>1, <2>1, <2>2, <2>3, ServedInwardOr
<1>2. PInv /\ [PipeNext]_<<Limits, pvars>> => [Final]_<<Limits, pvars>>
  BY <1>1 DEF PipeNext, Quiet
<1>3. QED
  BY <1>2, PipeInvariance, PTL DEF PipeSpec, AnswerIsFinal

-----------------------------------------------------------------------------
(* The counters of a path *)

LEMMA FewFinite == \A w, x, y, z : IsFiniteSet({w, x, y, z})
<1> TAKE w, x, y, z
<1>1. IsFiniteSet({w}) /\ IsFiniteSet({x}) /\ IsFiniteSet({y}) /\ IsFiniteSet({z})
  BY FS_Singleton
<1>2. IsFiniteSet(({w} \cup {x}) \cup ({y} \cup {z}))
  BY <1>1, FS_Union
<1>3. ({w} \cup {x}) \cup ({y} \cup {z}) = {w, x, y, z}
  OBVIOUS
<1>4. QED
  BY <1>2, <1>3

LEMMA PathsFinite == IsFiniteSet(Paths)
<1>1. Series \in [1..Len(Series) -> Range(Series)] /\ Len(Series) \in Nat
  BY SeriesAssumption DEF Range
<1>2. Series \in Surjection(1..Len(Series), Range(Series))
  BY <1>1 DEF Surjection, Range
<1>3. QED
  BY <1>1, <1>2, FS_Interval, FS_Surjection DEF Paths

LEMMA CodesFinite == IsFiniteSet(Codes)
<1> DEFINE few == {200, 429, 500, 503}
<1>1. ASSUME NEW n \in Nat PROVE IsFiniteSet(1..n)
  BY FS_Interval
<1>2. IsFiniteSet(few)
  <2>1. PICK n \in Nat : few \subseteq 1..n
    <3>1. 503 \in Nat /\ few \subseteq 1..503
      OBVIOUS
    <3>2. QED
      BY <3>1
  <2>2. IsFiniteSet(1..n)
    BY <1>1
  <2>3. QED
    BY <2>1, <2>2, FS_Subset
<1>3. Codes = (FrontCodes \cup HandlerCodes) \cup few
  BY DEF Codes
<1> HIDE DEF few
<1>4. IsFiniteSet(FrontCodes \cup HandlerCodes)
  BY CodesAssumption
<1>5. IsFiniteSet((FrontCodes \cup HandlerCodes) \cup few)
  BY <1>2, <1>4, FS_Union
<1>6. QED
  BY <1>3, <1>5

\* The counters of a kind for each path and each value of a finite set.
Table(k, S) == {<<k, p, x>> : p \in Paths, x \in S}

LEMMA TableFinite ==
  ASSUME NEW k, NEW S, IsFiniteSet(S)
  PROVE  IsFiniteSet(Table(k, S))
<1> DEFINE T == Table(k, S)
           f == [z \in Paths \X S |-> <<k, z[1], z[2]>>]
<1>1. IsFiniteSet(Paths \X S)
  BY PathsFinite, FS_Product
<1>2. f \in [Paths \X S -> T]
  BY DEF Table
<1>3. ASSUME NEW y \in T PROVE \E z \in Paths \X S : f[z] = y
  <2>1. PICK p \in Paths : \E x \in S : y = <<k, p, x>>
    BY DEF Table
  <2>2. PICK x \in S : y = <<k, p, x>>
    BY <2>1
  <2>3. f[<<p, x>>] = y /\ <<p, x>> \in Paths \X S
    BY <2>2
  <2>4. QED
    BY <2>3
<1> HIDE DEF f, T
<1>4. f \in Surjection(Paths \X S, T)
  BY <1>2, <1>3 DEF Surjection
<1>5. IsFiniteSet(T)
  BY <1>1, <1>4, FS_Surjection
<1>6. QED
  BY <1>5 DEF T

LEMMA CountersFinite == IsFiniteSet(Counters)
<1> DEFINE A == {<<"rateLimited">>, <<"overloaded">>, <<"panics">>}
           K == {"total", "sum"}
           B == K \X Paths
           C == Table("status", Codes)
           D == Table("bucket", 1..Bounds + 1)
<1>1. IsFiniteSet(A)
  <2>1. ASSUME NEW x, NEW y, NEW z PROVE IsFiniteSet({x, y, z})
    <3>1. IsFiniteSet({x, y, z, z}) /\ {x, y, z} = {x, y, z, z}
      BY FewFinite
    <3>2. QED
      BY <3>1
  <2>2. QED
    BY <2>1
<1>2. IsFiniteSet(B)
  <2>1. ASSUME NEW x, NEW y PROVE IsFiniteSet({x, y} \X Paths)
    <3>1. IsFiniteSet({x, y, y, y}) /\ {x, y} = {x, y, y, y}
      BY FewFinite
    <3>2. QED
      BY <3>1, PathsFinite, FS_Product
  <2>2. QED
    BY <2>1
<1>3. IsFiniteSet(C)
  BY CodesFinite, TableFinite
<1>4. IsFiniteSet(D)
  <2>1. IsFiniteSet(1..Bounds + 1)
    BY BoundsAssumption, FS_Interval
  <2>2. QED
    BY <2>1, TableFinite
<1>5. Counters = A \cup B \cup C \cup D
  <2>1. {<<k, p>> : k \in K, p \in Paths} = B
    OBVIOUS
  <2>2. Counters = A \cup {<<k, p>> : k \in K, p \in Paths} \cup C \cup D
    BY DEF Counters, Table
  <2>3. QED
    BY <2>1, <2>2
<1> HIDE DEF A, B, C, D
<1>6. IsFiniteSet(A \cup B \cup C \cup D)
  BY <1>1, <1>2, <1>3, <1>4, FS_Union
<1>7. QED
  BY <1>5, <1>6

\* Which account a counter belongs to.
LEMMA AccountOf ==
  ASSUME NEW k, NEW p, NEW q, NEW n
  PROVE  /\ k \in {"total", "sum", "status", "bucket"} =>
              /\ <<"rateLimited">> \notin Account(k, p)
              /\ <<"overloaded">> \notin Account(k, p)
              /\ <<"panics">> \notin Account(k, p)
         /\ <<"total", q>> \in Counters =>
              (<<"total", q>> \in Account(k, p) <=> k = "total" /\ p = q)
         /\ <<"sum", q>> \in Counters =>
              (<<"sum", q>> \in Account(k, p) <=> k = "sum" /\ p = q)
         /\ <<"status", q, n>> \in Counters =>
              (<<"status", q, n>> \in Account(k, p) <=> k = "status" /\ p = q)
         /\ <<"bucket", q, n>> \in Counters =>
              (<<"bucket", q, n>> \in Account(k, p) <=> k = "bucket" /\ p = q)
BY DEF Account

LEMMA AccountConstant ==
  ASSUME NEW k, NEW p
  PROVE  Account(k, p)' = Account(k, p)
BY DEF Account, Counters, Paths, Codes

LEMMA AccountFinite ==
  ASSUME NEW k, NEW p
  PROVE  Account(k, p) \subseteq Counters /\ IsFiniteSet(Account(k, p))
BY CountersFinite, FS_Subset DEF Account

LEMMA BookedNat ==
  ASSUME PipeTyped, NEW k, NEW p
  PROVE  Booked(k, p) \in Nat
<1>1. Naturals(counter, Account(k, p))
  BY AccountFinite DEF PipeTyped, Naturals
<1>2. QED
  BY <1>1, AccountFinite, SumNat DEF Booked

\* A counter that moves makes its own account grow, and no other.
LEMMA BookedStep ==
  ASSUME PipeTyped, NEW c \in Counters, counter' = Incremented(c), NEW k, NEW p
  PROVE  Booked(k, p)' = Booked(k, p) + (IF c \in Account(k, p) THEN 1 ELSE 0)
<1>1. /\ counter'[c] = counter[c] + 1
      /\ \A e \in Counters : e # c => counter'[e] = counter[e]
  BY IncrementedType
<1>2. Account(k, p) \subseteq Counters /\ IsFiniteSet(Account(k, p)) /\ Account(k, p)' = Account(k, p)
  BY AccountFinite, AccountConstant
<1>3. Naturals(counter, Account(k, p))
  BY <1>2 DEF PipeTyped, Naturals
<1>4. CASE c \in Account(k, p)
  <2>1. SumOver(counter', Account(k, p)) = SumOver(counter, Account(k, p)) + 1
    BY <1>1, <1>2, <1>3, <1>4, SumGrows
  <2>2. QED
    BY <1>2, <1>4, <2>1 DEF Booked
<1>5. CASE c \notin Account(k, p)
  <2>1. SumOver(counter', Account(k, p)) = SumOver(counter, Account(k, p))
    BY <1>1, <1>2, <1>5, SumSame
  <2>2. QED
    BY <1>2, <1>5, <2>1, BookedNat DEF Booked
<1>6. QED
  BY <1>4, <1>5

-----------------------------------------------------------------------------
(* What is still owed, and the books of a path *)

\* The kinds in what is left of an observation, and what its head takes away.
LEMMA KindsOfRest ==
  ASSUME NEW t, NEW a, NEW m, NEW h, NEW u \in RestOf(t, a, m, h),
         t[1] \notin {a[1], m[1], h[1]}, a[1] \notin {m[1], h[1]}, m[1] # h[1]
  PROVE  /\ t[1] \in Kinds(u) => a[1] \in Kinds(u) /\ h[1] \in Kinds(u)
         /\ u = <<>> => Kinds(u) = {}
         /\ u # <<>> => /\ Head(u)[1] \in Kinds(u)
                        /\ Kinds(Tail(u)) = Kinds(u) \ {Head(u)[1]}
                        /\ Head(u)[1] = m[1] => a[1] \notin Kinds(u)
<1>1. /\ Kinds(<<t, a, m, h>>) = {t[1], a[1], m[1], h[1]}
      /\ Kinds(<<t, a, h>>) = {t[1], a[1], h[1]}
      /\ Kinds(<<a, m, h>>) = {a[1], m[1], h[1]}
      /\ Kinds(<<a, h>>) = {a[1], h[1]}
      /\ Kinds(<<m, h>>) = {m[1], h[1]}
      /\ Kinds(<<h>>) = {h[1]}
      /\ Kinds(<<>>) = {}
  <2>1. Kinds(<<t, a, m, h>>) = {t[1], a[1], m[1], h[1]}
    BY DEF Kinds
  <2>2. Kinds(<<t, a, h>>) = {t[1], a[1], h[1]} /\ Kinds(<<a, m, h>>) = {a[1], m[1], h[1]}
    BY DEF Kinds
  <2>3. Kinds(<<a, h>>) = {a[1], h[1]} /\ Kinds(<<m, h>>) = {m[1], h[1]}
    BY DEF Kinds
  <2>4. Kinds(<<h>>) = {h[1]} /\ Kinds(<<>>) = {}
    BY DEF Kinds
  <2>5. QED
    BY <2>1, <2>2, <2>3, <2>4
<1>2. CASE u = <<t, a, m, h>>
  <2>1. Head(u) = t /\ Tail(u) = <<a, m, h>> /\ u # <<>>
    BY <1>2
  <2>2. QED
    BY <1>1, <1>2, <2>1
<1>3. CASE u = <<t, a, h>>
  <2>1. Head(u) = t /\ Tail(u) = <<a, h>> /\ u # <<>>
    BY <1>3
  <2>2. QED
    BY <1>1, <1>3, <2>1
<1>4. CASE u = <<a, m, h>>
  <2>1. Head(u) = a /\ Tail(u) = <<m, h>> /\ u # <<>>
    BY <1>4
  <2>2. QED
    BY <1>1, <1>4, <2>1
<1>5. CASE u = <<a, h>>
  <2>1. Head(u) = a /\ Tail(u) = <<h>> /\ u # <<>>
    BY <1>5
  <2>2. QED
    BY <1>1, <1>5, <2>1
<1>6. CASE u = <<m, h>>
  <2>1. Head(u) = m /\ Tail(u) = <<h>> /\ u # <<>>
    BY <1>6
  <2>2. QED
    BY <1>1, <1>6, <2>1
<1>7. CASE u = <<h>>
  <2>1. Head(u) = h /\ Tail(u) = <<>> /\ u # <<>>
    BY <1>7
  <2>2. QED
    BY <1>1, <1>7, <2>1
<1>8. CASE u = <<>>
  BY <1>1, <1>8
<1>9. QED
  BY <1>2, <1>3, <1>4, <1>5, <1>6, <1>7, <1>8 DEF RestOf

LEMMA KindsFacts ==
  ASSUME NEW p, NEW code, NEW d, NEW s \in Remaining(p, code, d)
  PROVE  /\ "total" \in Kinds(s) => "status" \in Kinds(s) /\ "bucket" \in Kinds(s)
         /\ s = <<>> => Kinds(s) = {}
         /\ s # <<>> => /\ Head(s)[1] \in Kinds(s)
                        /\ Kinds(Tail(s)) = Kinds(s) \ {Head(s)[1]}
                        /\ Head(s)[1] = "sum" => "status" \notin Kinds(s)
<1> DEFINE t == <<"total", p>>
           a == <<"status", p, code>>
           m == <<"sum", p>>
           h == <<"bucket", p, d>>
<1>1. t[1] = "total" /\ a[1] = "status" /\ m[1] = "sum" /\ h[1] = "bucket"
  OBVIOUS
<1>2. s \in RestOf(t, a, m, h)
  BY DEF Remaining
<1>3. t[1] \notin {a[1], m[1], h[1]} /\ a[1] \notin {m[1], h[1]} /\ m[1] # h[1]
  BY <1>1
<1> HIDE DEF t, a, m, h
<1>4. /\ t[1] \in Kinds(s) => a[1] \in Kinds(s) /\ h[1] \in Kinds(s)
      /\ s = <<>> => Kinds(s) = {}
      /\ s # <<>> => /\ Head(s)[1] \in Kinds(s)
                     /\ Kinds(Tail(s)) = Kinds(s) \ {Head(s)[1]}
                     /\ Head(s)[1] = m[1] => a[1] \notin Kinds(s)
  BY <1>2, <1>3, KindsOfRest
<1>5. QED
  BY <1>1, <1>4, Zenon

LEMMA KindsOfObservation ==
  ASSUME NEW p, NEW code, NEW d \in 0..Bounds
  PROVE  {"total", "status", "bucket"} \subseteq Kinds(Observation(p, code, d))
<1> DEFINE s == Observation(p, code, d)
<1>1. s \in Remaining(p, code, d + 1)
  BY ObservationIsRemaining
<1>2. /\ "total" \in Kinds(s) => "status" \in Kinds(s) /\ "bucket" \in Kinds(s)
      /\ s # <<>> => Head(s)[1] \in Kinds(s)
  BY <1>1, KindsFacts
<1>3. s # <<>> /\ Head(s)[1] = "total"
  <2> DEFINE t == <<"total", p>>
             a == <<"status", p, code>>
             m == <<"sum", p>>
             h == <<"bucket", p, d + 1>>
  <2>1. /\ <<t, a>> \o <<>> = <<t, a>> /\ <<t, a>> \o <<m>> = <<t, a, m>>
        /\ <<t, a>> \o <<h>> = <<t, a, h>> /\ <<t, a, m>> \o <<h>> = <<t, a, m, h>>
    BY Joined
  <2>2. s = (<<t, a>> \o (IF d = 0 THEN <<>> ELSE <<m>>)) \o <<h>>
    BY DEF Observation
  <2>3. t[1] = "total"
    OBVIOUS
  <2> HIDE DEF t, a, m, h, s
  <2>4. s = <<t, a, m, h>> \/ s = <<t, a, h>>
    BY <2>1, <2>2
  <2>5. s # <<>> /\ Head(s) = t
    BY <2>4
  <2>6. QED
    BY <2>3, <2>5
<1>4. QED
  BY <1>2, <1>3

\* The head of what r has left to move, and whose account it is in.
LEMMA HeadAccount ==
  ASSUME PInv, NEW r \in Reqs, Observing(r), todo[r] # <<>>
  PROVE  LET c == Head(todo[r]) IN
         /\ c \in Counters
         /\ c[1] \in {"total", "status", "sum", "bucket"}
         /\ \A k, p : c \in Account(k, p) <=> k = c[1] /\ p = SeriesOf(r)
         /\ \A k : c = <<"status", SeriesOf(r), k>> <=> c[1] = "status" /\ k = AnswerOf(r)
<1> DEFINE c == Head(todo[r])
           p0 == SeriesOf(r)
<1>1. PICK d \in 1..Bounds + 1 : todo[r] \in Remaining(p0, AnswerOf(r), d)
  BY DEF PInv, TodoInv
<1>2. c \in {<<"total", p0>>, <<"status", p0, AnswerOf(r)>>, <<"sum", p0>>, <<"bucket", p0, d>>}
  BY <1>1, HeadOfRest, PathsFacts DEF PInv, TodoInv
<1>3. c \in Counters
  BY NextCounter
<1>4. c[1] \in {"total", "status", "sum", "bucket"} /\ c[2] = p0
  BY <1>2
<1>5. \A k, p : c \in Account(k, p) <=> k = c[1] /\ p = p0
  BY <1>3, <1>4 DEF Account
<1>6. \A k : c = <<"status", p0, k>> <=> c[1] = "status" /\ k = AnswerOf(r)
  BY <1>2
<1>7. QED
  BY <1>3, <1>4, <1>5, <1>6

LEMMA CardMoves ==
  ASSUME NEW S \in SUBSET Reqs, NEW r \in Reqs
  PROVE  /\ Cardinality(S) \in Nat /\ Cardinality(S \ {r}) \in Nat
         /\ r \notin S => Cardinality(S \cup {r}) = Cardinality(S) + 1
         /\ r \notin S => Cardinality(S \ {r}) = Cardinality(S)
         /\ r \in S => Cardinality(S \ {r}) = Cardinality(S) - 1
         /\ r \in S => Cardinality(S \cup {r}) = Cardinality(S)
<1>1. IsFiniteSet(S) /\ IsFiniteSet(S \ {r})
  BY ReqsAssumption, FS_Subset
<1>2. r \notin S => S \ {r} = S
  OBVIOUS
<1>3. r \in S => S \cup {r} = S
  OBVIOUS
<1>4. QED
  BY <1>1, <1>2, <1>3, FS_CardinalityType, FS_AddElement, FS_RemoveElement

\* A step of r moves at most r in the sets of the requests that are observed.
LEMMA CountedStep ==
  ASSUME PInv, NEW r \in Reqs, Arrive(r) \/ Served(r), NEW p
  PROVE  Counted(p)' = IF Observing(r)' /\ SeriesOf(r) = p
                       THEN Counted(p) \cup {r} ELSE Counted(p) \ {r}
<1>1. \A q \in Reqs : q # r => (Observing(q)' <=> Observing(q))
  BY OthersKeep DEF Observing
<1>2. Counted(p)' = {q \in Reqs : Observing(q)' /\ SeriesOf(q) = p}
  BY DEF Counted, SeriesOf, Paths
<1>3. QED
  BY <1>1, <1>2 DEF Counted

LEMMA OwingStep ==
  ASSUME PInv, NEW r \in Reqs, Arrive(r) \/ Served(r), NEW p, NEW k
  PROVE  Owing(k, p)' = IF Observing(r)' /\ SeriesOf(r) = p /\ k \in Kinds(todo'[r])
                        THEN Owing(k, p) \cup {r} ELSE Owing(k, p) \ {r}
<1>1. \A q \in Reqs : q # r => todo'[q] = todo[q]
  BY OthersKeep
<1>2. Owing(k, p)' = {q \in Counted(p)' : k \in Kinds(todo'[q])}
  BY DEF Owing, Kinds
<1>3. QED
  BY <1>1, <1>2, CountedStep DEF Owing, Counted

Balanced(p) ==
  /\ \A k \in {"total", "status", "bucket"} :
       Booked(k, p) + Cardinality(Owing(k, p)) = Due(p)
  /\ Booked("sum", p) + Cardinality(Owing("status", p) \cup Owing("sum", p)) <= Due(p)

\* The books of a path are balanced as long as nothing in them changes.
LEMMA BalancedSame ==
  ASSUME NEW p, Balanced(p), Due(p)' = Due(p), \A k : Owing(k, p)' = Owing(k, p),
         \A k \in {"total", "sum", "status", "bucket"} : Booked(k, p)' = Booked(k, p)
  PROVE  Balanced(p)'
BY DEF Balanced

LEMMA InwardCounter ==
  ASSUME PInv, NEW r \in Reqs, Inward(r)
  PROVE  \/ counter' = counter
         \/ counter' = Incremented(<<"rateLimited">>)
         \/ counter' = Incremented(<<"overloaded">>)
BY DEF Inward, Arrive, RateLimited, Enter, Wait, Reject, Answer, Read, Return, Panic,
       GiveShareBack, pvars

\* Refusals and panics are in no account of a path.
LEMMA BookedAside ==
  ASSUME PipeTyped, NEW k \in {"total", "sum", "status", "bucket"}, NEW p,
         \/ counter' = counter
         \/ counter' = Incremented(<<"rateLimited">>)
         \/ counter' = Incremented(<<"overloaded">>)
         \/ counter' = Incremented(<<"panics">>)
  PROVE  Booked(k, p)' = Booked(k, p)
<1>1. CASE counter' = counter
  BY <1>1, AccountConstant DEF Booked
<1>2. ASSUME NEW c \in Counters, counter' = Incremented(c), c \notin Account(k, p)
      PROVE  Booked(k, p)' = Booked(k, p)
  BY <1>2, BookedStep, BookedNat
<1>3. /\ <<"rateLimited">> \in Counters \ Account(k, p)
      /\ <<"overloaded">> \in Counters \ Account(k, p)
      /\ <<"panics">> \in Counters \ Account(k, p)
  BY RefusalCounters, AccountOf
<1>4. QED
  BY <1>1, <1>2, <1>3

LEMMA BooksSets ==
  ASSUME NEW p
  PROVE  /\ Counted(p) \in SUBSET Reqs
         /\ \A k : Owing(k, p) \in SUBSET Counted(p)
         /\ Owing("status", p) \cup Owing("sum", p) \in SUBSET Reqs
BY DEF Counted, Owing

LEMMA InwardBooks ==
  ASSUME PInv, NEW r \in Reqs, Inward(r), Arrive(r) \/ Served(r), NEW p \in Paths, Balanced(p)
  PROVE  Balanced(p)'
<1>1. ~Observing(r) /\ ~Observing(r)' /\ ended' = ended /\ aborted' = aborted
  BY InwardFacts
<1>2. Counted(p)' = Counted(p) /\ \A k : Owing(k, p)' = Owing(k, p)
  <2>1. Counted(p)' = Counted(p)
    BY <1>1, CountedStep DEF Counted
  <2>2. ASSUME NEW k PROVE Owing(k, p)' = Owing(k, p)
    BY <1>1, OwingStep DEF Owing, Counted
  <2>3. QED
    BY <2>1, <2>2
<1>3. \A k \in {"total", "sum", "status", "bucket"} : Booked(k, p)' = Booked(k, p)
  BY InwardCounter, BookedAside DEF PInv
<1>4. Due(p)' = Due(p)
  BY <1>1, <1>2 DEF Due
<1>5. QED
  BY <1>2, <1>3, <1>4, BalancedSame

\* A request that starts to be observed is due in every account of its path, and one
\* that aborts in none.
LEMMA RecoverBooks ==
  ASSUME PInv, NEW r \in Reqs, Recover(r), Arrive(r) \/ Served(r), NEW p \in Paths, Balanced(p)
  PROVE  Balanced(p)'
<1>1. ~Observing(r) /\ r \notin Counted(p) /\ \A k : r \notin Owing(k, p)
  BY DEF Recover, Observing, Counted, Owing
<1>2. \A k \in {"total", "sum", "status", "bucket"} : Booked(k, p)' = Booked(k, p)
  BY BookedAside DEF PInv, Recover
<1>3. /\ Counted(p) \in SUBSET Reqs /\ \A k : Owing(k, p) \in SUBSET Reqs
      /\ Owing("status", p) \cup Owing("sum", p) \in SUBSET Reqs
      /\ r \notin Owing("status", p) \cup Owing("sum", p)
  BY <1>1, BooksSets
<1>4. \A k : Booked(k, p) \in Nat
  BY BookedNat DEF PInv
<1>5. ended[p] \in Nat /\ aborted[p] \in Nat
  BY DEF PInv, PipeTyped
<1>6. CASE Abort(r)
  <2>1. ~Observing(r)'
    BY <1>6 DEF Abort, Done, Observing, PInv, PipeTyped
  <2>2. Counted(p)' = Counted(p) /\ \A k : Owing(k, p)' = Owing(k, p)
    <3>1. Counted(p)' = Counted(p)
      BY <1>1, <2>1, CountedStep
    <3>2. ASSUME NEW k PROVE Owing(k, p)' = Owing(k, p)
      BY <1>1, <2>1, OwingStep
    <3>3. QED
      BY <3>1, <3>2
  <2>3. ended'[p] - aborted'[p] = ended[p] - aborted[p]
    <3>1. /\ ended' = [ended EXCEPT ![SeriesOf(r)] = @ + 1]
          /\ aborted' = [aborted EXCEPT ![SeriesOf(r)] = @ + 1]
      BY <1>6 DEF Abort, Done
    <3>2. CASE SeriesOf(r) = p
      BY <1>5, <3>1, <3>2 DEF PInv, PipeTyped
    <3>3. CASE SeriesOf(r) # p
      BY <1>5, <3>1, <3>3 DEF PInv, PipeTyped
    <3>4. QED
      BY <3>2, <3>3
  <2>4. Due(p)' = Due(p)
    BY <2>2, <2>3 DEF Due
  <2>5. QED
    BY <1>2, <2>2, <2>4, BalancedSame
<1>7. CASE StartObserving(r) /\ stage'[r] = "observe"
  <2>1. ended' = ended /\ aborted' = aborted /\ Observing(r)'
    BY <1>7 DEF StartObserving, Observing
  <2>2. PICK d \in 0..Bounds : todo'[r] = Observation(SeriesOf(r), AnswerOf(r)', d)
    <3>1. ~Abort(r)
      BY <1>7 DEF Abort, Done, PInv, PipeTyped
    <3>2. QED
      BY <3>1, RecoverFacts
  <2>3. "total" \in Kinds(todo'[r]) /\ "status" \in Kinds(todo'[r]) /\ "bucket" \in Kinds(todo'[r])
    BY <2>2, KindsOfObservation
  <2>4. CASE SeriesOf(r) # p
    <3>1. Counted(p)' = Counted(p) /\ \A k : Owing(k, p)' = Owing(k, p)
      <4>1. Counted(p)' = Counted(p)
        BY <1>1, <2>4, CountedStep
      <4>2. ASSUME NEW k PROVE Owing(k, p)' = Owing(k, p)
        BY <1>1, <2>4, OwingStep
      <4>3. QED
        BY <4>1, <4>2
    <3>2. Due(p)' = Due(p)
      BY <2>1, <3>1 DEF Due
    <3>3. QED
      BY <1>2, <3>1, <3>2, BalancedSame
  <2>5. CASE SeriesOf(r) = p
    <3>1. /\ Counted(p)' = Counted(p) \cup {r}
          /\ Owing("total", p)' = Owing("total", p) \cup {r}
          /\ Owing("status", p)' = Owing("status", p) \cup {r}
          /\ Owing("bucket", p)' = Owing("bucket", p) \cup {r}
          /\ Owing("sum", p)' = Owing("sum", p) \cup {r} \/ Owing("sum", p)' = Owing("sum", p)
      <4>1. Counted(p)' = Counted(p) \cup {r}
        BY <2>1, <2>5, CountedStep
      <4>2. ASSUME NEW k, k \in Kinds(todo'[r])
            PROVE  Owing(k, p)' = Owing(k, p) \cup {r}
        BY <2>1, <2>5, <4>2, OwingStep
      <4>3. ASSUME NEW k
            PROVE  Owing(k, p)' = Owing(k, p) \cup {r} \/ Owing(k, p)' = Owing(k, p)
        BY <1>1, OwingStep
      <4>4. QED
        BY <2>3, <4>1, <4>2, <4>3
    <3>2. Due(p)' = Due(p) + 1 /\ Due(p) \in Int
      <4>1. /\ Cardinality(Counted(p)') = Cardinality(Counted(p)) + 1
            /\ Cardinality(Counted(p)) \in Nat
        <5>1. Counted(p) \in SUBSET Reqs /\ r \notin Counted(p) /\ Counted(p)' = Counted(p) \cup {r}
          BY <1>1, <1>3, <3>1
        <5>2. QED
          BY <5>1, CardMoves
      <4>2. QED
        BY <1>5, <2>1, <4>1 DEF Due
    <3>3. \A k \in {"total", "status", "bucket"} :
             Cardinality(Owing(k, p)') = Cardinality(Owing(k, p)) + 1
      BY <1>1, <1>3, <3>1, CardMoves
    <3>4. Owing("status", p)' \cup Owing("sum", p)' = (Owing("status", p) \cup Owing("sum", p)) \cup {r}
      BY <3>1
    <3>5. /\ Cardinality(Owing("status", p)' \cup Owing("sum", p)')
               = Cardinality(Owing("status", p) \cup Owing("sum", p)) + 1
          /\ Cardinality(Owing("status", p) \cup Owing("sum", p)) \in Nat
      <4>1. PICK S \in SUBSET Reqs : S = Owing("status", p) \cup Owing("sum", p)
        BY <1>3
      <4>2. r \notin S
        BY <1>3, <4>1
      <4>3. Cardinality(S \cup {r}) = Cardinality(S) + 1 /\ Cardinality(S) \in Nat
        BY <4>2, CardMoves
      <4>4. QED
        BY <3>4, <4>1, <4>3
    <3>6. \A k \in {"total", "status", "bucket"} : Cardinality(Owing(k, p)) \in Nat
      BY <1>3, CardMoves
    <3>7. ASSUME NEW k \in {"total", "status", "bucket"}
          PROVE  Booked(k, p)' + Cardinality(Owing(k, p)') = Due(p)'
      <4>1. /\ Booked(k, p) + Cardinality(Owing(k, p)) = Due(p)
            /\ Booked(k, p) \in Nat /\ Cardinality(Owing(k, p)) \in Nat
            /\ Booked(k, p)' = Booked(k, p)
        BY <1>2, <1>4, <3>6 DEF Balanced
      <4>2. Cardinality(Owing(k, p)') = Cardinality(Owing(k, p)) + 1
        BY <3>3
      <4>3. QED
        BY <3>2, <4>1, <4>2
    <3>8. Booked("sum", p)' + Cardinality(Owing("status", p)' \cup Owing("sum", p)') <= Due(p)'
      <4>1. /\ Booked("sum", p) + Cardinality(Owing("status", p) \cup Owing("sum", p)) <= Due(p)
            /\ Booked("sum", p) \in Nat /\ Booked("sum", p)' = Booked("sum", p)
        BY <1>2, <1>4 DEF Balanced
      <4>2. QED
        BY <3>2, <3>5, <4>1
    <3>9. QED
      BY <3>7, <3>8 DEF Balanced
  <2>6. QED
    BY <2>4, <2>5
<1>8. QED
  BY <1>6, <1>7, RecoverFacts

\* A counter that is moved is owed no longer.
LEMMA ObserveBooks ==
  ASSUME PInv, NEW r \in Reqs, Observe(r), Arrive(r) \/ Served(r), NEW p \in Paths, Balanced(p)
  PROVE  Balanced(p)'
<1>1. Observing(r) /\ aborted' = aborted
  BY DEF Observe, Observing
<1>2. /\ Counted(p) \in SUBSET Reqs /\ \A k : Owing(k, p) \in SUBSET Reqs
      /\ Owing("status", p) \cup Owing("sum", p) \in SUBSET Reqs
  BY BooksSets
<1>3. \A k : Booked(k, p) \in Nat
  BY BookedNat DEF PInv
<1>4. ended[p] \in Nat /\ aborted[p] \in Nat
  BY DEF PInv, PipeTyped
<1>5. PICK d \in 1..Bounds + 1 : todo[r] \in Remaining(SeriesOf(r), AnswerOf(r), d)
  BY <1>1 DEF PInv, TodoInv
<1>6. SeriesOf(r) = p => r \in Counted(p) /\ \A k : r \in Owing(k, p) <=> k \in Kinds(todo[r])
  BY <1>1 DEF Counted, Owing
<1>7. SeriesOf(r) # p => r \notin Counted(p) /\ \A k : r \notin Owing(k, p)
  BY DEF Counted, Owing
<1>8. \A k : Cardinality(Owing(k, p)) \in Nat
  BY <1>2, CardMoves
<1>9. Cardinality(Owing("status", p) \cup Owing("sum", p)) \in Nat /\ Due(p) \in Int
  <2>1. \A S \in SUBSET Reqs : Cardinality(S) \in Nat
    BY CardMoves
  <2>2. Cardinality(Counted(p)) \in Nat
    BY <1>2, <2>1
  <2>3. QED
    BY <1>2, <1>4, <2>1, <2>2 DEF Due
<1>10. CASE todo[r] = <<>>
  <2>1. ~Observing(r)' /\ counter' = counter /\ ended' = [ended EXCEPT ![SeriesOf(r)] = @ + 1]
    BY <1>10 DEF Observe, Done, Observing, PInv, PipeTyped
  <2>2. \A k \in {"total", "sum", "status", "bucket"} : Booked(k, p)' = Booked(k, p)
    BY <2>1, BookedAside DEF PInv
  <2>3. \A k : k \notin Kinds(todo[r])
    BY <1>5, <1>10, KindsFacts
  <2>4. \A k : Owing(k, p)' = Owing(k, p)
    <3>1. ASSUME NEW k PROVE Owing(k, p)' = Owing(k, p)
      <4>1. r \notin Owing(k, p)
        BY <1>6, <1>7, <2>3
      <4>2. QED
        BY <2>1, <4>1, OwingStep
    <3>2. QED
      BY <3>1
  <2>5. Due(p)' = Due(p)
    <3>1. CASE SeriesOf(r) = p
      <4>1. Counted(p)' = Counted(p) \ {r} /\ r \in Counted(p)
        BY <1>6, <2>1, <3>1, CountedStep
      <4>2. /\ Cardinality(Counted(p)') = Cardinality(Counted(p)) - 1
            /\ Cardinality(Counted(p)) \in Nat
        BY <1>2, <4>1, CardMoves
      <4>3. ended'[p] = ended[p] + 1
        BY <2>1, <3>1 DEF PInv, PipeTyped
      <4>4. QED
        BY <1>1, <1>4, <4>2, <4>3 DEF Due
    <3>2. CASE SeriesOf(r) # p
      <4>1. Counted(p)' = Counted(p)
        BY <1>7, <2>1, <3>2, CountedStep
      <4>2. ended'[p] = ended[p]
        BY <2>1, <3>2 DEF PInv, PipeTyped
      <4>3. QED
        BY <1>1, <4>1, <4>2 DEF Due
    <3>3. QED
      BY <3>1, <3>2
  <2>6. QED
    BY <2>2, <2>4, <2>5, BalancedSame
<1>11. CASE todo[r] # <<>>
  <2>1. /\ counter' = Incremented(Head(todo[r])) /\ todo'[r] = Tail(todo[r])
        /\ Observing(r)' /\ ended' = ended
    BY <1>1, <1>11 DEF Observe, Observing, PInv, PipeTyped
  <2> DEFINE c == Head(todo[r])
  <2>2. /\ c \in Counters /\ c[1] \in {"total", "status", "sum", "bucket"}
        /\ \A k : c \in Account(k, p) <=> k = c[1] /\ p = SeriesOf(r)
    BY <1>1, <1>11, HeadAccount
  <2>3. /\ c[1] \in Kinds(todo[r]) /\ Kinds(todo'[r]) = Kinds(todo[r]) \ {c[1]}
        /\ c[1] = "sum" => "status" \notin Kinds(todo[r])
    BY <1>5, <1>11, <2>1, KindsFacts
  <2> HIDE DEF c
  <2>4. \A k : Booked(k, p)' = Booked(k, p) + (IF k = c[1] /\ p = SeriesOf(r) THEN 1 ELSE 0)
    BY <2>1, <2>2, BookedStep DEF PInv, c
  <2>5. Counted(p)' = Counted(p) /\ Due(p)' = Due(p)
    <3>1. Counted(p)' = Counted(p)
      BY <1>6, <1>7, <2>1, CountedStep
    <3>2. QED
      BY <1>1, <2>1, <3>1 DEF Due
  <2>6. CASE SeriesOf(r) # p
    <3>1. \A k : Owing(k, p)' = Owing(k, p)
      <4>1. ASSUME NEW k PROVE Owing(k, p)' = Owing(k, p)
        BY <1>7, <2>6, OwingStep
      <4>2. QED
        BY <4>1
    <3>2. \A k : Booked(k, p)' = Booked(k, p)
      BY <1>3, <2>4, <2>6
    <3>3. QED
      BY <2>5, <3>1, <3>2, BalancedSame
  <2>7. CASE SeriesOf(r) = p
    <3>1. \A k : Owing(k, p)' = IF k = c[1] THEN Owing(k, p) \ {r} ELSE Owing(k, p)
      <4>1. ASSUME NEW k
            PROVE  Owing(k, p)' = IF k \in Kinds(todo'[r]) THEN Owing(k, p) \cup {r} ELSE Owing(k, p) \ {r}
        BY <2>1, <2>7, OwingStep
      <4>2. ASSUME NEW k
            PROVE  Owing(k, p)' = IF k = c[1] THEN Owing(k, p) \ {r} ELSE Owing(k, p)
        <5>1. r \in Owing(k, p) <=> k \in Kinds(todo[r])
          BY <1>6, <2>7
        <5>2. k \in Kinds(todo'[r]) <=> k \in Kinds(todo[r]) /\ k # c[1]
          BY <2>3
        <5>3. CASE k = c[1]
          BY <4>1, <5>2, <5>3
        <5>4. CASE k # c[1]
          BY <4>1, <5>1, <5>2, <5>4
        <5>5. QED
          BY <5>3, <5>4
      <4>3. QED
        BY <4>2
    <3>2. r \in Owing(c[1], p)
      BY <1>6, <2>3, <2>7
    <3>3. ASSUME NEW k \in {"total", "status", "bucket"}
          PROVE  Booked(k, p)' + Cardinality(Owing(k, p)') = Due(p)'
      <4>1. Booked(k, p) + Cardinality(Owing(k, p)) = Due(p)
        BY DEF Balanced
      <4>2. CASE k = c[1]
        <5>1. Cardinality(Owing(k, p)') = Cardinality(Owing(k, p)) - 1
          BY <1>2, <3>1, <3>2, <4>2, CardMoves
        <5>2. Booked(k, p)' = Booked(k, p) + 1
          BY <2>4, <2>7, <4>2
        <5>3. QED
          BY <1>3, <1>8, <2>5, <4>1, <5>1, <5>2
      <4>3. CASE k # c[1]
        <5>1. Owing(k, p)' = Owing(k, p)
          BY <3>1, <4>3
        <5>2. Booked(k, p)' = Booked(k, p)
          BY <1>3, <2>4, <4>3
        <5>3. QED
          BY <2>5, <4>1, <5>1, <5>2
      <4>4. QED
        BY <4>2, <4>3
    <3>4. Booked("sum", p)' + Cardinality(Owing("status", p)' \cup Owing("sum", p)') <= Due(p)'
      <4> DEFINE S == Owing("status", p) \cup Owing("sum", p)
                 T == Owing("status", p)' \cup Owing("sum", p)'
      <4>1. Booked("sum", p) + Cardinality(S) <= Due(p) /\ S \in SUBSET Reqs /\ Cardinality(S) \in Nat
        BY <1>2, <1>9 DEF Balanced
      <4>2. CASE c[1] = "sum"
        <5>1. T = S \ {r} /\ r \in S
          BY <1>6, <2>3, <2>7, <3>1, <3>2, <4>2
        <5>2. Cardinality(T) = Cardinality(S) - 1
          BY <4>1, <5>1, CardMoves
        <5>3. Booked("sum", p)' = Booked("sum", p) + 1
          BY <2>4, <2>7, <4>2
        <5>4. QED
          BY <1>3, <1>9, <2>5, <4>1, <5>2, <5>3
      <4>3. CASE c[1] # "sum"
        <5>1. T = S \/ T = S \ {r}
          BY <3>1, <4>3
        <5>2. Cardinality(T) <= Cardinality(S) /\ Cardinality(T) \in Nat
          BY <4>1, <5>1, CardMoves
        <5>3. Booked("sum", p)' = Booked("sum", p)
          BY <1>3, <2>4, <4>3
        <5>4. QED
          BY <1>3, <1>9, <2>5, <4>1, <5>2, <5>3
      <4>4. QED
        BY <4>2, <4>3
    <3>5. QED
      BY <3>3, <3>4 DEF Balanced
  <2>8. QED
    BY <2>6, <2>7
<1>12. QED
  BY <1>10, <1>11

LEMMA BalancedStep ==
  ASSUME PInv, BooksInv, NEW r \in Reqs, Arrive(r) \/ Served(r)
  PROVE  BooksInv'
<1>1. \A p \in Paths : Balanced(p)
  BY DEF BooksInv, Balanced
<1>2. ASSUME NEW p \in Paths PROVE Balanced(p)'
  BY <1>1, ServedInwardOr, InwardBooks, RecoverBooks, ObserveBooks
<1>3. BooksInv' = \A p \in Paths : Balanced(p)'
  BY DEF BooksInv, Balanced, Paths
<1>4. QED
  BY <1>2, <1>3

-----------------------------------------------------------------------------
(* The refusals of the limiters *)

LimiterOf(k) == IF k = 429 THEN <<"rateLimited">> ELSE <<"overloaded">>

LEMMA CodeAccountFacts ==
  ASSUME NEW k \in {429, 503}
  PROVE  /\ CodeAccount(k) \subseteq Counters /\ IsFiniteSet(CodeAccount(k))
         /\ CodeAccount(k)' = CodeAccount(k)
         /\ LimiterOf(k) \in Counters
         /\ <<"rateLimited">> \notin CodeAccount(k)
         /\ <<"overloaded">> \notin CodeAccount(k)
         /\ <<"panics">> \notin CodeAccount(k)
<1>1. k \in Codes
  BY CodesFacts
<1>2. CodeAccount(k) \subseteq Counters
  BY <1>1 DEF CodeAccount, Counters
<1>3. IsFiniteSet(CodeAccount(k))
  BY <1>2, CountersFinite, FS_Subset
<1>4. CodeAccount(k)' = CodeAccount(k)
  BY DEF CodeAccount, Paths
<1>5. LimiterOf(k) \in Counters
  BY RefusalCounters DEF LimiterOf
<1>6. /\ <<"rateLimited">> \notin CodeAccount(k)
      /\ <<"overloaded">> \notin CodeAccount(k)
      /\ <<"panics">> \notin CodeAccount(k)
  BY DEF CodeAccount
<1>7. QED
  BY <1>2, <1>3, <1>4, <1>5, <1>6

CodeSum(k) == SumOver(counter, CodeAccount(k))

LEMMA CodeSumStep ==
  ASSUME PipeTyped, NEW k \in {429, 503}
  PROVE  /\ CodeSum(k) \in Nat
         /\ counter' = counter => CodeSum(k)' = CodeSum(k)
         /\ \A c \in Counters : counter' = Incremented(c) =>
              CodeSum(k)' = CodeSum(k) + (IF c \in CodeAccount(k) THEN 1 ELSE 0)
<1>1. CodeAccount(k) \subseteq Counters /\ IsFiniteSet(CodeAccount(k)) /\ CodeAccount(k)' = CodeAccount(k)
  BY CodeAccountFacts
<1>2. Naturals(counter, CodeAccount(k))
  BY <1>1 DEF PipeTyped, Naturals
<1>3. CodeSum(k) \in Nat
  BY <1>1, <1>2, SumNat DEF CodeSum
<1>4. counter' = counter => CodeSum(k)' = CodeSum(k)
  BY <1>1 DEF CodeSum
<1>5. ASSUME NEW c \in Counters, counter' = Incremented(c)
      PROVE  CodeSum(k)' = CodeSum(k) + (IF c \in CodeAccount(k) THEN 1 ELSE 0)
  <2>1. counter'[c] = counter[c] + 1 /\ \A e \in Counters : e # c => counter'[e] = counter[e]
    BY <1>5, IncrementedType
  <2>2. CASE c \in CodeAccount(k)
    <3>1. SumOver(counter', CodeAccount(k)) = SumOver(counter, CodeAccount(k)) + 1
      BY <1>1, <1>2, <2>1, <2>2, SumGrows
    <3>2. QED
      BY <1>1, <2>2, <3>1 DEF CodeSum
  <2>3. CASE c \notin CodeAccount(k)
    <3>1. SumOver(counter', CodeAccount(k)) = SumOver(counter, CodeAccount(k))
      BY <1>1, <2>1, <2>3, SumSame
    <3>2. QED
      BY <1>1, <1>3, <2>3, <3>1 DEF CodeSum
  <2>4. QED
    BY <2>2, <2>3
<1>6. QED
  BY <1>3, <1>4, <1>5

OwesStatus(r, k) == status[r] = k /\ (Observing(r) => "status" \in Kinds(todo[r]))

LEMMA PendingStep ==
  ASSUME PInv, NEW r \in Reqs, Arrive(r) \/ Served(r), NEW k
  PROVE  Pending(k)' = IF OwesStatus(r, k)' THEN Pending(k) \cup {r} ELSE Pending(k) \ {r}
<1>1. \A q \in Reqs : q # r =>
         todo'[q] = todo[q] /\ status'[q] = status[q] /\ (Observing(q)' <=> Observing(q))
  BY OthersKeep DEF Observing
<1>2. Pending(k)' = {q \in Reqs : status'[q] = k /\ (Observing(q)' => "status" \in Kinds(todo'[q]))}
  BY DEF Pending, Kinds
<1>3. OwesStatus(r, k)' <=> status'[r] = k /\ (Observing(r)' => "status" \in Kinds(todo'[r]))
  BY DEF OwesStatus, Kinds
<1>4. QED
  BY <1>1, <1>2, <1>3 DEF Pending

\* What a step owes for a refusal, when the request owed it before or not.
LEMMA PendingCard ==
  ASSUME PInv, NEW r \in Reqs, Arrive(r) \/ Served(r), NEW k
  PROVE  /\ Cardinality(Pending(k)) \in Nat /\ Cardinality(Pending(k))' \in Nat
         /\ (OwesStatus(r, k) <=> OwesStatus(r, k)') =>
              Cardinality(Pending(k))' = Cardinality(Pending(k))
         /\ ~OwesStatus(r, k) /\ OwesStatus(r, k)' =>
              Cardinality(Pending(k))' = Cardinality(Pending(k)) + 1
         /\ OwesStatus(r, k) /\ ~OwesStatus(r, k)' =>
              Cardinality(Pending(k))' = Cardinality(Pending(k)) - 1
<1>1. Pending(k) \in SUBSET Reqs /\ (r \in Pending(k) <=> OwesStatus(r, k))
  BY DEF Pending, OwesStatus
<1>2. Pending(k)' = IF OwesStatus(r, k)' THEN Pending(k) \cup {r} ELSE Pending(k) \ {r}
  BY PendingStep
<1>3. CASE OwesStatus(r, k)'
  <2>1. Cardinality(Pending(k))' = Cardinality(Pending(k) \cup {r})
    BY <1>2, <1>3
  <2>2. QED
    BY <1>1, <1>3, <2>1, CardMoves
<1>4. CASE ~OwesStatus(r, k)'
  <2>1. Cardinality(Pending(k))' = Cardinality(Pending(k) \ {r})
    BY <1>2, <1>4
  <2>2. QED
    BY <1>1, <1>4, <2>1, CardMoves
<1>5. QED
  BY <1>3, <1>4

Refused(k) == counter[LimiterOf(k)] = CodeSum(k) + Cardinality(Pending(k))

\* The books of a refusal are balanced as long as nothing in them changes.
LEMMA RefusedSame ==
  ASSUME PInv, NEW r \in Reqs, Arrive(r) \/ Served(r), NEW k \in {429, 503}, Refused(k),
         OwesStatus(r, k) <=> OwesStatus(r, k)',
         counter'[LimiterOf(k)] = counter[LimiterOf(k)],
         CodeSum(k)' = CodeSum(k)
  PROVE  Refused(k)'
<1>1. Cardinality(Pending(k))' = Cardinality(Pending(k))
  BY PendingCard
<1>2. LimiterOf(k)' = LimiterOf(k)
  BY DEF LimiterOf
<1>3. QED
  BY <1>1, <1>2 DEF Refused

\* A limiter counts its refusal when it writes it.
LEMMA RefusedWritten ==
  ASSUME PInv, NEW r \in Reqs, Arrive(r) \/ Served(r), NEW k \in {429, 503}, Refused(k),
         NEW j \in {429, 503}, status[r] = 0, status'[r] = j, ~Observing(r)',
         counter' = Incremented(LimiterOf(j))
  PROVE  Refused(k)'
<1>1. /\ LimiterOf(j) \in Counters /\ LimiterOf(k) \in Counters
      /\ LimiterOf(j) \notin CodeAccount(k)
      /\ LimiterOf(k)' = LimiterOf(k)
  BY CodeAccountFacts DEF LimiterOf
<1>2. /\ counter'[LimiterOf(j)] = counter[LimiterOf(j)] + 1
      /\ \A e \in Counters : e # LimiterOf(j) => counter'[e] = counter[e]
  BY <1>1, IncrementedType DEF PInv
<1>3. CodeSum(k)' = CodeSum(k) /\ CodeSum(k) \in Nat
  BY <1>1, CodeSumStep DEF PInv
<1>4. ~OwesStatus(r, k) /\ (OwesStatus(r, k)' <=> j = k)
  BY DEF OwesStatus
<1>5. Cardinality(Pending(k)) \in Nat /\ Cardinality(Pending(k))' \in Nat
  BY PendingCard
<1>6. CASE j = k
  <2>1. Cardinality(Pending(k))' = Cardinality(Pending(k)) + 1
    BY <1>4, <1>6, PendingCard
  <2>2. QED
    BY <1>1, <1>2, <1>3, <1>5, <1>6, <2>1 DEF Refused
<1>7. CASE j # k
  <2>1. LimiterOf(k) # LimiterOf(j)
    <3>1. <<"rateLimited">> # <<"overloaded">>
      <4>1. <<"rateLimited">>[1] # <<"overloaded">>[1]
        OBVIOUS
      <4>2. QED
        BY <4>1
    <3>2. QED
      BY <1>7, <3>1 DEF LimiterOf
  <2>2. counter'[LimiterOf(k)] = counter[LimiterOf(k)]
    BY <1>1, <1>2, <2>1
  <2>3. OwesStatus(r, k) <=> OwesStatus(r, k)'
    BY <1>4, <1>7
  <2>4. QED
    BY <1>3, <2>2, <2>3, RefusedSame
<1>8. QED
  BY <1>6, <1>7

LEMMA InwardRefused ==
  ASSUME PInv, NEW r \in Reqs, Inward(r), Arrive(r) \/ Served(r), NEW k \in {429, 503}, Refused(k)
  PROVE  Refused(k)'
<1>1. ~Observing(r) /\ ~Observing(r)'
  BY InwardFacts
<1>2. CASE RateLimited(r)
  <2>1. status[r] = 0 /\ status'[r] = 429 /\ counter' = Incremented(LimiterOf(429))
    BY <1>2 DEF RateLimited, LimiterOf, PInv, PipeTyped, AnswerInv
  <2>2. QED
    BY <1>1, <2>1, RefusedWritten
<1>3. CASE Reject(r)
  <2>1. status[r] = 0 /\ status'[r] = 503 /\ counter' = Incremented(LimiterOf(503))
    BY <1>3 DEF Reject, RefusedAnswered, RejectedAnswered, LimiterOf, PInv, PipeTyped, AnswerInv
  <2>2. QED
    BY <1>1, <2>1, RefusedWritten
<1>4. CASE ~RateLimited(r) /\ ~Reject(r)
  <2>1. counter' = counter
    BY <1>4 DEF Inward, Arrive, Enter, Wait, Answer, Read, Return, Panic, GiveShareBack, pvars
  <2>2. status'[r] = status[r] \/ (status[r] = 0 /\ status'[r] \notin {429, 503})
    <3>1. CASE Arrive(r)
      <4>1. status[r] = 0
        BY <3>1 DEF Arrive, PInv, AnswerInv
      <4>2. CASE UNCHANGED status
        BY <4>2
      <4>3. CASE \E code \in FrontCodes : status' = [status EXCEPT ![r] = code]
        <5>1. PICK code \in FrontCodes : status' = [status EXCEPT ![r] = code]
          BY <4>3
        <5>2. status'[r] = code /\ code \notin {429, 503}
          BY <5>1, CodesAssumption DEF PInv, PipeTyped
        <5>3. QED
          BY <4>1, <5>2
      <4>4. QED
        BY <3>1, <4>2, <4>3 DEF Arrive
    <3>2. CASE Answer(r)
      <4>1. PICK code \in HandlerCodes : status' = [status EXCEPT ![r] = code]
        BY <3>2 DEF Answer
      <4>2. status'[r] = code /\ code \notin {429, 503}
        BY <4>1, CodesAssumption DEF PInv, PipeTyped
      <4>3. QED
        BY <3>2, <4>2 DEF Answer
    <3>3. CASE ~Arrive(r) /\ ~Answer(r)
      BY <1>4, <3>3 DEF Inward, Enter, Wait, Read, Return, Panic, GiveShareBack, pvars
    <3>4. QED
      BY <3>1, <3>2, <3>3
  <2>3. OwesStatus(r, k) <=> OwesStatus(r, k)'
    BY <1>1, <2>2 DEF OwesStatus
  <2>4. CodeSum(k)' = CodeSum(k)
    BY <2>1, CodeSumStep DEF PInv
  <2>5. QED
    BY <2>1, <2>3, <2>4, RefusedSame
<1>5. QED
  BY <1>2, <1>3, <1>4

LEMMA RecoverRefused ==
  ASSUME PInv, NEW r \in Reqs, Recover(r), Arrive(r) \/ Served(r), NEW k \in {429, 503}, Refused(k)
  PROVE  Refused(k)'
<1>1. ~Observing(r)
  BY DEF Recover, Observing
<1>2. counter' = counter \/ counter' = Incremented(<<"panics">>)
  BY DEF Recover
<1>3. CodeSum(k)' = CodeSum(k)
  BY <1>2, CodeSumStep, CodeAccountFacts, RefusalCounters DEF PInv
<1>4. counter'[LimiterOf(k)] = counter[LimiterOf(k)]
  <2>1. LimiterOf(k) # <<"panics">> /\ LimiterOf(k) \in Counters /\ <<"panics">> \in Counters
    <3>1. /\ <<"rateLimited">>[1] # <<"panics">>[1]
          /\ <<"overloaded">>[1] # <<"panics">>[1]
      OBVIOUS
    <3>2. <<"rateLimited">> # <<"panics">> /\ <<"overloaded">> # <<"panics">>
      BY <3>1
    <3>3. QED
      BY <3>2, RefusalCounters DEF LimiterOf
  <2>2. QED
    BY <1>2, <2>1, IncrementedType DEF PInv
<1>5. OwesStatus(r, k) <=> OwesStatus(r, k)'
  <2>1. CASE Abort(r) /\ panicked[r]
    <3>1. status[r] # k /\ status'[r] # k
      BY <2>1 DEF Abort, PInv, PipeTyped, AnswerInv
    <3>2. QED
      BY <3>1 DEF OwesStatus
  <2>2. CASE /\ status'[r] = status[r] \/ (status[r] = 0 /\ status'[r] = 500)
             /\ \E d \in 0..Bounds : todo'[r] = Observation(SeriesOf(r), AnswerOf(r)', d)
    <3>1. "status" \in Kinds(todo'[r])
      BY <2>2, KindsOfObservation
    <3>2. OwesStatus(r, k)' <=> status'[r] = k
      BY <3>1 DEF OwesStatus, Kinds
    <3>3. OwesStatus(r, k) <=> status[r] = k
      BY <1>1 DEF OwesStatus
    <3>4. QED
      BY <2>2, <3>2, <3>3
  <2>3. QED
    BY <2>1, <2>2, RecoverFacts
<1>6. QED
  BY <1>3, <1>4, <1>5, RefusedSame

LEMMA ObserveRefused ==
  ASSUME PInv, NEW r \in Reqs, Observe(r), Arrive(r) \/ Served(r), NEW k \in {429, 503}, Refused(k)
  PROVE  Refused(k)'
<1>1. Observing(r)
  BY DEF Observe, Observing
<1>2. PICK d \in 1..Bounds + 1 : todo[r] \in Remaining(SeriesOf(r), AnswerOf(r), d)
  BY <1>1 DEF PInv, TodoInv
<1>3. OwesStatus(r, k) <=> status[r] = k /\ "status" \in Kinds(todo[r])
  BY <1>1 DEF OwesStatus
<1>4. CASE todo[r] = <<>>
  <2>1. ~OwesStatus(r, k)
    BY <1>2, <1>3, <1>4, KindsFacts
  <2>2. counter' = counter /\ status'[r] = 0
    BY <1>4 DEF Observe, PInv, PipeTyped
  <2>3. ~OwesStatus(r, k)'
    BY <2>2 DEF OwesStatus
  <2>4. CodeSum(k)' = CodeSum(k)
    BY <2>2, CodeSumStep DEF PInv
  <2>5. QED
    BY <2>1, <2>2, <2>3, <2>4, RefusedSame
<1>5. CASE todo[r] # <<>>
  <2>1. /\ counter' = Incremented(Head(todo[r])) /\ todo'[r] = Tail(todo[r])
        /\ Observing(r)' /\ status'[r] = status[r]
    BY <1>1, <1>5 DEF Observe, Observing, PInv, PipeTyped
  <2> DEFINE c == Head(todo[r])
  <2>2. /\ c \in Counters /\ c[1] \in {"total", "status", "sum", "bucket"}
        /\ c = <<"status", SeriesOf(r), k>> <=> c[1] = "status" /\ k = AnswerOf(r)
    BY <1>1, <1>5, HeadAccount
  <2>3. c[1] \in Kinds(todo[r]) /\ Kinds(todo'[r]) = Kinds(todo[r]) \ {c[1]}
    BY <1>2, <1>5, <2>1, KindsFacts
  <2> HIDE DEF c
  <2>4. c \in CodeAccount(k) <=> c[1] = "status" /\ status[r] = k
    <3>1. k = AnswerOf(r) <=> status[r] = k
      BY DEF AnswerOf
    <3>2. c \in CodeAccount(k) => c[1] = "status"
      BY DEF CodeAccount
    <3>3. ASSUME c[1] = "status" PROVE c \in CodeAccount(k) <=> k = AnswerOf(r)
      <4>1. ASSUME c \in CodeAccount(k) PROVE k = AnswerOf(r)
        <5>1. PICK p \in Paths : c = <<"status", p, k>>
          BY <4>1 DEF CodeAccount
        <5>2. c = <<"status", SeriesOf(r), AnswerOf(r)>>
          BY <1>1, <1>5, <3>3, HeadAccount DEF c
        <5>3. <<"status", p, k>>[3] = <<"status", SeriesOf(r), AnswerOf(r)>>[3]
          BY <5>1, <5>2
        <5>4. QED
          BY <5>3
      <4>2. ASSUME k = AnswerOf(r) PROVE c \in CodeAccount(k)
        BY <2>2, <3>3, <4>2, PathsFacts DEF CodeAccount
      <4>3. QED
        BY <4>1, <4>2
    <3>4. QED
      BY <3>1, <3>2, <3>3
  <2>5. counter'[LimiterOf(k)] = counter[LimiterOf(k)] /\ LimiterOf(k)' = LimiterOf(k)
    <3>1. LimiterOf(k)[1] \in {"rateLimited", "overloaded"} /\ LimiterOf(k) \in Counters
      BY CodeAccountFacts DEF LimiterOf
    <3>2. LimiterOf(k) # c
      BY <2>2, <3>1
    <3>3. LimiterOf(k)' = LimiterOf(k)
      BY DEF LimiterOf
    <3>4. QED
      BY <2>1, <2>2, <3>1, <3>2, <3>3, IncrementedType DEF PInv, c
  <2>6. CodeSum(k)' = CodeSum(k) + (IF c \in CodeAccount(k) THEN 1 ELSE 0) /\ CodeSum(k) \in Nat
    BY <2>1, <2>2, CodeSumStep DEF PInv, c
  <2>7. OwesStatus(r, k)' <=> status[r] = k /\ "status" \in Kinds(todo[r]) /\ c[1] # "status"
    BY <2>1, <2>3 DEF OwesStatus, Kinds
  <2>8. CASE c[1] = "status" /\ status[r] = k
    <3>1. OwesStatus(r, k) /\ ~OwesStatus(r, k)'
      BY <1>3, <2>3, <2>7, <2>8
    <3>2. /\ Cardinality(Pending(k))' = Cardinality(Pending(k)) - 1
          /\ Cardinality(Pending(k)) \in Nat
      BY <3>1, PendingCard
    <3>3. CodeSum(k)' = CodeSum(k) + 1
      BY <2>4, <2>6, <2>8
    <3>4. QED
      BY <2>5, <2>6, <3>2, <3>3 DEF Refused
  <2>9. CASE ~(c[1] = "status" /\ status[r] = k)
    <3>1. OwesStatus(r, k) <=> OwesStatus(r, k)'
      BY <1>3, <2>7, <2>9
    <3>2. CodeSum(k)' = CodeSum(k)
      BY <2>4, <2>6, <2>9
    <3>3. QED
      BY <2>5, <3>1, <3>2, RefusedSame
  <2>10. QED
    BY <2>8, <2>9
<1>6. QED
  BY <1>4, <1>5

LEMMA RefusalStep ==
  ASSUME PInv, RefusalInv, NEW r \in Reqs, Arrive(r) \/ Served(r)
  PROVE  RefusalInv'
<1>1. Refused(429) /\ Refused(503)
  BY DEF RefusalInv, Refusals, Refused, LimiterOf, CodeSum
<1>2. ASSUME NEW k \in {429, 503}, Refused(k) PROVE Refused(k)'
  BY <1>2, ServedInwardOr, InwardRefused, RecoverRefused, ObserveRefused
<1>3. Refused(429)' /\ Refused(503)'
  BY <1>1, <1>2
<1>4. QED
  BY <1>3 DEF RefusalInv, Refusals, Refused, LimiterOf, CodeSum

-----------------------------------------------------------------------------
(* What the books give *)

LEMMA SumZero ==
  ASSUME NEW f, NEW U, IsFiniteSet(U), \A y \in U : f[y] = 0
  PROVE  SumOver(f, U) = 0
<1>1. PICK P : P = {s \in SUBSET U : SumOver(f, s) = 0}
  OBVIOUS
<1>2. ASSUME NEW s \in SUBSET U, \A x \in s : s \ {x} \in P
      PROVE  s \in P
  <2>1. Unfolds(f, s)
    BY SumUnfolds
  <2>2. s # {} => f[Pick(s)] = 0 /\ SumOver(f, s \ {Pick(s)}) = 0
    BY <1>1, <1>2, PickFacts
  <2>3. QED
    BY <1>1, <2>1, <2>2 DEF Unfolds
<1>3. \A s \in SUBSET U : s \in P
  BY <1>2, SubsetInduction
<1>4. QED
  BY <1>1, <1>3

LEMMA SumSingle ==
  ASSUME NEW f, NEW x, f[x] \in Nat
  PROVE  SumOver(f, {x}) = f[x]
<1>1. IsFiniteSet({x}) /\ Naturals(f, {x})
  BY FS_Singleton DEF Naturals
<1>2. SumOver(f, {x}) = f[x] + SumOver(f, {x} \ {x})
  BY <1>1, SumSplits
<1>3. {x} \ {x} = {}
  OBVIOUS
<1>4. QED
  BY <1>2, <1>3, SumEmpty

Books == PInv /\ BooksInv /\ RefusalInv

LEMMA InitBooks == PipeInit => Books
<1> SUFFICES ASSUME PipeInit PROVE Books
  OBVIOUS
<1>1. /\ counter = [c \in Counters |-> 0] /\ ended = [p \in Paths |-> 0]
      /\ aborted = [p \in Paths |-> 0]
  BY DEF PipeInit
<1>2. \A r \in Reqs : ~Observing(r) /\ status[r] = 0
  BY DEF PipeInit, Observing
<1>3. ASSUME NEW A \in SUBSET Counters PROVE SumOver(counter, A) = 0
  <2>1. IsFiniteSet(A) /\ \A y \in A : counter[y] = 0
    BY <1>1, CountersFinite, FS_Subset
  <2>2. QED
    BY <2>1, SumZero
<1>4. \A k, p : Booked(k, p) = 0
  BY <1>3, AccountFinite DEF Booked
<1>5. \A p : Counted(p) = {} /\ \A k : Owing(k, p) = {}
  BY <1>2 DEF Counted, Owing
<1>6. \A k \in {429, 503} : CodeSum(k) = 0
  BY <1>3, CodeAccountFacts DEF CodeSum
<1>7. \A k \in {429, 503} : Pending(k) = {}
  BY <1>2 DEF Pending
<1>8. Cardinality({}) = 0
  BY FS_EmptySet
<1>9. ASSUME NEW p \in Paths PROVE Balanced(p)
  <2>1. Due(p) = 0
    BY <1>1, <1>5, <1>8 DEF Due
  <2>2. Owing("status", p) \cup Owing("sum", p) = {}
    BY <1>5
  <2>3. ASSUME NEW k PROVE Booked(k, p) + Cardinality(Owing(k, p)) = Due(p)
    BY <1>4, <1>5, <1>8, <2>1
  <2>4. Booked("sum", p) + Cardinality(Owing("status", p) \cup Owing("sum", p)) <= Due(p)
    BY <1>4, <1>8, <2>1, <2>2
  <2>5. QED
    BY <2>3, <2>4 DEF Balanced
<1>10. BooksInv
  BY <1>9 DEF BooksInv, Balanced
<1>11. ASSUME NEW k \in {429, 503} PROVE Refused(k)
  <2>1. counter[LimiterOf(k)] = 0
    BY <1>1, CodeAccountFacts
  <2>2. QED
    BY <1>6, <1>7, <1>8, <2>1 DEF Refused
<1>12. Refused(429) /\ Refused(503)
  BY <1>11
<1>13. RefusalInv
  BY <1>12 DEF RefusalInv, Refusals, Refused, LimiterOf, CodeSum
<1>14. QED
  BY <1>10, <1>13, InitPInv DEF Books

LEMMA NextBooks == Books /\ [PipeNext]_AllVars => Books'
<1> SUFFICES ASSUME Books, [PipeNext]_AllVars PROVE Books'
  OBVIOUS
<1>1. PInv'
  BY NextPInv DEF Books
<1>2. ASSUME NEW r \in Reqs, Arrive(r) \/ Served(r)
      PROVE  BooksInv' /\ RefusalInv'
  BY <1>2, BalancedStep, RefusalStep DEF Books
<1>3. ASSUME UNCHANGED pvars
      PROVE  BooksInv' /\ RefusalInv'
  <2>1. BooksInv'
    <3>1. ASSUME NEW p \in Paths PROVE Balanced(p)'
      <4>1. \A k : Booked(k, p)' = Booked(k, p)
        BY <1>3, AccountConstant DEF Booked, pvars
      <4>2. Counted(p)' = Counted(p)
        BY <1>3 DEF Counted, Observing, SeriesOf, Paths, pvars
      <4>3. \A k : Owing(k, p)' = Owing(k, p)
        BY <1>3, <4>2 DEF Owing, Kinds, pvars
      <4>4. Due(p)' = Due(p)
        BY <1>3, <4>2 DEF Due, pvars
      <4>5. Balanced(p)
        BY DEF Books, BooksInv, Balanced
      <4>6. QED
        BY <4>1, <4>3, <4>4, <4>5, BalancedSame
    <3>2. BooksInv' = \A p \in Paths : Balanced(p)'
      BY DEF BooksInv, Balanced, Paths
    <3>3. QED
      BY <3>1, <3>2
  <2>2. RefusalInv'
    BY <1>3 DEF Books, RefusalInv, Refusals, CodeAccount, Paths, Pending, Observing, Kinds, pvars
  <2>3. QED
    BY <2>1, <2>2
<1>4. BooksInv' /\ RefusalInv'
  BY <1>2, <1>3 DEF PipeNext, Quiet, AllVars
<1>5. QED
  BY <1>1, <1>4 DEF Books

LEMMA BooksInvariance == PipeSpec => []Books
<1>1. Books /\ [PipeNext]_<<Limits, pvars>> => Books'
  BY NextBooks DEF AllVars
<1>2. QED
  BY <1>1, InitBooks, PTL DEF PipeSpec

\* A path has one total and one sum.
LEMMA OneCounter ==
  ASSUME PipeTyped, NEW k \in {"total", "sum"}, NEW p \in Paths
  PROVE  /\ <<k, p>> \in Counters
         /\ Booked(k, p) = counter[<<k, p>>]
<1>1. <<k, p>> \in Counters
  BY DEF Counters
<1>2. ASSUME NEW c \in Counters, c[1] = k, c[2] = p
      PROVE  c = <<k, p>>
  <2>1. CASE c \in {<<n, q>> : n \in {"total", "sum"}, q \in Paths}
    BY <1>2, <2>1
  <2>2. CASE c \in {<<"rateLimited">>, <<"overloaded">>, <<"panics">>}
    BY <1>2, <2>2
  <2>3. CASE c \in {<<"status", q, code>> : q \in Paths, code \in Codes}
    BY <1>2, <2>3
  <2>4. CASE c \in {<<"bucket", q, i>> : q \in Paths, i \in 1..Bounds + 1}
    BY <1>2, <2>4
  <2>5. QED
    BY <2>1, <2>2, <2>3, <2>4 DEF Counters
<1>3. Account(k, p) = {<<k, p>>}
  BY <1>1, <1>2 DEF Account
<1>4. counter[<<k, p>>] \in Nat
  BY <1>1 DEF PipeTyped
<1>5. QED
  BY <1>1, <1>3, <1>4, SumSingle DEF Booked

LEMMA AccountSums ==
  ASSUME PipeTyped, NEW p
  PROVE  Answers(counter, p) = Booked("status", p) /\ Histogram(counter, p) = Booked("bucket", p)
<1>1. DOMAIN counter = Counters
  BY DEF PipeTyped
<1>2. QED
  BY <1>1 DEF Answers, Histogram, Booked, Account

\* When no request is left each has been counted once, in each of its counters, and
\* each refusal once, for any number of requests, paths, codes and bounds.
THEOREM CountedExactlyOnce == PipeSpec => []CountedOnce
<1>1. Books => CountedOnce
  <2> SUFFICES ASSUME Books, \A r \in Reqs : stage[r] = "idle"
               PROVE  /\ \A p \in Paths : /\ counter[<<"total", p>>] = ended[p] - aborted[p]
                                          /\ Answers(counter, p) = counter[<<"total", p>>]
                                          /\ Histogram(counter, p) = counter[<<"total", p>>]
                      /\ counter[<<"rateLimited">>]
                           = SumOver(counter, {<<"status", p, 429>> : p \in Paths})
                      /\ counter[<<"overloaded">>]
                           = SumOver(counter, {<<"status", p, 503>> : p \in Paths})
    BY DEF CountedOnce
  <2>1. \A r \in Reqs : ~Observing(r) /\ status[r] = 0
    BY DEF Observing, Books, PInv, AnswerInv
  <2>2. Cardinality({}) = 0
    BY FS_EmptySet
  <2>3. ASSUME NEW p \in Paths
        PROVE  /\ counter[<<"total", p>>] = ended[p] - aborted[p]
               /\ Answers(counter, p) = counter[<<"total", p>>]
               /\ Histogram(counter, p) = counter[<<"total", p>>]
    <3>1. Counted(p) = {} /\ \A k : Owing(k, p) = {}
      BY <2>1 DEF Counted, Owing
    <3>2. ended[p] - aborted[p] \in Int
      BY DEF Books, PInv, PipeTyped
    <3>3. Due(p) = ended[p] - aborted[p]
      BY <2>2, <3>1, <3>2 DEF Due
    <3>4. ASSUME NEW k \in {"total", "status", "bucket"} PROVE Booked(k, p) = Due(p)
      <4>1. Booked(k, p) + Cardinality(Owing(k, p)) = Due(p)
        BY DEF Books, BooksInv
      <4>2. Booked(k, p) \in Nat
        BY BookedNat DEF Books, PInv
      <4>3. QED
        BY <2>2, <3>1, <4>1, <4>2
    <3>5. QED
      BY <3>3, <3>4, OneCounter, AccountSums DEF Books, PInv
  <2>4. ASSUME NEW k \in {429, 503}, NEW c \in Counters, Refusals(c, k)
        PROVE  counter[c] = SumOver(counter, CodeAccount(k))
    <3>1. Pending(k) = {}
      BY <2>1 DEF Pending
    <3>2. CodeSum(k) \in Nat
      BY CodeSumStep DEF Books, PInv
    <3>3. QED
      BY <2>2, <2>4, <3>1, <3>2 DEF Refusals, CodeSum
  <2>5. /\ counter[<<"rateLimited">>] = SumOver(counter, CodeAccount(429))
        /\ counter[<<"overloaded">>] = SumOver(counter, CodeAccount(503))
    BY <2>4, RefusalCounters DEF Books, RefusalInv
  <2>6. QED
    BY <2>3, <2>5 DEF CodeAccount
<1>2. QED
  BY <1>1, BooksInvariance, PTL

-----------------------------------------------------------------------------
(* Enumerations and concatenations *)

\* Induction on the numbers up to a bound.
LEMMA UpTo ==
  ASSUME NEW n \in Nat, NEW P, n > 0 => 1 \in P, \A m \in 1..n : m < n /\ m \in P => m + 1 \in P
  PROVE  \A m \in 1..n : m \in P
<1> DEFINE bad == {m \in 1..n : m \notin P}
<1>1. SUFFICES ASSUME bad # {} PROVE FALSE
  OBVIOUS
<1>2. bad \in SUBSET Nat
  OBVIOUS
<1>3. PICK m \in bad : \A i \in bad : m <= i
  <2> HIDE DEF bad
  <2> QED BY <1>1, <1>2, Least
<1>4. m \in 1..n /\ m \notin P /\ m # 1
  BY <1>3
<1>5. m - 1 \in 1..n /\ m - 1 < n /\ ~(m <= m - 1)
  BY <1>4
<1>6. m - 1 \in P
  BY <1>3, <1>5
<1>7. QED
  BY <1>4, <1>5, <1>6

LEMMA Greatest ==
  ASSUME NEW U \in SUBSET Nat, IsFiniteSet(U), U # {}
  PROVE  \E m \in U : \A i \in U : i <= m
<1>1. PICK P : P = {s \in SUBSET U : s = {} \/ \E m \in s : \A i \in s : i <= m}
  OBVIOUS
<1>2. ASSUME NEW s \in SUBSET U, \A x \in s : s \ {x} \in P
      PROVE  s \in P
  <2>1. SUFFICES ASSUME s # {} PROVE \E m \in s : \A i \in s : i <= m
    BY <1>1
  <2>2. PICK x : x \in s
    BY <2>1
  <2>3. CASE s \ {x} = {}
    BY <2>2, <2>3
  <2>4. CASE s \ {x} # {}
    <3>1. PICK m \in s \ {x} : \A i \in s \ {x} : i <= m
      BY <1>1, <1>2, <2>2, <2>4
    <3>2. m \in Nat /\ x \in Nat
      BY <2>2
    <3>3. CASE m <= x
      <4>1. \A i \in s : i <= x
        BY <3>1, <3>2, <3>3
      <4>2. QED
        BY <2>2, <4>1
    <3>4. CASE ~(m <= x)
      <4>1. \A i \in s : i <= m
        BY <3>1, <3>2, <3>4
      <4>2. QED
        BY <4>1
    <3>5. QED
      BY <3>3, <3>4
  <2>5. QED
    BY <2>3, <2>4
<1>3. \A s \in SUBSET U : s \in P
  BY <1>2, SubsetInduction
<1>4. QED
  BY <1>1, <1>3

Increasing(f, S) ==
  /\ f \in [1..Cardinality(S) -> S]
  /\ \A i, j \in 1..Cardinality(S) : i < j => f[i] < f[j]

\* A finite set of numbers can be sorted.
LEMMA Sorting ==
  ASSUME NEW U \in SUBSET Nat, IsFiniteSet(U)
  PROVE  \E f : Increasing(f, U)
<1>1. PICK P : P = {s \in SUBSET U : \E f : Increasing(f, s)}
  OBVIOUS
<1>2. ASSUME NEW s \in SUBSET U, \A x \in s : s \ {x} \in P
      PROVE  s \in P
  <2>1. SUFFICES \E f : Increasing(f, s)
    BY <1>1
  <2>2. IsFiniteSet(s) /\ Cardinality(s) \in Nat
    BY FS_Subset, FS_CardinalityType
  <2>3. CASE s = {}
    <3>1. Cardinality(s) = 0
      BY <2>3, FS_EmptySet
    <3>2. Increasing([i \in 1..Cardinality(s) |-> i], s)
      BY <3>1 DEF Increasing
    <3>3. QED
      BY <3>2
  <2>4. CASE s # {}
    <3>1. PICK x \in s : \A i \in s : i <= x
      BY <2>2, <2>4, Greatest
    <3>2. PICK t : t = s \ {x}
      OBVIOUS
    <3>3. PICK g : Increasing(g, t)
      BY <1>1, <1>2, <3>2
    <3>4. PICK n \in Nat : Cardinality(t) = n /\ Cardinality(s) = n + 1
      <4>1. Cardinality(t) = Cardinality(s) - 1 /\ Cardinality(t) \in Nat
        BY <2>2, <3>2, FS_RemoveElement, FS_CardinalityType
      <4>2. QED
        BY <2>2, <4>1
    <3>5. /\ g \in [1..n -> t] /\ \A i, j \in 1..n : i < j => g[i] < g[j]
      BY <3>3, <3>4 DEF Increasing
    <3>6. PICK f : f = [i \in 1..n + 1 |-> IF i = n + 1 THEN x ELSE g[i]]
      OBVIOUS
    <3>7. f \in [1..n + 1 -> s]
      BY <3>2, <3>5, <3>6
    <3>8. ASSUME NEW i \in 1..n + 1, NEW j \in 1..n + 1, i < j
          PROVE  f[i] < f[j]
      <4>1. i \in 1..n /\ f[i] = g[i] /\ g[i] \in t
        BY <3>5, <3>6, <3>8
      <4>2. CASE j = n + 1
        <5>1. f[j] = x /\ g[i] <= x /\ g[i] # x /\ g[i] \in Nat /\ x \in Nat
          BY <3>1, <3>2, <3>6, <4>1, <4>2
        <5>2. QED
          BY <4>1, <5>1
      <4>3. CASE j # n + 1
        BY <3>5, <3>6, <3>8, <4>1, <4>3
      <4>4. QED
        BY <4>2, <4>3
    <3>9. Increasing(f, s)
      BY <3>4, <3>7, <3>8 DEF Increasing
    <3>10. QED
      BY <3>9
  <2>5. QED
    BY <2>3, <2>4
<1>3. \A s \in SUBSET U : s \in P
  BY <1>2, SubsetInduction
<1>4. QED
  BY <1>1, <1>3

\* The codes of a path on the page are codes that were counted.
LEMMA CodesSeenFacts ==
  ASSUME PipeTyped, NEW p \in Paths
  PROVE  CodesSeen(p) \in Seq(Codes)
<1>1. PICK seen : seen = {code \in Codes : counter[<<"status", p, code>>] > 0}
  OBVIOUS
<1>2. seen \in SUBSET Nat /\ IsFiniteSet(seen) /\ seen \subseteq Codes
  BY <1>1, CodesFacts, CodesFinite, FS_Subset
<1>3. \E f : Increasing(f, seen)
  BY <1>2, Sorting
<1>4. CodesSeen(p) \in [1..Cardinality(seen) -> seen]
  BY <1>1, <1>3 DEF CodesSeen, Increasing
<1>5. Cardinality(seen) \in Nat
  BY <1>2, FS_CardinalityType
<1>6. CodesSeen(p) \in [1..Cardinality(seen) -> Codes]
  BY <1>2, <1>4
<1>7. QED
  BY <1>5, <1>6

IsFlat(f, seqs, n) == f = [i \in 1..n |-> IF i = 1 THEN seqs[i] ELSE f[i - 1] \o seqs[i]]

\* The concatenation of the first sequences, one more at a time.
LEMMA Flattening ==
  ASSUME NEW seqs, Len(seqs) \in Nat \ {0}
  PROVE  \E f : IsFlat(f, seqs, Len(seqs)) /\ FlattenSeq(seqs) = f[Len(seqs)]
<1>1. PICK n \in Nat : n = Len(seqs) /\ n # 0
  OBVIOUS
<1>2. PICK P : P = {m \in 1..n : \E f : IsFlat(f, seqs, m)}
  OBVIOUS
<1>3. 1 \in P
  <2>1. IsFlat([i \in 1..1 |-> seqs[i]], seqs, 1)
    BY DEF IsFlat
  <2>2. QED
    BY <1>1, <1>2, <2>1
<1>4. ASSUME NEW m \in 1..n, m < n, m \in P
      PROVE  m + 1 \in P
  <2>1. PICK f : IsFlat(f, seqs, m)
    BY <1>2, <1>4
  <2>2. PICK g : g = [i \in 1..m + 1 |-> IF i = m + 1 THEN f[m] \o seqs[i] ELSE f[i]]
    OBVIOUS
  <2>3. ASSUME NEW i \in 1..m + 1
        PROVE  g[i] = IF i = 1 THEN seqs[i] ELSE g[i - 1] \o seqs[i]
    <3>1. CASE i = m + 1
      <4>1. i # 1 /\ g[i] = f[m] \o seqs[i] /\ m \in 1..m + 1 /\ m # m + 1 /\ i - 1 = m
        <5>1. m \in Nat /\ m >= 1
          OBVIOUS
        <5>2. i # 1 /\ m \in 1..m + 1 /\ m # m + 1 /\ i - 1 = m
          BY <3>1, <5>1
        <5>3. g[i] = f[m] \o seqs[i]
          BY <2>2, <3>1, Zenon
        <5>4. QED
          BY <5>2, <5>3
      <4>2. g[m] = f[m]
        BY <2>2, <4>1
      <4>3. QED
        BY <4>1, <4>2
    <3>2. CASE i # m + 1
      <4>1. i \in 1..m /\ g[i] = f[i]
        BY <2>2, <3>2
      <4>2. f[i] = IF i = 1 THEN seqs[i] ELSE f[i - 1] \o seqs[i]
        BY <2>1, <4>1 DEF IsFlat
      <4>3. i # 1 => g[i - 1] = f[i - 1]
        BY <2>2, <4>1
      <4>4. QED
        BY <4>1, <4>2, <4>3
    <3>3. QED
      BY <3>1, <3>2
  <2>4. g = [i \in 1..m + 1 |-> IF i = 1 THEN seqs[i] ELSE g[i - 1] \o seqs[i]]
    BY <2>2, <2>3
  <2>5. m + 1 \in 1..n
    BY <1>4
  <2>6. QED
    BY <1>2, <2>4, <2>5 DEF IsFlat
<1>5. n \in P
  BY <1>1, <1>3, <1>4, UpTo
<1>6. \E f : IsFlat(f, seqs, n)
  BY <1>2, <1>5
<1>7. PICK f : f = CHOOSE g : IsFlat(g, seqs, n)
  OBVIOUS
<1>8. IsFlat(f, seqs, n)
  BY <1>6, <1>7
<1>9. FlattenSeq(seqs) = f[n]
  BY <1>1, <1>7 DEF FlattenSeq, IsFlat
<1>10. QED
  BY <1>1, <1>8, <1>9

-----------------------------------------------------------------------------
(* What a scrape reads, and in which order *)

TotalOf(p) == <<"total", p>>
SumOf(p)   == <<"sum", p>>

Tokens == Counters \cup {<<"codes", p>> : p \in Paths}

Concerns(c, p) == c[1] \in {"codes", "status", "bucket", "sum", "total"} /\ c[2] = p

\* Nothing of a path is read after its count, and its time before it; read is what
\* has been read already.
Tidy(s, read) ==
  /\ s \in Seq(Tokens)
  /\ \A i, j \in 1..Len(s), p \in Paths : i < j /\ s[i] = TotalOf(p) => ~Concerns(s[j], p)
  /\ \A i \in 1..Len(s), p \in Paths : s[i] = TotalOf(p) =>
       SumOf(p) \in read \/ \E j \in 1..Len(s) : j < i /\ s[j] = SumOf(p)

LEMMA TidyPlain ==
  ASSUME NEW s \in Seq(Tokens), NEW read, \A i \in 1..Len(s), p \in Paths : s[i] # TotalOf(p)
  PROVE  Tidy(s, read)
BY DEF Tidy

LEMMA TidyConcat ==
  ASSUME NEW s, NEW t, NEW read, Tidy(s, read), Tidy(t, read),
         \A i \in 1..Len(s), j \in 1..Len(t), p \in Paths :
            s[i] = TotalOf(p) => ~Concerns(t[j], p)
  PROVE  Tidy(s \o t, read)
<1> DEFINE u == s \o t
<1>1. s \in Seq(Tokens) /\ t \in Seq(Tokens) /\ Len(s) \in Nat /\ Len(t) \in Nat
  BY DEF Tidy
<1>2. /\ u \in Seq(Tokens) /\ Len(u) = Len(s) + Len(t)
      /\ \A i \in 1..Len(u) : u[i] = IF i <= Len(s) THEN s[i] ELSE t[i - Len(s)]
  BY <1>1, ConcatProperties
<1> HIDE DEF u
<1>3. ASSUME NEW i \in 1..Len(u), NEW j \in 1..Len(u), NEW p \in Paths, i < j, u[i] = TotalOf(p)
      PROVE  ~Concerns(u[j], p)
  <2>1. CASE j <= Len(s)
    <3>1. i \in 1..Len(s) /\ j \in 1..Len(s) /\ u[i] = s[i] /\ u[j] = s[j]
      BY <1>1, <1>2, <1>3, <2>1
    <3>2. QED
      BY <1>3, <3>1 DEF Tidy
  <2>2. CASE i <= Len(s) /\ ~(j <= Len(s))
    <3>1. i \in 1..Len(s) /\ j - Len(s) \in 1..Len(t) /\ u[i] = s[i] /\ u[j] = t[j - Len(s)]
      BY <1>1, <1>2, <1>3, <2>2
    <3>2. QED
      BY <1>3, <3>1
  <2>3. CASE ~(i <= Len(s))
    <3>1. /\ i - Len(s) \in 1..Len(t) /\ j - Len(s) \in 1..Len(t) /\ i - Len(s) < j - Len(s)
          /\ u[i] = t[i - Len(s)] /\ u[j] = t[j - Len(s)]
      BY <1>1, <1>2, <1>3, <2>3
    <3>2. QED
      BY <1>3, <3>1 DEF Tidy
  <2>4. QED
    BY <2>1, <2>2, <2>3
<1>4. ASSUME NEW i \in 1..Len(u), NEW p \in Paths, u[i] = TotalOf(p)
      PROVE  SumOf(p) \in read \/ \E j \in 1..Len(u) : j < i /\ u[j] = SumOf(p)
  <2>1. CASE i <= Len(s)
    <3>1. i \in 1..Len(s) /\ u[i] = s[i]
      BY <1>1, <1>2, <2>1
    <3>2. CASE \E j \in 1..Len(s) : j < i /\ s[j] = SumOf(p)
      BY <1>1, <1>2, <3>2
    <3>3. QED
      BY <1>4, <3>1, <3>2 DEF Tidy
  <2>2. CASE ~(i <= Len(s))
    <3>1. i - Len(s) \in 1..Len(t) /\ u[i] = t[i - Len(s)]
      BY <1>1, <1>2, <2>2
    <3>2. CASE \E j \in 1..Len(t) : j < i - Len(s) /\ t[j] = SumOf(p)
      <4>1. PICK j \in 1..Len(t) : j < i - Len(s) /\ t[j] = SumOf(p)
        BY <3>2
      <4>2. j + Len(s) \in 1..Len(u) /\ j + Len(s) < i /\ ~(j + Len(s) <= Len(s))
            /\ (j + Len(s)) - Len(s) = j
        BY <1>1, <1>2, <4>1
      <4>3. u[j + Len(s)] = SumOf(p)
        BY <1>2, <4>1, <4>2
      <4>4. QED
        BY <4>2, <4>3
    <3>3. QED
      BY <1>4, <3>1, <3>2 DEF Tidy
  <2>3. QED
    BY <2>1, <2>2
<1>5. Tidy(u, read)
  BY <1>2, <1>3, <1>4 DEF Tidy
<1>6. QED
  BY <1>5 DEF u

LEMMA TidyTail ==
  ASSUME NEW s, NEW read, Tidy(s, read), s # <<>>
  PROVE  Tidy(Tail(s), read \cup {Head(s)})
<1> DEFINE t == Tail(s)
<1>1. /\ s \in Seq(Tokens) /\ t \in Seq(Tokens) /\ Len(s) \in Nat /\ Len(t) = Len(s) - 1
      /\ \A i \in 1..Len(t) : t[i] = s[i + 1]
      /\ Head(s) = s[1]
  BY HeadTailProperties DEF Tidy
<1> HIDE DEF t
<1>2. ASSUME NEW i \in 1..Len(t), NEW j \in 1..Len(t), NEW p \in Paths, i < j, t[i] = TotalOf(p)
      PROVE  ~Concerns(t[j], p)
  <2>1. i + 1 \in 1..Len(s) /\ j + 1 \in 1..Len(s) /\ i + 1 < j + 1 /\ t[i] = s[i + 1] /\ t[j] = s[j + 1]
    BY <1>1, <1>2
  <2>2. QED
    BY <1>2, <2>1 DEF Tidy
<1>3. ASSUME NEW i \in 1..Len(t), NEW p \in Paths, t[i] = TotalOf(p)
      PROVE  SumOf(p) \in read \cup {Head(s)} \/ \E j \in 1..Len(t) : j < i /\ t[j] = SumOf(p)
  <2>1. i + 1 \in 1..Len(s) /\ t[i] = s[i + 1]
    BY <1>1
  <2>2. CASE \E j \in 1..Len(s) : j < i + 1 /\ s[j] = SumOf(p)
    <3>1. PICK j \in 1..Len(s) : j < i + 1 /\ s[j] = SumOf(p)
      BY <2>2
    <3>2. CASE j = 1
      BY <1>1, <3>1, <3>2
    <3>3. CASE j # 1
      <4>1. j - 1 \in 1..Len(t) /\ j - 1 < i /\ (j - 1) + 1 = j
        BY <1>1, <3>1, <3>3
      <4>2. t[j - 1] = SumOf(p)
        BY <1>1, <3>1, <4>1
      <4>3. QED
        BY <4>1, <4>2
    <3>4. QED
      BY <3>2, <3>3
  <2>3. QED
    BY <1>3, <2>1, <2>2 DEF Tidy
<1>4. Tidy(t, read \cup {Head(s)})
  BY <1>1, <1>2, <1>3 DEF Tidy
<1>5. QED
  BY <1>4 DEF t

LEMMA TokenKinds ==
  ASSUME NEW p
  PROVE  /\ TotalOf(p)[1] = "total" /\ TotalOf(p)[2] = p
         /\ SumOf(p)[1] = "sum" /\ SumOf(p)[2] = p
         /\ Concerns(TotalOf(p), p) /\ Concerns(SumOf(p), p)
BY DEF TotalOf, SumOf, Concerns

\* A block of the page: the histogram of a path, its time and its count.
BucketsOf(q) == [j \in 1..Bounds + 1 |-> <<"bucket", q, j>>]
Block(q)     == BucketsOf(q) \o <<SumOf(q), TotalOf(q)>>

LEMMA BlockFacts ==
  ASSUME NEW q \in Paths
  PROVE  /\ Tidy(Block(q), {})
         /\ \A j \in 1..Len(Block(q)), p \in Paths : Concerns(Block(q)[j], p) => p = q
<1>1. /\ BucketsOf(q) \in Seq(Tokens) /\ Len(BucketsOf(q)) = Bounds + 1 /\ Bounds \in Nat
      /\ \A j \in 1..Bounds + 1 : BucketsOf(q)[j] = <<"bucket", q, j>>
  <2>1. \A j \in 1..Bounds + 1 : <<"bucket", q, j>> \in Tokens
    BY DEF Tokens, Counters
  <2>2. Bounds \in Nat
    BY BoundsAssumption
  <2>3. BucketsOf(q) \in [1..Bounds + 1 -> Tokens]
    BY <2>1 DEF BucketsOf
  <2>4. QED
    BY <2>2, <2>3 DEF BucketsOf
<1>2. SumOf(q) \in Tokens /\ TotalOf(q) \in Tokens
  BY DEF SumOf, TotalOf, Tokens, Counters
<1>3. \A j \in 1..Bounds + 1, p \in Paths :
         BucketsOf(q)[j] # TotalOf(p) /\ (Concerns(BucketsOf(q)[j], p) => p = q)
  <2>1. ASSUME NEW j \in 1..Bounds + 1, NEW p \in Paths
        PROVE  BucketsOf(q)[j] # TotalOf(p) /\ (Concerns(BucketsOf(q)[j], p) => p = q)
    <3>1. BucketsOf(q)[j][1] = "bucket" /\ BucketsOf(q)[j][2] = q
      BY <1>1
    <3>2. QED
      BY <3>1, TokenKinds DEF Concerns
  <2>2. QED
    BY <2>1
<1>4. PICK e : e = <<SumOf(q), TotalOf(q)>>
  OBVIOUS
<1>5. e \in Seq(Tokens) /\ Len(e) = 2 /\ e[1] = SumOf(q) /\ e[2] = TotalOf(q)
  BY <1>2, <1>4
<1>6. \A p : /\ SumOf(q) # TotalOf(p) /\ (TotalOf(q) = TotalOf(p) => p = q)
             /\ (Concerns(SumOf(q), p) => p = q) /\ (Concerns(TotalOf(q), p) => p = q)
  BY TokenKinds DEF Concerns
<1>7. Tidy(BucketsOf(q), {})
  BY <1>1, <1>3, TidyPlain
<1>8. Tidy(e, {})
  <2>1. \A i, j \in 1..2, p \in Paths : i < j /\ e[i] = TotalOf(p) => ~Concerns(e[j], p)
    BY <1>5, <1>6
  <2>2. \A i \in 1..2, p \in Paths : e[i] = TotalOf(p) =>
           SumOf(p) \in {} \/ \E j \in 1..2 : j < i /\ e[j] = SumOf(p)
    BY <1>5, <1>6
  <2>3. QED
    BY <1>5, <2>1, <2>2 DEF Tidy
<1>9. Tidy(Block(q), {})
  BY <1>1, <1>3, <1>4, <1>7, <1>8, TidyConcat DEF Block
<1>10. /\ Len(Block(q)) = Bounds + 3
       /\ \A j \in 1..Bounds + 3 :
            Block(q)[j] = IF j <= Bounds + 1 THEN BucketsOf(q)[j] ELSE e[j - (Bounds + 1)]
  BY <1>1, <1>4, <1>5, ConcatProperties DEF Block
<1>11. ASSUME NEW j \in 1..Bounds + 3, NEW p \in Paths, Concerns(Block(q)[j], p)
       PROVE  p = q
  <2>1. CASE j <= Bounds + 1
    BY <1>1, <1>3, <1>10, <1>11, <2>1
  <2>2. CASE ~(j <= Bounds + 1)
    <3>1. j - (Bounds + 1) \in {1, 2}
      BY <1>1, <2>2
    <3>2. Block(q)[j] \in {SumOf(q), TotalOf(q)}
      BY <1>5, <1>10, <2>2, <3>1
    <3>3. QED
      BY <1>6, <1>11, <3>2
  <2>3. QED
    BY <2>1, <2>2
<1>12. QED
  BY <1>9, <1>10, <1>11

Blocks == [i \in 1..Len(Series) |-> Block(Series[i])]

LEMMA SeriesFacts ==
  /\ Len(Series) \in Nat \ {0}
  /\ \A i \in 1..Len(Series) : Series[i] \in Paths
  /\ \A i, j \in 1..Len(Series) : Series[i] = Series[j] => i = j
<1>1. /\ Series \in Seq(STRING) /\ IsInjective(Series) /\ Range(Series) # {}
  BY SeriesAssumption
<1>2. DOMAIN Series = 1..Len(Series) /\ Len(Series) \in Nat
  BY <1>1
<1>3. Len(Series) # 0
  BY <1>1, <1>2 DEF Range
<1>4. \A i \in 1..Len(Series) : Series[i] \in Paths
  BY <1>2 DEF Paths, Range
<1>5. \A i, j \in 1..Len(Series) : Series[i] = Series[j] => i = j
  BY <1>1, <1>2 DEF IsInjective
<1>6. QED
  BY <1>2, <1>3, <1>4, <1>5

\* The blocks of the first paths, put together, are in order and about these paths.
LEMMA FlatTidy ==
  ASSUME NEW f, IsFlat(f, Blocks, Len(Series))
  PROVE  Tidy(f[Len(Series)], {})
<1> DEFINE n == Len(Series)
           About(m) == \A j \in 1..Len(f[m]), p \in Paths :
                          Concerns(f[m][j], p) => \E l \in 1..m : p = Series[l]
<1>1. PICK P : P = {m \in 1..n : Tidy(f[m], {}) /\ About(m)}
  OBVIOUS
<1>2. n \in Nat /\ n # 0
  BY SeriesFacts
<1>3. ASSUME NEW m \in 1..n
      PROVE  /\ f[m] = IF m = 1 THEN Block(Series[m]) ELSE f[m - 1] \o Block(Series[m])
             /\ Series[m] \in Paths
  BY SeriesFacts DEF IsFlat, Blocks
<1>4. 1 \in P
  <2>1. 1 \in 1..n
    BY <1>2
  <2>2. f[1] = Block(Series[1]) /\ Series[1] \in Paths
    BY <1>3, <2>1
  <2>3. Tidy(f[1], {}) /\ \A j \in 1..Len(f[1]), p \in Paths : Concerns(f[1][j], p) => p = Series[1]
    BY <2>2, BlockFacts
  <2>4. About(1)
    BY <2>3
  <2>5. QED
    BY <1>1, <2>1, <2>3, <2>4
<1>5. ASSUME NEW m \in 1..n, m < n, m \in P
      PROVE  m + 1 \in P
  <2>1. PICK k \in 1..n : k = m + 1 /\ k # 1 /\ k - 1 = m
    BY <1>2, <1>5
  <2>2. PICK b : b = Block(Series[k])
    OBVIOUS
  <2>3. PICK g : g = f[m]
    OBVIOUS
  <2>4. f[k] = g \o b
    BY <1>3, <2>1, <2>2, <2>3
  <2>5. /\ Tidy(g, {})
        /\ \A j \in 1..Len(g), p \in Paths : Concerns(g[j], p) => \E l \in 1..m : p = Series[l]
    BY <1>1, <1>5, <2>3
  <2>6. Tidy(b, {}) /\ \A j \in 1..Len(b), p \in Paths : Concerns(b[j], p) => p = Series[k]
    BY <1>3, <2>2, BlockFacts
  <2>7. ASSUME NEW i \in 1..Len(g), NEW j \in 1..Len(b), NEW p \in Paths, g[i] = TotalOf(p)
        PROVE  ~Concerns(b[j], p)
    <3>1. Concerns(g[i], p)
      BY <2>7, TokenKinds
    <3>2. PICK l \in 1..m : p = Series[l]
      BY <2>5, <3>1
    <3>3. l \in 1..n /\ l # k
      BY <2>1, <3>2
    <3>4. p # Series[k]
      BY <3>2, <3>3, SeriesFacts
    <3>5. QED
      BY <2>6, <3>4
  <2>8. Tidy(f[k], {})
    BY <2>4, <2>5, <2>6, <2>7, TidyConcat
  <2>9. /\ Len(f[k]) = Len(g) + Len(b) /\ Len(g) \in Nat /\ Len(b) \in Nat
        /\ \A j \in 1..Len(f[k]) : f[k][j] = IF j <= Len(g) THEN g[j] ELSE b[j - Len(g)]
    <3>1. g \in Seq(Tokens) /\ b \in Seq(Tokens)
      BY <2>5, <2>6 DEF Tidy
    <3>2. QED
      BY <2>4, <3>1, ConcatProperties
  <2>10. ASSUME NEW j \in 1..Len(f[k]), NEW p \in Paths, Concerns(f[k][j], p)
         PROVE  \E l \in 1..k : p = Series[l]
    <3>1. CASE j <= Len(g)
      <4>1. j \in 1..Len(g) /\ f[k][j] = g[j]
        BY <2>9, <3>1
      <4>2. PICK l \in 1..m : p = Series[l]
        BY <2>5, <2>10, <4>1
      <4>3. l \in 1..k
        BY <2>1
      <4>4. QED
        BY <4>2, <4>3
    <3>2. CASE ~(j <= Len(g))
      <4>1. j - Len(g) \in 1..Len(b) /\ f[k][j] = b[j - Len(g)]
        BY <2>9, <3>2
      <4>2. p = Series[k]
        BY <2>6, <2>10, <4>1
      <4>3. k \in 1..k
        BY <2>1
      <4>4. QED
        BY <4>2, <4>3
    <3>3. QED
      BY <3>1, <3>2
  <2>11. About(k)
    BY <2>10
  <2>12. QED
    BY <1>1, <2>1, <2>8, <2>11
<1>6. n \in 1..n
  BY <1>2
<1>7. n \in P
  <2> HIDE DEF n, About
  <2> QED BY <1>2, <1>4, <1>5, <1>6, UpTo
<1>8. QED
  BY <1>1, <1>7

LEMMA RenderingTidy == Tidy(Rendering, {})
<1> DEFINE a == <<<<"rateLimited">>, <<"overloaded">>, <<"panics">>>>
           b == [i \in 1..Len(Series) |-> <<"codes", Series[i]>>]
           c == FlattenSeq(Blocks)
<1>1. Rendering = (a \o b) \o c
  <2>1. Blocks = [i \in 1..Len(Series) |->
                    [j \in 1..Bounds + 1 |-> <<"bucket", Series[i], j>>]
                      \o <<<<"sum", Series[i]>>, <<"total", Series[i]>>>>]
    BY DEF Blocks, Block, BucketsOf, SumOf, TotalOf
  <2>2. QED
    BY <2>1 DEF Rendering
<1>2. Len(Blocks) = Len(Series) /\ Len(Series) \in Nat \ {0}
  BY SeriesFacts DEF Blocks
<1>3. PICK f : IsFlat(f, Blocks, Len(Series)) /\ c = f[Len(Series)]
  BY <1>2, Flattening
<1>4. Tidy(c, {})
  BY <1>3, FlatTidy
<1>5. a \in Seq(Tokens) /\ \A i \in 1..Len(a), p \in Paths : a[i] # TotalOf(p)
  <2>1. <<"rateLimited">> \in Tokens /\ <<"overloaded">> \in Tokens /\ <<"panics">> \in Tokens
    BY RefusalCounters DEF Tokens
  <2>2. ASSUME NEW x \in Tokens, NEW y \in Tokens, NEW z \in Tokens
        PROVE  /\ <<x, y, z>> \in Seq(Tokens) /\ Len(<<x, y, z>>) = 3
               /\ \A i \in 1..3 : <<x, y, z>>[i] \in {x, y, z}
    OBVIOUS
  <2>3. /\ a \in Seq(Tokens) /\ Len(a) = 3
        /\ \A i \in 1..3 : a[i] \in {<<"rateLimited">>, <<"overloaded">>, <<"panics">>}
    BY <2>1, <2>2
  <2>4. \A x \in {<<"rateLimited">>, <<"overloaded">>, <<"panics">>} : x[1] # "total"
    OBVIOUS
  <2>5. QED
    BY <2>3, <2>4, TokenKinds
<1>6. b \in Seq(Tokens) /\ \A i \in 1..Len(b), p \in Paths : b[i] # TotalOf(p)
  <2>1. \A i \in 1..Len(Series) : <<"codes", Series[i]>> \in Tokens
    BY SeriesFacts DEF Tokens
  <2>2. b \in [1..Len(Series) -> Tokens]
    BY <2>1
  <2>3. b \in Seq(Tokens) /\ Len(b) = Len(Series)
    BY <1>2, <2>2
  <2>4. \A i \in 1..Len(Series) : b[i][1] = "codes"
    OBVIOUS
  <2>5. QED
    BY <2>3, <2>4, TokenKinds
<1> HIDE DEF a, b, c
<1>7. Tidy(a, {}) /\ Tidy(b, {})
  BY <1>5, <1>6, TidyPlain
<1>8. Tidy(a \o b, {}) /\ \A i \in 1..Len(a \o b), p \in Paths : (a \o b)[i] # TotalOf(p)
  <2>1. Tidy(a \o b, {})
    BY <1>5, <1>7, TidyConcat
  <2>2. ASSUME NEW i \in 1..Len(a \o b), NEW p \in Paths
        PROVE  (a \o b)[i] # TotalOf(p)
    <3>1. /\ Len(a \o b) = Len(a) + Len(b) /\ Len(a) \in Nat /\ Len(b) \in Nat
          /\ (a \o b)[i] = IF i <= Len(a) THEN a[i] ELSE b[i - Len(a)]
      BY <1>5, <1>6, ConcatProperties
    <3>2. i <= Len(a) \/ i - Len(a) \in 1..Len(b)
      BY <3>1
    <3>3. QED
      BY <1>5, <1>6, <3>1, <3>2
  <2>3. QED
    BY <2>1, <2>2
<1>9. Tidy((a \o b) \o c, {})
  BY <1>4, <1>8, TidyConcat
<1>10. QED
  BY <1>1, <1>9

-----------------------------------------------------------------------------
(* The page of a scrape *)

Coherent(f, p) ==
  /\ Histogram(f, p) <= f[TotalOf(p)]
  /\ Answers(f, p) <= f[TotalOf(p)]
  /\ f[SumOf(p)] <= f[TotalOf(p)]

\* s is what is left to read, f what is read, n the counters.
Orderly(s, f, n) ==
  /\ Tidy(s, DOMAIN f)
  /\ DOMAIN f \subseteq Counters
  /\ \A c \in DOMAIN f : f[c] \in Nat /\ f[c] <= n[c]
  /\ \A p \in Paths : TotalOf(p) \in DOMAIN f =>
       /\ SumOf(p) \in DOMAIN f
       /\ \A i \in 1..Len(s) : ~Concerns(s[i], p)
       /\ Coherent(f, p)

\* A scrape reads inside its handler, once its answer has started.
Scraping(r) ==
  /\ PathOf[r] = MetricsPath /\ stage[r] = "inner" /\ pc[r] \in {"handling", "exempt"}
  /\ ~panicked[r] /\ status[r] # 0

OnPage(r) ==
  /\ toRead[r] # <<>> => Scraping(r)
  /\ DOMAIN page[r] # {} => status[r] # 0
  /\ Orderly(toRead[r], page[r], counter)

ScrapeInv == \A r \in Reqs : OnPage(r)

LEMMA CounterGrows ==
  ASSUME PInv, NEW r \in Reqs, Arrive(r) \/ Served(r)
  PROVE  \A c \in Counters : counter[c] \in Nat /\ counter'[c] \in Nat /\ counter[c] <= counter'[c]
<1>1. counter' = counter \/ \E c \in Counters : counter' = Incremented(c)
  <2>1. CASE Inward(r)
    BY <2>1, InwardCounter, RefusalCounters
  <2>2. CASE Recover(r)
    BY <2>2, RefusalCounters DEF Recover
  <2>3. CASE Observe(r)
    BY <2>3, NextCounter DEF Observe, Observing
  <2>4. QED
    BY <2>1, <2>2, <2>3, ServedInwardOr
<1>2. counter \in [Counters -> Nat]
  BY DEF PInv, PipeTyped
<1>3. QED
  BY <1>1, <1>2, IncrementedType DEF PInv

\* What is on a page stays below counters that grow.
LEMMA OrderlyGrows ==
  ASSUME NEW s, NEW f, NEW n, NEW m, Orderly(s, f, n),
         \A c \in Counters : n[c] \in Nat /\ m[c] \in Nat /\ n[c] <= m[c]
  PROVE  Orderly(s, f, m)
<1>1. ASSUME NEW c \in DOMAIN f PROVE f[c] <= m[c]
  <2>1. c \in Counters /\ f[c] \in Nat /\ f[c] <= n[c]
    BY DEF Orderly
  <2>2. QED
    BY <2>1
<1>2. QED
  BY <1>1 DEF Orderly

LEMMA OrderlyEmpty ==
  ASSUME NEW s, NEW f, NEW n, Tidy(s, {}), DOMAIN f = {}
  PROVE  Orderly(s, f, n)
BY DEF Orderly

LEMMA NothingToRead == Tidy(<<>>, {})
<1>1. <<>> \in Seq(Tokens) /\ Len(<<>>) = 0
  OBVIOUS
<1>2. QED
  BY <1>1 DEF Tidy

\* The code that is seen is read next, before anything else of the path.
LEMMA ReadCodes ==
  ASSUME PInv, NEW s, NEW f, NEW n, Orderly(s, f, n), s # <<>>,
         NEW p \in Paths, Head(s) = <<"codes", p>>
  PROVE  Orderly([i \in 1..Len(CodesSeen(p)) |-> <<"status", p, CodesSeen(p)[i]>>] \o Tail(s),
                 f, n)
<1> DEFINE x == [i \in 1..Len(CodesSeen(p)) |-> <<"status", p, CodesSeen(p)[i]>>]
           t == Tail(s)
<1>1. CodesSeen(p) \in Seq(Codes)
  BY CodesSeenFacts DEF PInv
<1>2. /\ Len(CodesSeen(p)) \in Nat
      /\ \A i \in 1..Len(CodesSeen(p)) : CodesSeen(p)[i] \in Codes
  BY <1>1
<1>3. \A i \in 1..Len(CodesSeen(p)) : <<"status", p, CodesSeen(p)[i]>> \in Tokens
  BY <1>2 DEF Tokens, Counters
<1>4. x \in Seq(Tokens) /\ Len(x) = Len(CodesSeen(p))
  BY <1>2, <1>3
<1>5. \A i \in 1..Len(x) : x[i][1] = "status" /\ x[i][2] = p
  BY <1>4
<1>6. /\ s \in Seq(Tokens) /\ t \in Seq(Tokens) /\ Len(t) = Len(s) - 1 /\ Len(s) \in Nat /\ Len(s) >= 1
      /\ \A i \in 1..Len(t) : t[i] = s[i + 1]
      /\ Head(s) = s[1]
  BY HeadTailProperties DEF Orderly, Tidy
<1>7. Head(s)[1] = "codes" /\ Head(s)[2] = p
  OBVIOUS
<1> HIDE DEF x, t
<1>8. \A i \in 1..Len(x), q \in Paths : x[i] # TotalOf(q) /\ (Concerns(x[i], q) => q = p)
  BY <1>5, TokenKinds DEF Concerns
<1>9. Tidy(x, DOMAIN f)
  BY <1>4, <1>8, TidyPlain
<1>10. Tidy(t, DOMAIN f)
  <2>1. Tidy(t, DOMAIN f \cup {Head(s)})
    BY TidyTail DEF Orderly, t
  <2>2. \A q : SumOf(q) # Head(s)
    BY <1>7, TokenKinds
  <2>3. QED
    BY <2>1, <2>2 DEF Tidy
<1>11. Tidy(x \o t, DOMAIN f)
  BY <1>8, <1>9, <1>10, TidyConcat
<1>12. ASSUME NEW q \in Paths, TotalOf(q) \in DOMAIN f, NEW i \in 1..Len(x \o t)
       PROVE  ~Concerns((x \o t)[i], q)
  <2>1. /\ Len(x \o t) = Len(x) + Len(t) /\ Len(x) \in Nat
        /\ (x \o t)[i] = IF i <= Len(x) THEN x[i] ELSE t[i - Len(x)]
    <3>1. x \in Seq(Tokens) /\ t \in Seq(Tokens)
      BY <1>4, <1>6
    <3>2. /\ Len(x \o t) = Len(x) + Len(t)
          /\ \A j \in 1..Len(x) + Len(t) :
                (x \o t)[j] = IF j <= Len(x) THEN x[j] ELSE t[j - Len(x)]
      BY <3>1, ConcatProperties
    <3>3. QED
      BY <3>1, <3>2
  <2>2. \A j \in 1..Len(s) : ~Concerns(s[j], q)
    BY <1>12 DEF Orderly
  <2>3. CASE i <= Len(x)
    <3>1. i \in 1..Len(x) /\ (x \o t)[i] = x[i]
      BY <2>1, <2>3
    <3>2. q # p
      <4>1. 1 \in 1..Len(s) /\ Concerns(s[1], p)
        BY <1>6, <1>7 DEF Concerns
      <4>2. QED
        BY <2>2, <4>1
    <3>3. QED
      BY <1>8, <3>1, <3>2
  <2>4. CASE ~(i <= Len(x))
    <3>1. i - Len(x) \in 1..Len(t) /\ (x \o t)[i] = t[i - Len(x)]
      BY <1>6, <2>1, <2>4
    <3>2. (i - Len(x)) + 1 \in 1..Len(s) /\ (x \o t)[i] = s[(i - Len(x)) + 1]
      BY <1>6, <3>1
    <3>3. QED
      BY <2>2, <3>2
  <2>5. QED
    BY <2>3, <2>4
<1>13. Orderly(x \o t, f, n)
  BY <1>11, <1>12 DEF Orderly
<1>14. QED
  BY <1>13 DEF x, t

\* The books bound what can be read of a path by its total: observe moves it first.
LEMMA TotalIsFirst ==
  ASSUME Books, NEW p \in Paths, NEW k \in {"status", "bucket", "sum"}
  PROVE  Booked(k, p) <= Booked("total", p)
<1>1. /\ IsFiniteSet(Reqs)
      /\ \A T \in SUBSET Reqs : IsFiniteSet(T) /\ Cardinality(T) \in Nat
  BY ReqsAssumption, FS_Subset, FS_CardinalityType
<1>2. \A j : Booked(j, p) \in Nat
  BY BookedNat DEF Books, PInv
<1>3. ASSUME NEW r \in Owing("total", p)
      PROVE  r \in Owing("status", p) /\ r \in Owing("bucket", p)
  <2>1. r \in Reqs /\ Observing(r) /\ r \in Counted(p) /\ "total" \in Kinds(todo[r])
    BY <1>3 DEF Owing, Counted
  <2>2. PICK d : todo[r] \in Remaining(SeriesOf(r), AnswerOf(r), d)
    BY <2>1 DEF Books, PInv, TodoInv
  <2>3. "status" \in Kinds(todo[r]) /\ "bucket" \in Kinds(todo[r])
    BY <2>1, <2>2, KindsFacts
  <2>4. QED
    BY <2>1, <2>3 DEF Owing
<1>4. ASSUME NEW T \in SUBSET Reqs, Owing("total", p) \subseteq T, Booked(k, p) + Cardinality(T) <= Due(p)
      PROVE  Booked(k, p) <= Booked("total", p)
  <2>1. Cardinality(Owing("total", p)) <= Cardinality(T) /\ Cardinality(T) \in Nat
    BY <1>1, <1>4, FS_Subset
  <2>2. Cardinality(Owing("total", p)) \in Nat
    BY <1>1, <1>4
  <2>3. Booked("total", p) + Cardinality(Owing("total", p)) = Due(p)
    BY DEF Books, BooksInv
  <2>4. QED
    BY <1>2, <1>4, <2>1, <2>2, <2>3
<1>5. CASE k \in {"status", "bucket"}
  <2>1. /\ Owing(k, p) \in SUBSET Reqs /\ Owing("total", p) \subseteq Owing(k, p)
        /\ Cardinality(Owing(k, p)) \in Nat
    BY <1>1, <1>3, <1>5 DEF Owing, Counted
  <2>2. Booked(k, p) + Cardinality(Owing(k, p)) <= Due(p)
    <3>1. Booked(k, p) + Cardinality(Owing(k, p)) = Due(p)
      BY <1>5 DEF Books, BooksInv
    <3>2. QED
      BY <1>2, <2>1, <3>1
  <2>3. QED
    BY <1>4, <2>1, <2>2
<1>6. CASE k = "sum"
  <2>1. /\ Owing("status", p) \cup Owing("sum", p) \in SUBSET Reqs
        /\ Owing("total", p) \subseteq Owing("status", p) \cup Owing("sum", p)
    BY <1>3, BooksSets
  <2>2. Booked(k, p) + Cardinality(Owing("status", p) \cup Owing("sum", p)) <= Due(p)
    BY <1>6 DEF Books, BooksInv
  <2>3. QED
    BY <1>4, <2>1, <2>2
<1>7. QED
  BY <1>5, <1>6

\* A counter that is read: when it is the count of a path, all the rest of the path is
\* on the page already, and none of it can exceed the count that is read now.
LEMMA ReadCounter ==
  ASSUME Books, NEW s, NEW f, Orderly(s, f, counter), s # <<>>, Head(s) \in Counters
  PROVE  Orderly(Tail(s), [x \in DOMAIN f \cup {Head(s)} |->
                             IF x = Head(s) THEN counter[Head(s)] ELSE f[x]], counter)
<1> DEFINE c == Head(s)
           t == Tail(s)
           D == DOMAIN f \cup {c}
           g == [x \in D |-> IF x = c THEN counter[c] ELSE f[x]]
           Part(h, k, p) == {x \in DOMAIN h : x[1] = k /\ x[2] = p}
<1>1. /\ Len(t) = Len(s) - 1 /\ Len(s) \in Nat /\ Len(s) >= 1
      /\ \A i \in 1..Len(t) : t[i] = s[i + 1] /\ i + 1 \in 1..Len(s) /\ 1 < i + 1
      /\ c = s[1] /\ 1 \in 1..Len(s)
  <2>1. s \in Seq(Tokens)
    BY DEF Orderly, Tidy
  <2>2. /\ Len(t) = Len(s) - 1 /\ Len(s) \in Nat /\ Len(s) >= 1
        /\ \A i \in 1..Len(t) : t[i] = s[i + 1]
        /\ c = s[1]
    BY <2>1, HeadTailProperties
  <2>3. QED
    BY <2>2
<1>2. Tidy(t, D)
  BY TidyTail DEF Orderly
<1>3. /\ counter \in [Counters -> Nat] /\ DOMAIN f \subseteq Counters
      /\ \A x \in DOMAIN f : f[x] \in Nat /\ f[x] <= counter[x]
  BY DEF Books, PInv, PipeTyped, Orderly
<1>4. /\ DOMAIN g = D /\ D \subseteq Counters /\ g[c] = counter[c]
      /\ \A x \in D : g[x] \in Nat /\ g[x] <= counter[x]
      /\ \A x \in DOMAIN f : x # c => g[x] = f[x]
  BY <1>3
<1> HIDE DEF c, t, D, g
<1>5. ASSUME NEW p \in Paths, NEW k
      PROVE  /\ Part(g, k, p) \in SUBSET Account(k, p) /\ IsFiniteSet(Part(g, k, p))
             /\ SumOver(g, Part(g, k, p)) <= Booked(k, p)
  <2>1. /\ IsFiniteSet(Account(k, p)) /\ Account(k, p) \subseteq Counters
        /\ Naturals(counter, Account(k, p))
    BY <1>3, AccountFinite DEF Naturals
  <2>2. Part(g, k, p) \in SUBSET Account(k, p) /\ Naturals(g, Part(g, k, p))
    BY <1>4 DEF Account, Naturals
  <2>3. IsFiniteSet(Part(g, k, p))
    BY <2>1, <2>2, FS_Subset
  <2>4. \A x \in Part(g, k, p) : g[x] <= counter[x]
    BY <1>4
  <2>5. PICK V \in SUBSET Account(k, p) : V = Part(g, k, p)
    BY <2>2
  <2>6. SumOver(g, V) <= SumOver(counter, Account(k, p))
    BY <2>1, <2>2, <2>4, <2>5, SumBelow
  <2>7. QED
    BY <2>2, <2>3, <2>5, <2>6 DEF Booked
<1>6. ASSUME NEW p \in Paths, c = TotalOf(p)
      PROVE  /\ SumOf(p) \in D
             /\ \A i \in 1..Len(t) : ~Concerns(t[i], p)
             /\ Coherent(g, p)
  <2>1. SumOf(p) \in DOMAIN f
    <3>1. SumOf(p) \in DOMAIN f \/ \E j \in 1..Len(s) : j < 1 /\ s[j] = SumOf(p)
      BY <1>1, <1>6 DEF Orderly, Tidy
    <3>2. QED
      BY <3>1
  <2>2. \A i \in 1..Len(t) : ~Concerns(t[i], p)
    BY <1>1, <1>6 DEF Orderly, Tidy
  <2>3. g[c] = Booked("total", p) /\ SumOf(p) \in D /\ g[SumOf(p)] <= Booked("sum", p)
    <3>1. counter[TotalOf(p)] = Booked("total", p) /\ counter[SumOf(p)] = Booked("sum", p)
      BY OneCounter DEF TotalOf, SumOf, Books, PInv
    <3>2. SumOf(p) \in D
      BY <2>1 DEF D
    <3>3. QED
      BY <1>4, <1>6, <3>1, <3>2
  <2>4. \A k \in {"status", "bucket", "sum"} :
           Booked(k, p) <= g[c] /\ Booked(k, p) \in Nat /\ g[c] \in Nat
    BY <2>3, TotalIsFirst, BookedNat DEF Books, PInv
  <2>5. \A k \in {"status", "bucket"} : SumOver(g, Part(g, k, p)) <= g[c]
    <3>1. ASSUME NEW k \in {"status", "bucket"} PROVE SumOver(g, Part(g, k, p)) <= g[c]
      <4>1. SumOver(g, Part(g, k, p)) \in Nat
        BY <1>4, <1>5, SumNat DEF Naturals
      <4>2. QED
        BY <1>5, <2>4, <4>1
    <3>2. QED
      BY <3>1
  <2>6. g[SumOf(p)] <= g[c]
    BY <1>4, <2>3, <2>4
  <2>7. Coherent(g, p)
    BY <1>6, <2>5, <2>6 DEF Coherent, Histogram, Answers
  <2>8. QED
    BY <2>2, <2>3, <2>7
<1>7. ASSUME NEW p \in Paths, c # TotalOf(p), TotalOf(p) \in DOMAIN f
      PROVE  /\ SumOf(p) \in D
             /\ \A i \in 1..Len(t) : ~Concerns(t[i], p)
             /\ Coherent(g, p)
  <2>1. /\ SumOf(p) \in DOMAIN f /\ Coherent(f, p)
        /\ \A i \in 1..Len(s) : ~Concerns(s[i], p)
    BY <1>7 DEF Orderly
  <2>2. ~Concerns(c, p) /\ \A i \in 1..Len(t) : ~Concerns(t[i], p)
    BY <1>1, <2>1
  <2>3. c # SumOf(p)
    BY <2>2, TokenKinds
  <2>4. ASSUME NEW k \in {"status", "bucket"}
        PROVE  SumOver(g, Part(g, k, p)) = SumOver(f, Part(f, k, p))
    <3>1. Part(g, k, p) = Part(f, k, p)
      BY <1>4, <2>2 DEF Concerns, D
    <3>2. \A x \in Part(g, k, p) : g[x] = f[x]
      BY <1>4, <2>2, <3>1 DEF Concerns
    <3>3. PICK V : V = Part(g, k, p)
      OBVIOUS
    <3>4. IsFiniteSet(V) /\ \A x \in V : g[x] = f[x]
      BY <1>5, <3>2, <3>3
    <3>5. SumOver(g, V) = SumOver(f, V)
      BY <3>4, SumSame
    <3>6. QED
      BY <3>1, <3>3, <3>5
  <2>5. g[TotalOf(p)] = f[TotalOf(p)] /\ g[SumOf(p)] = f[SumOf(p)]
    BY <1>4, <1>7, <2>1, <2>3
  <2>6. Coherent(g, p)
    BY <2>1, <2>4, <2>5 DEF Coherent, Histogram, Answers
  <2>7. QED
    BY <2>1, <2>2, <2>6 DEF D
<1>8. ASSUME NEW p \in Paths, TotalOf(p) \in D
      PROVE  /\ SumOf(p) \in D
             /\ \A i \in 1..Len(t) : ~Concerns(t[i], p)
             /\ Coherent(g, p)
  <2>1. c = TotalOf(p) \/ TotalOf(p) \in DOMAIN f
    BY <1>8 DEF D
  <2>2. QED
    BY <1>6, <1>7, <2>1
<1>9. Orderly(t, g, counter)
  BY <1>2, <1>4, <1>8 DEF Orderly
<1>10. QED
  BY <1>9 DEF c, t, D, g

\* A handler that runs goes on while others move.
LEMMA HandlersStay ==
  ASSUME PInv, NEW r \in Reqs, Arrive(r) \/ Served(r), NEW q \in Reqs, q # r,
         pc[q] \in {"handling", "exempt"}
  PROVE  pc'[q] = pc[q]
<1>1. pc \in [Reqs -> Phases]
  BY DEF PInv, IInv, TypeOK
<1>2. ASSUME NEW ph, pc' = [pc EXCEPT ![r] = ph] PROVE pc'[q] = pc[q]
  BY <1>1, <1>2
<1>3. CASE Enter(r)
  BY <1>2, <1>3 DEF Enter, Exempt, Acquire, Refuse, Move
<1>4. CASE Wait(r)
  <2>1. ASSUME NoFreeSlot(r) PROVE pc'[q] = pc[q]
    <3>1. PICK ph : pc' = [pc EXCEPT ![r] = ph]
      BY <2>1 DEF NoFreeSlot, Move
    <3>2. QED
      BY <1>2, <3>1
  <2>2. QED
    BY <1>2, <1>4, <2>1 DEF Wait, Take, Timeout, ClientGone, Move
<1>5. CASE Reject(r)
  BY <1>2, <1>5 DEF Reject, RefusedAnswered, RejectedAnswered, Move
<1>6. CASE GiveShareBack(r)
  BY <1>2, <1>6 DEF GiveShareBack, Release, Move
<1>7. CASE Return(r) \/ Panic(r)
  <2>1. InHandler(r) /\ Leave(r)
    BY <1>7 DEF Return, Panic
  <2>2. pc'[q] = pc[q] \/ (pc[q] = "waiting" /\ pc'[q] = "handling")
    BY <2>1, LeaveFacts
  <2>3. QED
    BY <2>2
<1>8. CASE Arrive(r) \/ RateLimited(r) \/ Answer(r) \/ Read(r) \/ Recover(r) \/ Observe(r)
  BY <1>8 DEF Arrive, RateLimited, Answer, Read, Recover, Observe, Limits
<1>9. QED
  BY <1>3, <1>4, <1>5, <1>6, <1>7, <1>8 DEF Served

\* A step of Render.
LEMMA ReadStep ==
  ASSUME Books, ScrapeInv, NEW r \in Reqs, Read(r)
  PROVE  OnPage(r)'
<1>1. PICK s, f : s = toRead[r] /\ f = page[r]
  OBVIOUS
<1>2. Orderly(s, f, counter) /\ s # <<>> /\ Scraping(r)
  BY <1>1 DEF ScrapeInv, OnPage, Read
<1>3. Scraping(r)' /\ counter' = counter /\ status'[r] # 0
  BY <1>2 DEF Scraping, Read, Limits
<1>4. DOMAIN toRead = Reqs /\ DOMAIN page = Reqs
  BY DEF Books, PInv, PipeTyped
<1>5. PICK c : c = Head(s)
  OBVIOUS
<1>6. c \in Tokens
  <2>1. s \in Seq(Tokens)
    BY <1>2 DEF Orderly, Tidy
  <2>2. QED
    BY <1>2, <1>5, <2>1, HeadTailProperties
<1>7. Orderly(toRead'[r], page'[r], counter)
  <2>1. CASE c[1] = "codes"
    <3>1. PICK p \in Paths : c = <<"codes", p>>
      <4>1. c \notin Counters
        BY <2>1 DEF Counters
      <4>2. QED
        BY <1>6, <4>1 DEF Tokens
    <3>2. c[2] = p
      BY <3>1
    <3>3. /\ toRead'[r] = [i \in 1..Len(CodesSeen(p)) |-> <<"status", p, CodesSeen(p)[i]>>] \o Tail(s)
          /\ page'[r] = f
      BY <1>1, <1>4, <1>5, <2>1, <3>2 DEF Read
    <3>4. QED
      BY <1>2, <1>5, <3>1, <3>3, ReadCodes DEF Books
  <2>2. CASE c[1] # "codes"
    <3>1. c \in Counters
      <4>1. \A p : <<"codes", p>>[1] = "codes"
        OBVIOUS
      <4>2. QED
        BY <1>6, <2>2, <4>1 DEF Tokens
    <3>2. /\ toRead'[r] = Tail(s)
          /\ page'[r] = [x \in DOMAIN f \cup {c} |-> IF x = c THEN counter[c] ELSE f[x]]
      BY <1>1, <1>4, <1>5, <2>2 DEF Read
    <3>3. QED
      BY <1>2, <1>5, <3>1, <3>2, ReadCounter
  <2>3. QED
    BY <2>1, <2>2
<1>8. QED
  BY <1>3, <1>7 DEF OnPage

LEMMA NextScrape ==
  ASSUME Books, ScrapeInv, NEW r \in Reqs, Arrive(r) \/ Served(r)
  PROVE  ScrapeInv'
<1> USE DEF Books
<1>1. \A c \in Counters : counter[c] \in Nat /\ counter'[c] \in Nat /\ counter[c] <= counter'[c]
  BY CounterGrows
<1>2. \A q \in Reqs : Orderly(toRead[q], page[q], counter')
  BY <1>1, OrderlyGrows DEF ScrapeInv, OnPage
<1>3. ASSUME NEW q \in Reqs, q # r
      PROVE  OnPage(q)'
  <2>1. /\ stage'[q] = stage[q] /\ status'[q] = status[q] /\ panicked'[q] = panicked[q]
        /\ toRead'[q] = toRead[q] /\ page'[q] = page[q]
    BY <1>3, OthersKeep
  <2>2. ASSUME Scraping(q) PROVE Scraping(q)'
    <3>1. pc'[q] = pc[q]
      BY <1>3, <2>2, HandlersStay DEF Scraping
    <3>2. QED
      BY <2>1, <2>2, <3>1 DEF Scraping
  <2>3. QED
    BY <1>2, <2>1, <2>2 DEF ScrapeInv, OnPage
<1>4. OnPage(r)'
  <2>1. ASSUME toRead[r] = <<>>, toRead'[r] = <<>>, page'[r] = page[r],
               status[r] # 0 => status'[r] # 0
        PROVE  OnPage(r)'
    BY <1>2, <2>1 DEF ScrapeInv, OnPage
  <2>2. ASSUME toRead'[r] = <<>>, page'[r] = EmptyPage
        PROVE  OnPage(r)'
    <3>1. DOMAIN page'[r] = {}
      BY <2>2 DEF EmptyPage
    <3>2. Orderly(toRead'[r], page'[r], counter')
      BY <2>2, <3>1, OrderlyEmpty, NothingToRead
    <3>3. QED
      BY <2>2, <3>1, <3>2 DEF OnPage
  <2>3. ~Scraping(r) => toRead[r] = <<>>
    BY DEF ScrapeInv, OnPage
  <2>4. DOMAIN toRead = Reqs /\ DOMAIN page = Reqs /\ DOMAIN status = Reqs
    BY DEF PInv, PipeTyped
  <2>5. CASE Read(r)
    BY <2>5, ReadStep
  <2>6. CASE Answer(r)
    <3>1. /\ (PathOf[r] = MetricsPath /\ toRead'[r] = Rendering) \/ toRead'[r] = <<>>
          /\ page' = page /\ status[r] = 0
      BY <2>4, <2>6 DEF Answer
    <3>2. DOMAIN page'[r] = {} /\ Tidy(toRead'[r], {})
      BY <3>1, RenderingTidy, NothingToRead DEF ScrapeInv, OnPage
    <3>3. Orderly(toRead'[r], page'[r], counter')
      BY <3>2, OrderlyEmpty
    <3>4. status'[r] # 0
      <4>1. PICK code \in HandlerCodes : status' = [status EXCEPT ![r] = code]
        BY <2>6 DEF Answer
      <4>2. QED
        BY <2>4, <4>1, CodesAssumption
    <3>5. PathOf[r] = MetricsPath => Scraping(r)'
      BY <2>6, <3>4 DEF Answer, InHandler, Scraping, Limits
    <3>6. QED
      BY <3>1, <3>2, <3>3, <3>5 DEF OnPage
  <2>7. CASE Return(r)
    BY <2>1, <2>7 DEF Return
  <2>8. CASE Panic(r)
    BY <2>1, <2>3, <2>8 DEF Panic, Scraping
  <2>9. CASE Arrive(r) \/ RateLimited(r) \/ Enter(r) \/ Wait(r) \/ Reject(r) \/ GiveShareBack(r)
    <3>1. Inward(r)
      BY <2>9 DEF Inward
    <3>2. status[r] # 0 => status'[r] # 0
      BY <3>1, InwardFacts
    <3>3. ~Scraping(r)
      BY <2>9 DEF Arrive, RateLimited, Enter, Wait, Take, NoFreeSlot, Timeout, ClientGone,
                  Reject, RefusedAnswered, RejectedAnswered, GiveShareBack, Release, Scraping
    <3>4. toRead' = toRead /\ page' = page
      BY <2>9 DEF Arrive, RateLimited, Enter, Wait, Reject, GiveShareBack, pvars
    <3>5. QED
      BY <2>1, <2>3, <3>2, <3>3, <3>4
  <2>10. CASE Recover(r)
    <3>1. ~Scraping(r) /\ toRead' = toRead
      BY <2>10 DEF Recover, Scraping
    <3>2. CASE Abort(r)
      <4>1. page'[r] = EmptyPage
        BY <2>4, <3>2 DEF Abort, Done
      <4>2. QED
        BY <2>2, <2>3, <3>1, <4>1
    <3>3. CASE StartObserving(r) /\ (status'[r] = status[r] \/ status'[r] = 500)
      <4>1. page' = page
        BY <3>3 DEF StartObserving
      <4>2. status[r] # 0 => status'[r] # 0
        <5>1. PICK n : n = 500
          OBVIOUS
        <5>2. n # 0
          BY <5>1
        <5>3. QED
          BY <3>3, <5>1, <5>2
      <4>3. QED
        BY <2>1, <2>3, <3>1, <4>1, <4>2
    <3>4. QED
      BY <2>10, <3>2, <3>3, RecoverFacts
  <2>11. CASE Observe(r)
    <3>1. ~Scraping(r) /\ toRead' = toRead
      BY <2>11 DEF Observe, Scraping
    <3>2. CASE page' = page /\ status' = status
      BY <2>1, <2>3, <3>1, <3>2
    <3>3. CASE Done(r)
      <4>1. page'[r] = EmptyPage
        BY <2>4, <3>3 DEF Done
      <4>2. QED
        BY <2>2, <2>3, <3>1, <4>1
    <3>4. QED
      BY <2>11, <3>2, <3>3 DEF Observe
  <2>12. QED
    BY <2>5, <2>6, <2>7, <2>8, <2>9, <2>10, <2>11 DEF Served
<1>5. QED
  BY <1>3, <1>4 DEF ScrapeInv

LEMMA InitScrape == PipeInit => ScrapeInv
<1> SUFFICES ASSUME PipeInit, NEW r \in Reqs PROVE OnPage(r)
  BY DEF ScrapeInv
<1>1. toRead[r] = <<>> /\ DOMAIN page[r] = {}
  BY DEF PipeInit, EmptyPage
<1>2. Orderly(toRead[r], page[r], counter)
  BY <1>1, OrderlyEmpty, NothingToRead
<1>3. QED
  BY <1>1, <1>2 DEF OnPage

LEMMA ScrapeKept == ScrapeInv /\ UNCHANGED AllVars => ScrapeInv'
<1> SUFFICES ASSUME ScrapeInv, UNCHANGED AllVars, NEW r \in Reqs PROVE OnPage(r)'
  BY DEF ScrapeInv
<1>1. /\ toRead' = toRead /\ page' = page /\ counter' = counter
      /\ pc' = pc /\ stage' = stage /\ status' = status /\ panicked' = panicked
  BY DEF AllVars, Limits, pvars
<1>2. OnPage(r)
  BY DEF ScrapeInv
<1>3. Orderly(toRead'[r], page'[r], counter')
  BY <1>1, <1>2 DEF OnPage
<1>4. Scraping(r) => Scraping(r)'
  BY <1>1 DEF Scraping
<1>5. QED
  BY <1>1, <1>2, <1>3, <1>4 DEF OnPage

\* A page is never ahead of itself: for any number of requests, scrapes, paths, codes
\* and bounds, a path shows no more answers, no larger histogram and no more time than
\* its count, although each counter is read and moved on its own.
THEOREM ScrapesAreCoherent == PipeSpec => []ScrapeIsCoherent
<1>1. Books /\ ScrapeInv /\ [PipeNext]_<<Limits, pvars>> => ScrapeInv'
  BY NextScrape, ScrapeKept DEF PipeNext, Quiet, AllVars
<1>2. ScrapeInv => ScrapeIsCoherent
  <2> SUFFICES ASSUME ScrapeInv, NEW r \in Reqs, NEW p \in Paths, TotalOf(p) \in DOMAIN page[r]
               PROVE  Coherent(page[r], p)
    BY DEF ScrapeIsCoherent, Coherent, TotalOf, SumOf
  <2> QED
    BY DEF ScrapeInv, OnPage, Orderly
<1>3. QED
  BY <1>1, <1>2, InitScrape, BooksInvariance, PTL DEF PipeSpec
=============================================================================
