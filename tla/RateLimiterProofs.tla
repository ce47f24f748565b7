------------------------- MODULE RateLimiterProofs -------------------------
(***************************************************************************)
(* The table and the promise of RateLimiter for any set of sources, any    *)
(* number of requests in flight and any value of the numbers.              *)
(***************************************************************************)
EXTENDS RateLimiter, FiniteSetTheorems, FunctionTheorems, SequenceTheorems, TLAPS

\* Nobody has read a time that is still to come, and nobody is late by more than Skew.
TimeInv ==
  /\ \A e \in DOMAIN entries : entries[e].lastSeen <= clock
  /\ \A t \in Threads :
       now[t] <= clock /\ (pc[t] # "idle" => clock <= now[t] + Skew)
  /\ purge.now <= clock

\* The list enumerates the entries of the map, and an entry exists as long as
\* somebody refers to it.
TableInv ==
  /\ Len(lru) <= MaxTrackedIPs
  /\ \A ip \in DOMAIN clients :
       clients[ip] \in InList(lru) /\ entries[clients[ip]].ip = ip
  /\ \A i \in 1..Len(lru) :
       entries[lru[i]].ip \in DOMAIN clients /\ clients[entries[lru[i]].ip] = lru[i]
  /\ \A i, j \in 1..Len(lru) : lru[i] = lru[j] => i = j
  /\ DOMAIN entries = Referenced(lru, held)

\* A request holds an entry of its source from the lock on, and since then
\* nobody has set an older time than the request's by more than Skew.
HandInv ==
  \A t \in Threads :
    /\ pc[t] = "allowing" <=> held[t] # NoEntry
    /\ held[t] # NoEntry =>
         /\ entries[held[t]].ip = caller[t]
         /\ now[t] <= entries[held[t]].lastSeen + Skew

\* The inductive invariant of the table.
IInv == TypeOK /\ TimeInv /\ TableInv /\ HandInv /\ NearlyChronological

-----------------------------------------------------------------------------
(* The tokens a source can still get. *)

\* A bucket is full, or it has what it has earned since it was last used.
RefillInv ==
  \A e \in DOMAIN entries :
    \/ entries[e].tokens = Burst
    \/ entries[e].tokens >= Rate * (clock - entries[e].lastSeen - 2 * Skew)

\* What Watched finds in the table; an absent entry is as good as a full bucket.
TableTokens ==
  IF Watched \in DOMAIN clients THEN entries[clients[Watched]].tokens ELSE Burst

\* Entries of Watched that have left the table but are still in use.
Orphans == {e \in InHand(held) : entries[e].ip = Watched /\ e \notin InList(lru)}

Marks == (-Burst)..(Rate * (MaxClock + Skew))

\* A mark <<e, k>> for every token an orphan has, or earns before the last
\* request that holds it must have used it.
Owed ==
  {o \in Orphans \X Marks :
     /\ Rate * clock - entries[o[1]].tokens < o[2]
     /\ \E t \in Threads : held[t] = o[1] /\ o[2] <= Rate * (now[t] + Skew)}

\* What Watched has got and can still get is within what RateHolds allows.
RateInv ==
  RefillsBeforePurge =>
    allowed + TableTokens + Cardinality(Owed)
      <= Burst * (1 + evicted) + Rate * (clock + Skew * evicted)

RInv == IInv /\ RefillInv /\ RateInv

-----------------------------------------------------------------------------
(* Numbers, lists and sets *)

LEMMA Numbers ==
  /\ MaxTrackedIPs \in Nat \ {0} /\ Burst \in Nat \ {0} /\ Rate \in Nat \ {0}
  /\ CleanupTTL \in Nat /\ Skew \in Nat /\ MaxClock \in Nat /\ MaxEvictions \in Nat
  /\ Cardinality(Threads) \in Nat
  /\ NoEntry \notin Ids /\ NoEntry = 0 /\ Ids \subseteq Nat /\ Times \subseteq Nat
  /\ 0 \in Times
BY NumbersAssumption, ThreadsAssumption, FS_CardinalityType DEF NoEntry, Ids, Times

\* Multiplication by a rate is monotonic and distributes.
LEMMA Product ==
  ASSUME NEW r \in Nat, NEW a \in Int, NEW b \in Int
  PROVE  /\ r * a \in Int
         /\ r * (a + b) = r * a + r * b
         /\ a <= b => r * a <= r * b
<1>1. r * a \in Int /\ r * (a + b) = r * a + r * b
  OBVIOUS
<1>2. ASSUME a <= b PROVE r * a <= r * b
  <2>1. b - a \in Nat /\ r * (b - a) >= 0
    BY <1>2
  <2>2. r * b = r * a + r * (b - a)
    OBVIOUS
  <2>3. QED
    BY <2>1, <2>2
<1>3. QED
  BY <1>1, <1>2

\* MoveToBack permutes the list: the others keep their order.
LEMMA MovedToBack ==
  ASSUME NEW S, NEW list \in Seq(S), NEW i \in 1..Len(list)
  PROVE  /\ MoveToBack(list, i) \in Seq(S)
         /\ Len(MoveToBack(list, i)) = Len(list)
         /\ MoveToBack(list, i)[Len(list)] = list[i]
         /\ \A j \in 1..(Len(list) - 1) :
              MoveToBack(list, i)[j] = list[IF j < i THEN j ELSE j + 1]
         /\ InList(MoveToBack(list, i)) = InList(list)
<1> DEFINE n == Len(list)
           moved == MoveToBack(list, i)
           from(j) == IF j < i THEN j ELSE IF j < n THEN j + 1 ELSE i
<1>1. n \in Nat /\ n >= 1 /\ \A j \in 1..n : list[j] \in S
  BY LenProperties, ElementOfSeq
<1>2. moved = [j \in 1..n |-> list[from(j)]] /\ \A j \in 1..n : from(j) \in 1..n
  BY <1>1 DEF MoveToBack
<1>3. moved \in [1..n -> S]
  BY <1>1, <1>2
<1>4. moved \in Seq(S) /\ Len(moved) = n
  BY <1>1, <1>3, SeqDef, LenProperties
<1>5. /\ moved[n] = list[i]
      /\ \A j \in 1..(n - 1) : moved[j] = list[IF j < i THEN j ELSE j + 1]
  BY <1>1, <1>2
<1>6. InList(moved) = InList(list)
  <2>1. InList(moved) \subseteq InList(list)
    BY <1>2, <1>4 DEF InList
  <2>2. ASSUME NEW k \in 1..n PROVE \E j \in 1..n : from(j) = k
    <3>1. CASE k < i
      BY <3>1, <2>2
    <3>2. CASE k = i
      BY <3>2, <1>1
    <3>3. CASE k > i
      <4>1. k - 1 \in 1..n /\ from(k - 1) = k
        BY <3>3, <1>1
      <4>2. QED
        BY <4>1
    <3>4. QED
      BY <1>1, <3>1, <3>2, <3>3
  <2>3. ASSUME NEW k \in 1..n PROVE list[k] \in InList(moved)
    <3>1. PICK j \in 1..n : from(j) = k
      BY <2>2
    <3>2. moved[j] = list[k]
      BY <1>2, <3>1
    <3>3. QED
      BY <1>4, <3>2 DEF InList
  <2>4. QED
    BY <2>1, <2>3 DEF InList
<1>7. QED
  BY <1>4, <1>5, <1>6

\* The types, element by element.
LEMMA Typed ==
  ASSUME TypeOK, TableInv
  PROVE  /\ lru \in Seq(Ids) /\ Len(lru) \in Nat
         /\ \A i \in 1..Len(lru) :
              lru[i] \in Ids /\ lru[i] \in InList(lru) /\ lru[i] \in DOMAIN entries
         /\ \A e \in DOMAIN entries :
              /\ e \in Ids /\ entries[e].ip \in IPs
              /\ entries[e].lastSeen \in Times /\ entries[e].lastSeen \in Nat
              /\ entries[e].tokens \in 0..Burst
         /\ \A ip \in DOMAIN clients :
              /\ ip \in IPs /\ clients[ip] \in DOMAIN entries
              /\ \E i \in 1..Len(lru) : clients[ip] = lru[i]
         /\ \A t \in Threads : held[t] # NoEntry => held[t] \in DOMAIN entries
<1>1. lru \in Seq(Ids) /\ Len(lru) \in Nat
  BY LenProperties DEF TypeOK
<1>2. \A i \in 1..Len(lru) :
        lru[i] \in Ids /\ lru[i] \in InList(lru) /\ lru[i] \in DOMAIN entries
  BY <1>1, ElementOfSeq DEF TableInv, InList, Referenced
<1>3. \A e \in DOMAIN entries :
        /\ e \in Ids /\ entries[e].ip \in IPs
        /\ entries[e].lastSeen \in Times /\ entries[e].lastSeen \in Nat
        /\ entries[e].tokens \in 0..Burst
  BY Numbers DEF TypeOK, Entry
<1>4. \A ip \in DOMAIN clients :
        /\ ip \in IPs /\ clients[ip] \in DOMAIN entries
        /\ \E i \in 1..Len(lru) : clients[ip] = lru[i]
  BY <1>2 DEF TypeOK, TableInv, InList
<1>5. \A t \in Threads : held[t] # NoEntry => held[t] \in DOMAIN entries
  BY DEF TableInv, Referenced, InHand
<1>6. QED
  BY <1>1, <1>2, <1>3, <1>4, <1>5

\* The list enumerates the tracked sources, so its length counts them.
LEMMA TableCount ==
  ASSUME TypeOK, TableInv
  PROVE  IsFiniteSet(DOMAIN clients) /\ Cardinality(DOMAIN clients) = Len(lru)
<1> DEFINE f == [i \in 1..Len(lru) |-> entries[lru[i]].ip]
<1>1. f \in [1..Len(lru) -> DOMAIN clients]
  BY DEF TableInv
<1>2. \A i, j \in 1..Len(lru) : f[i] = f[j] => i = j
  BY DEF TableInv
<1>3. \A ip \in DOMAIN clients : \E i \in 1..Len(lru) : f[i] = ip
  BY Typed DEF TableInv
<1>4. f \in Bijection(1..Len(lru), DOMAIN clients)
  BY <1>1, <1>2, <1>3 DEF Bijection, Injection, Surjection, IsInjective
<1>5. ExistsBijection(1..Len(lru), DOMAIN clients)
  BY <1>4 DEF ExistsBijection
<1>6. QED
  BY <1>5, Typed, FS_CountingElements, FS_NatBijection

\* There is always an identity left for a new entry.
LEMMA FreshExists ==
  ASSUME IInv, NEW t \in Threads, pc[t] = "locking"
  PROVE  FreshId \in Ids /\ FreshId \notin Referenced(lru, held)
<1> DEFINE Others == Threads \ {t}
           f == [u \in Others |-> held[u]]
           Hand == {held[u] : u \in Others}
<1>1. IsFiniteSet(InList(lru)) /\ Cardinality(InList(lru)) <= MaxTrackedIPs
      /\ Cardinality(InList(lru)) \in Nat
  <2>1. lru \in Seq(Ids) /\ Len(lru) \in Nat /\ Len(lru) <= MaxTrackedIPs
    BY Typed DEF IInv, TableInv
  <2>2. lru \in Surjection(1..Len(lru), InList(lru))
    BY <2>1, LenProperties DEF Surjection, InList
  <2>3. ExistsSurjection(1..Len(lru), InList(lru))
    BY <2>2 DEF ExistsSurjection
  <2>4. QED
    BY <2>1, <2>3, Numbers, FS_SurjCardinalityBound, FS_NatSurjection, FS_CardinalityType
<1>2. /\ IsFiniteSet(Hand) /\ Cardinality(Hand) \in Nat
      /\ Cardinality(Hand) <= Cardinality(Threads) - 1
  <2>1. IsFiniteSet(Others) /\ Cardinality(Others) = Cardinality(Threads) - 1
    BY ThreadsAssumption, FS_RemoveElement
  <2>2. f \in Surjection(Others, Hand)
    BY DEF Surjection
  <2>3. QED
    BY <2>1, <2>2, FS_Surjection, FS_CardinalityType
<1>3. Referenced(lru, held) \subseteq InList(lru) \cup Hand
  BY DEF Referenced, InHand, IInv, HandInv
<1>4. /\ IsFiniteSet(InList(lru) \cup Hand)
      /\ Cardinality(InList(lru) \cup Hand) < MaxTrackedIPs + Cardinality(Threads)
  <2>1. IsFiniteSet(InList(lru) \cap Hand) /\ Cardinality(InList(lru) \cap Hand) \in Nat
    BY <1>1, FS_Subset, FS_CardinalityType
  <2>2. QED
    BY <1>1, <1>2, <2>1, Numbers, FS_Union
<1>5. Cardinality(Ids) = MaxTrackedIPs + Cardinality(Threads)
  BY Numbers, FS_Interval DEF Ids
<1>6. \E e \in Ids : e \notin Referenced(lru, held)
  <2>1. SUFFICES ASSUME Ids \subseteq InList(lru) \cup Hand PROVE FALSE
    BY <1>3
  <2>2. Cardinality(Ids) <= Cardinality(InList(lru) \cup Hand)
    BY <1>4, <2>1, FS_Subset
  <2>3. Cardinality(InList(lru) \cup Hand) \in Nat
    BY <1>4, FS_CardinalityType
  <2>4. QED
    BY <1>4, <1>5, <2>2, <2>3, Numbers
<1>7. QED
  BY <1>6 DEF FreshId

-----------------------------------------------------------------------------
(* The invariant of the table is inductive. *)

LEMMA InitIInv == Init => IInv
<1> SUFFICES ASSUME Init PROVE IInv
  OBVIOUS
<1>1. lru = <<>> /\ Len(lru) = 0 /\ DOMAIN clients = {} /\ DOMAIN entries = {}
  BY DEF Init
<1>2. InHand(held) = {} /\ InList(lru) = {}
  BY <1>1 DEF Init, InHand, InList
<1>3. TypeOK
  <2>1. lru \in Seq(Ids)
    BY <1>1
  <2>2. QED
    BY <1>1, <2>1, Numbers, WatchedAssumption DEF Init, TypeOK
<1>4. TimeInv /\ HandInv
  BY <1>1, Numbers DEF Init, TimeInv, HandInv
<1>5. TableInv /\ NearlyChronological
  BY <1>1, <1>2, Numbers DEF TableInv, NearlyChronological, Referenced
<1>6. QED
  BY <1>3, <1>4, <1>5 DEF IInv

LEMMA ReadClockPreserves ==
  ASSUME IInv, NEW t \in Threads, ReadClock(t)
  PROVE  IInv'
<1>1. PICK ip \in IPs : caller' = [caller EXCEPT ![t] = ip]
  BY DEF ReadClock
<1>2. /\ pc[t] = "idle" /\ held[t] = NoEntry
      /\ pc' = [pc EXCEPT ![t] = "locking"]
      /\ now' = [now EXCEPT ![t] = clock]
      /\ UNCHANGED <<clock, clients, lru, entries, held, purge, allowed, evicted>>
  BY DEF ReadClock, tableVars, history, IInv, HandInv
<1>3. TypeOK /\ TypeOK'
  BY <1>1, <1>2 DEF IInv, TypeOK
<1>4. TimeInv'
  BY <1>2, <1>3, Numbers DEF IInv, TypeOK, TimeInv, Times
<1>5. TableInv' /\ NearlyChronological'
  BY <1>2 DEF IInv, TableInv, InList, Referenced, InHand, NearlyChronological
<1>6. HandInv'
  <2> SUFFICES ASSUME NEW u \in Threads
               PROVE  /\ pc'[u] = "allowing" <=> held'[u] # NoEntry
                      /\ held'[u] # NoEntry =>
                           /\ entries'[held'[u]].ip = caller'[u]
                           /\ now'[u] <= entries'[held'[u]].lastSeen + Skew
    BY DEF HandInv
  <2>1. CASE u = t
    BY <1>2, <1>3, <2>1 DEF TypeOK
  <2>2. CASE u # t
    BY <1>1, <1>2, <1>3, <2>2 DEF IInv, HandInv, TypeOK
  <2>3. QED
    BY <2>1, <2>2
<1>7. QED
  BY <1>3, <1>4, <1>5, <1>6 DEF IInv

\* What a request does to the phases and the hands when it has found its entry.
LEMMA Holding ==
  ASSUME IInv, NEW t \in Threads, Locked(t), NEW e \in Ids,
         held' = [held EXCEPT ![t] = e]
  PROVE  /\ pc[t] = "locking" /\ held[t] = NoEntry /\ e # NoEntry
         /\ now[t] \in Times /\ now[t] <= clock /\ clock <= now[t] + Skew
         /\ now[t] \in Nat /\ clock \in Nat /\ Skew \in Nat
         /\ caller[t] \in IPs
         /\ pc' = [pc EXCEPT ![t] = "allowing"]
         /\ UNCHANGED <<clock, now, caller, purge, allowed>>
         /\ pc' \in [Threads -> {"idle", "locking", "allowing"}]
         /\ held' \in [Threads -> Ids \cup {NoEntry}]
         /\ InHand(held') = InHand(held) \cup {e}
<1>1. TypeOK /\ TimeInv /\ HandInv
  BY DEF IInv
<1>2. /\ pc[t] = "locking" /\ held[t] = NoEntry
      /\ pc' = [pc EXCEPT ![t] = "allowing"]
      /\ UNCHANGED <<clock, now, caller, purge, allowed>>
  BY <1>1 DEF Locked, HandInv
<1>3. InHand(held') = InHand(held) \cup {e}
  <2>1. \A u \in Threads : held'[u] = IF u = t THEN e ELSE held[u]
    BY <1>1 DEF TypeOK
  <2>2. e # NoEntry
    BY Numbers
  <2>3. QED
    BY <1>2, <2>1, <2>2 DEF InHand
<1>4. e # NoEntry /\ Skew \in Nat /\ \A x \in Times : x \in Nat
  BY Numbers
<1>5. QED
  BY <1>1, <1>2, <1>3, <1>4 DEF TypeOK, TimeInv

\* The entry of a known source gets a new time; the list keeps its elements.
LEMMA KnownStep ==
  ASSUME IInv, NEW t \in Threads, Known(t), NEW e, e = clients[caller[t]]
  PROVE  /\ e \in Ids /\ e \in DOMAIN entries /\ entries[e].ip = caller[t]
         /\ held' = [held EXCEPT ![t] = e]
         /\ e \in InList(lru) /\ InList(lru') = InList(lru)
         /\ InHand(held') = InHand(held) \cup {e}
         /\ Referenced(lru', held') = Referenced(lru, held)
         /\ DOMAIN entries' = DOMAIN entries
         /\ entries'[e].lastSeen = now[t] /\ entries'[e].ip = entries[e].ip
         /\ entries'[e].tokens = entries[e].tokens /\ entries'[e] \in Entry
         /\ \A x \in DOMAIN entries : x # e => entries'[x] = entries[x]
<1>1. /\ e \in Ids /\ e \in DOMAIN entries /\ entries[e].ip = caller[t]
      /\ held' = [held EXCEPT ![t] = e]
      /\ Keep([entries EXCEPT ![e].lastSeen = now[t]])
      /\ \E i \in 1..Len(lru) : lru[i] = e /\ lru' = MoveToBack(lru, i)
  BY Typed DEF Known, IInv, TableInv
<1>2. PICK i \in 1..Len(lru) : lru[i] = e /\ lru' = MoveToBack(lru, i)
  BY <1>1
<1>3. /\ TypeOK /\ TableInv /\ Locked(t) /\ entries[e] \in Entry
  BY <1>1 DEF Known, IInv, TypeOK
<1>4. InHand(held') = InHand(held) \cup {e} /\ now[t] \in Times
  BY <1>1, <1>3, Holding
<1>5. InList(lru') = InList(lru) /\ e \in InList(lru)
  BY <1>2, <1>3, Typed, MovedToBack
<1>6. Referenced(lru', held') = Referenced(lru, held)
  BY <1>4, <1>5 DEF Referenced
<1>7. /\ DOMAIN entries' = DOMAIN entries
      /\ entries'[e] = [entries[e] EXCEPT !.lastSeen = now[t]]
      /\ \A x \in DOMAIN entries : x # e => entries'[x] = entries[x]
  BY <1>1, <1>3, <1>6 DEF Keep, TableInv
<1>8. /\ entries'[e].lastSeen = now[t] /\ entries'[e].ip = entries[e].ip
      /\ entries'[e].tokens = entries[e].tokens /\ entries'[e] \in Entry
  BY <1>3, <1>4, <1>7 DEF Entry
<1>9. QED
  BY <1>1, <1>4, <1>5, <1>6, <1>7, <1>8

LEMMA KnownPreserves ==
  ASSUME IInv, NEW t \in Threads, Known(t)
  PROVE  IInv'
<1>1. PICK e \in Ids :
        /\ e = clients[caller[t]] /\ e \in DOMAIN entries /\ entries[e].ip = caller[t]
        /\ held' = [held EXCEPT ![t] = e]
        /\ Keep([entries EXCEPT ![e].lastSeen = now[t]])
        /\ \E i \in 1..Len(lru) : lru[i] = e /\ lru' = MoveToBack(lru, i)
  BY Typed DEF Known, IInv, TableInv
<1>2. PICK i \in 1..Len(lru) : lru[i] = e /\ lru' = MoveToBack(lru, i)
  BY <1>1
<1>3. /\ TypeOK /\ TimeInv /\ TableInv /\ HandInv /\ NearlyChronological
      /\ Locked(t) /\ UNCHANGED <<clients, evicted>>
      /\ entries[e] \in Entry
  BY <1>1 DEF Known, IInv, TypeOK
<1>4. /\ pc[t] = "locking" /\ held[t] = NoEntry /\ e # NoEntry
      /\ now[t] \in Times /\ now[t] <= clock /\ clock <= now[t] + Skew
      /\ now[t] \in Nat /\ clock \in Nat /\ Skew \in Nat
      /\ pc' = [pc EXCEPT ![t] = "allowing"]
      /\ UNCHANGED <<clock, now, caller, purge, allowed>>
      /\ pc' \in [Threads -> {"idle", "locking", "allowing"}]
      /\ held' \in [Threads -> Ids \cup {NoEntry}]
      /\ InHand(held') = InHand(held) \cup {e}
  BY <1>1, <1>3, Holding
<1>5. /\ lru' \in Seq(Ids) /\ Len(lru') = Len(lru) /\ InList(lru') = InList(lru)
      /\ Len(lru) \in Nat \ {0} /\ lru'[Len(lru)] = e
      /\ \A j \in 1..(Len(lru) - 1) : lru'[j] = lru[IF j < i THEN j ELSE j + 1]
  BY <1>2, <1>3, Typed, MovedToBack
<1>6. Referenced(lru', held') = Referenced(lru, held)
  BY <1>1, KnownStep
<1>7. /\ DOMAIN entries' = DOMAIN entries
      /\ \A x \in DOMAIN entries : x # e => entries'[x] = entries[x]
  BY <1>1, KnownStep
<1>8. /\ entries'[e].lastSeen = now[t] /\ entries'[e].ip = entries[e].ip
      /\ entries'[e] \in Entry
  BY <1>1, KnownStep
<1>9. \A x \in DOMAIN entries : entries'[x].ip = entries[x].ip
  BY <1>7, <1>8
<1>10. TypeOK'
  BY <1>3, <1>4, <1>5, <1>7, <1>8 DEF TypeOK
<1>11. TimeInv'
  BY <1>3, <1>4, <1>7, <1>8 DEF TimeInv
<1>12. \A a \in 1..Len(lru) :
         \E b \in 1..Len(lru) :
           /\ lru'[a] = lru[b]
           /\ a < Len(lru) => b # i /\ b = (IF a < i THEN a ELSE a + 1)
           /\ a = Len(lru) => b = i
  <2> SUFFICES ASSUME NEW a \in 1..Len(lru)
               PROVE  \E b \in 1..Len(lru) :
                        /\ lru'[a] = lru[b]
                        /\ a < Len(lru) => b # i /\ b = (IF a < i THEN a ELSE a + 1)
                        /\ a = Len(lru) => b = i
    OBVIOUS
  <2>1. CASE a = Len(lru)
    BY <1>2, <1>5, <2>1
  <2>2. CASE a < Len(lru)
    <3>1. a \in 1..(Len(lru) - 1)
      BY <1>5, <2>2
    <3>2. lru'[a] = lru[IF a < i THEN a ELSE a + 1]
      BY <1>5, <3>1
    <3>3. (IF a < i THEN a ELSE a + 1) \in 1..Len(lru)
      BY <1>5, <3>1
    <3>4. QED
      BY <1>5, <3>1, <3>2, <3>3
  <2>3. QED
    BY <1>5, <2>1, <2>2
<1>13. TableInv'
  <2>1. \A a \in 1..Len(lru) :
          entries[lru'[a]].ip \in DOMAIN clients /\ clients[entries[lru'[a]].ip] = lru'[a]
    <3> SUFFICES ASSUME NEW a \in 1..Len(lru)
                 PROVE  /\ entries[lru'[a]].ip \in DOMAIN clients
                        /\ clients[entries[lru'[a]].ip] = lru'[a]
      OBVIOUS
    <3>1. PICK b \in 1..Len(lru) : lru'[a] = lru[b]
      BY <1>12
    <3>2. QED
      BY <1>3, <3>1 DEF TableInv
  <2>2. \A a, b \in 1..Len(lru) : lru'[a] = lru'[b] => a = b
    <3> SUFFICES ASSUME NEW a \in 1..Len(lru), NEW b \in 1..Len(lru), lru'[a] = lru'[b]
                 PROVE  a = b
      OBVIOUS
    <3>1. PICK c \in 1..Len(lru) :
            /\ lru'[a] = lru[c]
            /\ a < Len(lru) => c # i /\ c = (IF a < i THEN a ELSE a + 1)
            /\ a = Len(lru) => c = i
      BY <1>12
    <3>2. PICK d \in 1..Len(lru) :
            /\ lru'[b] = lru[d]
            /\ b < Len(lru) => d # i /\ d = (IF b < i THEN b ELSE b + 1)
            /\ b = Len(lru) => d = i
      BY <1>12
    <3>3. c = d
      BY <1>3, <3>1, <3>2 DEF TableInv
    <3>4. QED
      BY <1>5, <3>1, <3>2, <3>3
  <2>3. \A a \in 1..Len(lru) : lru'[a] \in DOMAIN entries
    BY <1>3, <1>12, Typed
  <2>4. QED
    BY <1>3, <1>5, <1>6, <1>7, <1>9, <2>1, <2>2, <2>3, Typed DEF TableInv
<1>14. HandInv'
  <2> SUFFICES ASSUME NEW u \in Threads
               PROVE  /\ pc'[u] = "allowing" <=> held'[u] # NoEntry
                      /\ held'[u] # NoEntry =>
                           /\ entries'[held'[u]].ip = caller'[u]
                           /\ now'[u] <= entries'[held'[u]].lastSeen + Skew
    BY DEF HandInv
  <2>1. CASE u = t
    <3>1. pc'[u] = "allowing" /\ held'[u] = e /\ caller'[u] = caller[t] /\ now'[u] = now[t]
      BY <1>1, <1>3, <1>4, <2>1 DEF TypeOK
    <3>2. now[t] <= now[t] + Skew
      BY <1>4
    <3>3. QED
      BY <1>1, <1>4, <1>8, <3>1, <3>2
  <2>2. CASE u # t
    <3>1. pc'[u] = pc[u] /\ held'[u] = held[u] /\ caller'[u] = caller[u] /\ now'[u] = now[u]
      BY <1>1, <1>3, <1>4, <2>2 DEF TypeOK
    <3>2. now[u] <= clock /\ now[u] \in Nat /\ now[t] \in Nat /\ clock \in Nat /\ Skew \in Nat
      BY <1>3, Numbers DEF TimeInv, TypeOK
    <3>3. CASE held[u] = e
      BY <1>3, <1>4, <1>8, <3>1, <3>2, <3>3 DEF HandInv
    <3>4. CASE held[u] # e
      BY <1>3, <1>7, <3>1, <3>4, Typed DEF HandInv
    <3>5. QED
      BY <3>3, <3>4
  <2>3. QED
    BY <2>1, <2>2
<1>15. NearlyChronological'
  <2> SUFFICES ASSUME NEW a \in 1..Len(lru), NEW b \in 1..Len(lru), a < b
               PROVE  entries'[lru'[a]].lastSeen <= entries'[lru'[b]].lastSeen + Skew
    BY <1>5 DEF NearlyChronological
  <2>1. PICK c \in 1..Len(lru) :
          lru'[a] = lru[c] /\ c # i /\ c = (IF a < i THEN a ELSE a + 1)
    <3>1. a < Len(lru)
      BY <1>5
    <3>2. QED
      BY <1>12, <3>1
  <2>2. lru[c] # e /\ lru[c] \in DOMAIN entries
    BY <1>2, <1>3, <2>1, Typed DEF TableInv
  <2>3. entries'[lru'[a]] = entries[lru[c]] /\ entries[lru[c]].lastSeen <= clock
        /\ entries[lru[c]].lastSeen \in Nat
    BY <1>3, <1>7, <2>1, <2>2, Typed DEF TimeInv
  <2>4. CASE b = Len(lru)
    <3>1. entries'[lru'[b]].lastSeen = now[t]
      BY <1>5, <1>8, <2>4
    <3>2. QED
      BY <1>4, <2>3, <3>1
  <2>5. CASE b < Len(lru)
    <3>1. PICK d \in 1..Len(lru) :
            lru'[b] = lru[d] /\ d # i /\ d = (IF b < i THEN b ELSE b + 1)
      BY <1>12, <2>5
    <3>2. lru[d] # e /\ lru[d] \in DOMAIN entries
      BY <1>2, <1>3, <3>1, Typed DEF TableInv
    <3>3. entries'[lru'[b]] = entries[lru[d]]
      BY <1>7, <3>1, <3>2
    <3>4. c < d
      BY <1>5, <2>1, <3>1
    <3>5. entries[lru[c]].lastSeen <= entries[lru[d]].lastSeen + Skew
      BY <1>3, <3>4 DEF NearlyChronological
    <3>6. QED
      BY <2>3, <3>3, <3>5
  <2>6. QED
    BY <1>5, <2>4, <2>5
<1>16. QED
  BY <1>10, <1>11, <1>13, <1>14, <1>15 DEF IInv

\* The sources of the n entries at the head of the list.
HeadIPs(n) == {entries[lru[k]].ip : k \in 1..n}

\* What is left of the table when the n entries at the head of the list have gone.
LEMMA HeadGone ==
  ASSUME IInv, NEW n \in 0..Len(lru), NEW rest \in Seq(Ids),
         Len(rest) = Len(lru) - n,
         \A a \in 1..Len(rest) : rest[a] = lru[a + n]
  PROVE  /\ HeadIPs(n) \subseteq DOMAIN clients
         /\ InList(rest) \subseteq InList(lru)
         /\ Len(rest) \in Nat
         /\ \A ip \in DOMAIN clients \ HeadIPs(n) :
              clients[ip] \in InList(rest) /\ entries[clients[ip]].ip = ip
         /\ \A a \in 1..Len(rest) :
              /\ rest[a] \in InList(rest) /\ rest[a] \in DOMAIN entries
              /\ entries[rest[a]].ip \in DOMAIN clients \ HeadIPs(n)
              /\ clients[entries[rest[a]].ip] = rest[a]
         /\ \A a, b \in 1..Len(rest) : rest[a] = rest[b] => a = b
         /\ \A a, b \in 1..Len(rest) :
              a < b => entries[rest[a]].lastSeen <= entries[rest[b]].lastSeen + Skew
<1> DEFINE gone == HeadIPs(n)
<1>1. /\ TypeOK /\ TableInv /\ NearlyChronological
      /\ Len(lru) \in Nat /\ Len(rest) \in Nat /\ n \in Nat /\ n <= Len(lru)
  BY Typed DEF IInv
<1>2. \A a \in 1..Len(rest) : a + n \in 1..Len(lru) /\ a + n > n
  BY <1>1
<1>3. \A a \in 1..Len(rest) :
        rest[a] \in InList(rest) /\ rest[a] \in InList(lru) /\ rest[a] \in DOMAIN entries
  BY <1>1, <1>2, Typed DEF InList
<1>4. gone \subseteq DOMAIN clients /\ InList(rest) \subseteq InList(lru)
  <2>1. \A k \in 1..n : k \in 1..Len(lru)
    BY <1>1
  <2>2. gone \subseteq DOMAIN clients
    BY <1>1, <2>1 DEF TableInv, HeadIPs
  <2>3. \A x \in InList(rest) : \E a \in 1..Len(rest) : x = rest[a]
    BY DEF InList
  <2>4. QED
    BY <1>3, <2>2, <2>3
<1>5. ASSUME NEW ip \in DOMAIN clients \ gone
      PROVE  clients[ip] \in InList(rest) /\ entries[clients[ip]].ip = ip
  <2>1. PICK k \in 1..Len(lru) : clients[ip] = lru[k]
    BY <1>1, Typed
  <2>2. entries[clients[ip]].ip = ip
    BY <1>1 DEF TableInv
  <2>3. k \notin 1..n
    BY <2>1, <2>2 DEF HeadIPs
  <2>4. k - n \in 1..Len(rest) /\ rest[k - n] = lru[k]
    BY <1>1, <2>3
  <2>5. QED
    BY <2>1, <2>2, <2>4 DEF InList
<1>6. ASSUME NEW a \in 1..Len(rest)
      PROVE  /\ entries[rest[a]].ip \in DOMAIN clients \ gone
             /\ clients[entries[rest[a]].ip] = rest[a]
  <2>1. a + n \in 1..Len(lru) /\ rest[a] = lru[a + n]
    BY <1>2
  <2>2. /\ entries[rest[a]].ip \in DOMAIN clients
        /\ clients[entries[rest[a]].ip] = rest[a]
    BY <1>1, <2>1 DEF TableInv
  <2>3. ASSUME NEW k \in 1..n, entries[lru[k]].ip = entries[rest[a]].ip PROVE FALSE
    <3>1. k \in 1..Len(lru) /\ k # a + n
      BY <1>1, <1>2
    <3>2. clients[entries[lru[k]].ip] = lru[k]
      BY <1>1, <3>1 DEF TableInv
    <3>3. QED
      BY <1>1, <2>1, <2>2, <2>3, <3>1, <3>2 DEF TableInv
  <2>4. QED
    BY <2>2, <2>3 DEF HeadIPs
<1>7. ASSUME NEW a \in 1..Len(rest), NEW b \in 1..Len(rest), rest[a] = rest[b]
      PROVE  a = b
  <2>1. a + n = b + n
    BY <1>1, <1>2, <1>7 DEF TableInv
  <2>2. QED
    BY <1>1, <2>1
<1>8. ASSUME NEW a \in 1..Len(rest), NEW b \in 1..Len(rest), a < b
      PROVE  entries[rest[a]].lastSeen <= entries[rest[b]].lastSeen + Skew
  <2>1. a + n < b + n
    BY <1>1, <1>8
  <2>2. QED
    BY <1>1, <1>2, <2>1 DEF NearlyChronological
<1>9. QED
  BY <1>1, <1>3, <1>4, <1>5, <1>6, <1>7, <1>8

\* An entry that stays is what it was; a full table gives up its oldest.
LEMMA NewStep ==
  ASSUME IInv, NEW t \in Threads, New(t)
  PROVE  \E e \in Ids, n \in 0..Len(lru), kept \in Seq(Ids) :
           /\ e \notin Referenced(lru, held)
           /\ n = IF Full THEN 1 ELSE 0
           /\ Len(kept) = Len(lru) - n /\ Len(kept) + 1 <= MaxTrackedIPs
           /\ \A a \in 1..Len(kept) : kept[a] = lru[a + n]
           /\ lru' = Append(kept, e)
           /\ clients' = [i \in (DOMAIN clients \ HeadIPs(n)) \cup {caller[t]} |->
                            IF i = caller[t] THEN e ELSE clients[i]]
           /\ held' = [held EXCEPT ![t] = e]
           /\ evicted' = evicted + IF Watched \in HeadIPs(n) THEN 1 ELSE 0
           /\ Keep([x \in DOMAIN entries \cup {e} |->
                      IF x = e THEN NewEntry(caller[t], now[t]) ELSE entries[x]])
<1> DEFINE e == FreshId
           n == IF Full THEN 1 ELSE 0
           kept == IF Full THEN Tail(lru) ELSE lru
           gone == IF Full THEN {entries[Oldest].ip} ELSE {}
<1>1. e \in Ids /\ e \notin Referenced(lru, held)
  BY FreshExists DEF New, Locked
<1>2. /\ lru \in Seq(Ids) /\ Len(lru) \in Nat /\ MaxTrackedIPs \in Nat \ {0}
      /\ Len(lru) <= MaxTrackedIPs /\ (Full <=> Len(lru) >= MaxTrackedIPs)
  BY Typed, TableCount, Numbers DEF IInv, TableInv, Full
<1>3. /\ lru' = Append(kept, e)
      /\ clients' = [i \in (DOMAIN clients \ gone) \cup {caller[t]} |->
                       IF i = caller[t] THEN e ELSE clients[i]]
      /\ held' = [held EXCEPT ![t] = e]
      /\ evicted' = evicted + IF Watched \in gone THEN 1 ELSE 0
      /\ Keep([x \in DOMAIN entries \cup {e} |->
                 IF x = e THEN NewEntry(caller[t], now[t]) ELSE entries[x]])
  BY DEF New
<1>4. /\ n = IF Full THEN 1 ELSE 0
      /\ Full => kept = Tail(lru) /\ gone = {entries[Oldest].ip}
      /\ ~Full => kept = lru /\ gone = {}
  OBVIOUS
<1> HIDE DEF e, n, kept, gone
<1>5. /\ n \in 0..Len(lru) /\ kept \in Seq(Ids) /\ Len(kept) = Len(lru) - n
      /\ Len(kept) + 1 <= MaxTrackedIPs
      /\ \A a \in 1..Len(kept) : kept[a] = lru[a + n]
      /\ gone = HeadIPs(n)
  <2>1. CASE Full
    <3>1. lru # <<>> /\ n = 1 /\ kept = Tail(lru) /\ 1 <= Len(lru)
      BY <1>2, <1>4, <2>1
    <3>2. /\ Tail(lru) \in Seq(Ids) /\ Len(Tail(lru)) = Len(lru) - 1
          /\ \A a \in 1..Len(Tail(lru)) : Tail(lru)[a] = lru[a + 1]
      BY <1>2, <3>1, HeadTailProperties
    <3>3. Oldest = lru[1] /\ 1..1 = {1}
      BY <1>2, <3>1 DEF Oldest
    <3>4. gone = HeadIPs(1)
      BY <1>4, <2>1, <3>3 DEF HeadIPs
    <3>5. QED
      BY <1>2, <3>1, <3>2, <3>4
  <2>2. CASE ~Full
    <3>1. n = 0 /\ kept = lru /\ 1..0 = {} /\ gone = {}
      BY <1>4, <2>2
    <3>2. HeadIPs(0) = {}
      BY <3>1 DEF HeadIPs
    <3>3. \A a \in 1..Len(lru) : a + 0 = a
      BY <1>2
    <3>4. QED
      BY <1>2, <2>2, <3>1, <3>2, <3>3
  <2>3. QED
    BY <2>1, <2>2
<1>6. QED
  BY <1>1, <1>3, <1>4, <1>5

\* The entries after New: those that are still referred to, and the new one.
LEMMA NewEffect ==
  ASSUME IInv, NEW t \in Threads, New(t),
         NEW e \in Ids, NEW kept \in Seq(Ids),
         e \notin Referenced(lru, held), InList(kept) \subseteq InList(lru),
         lru' = Append(kept, e), held' = [held EXCEPT ![t] = e],
         Keep([x \in DOMAIN entries \cup {e} |->
                 IF x = e THEN NewEntry(caller[t], now[t]) ELSE entries[x]])
  PROVE  /\ InList(lru') = InList(kept) \cup {e}
         /\ InHand(held') = InHand(held) \cup {e}
         /\ DOMAIN entries' = Referenced(lru', held')
         /\ Referenced(lru', held') \subseteq DOMAIN entries \cup {e}
         /\ InList(kept) \cup InHand(held) \cup {e} \subseteq DOMAIN entries'
         /\ entries'[e] = NewEntry(caller[t], now[t])
         /\ \A x \in DOMAIN entries' :
              x # e => x \in DOMAIN entries /\ entries'[x] = entries[x]
<1>1. TableInv /\ Locked(t) /\ Len(kept) \in Nat
  BY LenProperties DEF IInv, New
<1>2. InHand(held') = InHand(held) \cup {e}
  BY <1>1, Holding
<1>3. InList(lru') = InList(kept) \cup {e}
  <2>1. 1..(Len(kept) + 1) = 1..Len(kept) \cup {Len(kept) + 1}
    BY <1>1
  <2>2. Len(lru') = Len(kept) + 1 /\ lru'[Len(kept) + 1] = e
        /\ \A a \in 1..Len(kept) : lru'[a] = kept[a]
    BY AppendProperties
  <2>3. QED
    BY <2>1, <2>2 DEF InList
<1>4. /\ DOMAIN entries' = Referenced(lru', held')
      /\ Referenced(lru', held') \subseteq DOMAIN entries \cup {e}
      /\ InList(kept) \cup InHand(held) \cup {e} \subseteq DOMAIN entries'
  BY <1>1, <1>2, <1>3 DEF Keep, Referenced, TableInv
<1>5. /\ entries'[e] = NewEntry(caller[t], now[t])
      /\ \A x \in DOMAIN entries' : x # e => x \in DOMAIN entries /\ entries'[x] = entries[x]
  BY <1>4 DEF Keep
<1>6. QED
  BY <1>2, <1>3, <1>4, <1>5

LEMMA NewPreserves ==
  ASSUME IInv, NEW t \in Threads, New(t)
  PROVE  IInv'
<1>1. PICK e \in Ids, n \in 0..Len(lru), kept \in Seq(Ids) :
        /\ e \notin Referenced(lru, held)
        /\ n = IF Full THEN 1 ELSE 0
        /\ Len(kept) = Len(lru) - n /\ Len(kept) + 1 <= MaxTrackedIPs
        /\ \A a \in 1..Len(kept) : kept[a] = lru[a + n]
        /\ lru' = Append(kept, e)
        /\ clients' = [i \in (DOMAIN clients \ HeadIPs(n)) \cup {caller[t]} |->
                         IF i = caller[t] THEN e ELSE clients[i]]
        /\ held' = [held EXCEPT ![t] = e]
        /\ evicted' = evicted + IF Watched \in HeadIPs(n) THEN 1 ELSE 0
        /\ Keep([x \in DOMAIN entries \cup {e} |->
                   IF x = e THEN NewEntry(caller[t], now[t]) ELSE entries[x]])
  BY NewStep
<1>2. /\ TypeOK /\ TimeInv /\ TableInv /\ HandInv /\ NearlyChronological
      /\ Locked(t) /\ caller[t] \notin DOMAIN clients
      /\ DOMAIN entries = Referenced(lru, held) /\ e \notin DOMAIN entries
  BY <1>1 DEF New, IInv, TableInv
<1>3. /\ pc[t] = "locking" /\ held[t] = NoEntry /\ e # NoEntry
      /\ now[t] \in Times /\ now[t] <= clock /\ clock <= now[t] + Skew
      /\ now[t] \in Nat /\ clock \in Nat /\ Skew \in Nat
      /\ caller[t] \in IPs
      /\ pc' = [pc EXCEPT ![t] = "allowing"]
      /\ UNCHANGED <<clock, now, caller, purge, allowed>>
      /\ pc' \in [Threads -> {"idle", "locking", "allowing"}]
      /\ held' \in [Threads -> Ids \cup {NoEntry}]
      /\ InHand(held') = InHand(held) \cup {e}
  BY <1>1, <1>2, Holding
<1>4. /\ InList(kept) \subseteq InList(lru)
      /\ Len(kept) \in Nat
      /\ \A ip \in DOMAIN clients \ HeadIPs(n) :
           clients[ip] \in InList(kept) /\ entries[clients[ip]].ip = ip
      /\ \A a \in 1..Len(kept) :
           /\ kept[a] \in InList(kept) /\ kept[a] \in DOMAIN entries
           /\ entries[kept[a]].ip \in DOMAIN clients \ HeadIPs(n)
           /\ clients[entries[kept[a]].ip] = kept[a]
      /\ \A a, b \in 1..Len(kept) : kept[a] = kept[b] => a = b
      /\ \A a, b \in 1..Len(kept) :
           a < b => entries[kept[a]].lastSeen <= entries[kept[b]].lastSeen + Skew
  <2>1. Len(kept) = Len(lru) - n /\ \A a \in 1..Len(kept) : kept[a] = lru[a + n]
    BY <1>1
  <2>2. QED
    BY <2>1, HeadGone
<1>5. /\ lru' \in Seq(Ids) /\ Len(lru') = Len(kept) + 1
      /\ \A a \in 1..Len(kept) : lru'[a] = kept[a]
      /\ lru'[Len(kept) + 1] = e
  BY <1>1, AppendProperties
<1>6. InList(lru') = InList(kept) \cup {e}
  BY <1>1, <1>4, NewEffect
<1>7. /\ DOMAIN entries' = Referenced(lru', held')
      /\ Referenced(lru', held') \subseteq DOMAIN entries \cup {e}
      /\ InList(kept) \cup InHand(held) \cup {e} \subseteq DOMAIN entries'
  BY <1>1, <1>4, NewEffect
<1>8. /\ entries'[e] = NewEntry(caller[t], now[t])
      /\ \A x \in DOMAIN entries' : x # e => x \in DOMAIN entries /\ entries'[x] = entries[x]
  BY <1>1, <1>4, NewEffect
<1>9. /\ entries'[e].ip = caller[t] /\ entries'[e].lastSeen = now[t]
      /\ entries'[e] \in Entry
  <2>1. Burst \in 0..Burst
    BY Numbers
  <2>2. QED
    BY <1>3, <1>8, <2>1 DEF NewEntry, Entry
<1>10. TypeOK'
  <2>1. DOMAIN clients' \subseteq IPs /\ \A ip \in DOMAIN clients' : clients'[ip] \in Ids
    BY <1>1, <1>2, <1>3 DEF TypeOK
  <2>2. DOMAIN entries' \subseteq Ids /\ \A x \in DOMAIN entries' : entries'[x] \in Entry
    BY <1>2, <1>7, <1>8, <1>9 DEF TypeOK
  <2>3. evicted' \in Nat
    BY <1>1, <1>2 DEF TypeOK
  <2>4. QED
    BY <1>2, <1>3, <1>5, <2>1, <2>2, <2>3 DEF TypeOK
<1>11. TimeInv'
  BY <1>2, <1>3, <1>8, <1>9 DEF TimeInv
<1>12. TableInv'
  <2>1. Len(lru') <= MaxTrackedIPs
    BY <1>1, <1>5
  <2>2. \A ip \in DOMAIN clients' :
          clients'[ip] \in InList(lru') /\ entries'[clients'[ip]].ip = ip
    <3> SUFFICES ASSUME NEW ip \in DOMAIN clients'
                 PROVE  clients'[ip] \in InList(lru') /\ entries'[clients'[ip]].ip = ip
      OBVIOUS
    <3>1. CASE ip = caller[t]
      BY <1>1, <1>6, <1>9, <3>1
    <3>2. CASE ip # caller[t]
      <4>1. ip \in DOMAIN clients \ HeadIPs(n) /\ clients'[ip] = clients[ip]
        BY <1>1, <3>2
      <4>2. clients[ip] \in InList(kept) /\ clients[ip] # e
        BY <1>1, <1>4, <4>1 DEF Referenced
      <4>3. entries'[clients[ip]] = entries[clients[ip]]
        BY <1>7, <1>8, <4>2
      <4>4. QED
        BY <1>4, <1>6, <4>1, <4>2, <4>3
    <3>3. QED
      BY <3>1, <3>2
  <2>3. \A a \in 1..Len(lru') :
          /\ entries'[lru'[a]].ip \in DOMAIN clients'
          /\ clients'[entries'[lru'[a]].ip] = lru'[a]
    <3> SUFFICES ASSUME NEW a \in 1..Len(lru')
                 PROVE  /\ entries'[lru'[a]].ip \in DOMAIN clients'
                        /\ clients'[entries'[lru'[a]].ip] = lru'[a]
      OBVIOUS
    <3>1. CASE a = Len(kept) + 1
      BY <1>1, <1>5, <1>9, <3>1
    <3>2. CASE a # Len(kept) + 1
      <4>1. a \in 1..Len(kept) /\ lru'[a] = kept[a]
        BY <1>4, <1>5, <3>2
      <4>2. kept[a] # e /\ entries'[kept[a]] = entries[kept[a]]
        BY <1>2, <1>4, <1>7, <1>8, <4>1
      <4>3. QED
        BY <1>1, <1>2, <1>4, <4>1, <4>2
    <3>3. QED
      BY <3>1, <3>2
  <2>4. \A a, b \in 1..Len(lru') : lru'[a] = lru'[b] => a = b
    <3>1. \A a \in 1..Len(kept) : lru'[a] # e
      BY <1>2, <1>4, <1>5
    <3>2. \A a \in 1..Len(lru') : a \in 1..Len(kept) \/ a = Len(kept) + 1
      BY <1>4, <1>5
    <3>3. QED
      BY <1>4, <1>5, <3>1, <3>2
  <2>5. QED
    BY <1>7, <2>1, <2>2, <2>3, <2>4 DEF TableInv
<1>13. HandInv'
  <2> SUFFICES ASSUME NEW u \in Threads
               PROVE  /\ pc'[u] = "allowing" <=> held'[u] # NoEntry
                      /\ held'[u] # NoEntry =>
                           /\ entries'[held'[u]].ip = caller'[u]
                           /\ now'[u] <= entries'[held'[u]].lastSeen + Skew
    BY DEF HandInv
  <2>1. CASE u = t
    <3>1. pc'[u] = "allowing" /\ held'[u] = e /\ caller'[u] = caller[t] /\ now'[u] = now[t]
      BY <1>1, <1>2, <1>3, <2>1 DEF TypeOK
    <3>2. now[t] <= now[t] + Skew
      BY <1>3
    <3>3. QED
      BY <1>3, <1>9, <3>1, <3>2
  <2>2. CASE u # t
    <3>1. pc'[u] = pc[u] /\ held'[u] = held[u] /\ caller'[u] = caller[u] /\ now'[u] = now[u]
      BY <1>1, <1>2, <1>3, <2>2 DEF TypeOK
    <3>2. held[u] # NoEntry => held[u] \in DOMAIN entries /\ held[u] \in InHand(held)
      BY <1>2, Typed DEF InHand
    <3>3. held[u] # NoEntry => entries'[held[u]] = entries[held[u]]
      BY <1>2, <1>7, <1>8, <3>2
    <3>4. QED
      BY <1>2, <3>1, <3>3 DEF HandInv
  <2>3. QED
    BY <2>1, <2>2
<1>14. NearlyChronological'
  <2> SUFFICES ASSUME NEW a \in 1..Len(lru'), NEW b \in 1..Len(lru'), a < b
               PROVE  entries'[lru'[a]].lastSeen <= entries'[lru'[b]].lastSeen + Skew
    BY DEF NearlyChronological
  <2>1. a \in 1..Len(kept) /\ lru'[a] = kept[a]
    BY <1>4, <1>5
  <2>2. entries'[lru'[a]] = entries[kept[a]] /\ kept[a] \in DOMAIN entries
    BY <1>2, <1>4, <1>7, <1>8, <2>1
  <2>3. CASE b = Len(kept) + 1
    <3>1. entries[kept[a]].lastSeen <= clock /\ entries[kept[a]].lastSeen \in Nat
      BY <1>2, <2>2, Typed DEF TimeInv
    <3>2. entries'[lru'[b]].lastSeen = now[t]
      BY <1>5, <1>9, <2>3
    <3>3. QED
      BY <1>3, <2>2, <3>1, <3>2
  <2>4. CASE b # Len(kept) + 1
    <3>1. b \in 1..Len(kept) /\ lru'[b] = kept[b]
      BY <1>4, <1>5, <2>4
    <3>2. entries'[lru'[b]] = entries[kept[b]]
      BY <1>2, <1>4, <1>7, <1>8, <3>1
    <3>3. QED
      BY <1>4, <2>1, <2>2, <3>1, <3>2
  <2>5. QED
    BY <2>3, <2>4
<1>15. QED
  BY <1>10, <1>11, <1>12, <1>13, <1>14 DEF IInv

\* What the purge leaves.
LEMMA PurgeStep ==
  ASSUME IInv, Purge
  PROVE  \E n \in 0..Len(lru) :
           /\ StopsAfter(n) /\ lru' = Beyond(n)
              /\ clients' = [ip \in DOMAIN clients \ HeadIPs(n) |-> clients[ip]]
           /\ lru' \in Seq(Ids) /\ Len(lru') = Len(lru) - n
           /\ \A a \in 1..Len(lru') : lru'[a] = lru[a + n]
<1>1. PICK n \in 0..Len(lru) :
        /\ StopsAfter(n) /\ lru' = Beyond(n)
        /\ clients' = Dropping({entries[lru[k]].ip : k \in 1..n})
  BY DEF Purge
<1>2. /\ lru \in Seq(Ids) /\ Len(lru) \in Nat /\ n \in Nat /\ n <= Len(lru)
      /\ \A a \in (n + 1)..Len(lru) : lru[a] \in Ids
  BY Typed DEF IInv
<1>3. /\ Beyond(n) \in Seq(Ids)
      /\ Len(Beyond(n)) = IF n + 1 <= Len(lru) THEN Len(lru) - (n + 1) + 1 ELSE 0
      /\ \A a \in 1..(Len(lru) - (n + 1) + 1) : Beyond(n)[a] = lru[n + 1 + a - 1]
  BY <1>2, SubSeqProperties, n + 1 \in Int, Len(lru) \in Int DEF Beyond
<1>4. Len(Beyond(n)) = Len(lru) - n
  BY <1>2, <1>3
<1>5. \A a \in 1..Len(Beyond(n)) : Beyond(n)[a] = lru[a + n]
  <2> SUFFICES ASSUME NEW a \in 1..Len(Beyond(n)) PROVE Beyond(n)[a] = lru[a + n]
    OBVIOUS
  <2>1. a \in 1..(Len(lru) - (n + 1) + 1) /\ n + 1 + a - 1 = a + n
    BY <1>2, <1>4
  <2>2. QED
    BY <1>3, <2>1
<1>6. QED
  BY <1>1, <1>3, <1>4, <1>5 DEF Dropping, HeadIPs

LEMMA PurgePreserves ==
  ASSUME IInv, Purge
  PROVE  IInv'
<1>1. PICK n \in 0..Len(lru) :
        /\ clients' = [ip \in DOMAIN clients \ HeadIPs(n) |-> clients[ip]]
        /\ lru' \in Seq(Ids) /\ Len(lru') = Len(lru) - n
        /\ \A a \in 1..Len(lru') : lru'[a] = lru[a + n]
  BY PurgeStep
<1>2. /\ TypeOK /\ TimeInv /\ TableInv /\ HandInv /\ NearlyChronological
      /\ DOMAIN entries = Referenced(lru, held)
      /\ purge' = [state |-> "idle", now |-> 0]
      /\ UNCHANGED <<clock, pc, now, caller, held, allowed, evicted>>
      /\ Keep(entries)
  BY DEF Purge, IInv, TableInv, threadVars, history
<1>3. /\ InList(lru') \subseteq InList(lru)
      /\ Len(lru') \in Nat
      /\ \A ip \in DOMAIN clients \ HeadIPs(n) :
           clients[ip] \in InList(lru') /\ entries[clients[ip]].ip = ip
      /\ \A a \in 1..Len(lru') :
           /\ lru'[a] \in InList(lru') /\ lru'[a] \in DOMAIN entries
           /\ entries[lru'[a]].ip \in DOMAIN clients \ HeadIPs(n)
           /\ clients[entries[lru'[a]].ip] = lru'[a]
      /\ \A a, b \in 1..Len(lru') : lru'[a] = lru'[b] => a = b
      /\ \A a, b \in 1..Len(lru') :
           a < b => entries[lru'[a]].lastSeen <= entries[lru'[b]].lastSeen + Skew
  BY <1>1, HeadGone
<1>4. /\ DOMAIN entries' = Referenced(lru', held') /\ DOMAIN entries' \subseteq DOMAIN entries
      /\ \A x \in DOMAIN entries' : entries'[x] = entries[x]
      /\ InList(lru') \cup InHand(held) \subseteq DOMAIN entries'
  BY <1>2, <1>3 DEF Keep, Referenced
<1>5. TypeOK'
  <2>1. purge' \in [state : {"idle", "locking"}, now : Times]
    BY <1>2, Numbers
  <2>2. DOMAIN clients' \subseteq IPs /\ \A ip \in DOMAIN clients' : clients'[ip] \in Ids
    BY <1>1, <1>2 DEF TypeOK
  <2>3. QED
    BY <1>1, <1>2, <1>4, <2>1, <2>2 DEF TypeOK
<1>6. TimeInv'
  BY <1>2, <1>4, Numbers DEF TimeInv, TypeOK, Times
<1>7. TableInv'
  <2>1. Len(lru') <= MaxTrackedIPs
    BY <1>1, <1>2, Typed, Numbers DEF TableInv
  <2>2. DOMAIN clients' = DOMAIN clients \ HeadIPs(n)
        /\ \A ip \in DOMAIN clients' : clients'[ip] = clients[ip]
    BY <1>1
  <2>3. \A ip \in DOMAIN clients' :
          clients'[ip] \in InList(lru') /\ entries'[clients'[ip]].ip = ip
    BY <1>3, <1>4, <2>2
  <2>4. \A a \in 1..Len(lru') :
          /\ entries'[lru'[a]].ip \in DOMAIN clients'
          /\ clients'[entries'[lru'[a]].ip] = lru'[a]
    BY <1>3, <1>4, <2>2
  <2>5. QED
    BY <1>3, <1>4, <2>1, <2>3, <2>4 DEF TableInv
<1>8. HandInv'
  <2>1. \A u \in Threads : held[u] # NoEntry => entries'[held[u]] = entries[held[u]]
    BY <1>4 DEF InHand
  <2>2. QED
    BY <1>2, <2>1 DEF HandInv
<1>9. NearlyChronological'
  BY <1>3, <1>4 DEF NearlyChronological
<1>10. QED
  BY <1>5, <1>6, <1>7, <1>8, <1>9 DEF IInv

LEMMA PurgeTickPreserves ==
  ASSUME IInv, PurgeTick
  PROVE  IInv'
<1>1. /\ TypeOK /\ TimeInv
      /\ purge' = [state |-> "locking", now |-> clock]
      /\ UNCHANGED <<clock, clients, lru, entries, pc, now, caller, held, allowed, evicted>>
  BY DEF PurgeTick, IInv, tableVars, threadVars, history
<1>2. purge' \in [state : {"idle", "locking"}, now : Times] /\ purge'.now <= clock
  BY <1>1, Numbers DEF TypeOK, Times
<1>3. TypeOK' /\ TimeInv'
  BY <1>1, <1>2 DEF TypeOK, TimeInv
<1>4. TableInv' /\ HandInv' /\ NearlyChronological'
  <2>1. TableInv /\ HandInv /\ NearlyChronological
    BY DEF IInv
  <2>2. TableInv'
    BY <1>1, <2>1 DEF TableInv, InList, Referenced, InHand
  <2>3. HandInv' /\ NearlyChronological'
    BY <1>1, <2>1 DEF HandInv, NearlyChronological
  <2>4. QED
    BY <2>2, <2>3
<1>5. QED
  BY <1>3, <1>4 DEF IInv

\* A request takes at most the token there is; its entry may be forgotten.
LEMMA AllowStep ==
  ASSUME IInv, NEW t \in Threads, Allow(t)
  PROVE  /\ held[t] \in DOMAIN entries /\ entries[held[t]].ip = caller[t]
         /\ pc' = [pc EXCEPT ![t] = "idle"]
         /\ held' = [held EXCEPT ![t] = NoEntry]
         /\ now' = [now EXCEPT ![t] = 0]
         /\ caller' = [caller EXCEPT ![t] = Watched]
         /\ UNCHANGED <<clock, clients, lru, purge, evicted>>
         /\ InHand(held') \subseteq InHand(held)
         /\ DOMAIN entries' = Referenced(lru, held')
         /\ DOMAIN entries' \subseteq DOMAIN entries
         /\ \A x \in DOMAIN entries' :
              /\ entries'[x] \in Entry
              /\ entries'[x].ip = entries[x].ip
              /\ entries'[x].lastSeen = entries[x].lastSeen
              /\ x # held[t] => entries'[x].tokens = entries[x].tokens
              /\ x = held[t] => entries'[x].tokens =
                   IF entries[x].tokens >= 1 THEN entries[x].tokens - 1 ELSE 0
         /\ allowed' = allowed + IF entries[held[t]].tokens >= 1 /\ caller[t] = Watched
                                 THEN 1 ELSE 0
<1> DEFINE e == held[t]
           ok == entries[e].tokens >= 1
<1>1. /\ TypeOK /\ TableInv /\ HandInv
      /\ pc[t] = "allowing" /\ e # NoEntry /\ e \in DOMAIN entries
      /\ entries[e].ip = caller[t]
  BY Typed DEF Allow, IInv, HandInv
<1>2. /\ pc' = [pc EXCEPT ![t] = "idle"]
      /\ held' = [held EXCEPT ![t] = NoEntry]
      /\ now' = [now EXCEPT ![t] = 0]
      /\ caller' = [caller EXCEPT ![t] = Watched]
      /\ UNCHANGED <<clock, clients, lru, purge, evicted>>
      /\ Keep(IF ok THEN [entries EXCEPT ![e].tokens = @ - 1] ELSE entries)
      /\ allowed' = allowed + IF ok /\ caller[t] = Watched THEN 1 ELSE 0
  BY DEF Allow
<1>3. InHand(held') \subseteq InHand(held)
  BY <1>1, <1>2 DEF InHand, TypeOK
<1>4. DOMAIN entries' = Referenced(lru, held') /\ DOMAIN entries' \subseteq DOMAIN entries
  BY <1>1, <1>2, <1>3 DEF Keep, Referenced, TableInv
<1>5. ASSUME NEW x \in DOMAIN entries'
      PROVE  /\ entries'[x] \in Entry
             /\ entries'[x].ip = entries[x].ip
             /\ entries'[x].lastSeen = entries[x].lastSeen
             /\ x # e => entries'[x].tokens = entries[x].tokens
             /\ x = e => entries'[x].tokens =
                  IF entries[x].tokens >= 1 THEN entries[x].tokens - 1 ELSE 0
  <2>1. entries'[x] = (IF ok THEN [entries EXCEPT ![e].tokens = @ - 1] ELSE entries)[x]
    BY <1>2, <1>4 DEF Keep
  <2>2. entries[x] \in Entry /\ x \in DOMAIN entries
    BY <1>1, <1>4 DEF TypeOK
  <2>3. CASE ok /\ x = e
    <3>1. entries'[x] = [entries[x] EXCEPT !.tokens = entries[x].tokens - 1]
      BY <2>1, <2>2, <2>3
    <3>2. entries[x].tokens \in 0..Burst /\ entries[x].tokens >= 1
      BY <2>2, <2>3 DEF Entry
    <3>3. entries[x].tokens - 1 \in 0..Burst
      BY <3>2, Numbers
    <3>4. QED
      BY <2>2, <2>3, <3>1, <3>2, <3>3 DEF Entry
  <2>4. CASE ~(ok /\ x = e)
    <3>1. entries'[x] = entries[x]
      BY <2>1, <2>2, <2>4
    <3>2. entries[x].tokens \in 0..Burst
      BY <2>2 DEF Entry
    <3>3. QED
      BY <2>2, <2>4, <3>1, <3>2, Numbers
  <2>5. QED
    BY <2>3, <2>4
<1>6. QED
  BY <1>1, <1>2, <1>3, <1>4, <1>5

LEMMA AllowPreserves ==
  ASSUME IInv, NEW t \in Threads, Allow(t)
  PROVE  IInv'
<1>1. /\ pc' = [pc EXCEPT ![t] = "idle"]
      /\ held' = [held EXCEPT ![t] = NoEntry]
      /\ now' = [now EXCEPT ![t] = 0]
      /\ caller' = [caller EXCEPT ![t] = Watched]
      /\ UNCHANGED <<clock, clients, lru, purge, evicted>>
      /\ allowed' = allowed + IF entries[held[t]].tokens >= 1 /\ caller[t] = Watched
                              THEN 1 ELSE 0
  BY AllowStep
<1>2. /\ InHand(held') \subseteq InHand(held)
      /\ DOMAIN entries' = Referenced(lru, held')
      /\ DOMAIN entries' \subseteq DOMAIN entries
      /\ \A x \in DOMAIN entries' :
           /\ entries'[x] \in Entry
           /\ entries'[x].ip = entries[x].ip
           /\ entries'[x].lastSeen = entries[x].lastSeen
  BY AllowStep
<1>3. TypeOK /\ TimeInv /\ TableInv /\ HandInv /\ NearlyChronological
  BY DEF IInv
<1>4. TypeOK'
  <2>1. allowed' \in Nat
    BY <1>1, <1>3 DEF TypeOK
  <2>2. QED
    BY <1>1, <1>2, <1>3, <2>1, Numbers, WatchedAssumption DEF TypeOK
<1>5. TimeInv'
  <2>1. clock \in Nat /\ 0 <= clock
    BY <1>3, Numbers DEF TypeOK
  <2>2. QED
    BY <1>1, <1>2, <1>3, <2>1 DEF TimeInv, TypeOK
<1>6. \A x \in InList(lru) : x \in DOMAIN entries'
  BY <1>2 DEF Referenced
<1>7. TableInv'
  <2>1. \A ip \in DOMAIN clients :
          clients[ip] \in InList(lru) /\ entries'[clients[ip]].ip = ip
    BY <1>2, <1>3, <1>6 DEF TableInv
  <2>2. \A i \in 1..Len(lru) : entries'[lru[i]].ip = entries[lru[i]].ip
    BY <1>2, <1>6 DEF InList
  <2>3. QED
    BY <1>1, <1>2, <1>3, <2>1, <2>2 DEF TableInv
<1>8. HandInv'
  <2> SUFFICES ASSUME NEW u \in Threads
               PROVE  /\ pc'[u] = "allowing" <=> held'[u] # NoEntry
                      /\ held'[u] # NoEntry =>
                           /\ entries'[held'[u]].ip = caller'[u]
                           /\ now'[u] <= entries'[held'[u]].lastSeen + Skew
    BY DEF HandInv
  <2>1. CASE u = t
    BY <1>1, <1>3, <2>1 DEF TypeOK
  <2>2. CASE u # t
    <3>1. pc'[u] = pc[u] /\ held'[u] = held[u] /\ caller'[u] = caller[u] /\ now'[u] = now[u]
      BY <1>1, <1>3, <2>2 DEF TypeOK
    <3>2. held[u] # NoEntry => held[u] \in DOMAIN entries'
      BY <1>2, <3>1 DEF Referenced, InHand
    <3>3. QED
      BY <1>2, <1>3, <3>1, <3>2 DEF HandInv
  <2>3. QED
    BY <2>1, <2>2
<1>9. NearlyChronological'
  <2>1. \A i \in 1..Len(lru) : entries'[lru[i]].lastSeen = entries[lru[i]].lastSeen
    BY <1>2, <1>6 DEF InList
  <2>2. QED
    BY <1>1, <1>3, <2>1 DEF NearlyChronological
<1>10. QED
  BY <1>4, <1>5, <1>7, <1>8, <1>9 DEF IInv

\* One more second: a bucket gets Rate tokens, up to Burst.
LEMMA TickStep ==
  ASSUME IInv, Tick
  PROVE  /\ clock' = clock + 1 /\ clock' \in Times
         /\ UNCHANGED <<clients, lru, pc, now, caller, held, purge, allowed, evicted>>
         /\ \A t \in Threads : pc[t] # "idle" => clock < now[t] + Skew
         /\ DOMAIN entries' = DOMAIN entries
         /\ \A e \in DOMAIN entries :
              /\ entries'[e] \in Entry
              /\ entries'[e].ip = entries[e].ip
              /\ entries'[e].lastSeen = entries[e].lastSeen
              /\ entries'[e].tokens = IF entries[e].tokens + Rate > Burst
                                      THEN Burst ELSE entries[e].tokens + Rate
<1>1. /\ TypeOK
      /\ clock' = clock + 1 /\ clock < MaxClock
      /\ UNCHANGED <<clients, lru, pc, now, caller, held, purge, allowed, evicted>>
      /\ \A t \in Threads : pc[t] # "idle" => clock - now[t] < Skew
      /\ entries' = [e \in DOMAIN entries |-> Refilled(entries[e])]
  BY DEF Tick, threadVars, history, IInv
<1>2. /\ clock \in Nat /\ MaxClock \in Nat /\ Skew \in Nat /\ Rate \in Nat /\ Burst \in Nat
      /\ \A t \in Threads : now[t] \in Nat
  BY <1>1, Numbers DEF TypeOK
<1>3. clock' \in Times
  BY <1>1, <1>2 DEF Times
<1>4. \A t \in Threads : pc[t] # "idle" => clock < now[t] + Skew
  BY <1>1, <1>2
<1>5. ASSUME NEW e \in DOMAIN entries
      PROVE  /\ entries'[e] \in Entry
             /\ entries'[e].ip = entries[e].ip
             /\ entries'[e].lastSeen = entries[e].lastSeen
             /\ entries'[e].tokens = IF entries[e].tokens + Rate > Burst
                                     THEN Burst ELSE entries[e].tokens + Rate
  <2> DEFINE n == IF entries[e].tokens + Rate > Burst THEN Burst ELSE entries[e].tokens + Rate
  <2>1. entries[e] \in Entry /\ entries'[e] = [entries[e] EXCEPT !.tokens = n]
    BY <1>1 DEF TypeOK, Refilled
  <2>2. n \in 0..Burst
    BY <1>2, <2>1 DEF Entry
  <2> HIDE DEF n
  <2>3. entries'[e] \in Entry /\ entries'[e].tokens = n
        /\ entries'[e].ip = entries[e].ip /\ entries'[e].lastSeen = entries[e].lastSeen
    BY <2>1, <2>2 DEF Entry
  <2>4. QED
    BY <2>3 DEF n
<1>6. QED
  BY <1>1, <1>3, <1>4, <1>5

LEMMA TickPreserves ==
  ASSUME IInv, Tick
  PROVE  IInv'
<1>1. /\ clock' = clock + 1 /\ clock' \in Times
      /\ UNCHANGED <<clients, lru, pc, now, caller, held, purge, allowed, evicted>>
      /\ \A t \in Threads : pc[t] # "idle" => clock < now[t] + Skew
      /\ DOMAIN entries' = DOMAIN entries
      /\ \A e \in DOMAIN entries :
           /\ entries'[e] \in Entry
           /\ entries'[e].ip = entries[e].ip
           /\ entries'[e].lastSeen = entries[e].lastSeen
  BY TickStep
<1>2. TypeOK /\ TimeInv /\ TableInv /\ HandInv /\ NearlyChronological
  BY DEF IInv
<1>3. TypeOK'
  BY <1>1, <1>2 DEF TypeOK
<1>4. TimeInv'
  <2>1. /\ clock \in Nat /\ Skew \in Nat /\ \A t \in Threads : now[t] \in Nat
        /\ purge.now \in Nat
    BY <1>2, Numbers DEF TypeOK
  <2>2. \A e \in DOMAIN entries : entries[e].lastSeen \in Nat
    BY <1>2, Typed
  <2>3. QED
    BY <1>1, <1>2, <2>1, <2>2 DEF TimeInv
<1>5. \A i \in 1..Len(lru) : lru[i] \in DOMAIN entries
  BY <1>2, Typed
<1>6. \A ip \in DOMAIN clients : clients[ip] \in DOMAIN entries
  BY <1>2, Typed
<1>7. TableInv'
  <2>1. Referenced(lru', held') = Referenced(lru, held) /\ InList(lru') = InList(lru)
    BY <1>1 DEF InList, Referenced, InHand
  <2>2. \A ip \in DOMAIN clients : entries'[clients[ip]].ip = entries[clients[ip]].ip
    BY <1>1, <1>6
  <2>3. \A i \in 1..Len(lru) : entries'[lru[i]].ip = entries[lru[i]].ip
    BY <1>1, <1>5
  <2>4. QED
    BY <1>1, <1>2, <2>1, <2>2, <2>3 DEF TableInv
<1>8. HandInv'
  BY <1>1, <1>2, Typed DEF HandInv
<1>9. NearlyChronological'
  BY <1>1, <1>2, <1>5 DEF NearlyChronological
<1>10. QED
  BY <1>3, <1>4, <1>7, <1>8, <1>9 DEF IInv

LEMMA NextIInv == IInv /\ [Next]_vars => IInv'
<1> SUFFICES ASSUME IInv, [Next]_vars PROVE IInv'
  OBVIOUS
<1>1. CASE UNCHANGED vars
  <2>1. UNCHANGED <<clock, clients, lru, entries, pc, now, caller, held, purge,
                    allowed, evicted>>
    BY <1>1 DEF vars, tableVars, threadVars, history
  <2>2. TypeOK /\ TimeInv /\ TableInv /\ HandInv /\ NearlyChronological
    BY DEF IInv
  <2>3. TypeOK'
    BY <2>1, <2>2 DEF TypeOK
  <2>4. TimeInv' /\ HandInv' /\ NearlyChronological'
    BY <2>1, <2>2 DEF TimeInv, HandInv, NearlyChronological
  <2>5. TableInv'
    BY <2>1, <2>2 DEF TableInv, InList, Referenced, InHand
  <2>6. QED
    BY <2>3, <2>4, <2>5 DEF IInv
<1>2. QED
  BY <1>1, ReadClockPreserves, KnownPreserves, NewPreserves, AllowPreserves,
     PurgeTickPreserves, PurgePreserves, TickPreserves DEF Next

LEMMA Invariance == Spec => []IInv
BY InitIInv, NextIInv, PTL DEF Spec

\* Every variable keeps its type; in particular the identity of a new entry is
\* one nobody uses, and no bucket gets below zero or above its capacity.
THEOREM TypeCorrect == Spec => []TypeOK
<1>1. IInv => TypeOK
  BY DEF IInv
<1>2. QED
  BY <1>1, Invariance, PTL

\* The map and the list of the limiter describe the same sources within the
\* capacity, whatever interleaves (Allow, cleanupLoop).
THEOREM TableAlwaysConsistent == Spec => []TableIsConsistent
<1>1. IInv => TableIsConsistent
  BY TableCount DEF IInv, TableInv, TableIsConsistent
<1>2. QED
  BY <1>1, Invariance, PTL

\* The list stays in chronological order up to the delay of a request, so the
\* purge, which stops at the first recent entry, misses nothing older (cleanupLoop).
THEOREM AlwaysNearlyChronological == Spec => []NearlyChronological
<1>1. IInv => NearlyChronological
  BY DEF IInv
<1>2. QED
  BY <1>1, Invariance, PTL

-----------------------------------------------------------------------------
(* The rate: what is owed, and how a step changes it. *)

\* The terms of RateInv are numbers.
Numeric ==
  /\ IsFiniteSet(Owed) /\ Cardinality(Owed) \in Nat
  /\ TableTokens \in Nat /\ TableTokens <= Burst
  /\ allowed \in Nat /\ evicted \in Nat /\ clock \in Nat

LEMMA Amounts == IInv => Numeric
<1> SUFFICES ASSUME IInv PROVE Numeric
  OBVIOUS
<1>1. TypeOK /\ TableInv
  BY DEF IInv
<1>2. allowed \in Nat /\ evicted \in Nat /\ clock \in Nat
  BY <1>1, Numbers DEF TypeOK
<1>3. TableTokens \in 0..Burst
  BY <1>1, Typed, Numbers DEF TableTokens
<1>4. IsFiniteSet(Ids \X Marks)
  <2>1. MaxTrackedIPs + Cardinality(Threads) \in Int /\ -Burst \in Int
        /\ Rate * (MaxClock + Skew) \in Int
    BY Numbers
  <2>2. IsFiniteSet(Ids) /\ IsFiniteSet(Marks)
    BY <2>1, FS_Interval DEF Ids, Marks
  <2>3. QED
    BY <2>2, FS_Product
<1>5. Owed \subseteq Ids \X Marks
  <2>1. Orphans \subseteq Ids
    BY <1>1 DEF Orphans, InHand, TypeOK
  <2>2. QED
    BY <2>1 DEF Owed
<1>6. IsFiniteSet(Owed) /\ Cardinality(Owed) \in Nat
  BY <1>4, <1>5, FS_Subset, FS_CardinalityType
<1>7. QED
  BY <1>2, <1>3, <1>6, Numbers DEF Numeric

LEMMA AmountsNext == IInv' => Numeric'
BY Amounts, PTL

\* An orphan that was one before, and has not gained on the clock, is owed no more.
LEMMA OwedStill ==
  ASSUME IInv, IInv', NEW x \in Orphans, x \in Orphans',
         Rate * clock - entries[x].tokens <= Rate * clock' - entries'[x].tokens,
         \A u \in Threads : held'[u] = x => held[u] = x /\ now'[u] = now[u],
         NEW o \in Owed', o[1] = x
  PROVE  o \in Owed
<1>1. x \in DOMAIN entries /\ x \in DOMAIN entries'
  BY DEF Orphans, IInv, TableInv, Referenced
<1>2. entries[x].tokens \in Int /\ entries'[x].tokens \in Int
  BY <1>1, Typed, Numbers DEF IInv, TypeOK, Entry
<1>3. o \in Orphans' \X Marks /\ o[2] \in Int
  BY Numbers DEF Owed, Marks
<1>4. Rate * clock \in Int /\ Rate * clock' \in Int
  BY Numbers, Product DEF IInv, TypeOK, Times
<1>5. PICK u \in Threads : held'[u] = x /\ o[2] <= Rate * (now'[u] + Skew)
  BY DEF Owed
<1>6. held[u] = x /\ o[2] <= Rate * (now[u] + Skew)
  BY <1>5
<1>7. Rate * clock' - entries'[x].tokens < o[2]
  BY DEF Owed
<1>8. Rate * clock - entries[x].tokens < o[2]
  BY <1>2, <1>3, <1>4, <1>7
<1>9. o \in Orphans \X Marks
  BY <1>3
<1>10. QED
  BY <1>6, <1>8, <1>9 DEF Owed

LEMMA OwedShrinks ==
  ASSUME IInv, IInv',
         \A x \in Orphans' :
           /\ x \in Orphans
           /\ Rate * clock - entries[x].tokens <= Rate * clock' - entries'[x].tokens
           /\ \A u \in Threads : held'[u] = x => held[u] = x /\ now'[u] = now[u]
  PROVE  Owed' \subseteq Owed /\ Cardinality(Owed') <= Cardinality(Owed)
<1>1. Owed' \subseteq Owed
  <2> SUFFICES ASSUME NEW o \in Owed' PROVE o \in Owed
    OBVIOUS
  <2>1. o[1] \in Orphans'
    BY DEF Owed
  <2>2. QED
    BY <2>1, OwedStill
<1>2. QED
  BY <1>1, Amounts, FS_Subset DEF Numeric

\* A step that only moves tokens within what a source can still get.
LEMMA RateKept ==
  ASSUME IInv, IInv', RateInv, clock' = clock, evicted' = evicted,
         RefillsBeforePurge =>
           allowed' + TableTokens' + Cardinality(Owed')
             <= allowed + TableTokens + Cardinality(Owed)
  PROVE  RateInv'
<1> SUFFICES ASSUME RefillsBeforePurge
             PROVE  allowed' + TableTokens' + Cardinality(Owed')
                      <= Burst * (1 + evicted) + Rate * (clock + Skew * evicted)
  BY DEF RateInv, RefillsBeforePurge
<1>1. allowed + TableTokens + Cardinality(Owed)
        <= Burst * (1 + evicted) + Rate * (clock + Skew * evicted)
  BY DEF RateInv
<1>2. /\ allowed + TableTokens + Cardinality(Owed) \in Int
      /\ allowed' + TableTokens' + Cardinality(Owed') \in Int
  BY Amounts, AmountsNext DEF Numeric
<1>3. Burst * (1 + evicted) + Rate * (clock + Skew * evicted) \in Int
  BY Amounts, Numbers DEF Numeric
<1>4. QED
  BY <1>1, <1>2, <1>3

\* Nobody who uses an entry has read a time too old for it to be recent.
LEMMA InUse ==
  ASSUME IInv, NEW u \in Threads, held[u] # NoEntry
  PROVE  /\ held[u] \in DOMAIN entries /\ held[u] \in InHand(held)
         /\ entries[held[u]].lastSeen \in Nat /\ now[u] \in Nat
         /\ clock <= now[u] + Skew
         /\ clock <= entries[held[u]].lastSeen + 2 * Skew
<1>1. TypeOK /\ TimeInv /\ TableInv /\ HandInv
  BY DEF IInv
<1>2. /\ held[u] \in DOMAIN entries /\ held[u] \in InHand(held)
      /\ entries[held[u]].lastSeen \in Nat
  BY <1>1, Typed DEF InHand
<1>3. clock \in Nat /\ now[u] \in Nat /\ Skew \in Nat
  BY <1>1, Numbers DEF TypeOK
<1>4. clock <= now[u] + Skew
  BY <1>1 DEF HandInv, TimeInv
<1>5. now[u] <= entries[held[u]].lastSeen + Skew
  BY <1>1 DEF HandInv
<1>6. QED
  BY <1>2, <1>3, <1>4, <1>5

LEMMA NotPositive ==
  ASSUME NEW d \in Int, d <= 0
  PROVE  Rate * d <= 0
<1>1. Rate \in Nat /\ Rate * 0 = 0
  BY Numbers
<1>2. QED
  BY <1>1, Product

LEMMA ReadClockRate ==
  ASSUME IInv, RefillInv, RateInv, NEW t \in Threads, ReadClock(t)
  PROVE  RefillInv' /\ RateInv'
<1>1. /\ UNCHANGED <<clock, clients, lru, entries, held, allowed, evicted>>
      /\ now' = [now EXCEPT ![t] = clock] /\ pc[t] = "idle"
  BY DEF ReadClock, tableVars, history
<1>2. IInv' /\ TypeOK /\ held[t] = NoEntry
  BY <1>1, ReadClockPreserves DEF IInv, HandInv
<1>3. RefillInv'
  BY <1>1 DEF RefillInv
<1>4. TableTokens' = TableTokens
  BY <1>1 DEF TableTokens
<1>5. ASSUME NEW x \in Orphans'
      PROVE  /\ x \in Orphans
             /\ Rate * clock - entries[x].tokens <= Rate * clock' - entries'[x].tokens
             /\ \A u \in Threads : held'[u] = x => held[u] = x /\ now'[u] = now[u]
  <2>1. x \in Orphans /\ x # NoEntry
    BY <1>1 DEF Orphans, InHand, InList
  <2>2. entries[x].tokens \in Int /\ Rate * clock \in Int
    BY <1>2, <2>1, Typed, Numbers, Product DEF Orphans, IInv, TableInv, Referenced, TypeOK, Times
  <2>3. \A u \in Threads : held'[u] = x => now'[u] = now[u]
    BY <1>1, <1>2, <2>1 DEF TypeOK
  <2>4. QED
    BY <1>1, <2>1, <2>2, <2>3
<1>6. Cardinality(Owed') <= Cardinality(Owed)
  BY <1>2, <1>5, OwedShrinks
<1>7. RateInv'
  <2>1. allowed' + TableTokens' + Cardinality(Owed')
          <= allowed + TableTokens + Cardinality(Owed)
    BY <1>1, <1>2, <1>4, <1>6, Amounts, AmountsNext DEF Numeric
  <2>2. QED
    BY <1>1, <1>2, <2>1, RateKept
<1>8. QED
  BY <1>3, <1>7

LEMMA PurgeTickRate ==
  ASSUME IInv, RefillInv, RateInv, PurgeTick
  PROVE  RefillInv' /\ RateInv'
<1>1. UNCHANGED <<clock, clients, lru, entries, held, now, allowed, evicted>>
  BY DEF PurgeTick, tableVars, threadVars, history
<1>2. InHand(held') = InHand(held) /\ InList(lru') = InList(lru)
  BY <1>1 DEF InHand, InList
<1>3. TableTokens' = TableTokens /\ Orphans' = Orphans
  BY <1>1, <1>2 DEF TableTokens, Orphans
<1>4. Owed' = Owed
  BY <1>1, <1>3 DEF Owed
<1>5. QED
  BY <1>1, <1>3, <1>4 DEF RefillInv, RateInv, RefillsBeforePurge

LEMMA KnownRate ==
  ASSUME IInv, RefillInv, RateInv, NEW t \in Threads, Known(t)
  PROVE  RefillInv' /\ RateInv'
<1>1. PICK e : e = clients[caller[t]]
  OBVIOUS
<1>2. /\ e \in Ids /\ e \in DOMAIN entries /\ entries[e].ip = caller[t]
      /\ held' = [held EXCEPT ![t] = e]
      /\ e \in InList(lru) /\ InList(lru') = InList(lru)
      /\ InHand(held') = InHand(held) \cup {e}
      /\ DOMAIN entries' = DOMAIN entries
      /\ entries'[e].lastSeen = now[t] /\ entries'[e].ip = entries[e].ip
      /\ entries'[e].tokens = entries[e].tokens
      /\ \A x \in DOMAIN entries : x # e => entries'[x] = entries[x]
  BY <1>1, KnownStep
<1>3. /\ IInv' /\ TypeOK /\ TableInv /\ Locked(t)
      /\ UNCHANGED <<clients, evicted>>
  BY KnownPreserves DEF Known, IInv
<1>4. /\ UNCHANGED <<clock, now, allowed>>
      /\ now[t] \in Nat /\ clock \in Nat /\ Skew \in Nat /\ clock <= now[t] + Skew
  BY <1>2, <1>3, Holding
<1>5. \A x \in DOMAIN entries : entries'[x].tokens = entries[x].tokens
  BY <1>2
<1>6. RefillInv'
  <2> SUFFICES ASSUME NEW x \in DOMAIN entries
               PROVE  \/ entries'[x].tokens = Burst
                      \/ entries'[x].tokens >= Rate * (clock - entries'[x].lastSeen - 2 * Skew)
    BY <1>2, <1>4 DEF RefillInv
  <2>1. CASE x = e
    <3>1. clock - now[t] - 2 * Skew \in Int /\ clock - now[t] - 2 * Skew <= 0
      BY <1>4
    <3>2. Rate * (clock - now[t] - 2 * Skew) <= 0
      BY <3>1, NotPositive
    <3>3. Rate * (clock - now[t] - 2 * Skew) \in Int
      BY <3>1, Numbers
    <3>4. entries'[x].tokens \in Nat
      BY <1>2, <1>3, <1>5, Typed, Numbers
    <3>5. QED
      BY <1>2, <2>1, <3>2, <3>3, <3>4
  <2>2. CASE x # e
    BY <1>2, <2>2 DEF RefillInv
  <2>3. QED
    BY <2>1, <2>2
<1>7. TableTokens' = TableTokens
  BY <1>3, <1>5, Typed DEF TableTokens
<1>8. ASSUME NEW x \in Orphans'
      PROVE  /\ x \in Orphans
             /\ Rate * clock - entries[x].tokens <= Rate * clock' - entries'[x].tokens
             /\ \A u \in Threads : held'[u] = x => held[u] = x /\ now'[u] = now[u]
  <2>1. x # e /\ x \in InHand(held) /\ x \notin InList(lru) /\ entries'[x].ip = Watched
    BY <1>2 DEF Orphans
  <2>2. x \in DOMAIN entries
    BY <1>3, <2>1 DEF TableInv, Referenced
  <2>3. entries[x].tokens \in Int /\ Rate * clock \in Int
    BY <1>3, <1>4, <2>2, Typed, Numbers, Product
  <2>4. \A u \in Threads : held'[u] = x => held[u] = x
    BY <1>2, <1>3, <2>1 DEF TypeOK
  <2>5. QED
    BY <1>2, <1>4, <2>1, <2>2, <2>3, <2>4 DEF Orphans
<1>9. Cardinality(Owed') <= Cardinality(Owed)
  BY <1>3, <1>8, OwedShrinks
<1>10. RateInv'
  <2>1. allowed' + TableTokens' + Cardinality(Owed')
          <= allowed + TableTokens + Cardinality(Owed)
    BY <1>3, <1>4, <1>7, <1>9, Amounts, AmountsNext DEF Numeric
  <2>2. QED
    BY <1>3, <1>4, <2>1, RateKept
<1>11. QED
  BY <1>6, <1>10

\* A second brings at most Rate tokens, as many as it adds to what is allowed.
LEMMA TickRate ==
  ASSUME IInv, RefillInv, RateInv, Tick
  PROVE  RefillInv' /\ RateInv'
<1>1. /\ clock' = clock + 1
      /\ UNCHANGED <<clients, lru, now, held, allowed, evicted>>
      /\ DOMAIN entries' = DOMAIN entries
      /\ \A x \in DOMAIN entries :
           /\ entries'[x].ip = entries[x].ip
           /\ entries'[x].lastSeen = entries[x].lastSeen
           /\ entries'[x].tokens = IF entries[x].tokens + Rate > Burst
                                   THEN Burst ELSE entries[x].tokens + Rate
  BY TickStep
<1>2. IInv' /\ TypeOK /\ TableInv
  BY TickPreserves DEF IInv
<1>3. /\ clock \in Nat /\ Skew \in Nat /\ Rate \in Nat /\ Burst \in Nat
      /\ Rate * clock \in Int /\ Rate * (clock + 1) = Rate * clock + Rate
  <2>1. clock \in Nat /\ Skew \in Nat /\ Rate \in Nat /\ Burst \in Nat /\ Rate * 1 = Rate
    BY <1>2, Numbers DEF TypeOK
  <2>2. QED
    BY <2>1, Product
<1>4. \A x \in DOMAIN entries :
        /\ entries[x].tokens \in Nat /\ entries[x].tokens <= Burst
        /\ entries[x].lastSeen \in Nat
  BY <1>2, Typed, Numbers
<1>5. \A x \in DOMAIN entries :
        /\ entries'[x].tokens \in Nat
        /\ entries'[x].tokens <= entries[x].tokens + Rate
  BY <1>1, <1>3, <1>4
<1>6. RefillInv'
  <2> SUFFICES ASSUME NEW x \in DOMAIN entries
               PROVE  \/ entries'[x].tokens = Burst
                      \/ entries'[x].tokens
                           >= Rate * (clock' - entries'[x].lastSeen - 2 * Skew)
    BY <1>1 DEF RefillInv
  <2>1. CASE entries[x].tokens + Rate > Burst
    BY <1>1, <2>1
  <2>2. CASE ~(entries[x].tokens + Rate > Burst)
    <3>1. CASE entries[x].tokens = Burst
      <4>1. Rate # 0
        BY Numbers
      <4>2. QED
        BY <1>3, <2>2, <3>1, <4>1
    <3>2. CASE entries[x].tokens >= Rate * (clock - entries[x].lastSeen - 2 * Skew)
      <4>1. PICK d \in Int : d = clock - entries[x].lastSeen - 2 * Skew
        BY <1>3, <1>4
      <4>2. clock' - entries'[x].lastSeen - 2 * Skew = d + 1
        BY <1>1, <1>3, <1>4, <4>1
      <4>3. Rate * (d + 1) = Rate * d + Rate /\ Rate * d \in Int
        BY <1>3, Product, Rate * 1 = Rate
      <4>4. entries'[x].tokens = entries[x].tokens + Rate
        BY <1>1, <2>2
      <4>5. entries[x].tokens >= Rate * d
        BY <3>2, <4>1
      <4>6. entries'[x].tokens >= Rate * (d + 1)
        BY <1>3, <1>4, <4>3, <4>4, <4>5
      <4>7. QED
        BY <4>2, <4>6
    <3>3. QED
      BY <3>1, <3>2 DEF RefillInv
  <2>3. QED
    BY <2>1, <2>2
<1>7. TableTokens' <= TableTokens + Rate
  <2>1. CASE Watched \in DOMAIN clients
    BY <1>1, <1>2, <1>5, <2>1, Typed DEF TableTokens
  <2>2. CASE Watched \notin DOMAIN clients
    BY <1>1, <1>3, <2>2 DEF TableTokens
  <2>3. QED
    BY <2>1, <2>2
<1>8. ASSUME NEW x \in Orphans'
      PROVE  /\ x \in Orphans
             /\ Rate * clock - entries[x].tokens <= Rate * clock' - entries'[x].tokens
             /\ \A u \in Threads : held'[u] = x => held[u] = x /\ now'[u] = now[u]
  <2>1. x \in InHand(held) /\ x \notin InList(lru) /\ entries'[x].ip = Watched
    BY <1>1 DEF Orphans, InHand, InList
  <2>2. x \in DOMAIN entries
    BY <1>2, <2>1 DEF TableInv, Referenced
  <2>3. Rate * clock - entries[x].tokens <= Rate * clock' - entries'[x].tokens
    BY <1>1, <1>3, <1>4, <1>5, <2>2
  <2>4. QED
    BY <1>1, <2>1, <2>2, <2>3 DEF Orphans
<1>9. Cardinality(Owed') <= Cardinality(Owed)
  BY <1>2, <1>8, OwedShrinks
<1>10. RateInv'
  <2> SUFFICES ASSUME RefillsBeforePurge
               PROVE  allowed + TableTokens' + Cardinality(Owed')
                        <= Burst * (1 + evicted) + Rate * (clock + 1 + Skew * evicted)
    BY <1>1 DEF RateInv, RefillsBeforePurge
  <2>1. PICK b \in Int : b = Burst * (1 + evicted)
    BY <1>2, <1>3 DEF TypeOK
  <2>2. PICK d \in Int : d = clock + Skew * evicted
    BY <1>2, <1>3 DEF TypeOK
  <2>3. allowed + TableTokens + Cardinality(Owed) <= b + Rate * d
    BY <2>1, <2>2 DEF RateInv
  <2>4. Rate * (d + 1) = Rate * d + Rate /\ Rate * d \in Int
    BY <1>3, <2>2, Product, Rate * 1 = Rate
  <2>5. clock + 1 + Skew * evicted = d + 1
    BY <1>2, <1>3, <2>2 DEF TypeOK
  <2>6. allowed + TableTokens' + Cardinality(Owed') <= b + Rate * (d + 1)
    BY <1>2, <1>3, <1>7, <1>9, <2>3, <2>4, Amounts, AmountsNext DEF Numeric
  <2>7. QED
    BY <2>1, <2>5, <2>6
<1>11. QED
  BY <1>6, <1>10

\* The token a request of Watched takes is one its source could still get: one of
\* the table, or one that an orphan owes.
LEMMA AllowRate ==
  ASSUME IInv, RefillInv, RateInv, NEW t \in Threads, Allow(t)
  PROVE  RefillInv' /\ RateInv'
<1>1. PICK e : e = held[t]
  OBVIOUS
<1>2. /\ e \in DOMAIN entries /\ entries[e].ip = caller[t]
      /\ held' = [held EXCEPT ![t] = NoEntry]
      /\ now' = [now EXCEPT ![t] = 0]
      /\ UNCHANGED <<clock, clients, lru, evicted>>
      /\ InHand(held') \subseteq InHand(held)
      /\ DOMAIN entries' = Referenced(lru, held')
      /\ DOMAIN entries' \subseteq DOMAIN entries
      /\ \A x \in DOMAIN entries' :
           /\ entries'[x].ip = entries[x].ip
           /\ entries'[x].lastSeen = entries[x].lastSeen
           /\ x # e => entries'[x].tokens = entries[x].tokens
           /\ x = e => entries'[x].tokens =
                IF entries[x].tokens >= 1 THEN entries[x].tokens - 1 ELSE 0
      /\ allowed' = allowed + IF entries[e].tokens >= 1 /\ caller[t] = Watched
                              THEN 1 ELSE 0
  BY <1>1, AllowStep
<1>3. /\ IInv' /\ TypeOK /\ TableInv /\ e # NoEntry
  BY <1>1, AllowPreserves DEF Allow, IInv, HandInv
<1>4. /\ entries[e].lastSeen \in Nat /\ now[t] \in Nat /\ e \in InHand(held)
      /\ clock <= now[t] + Skew
      /\ clock <= entries[e].lastSeen + 2 * Skew
      /\ clock \in Nat /\ Skew \in Nat
  BY <1>1, <1>3, InUse, Numbers DEF TypeOK
<1>5. \A x \in DOMAIN entries : entries[x].tokens \in Nat /\ entries[x].tokens <= Burst
  BY <1>3, Typed, Numbers
<1>6. \A x \in DOMAIN entries' :
        entries'[x].tokens \in Nat /\ entries'[x].tokens <= entries[x].tokens
  <2> SUFFICES ASSUME NEW x \in DOMAIN entries'
               PROVE  entries'[x].tokens \in Nat /\ entries'[x].tokens <= entries[x].tokens
    OBVIOUS
  <2>1. entries[x].tokens \in Nat
    BY <1>2, <1>5
  <2>2. \/ entries'[x].tokens = entries[x].tokens
        \/ entries'[x].tokens = IF entries[x].tokens >= 1 THEN entries[x].tokens - 1 ELSE 0
    BY <1>2
  <2>3. QED
    BY <2>1, <2>2
<1>7. RefillInv'
  <2> SUFFICES ASSUME NEW x \in DOMAIN entries'
               PROVE  \/ entries'[x].tokens = Burst
                      \/ entries'[x].tokens
                           >= Rate * (clock - entries'[x].lastSeen - 2 * Skew)
    BY <1>2 DEF RefillInv
  <2>1. CASE x = e
    <3>1. PICK d \in Int : d = clock - entries[e].lastSeen - 2 * Skew
      BY <1>4
    <3>2. d <= 0
      BY <1>4, <3>1
    <3>3. Rate * d <= 0 /\ Rate * d \in Int
      BY <3>2, NotPositive, Numbers
    <3>4. entries'[x].tokens >= Rate * d
      BY <1>6, <3>3
    <3>5. QED
      BY <1>2, <2>1, <3>1, <3>4
  <2>2. CASE x # e
    <3>1. x \in DOMAIN entries /\ entries'[x].tokens = entries[x].tokens
          /\ entries'[x].lastSeen = entries[x].lastSeen
      BY <1>2, <2>2
    <3>2. QED
      BY <3>1 DEF RefillInv
  <2>3. QED
    BY <2>1, <2>2
<1>8. InList(lru') = InList(lru) /\ \A x \in InList(lru) : x \in DOMAIN entries'
  BY <1>2 DEF InList, Referenced
<1>9. Rate * clock \in Int /\ \A u \in Threads : held'[u] # NoEntry =>
        u # t /\ held'[u] = held[u] /\ now'[u] = now[u]
  BY <1>2, <1>3, <1>4, Numbers DEF TypeOK
<1>10. ASSUME NEW x \in Orphans'
       PROVE  /\ x \in Orphans
              /\ Rate * clock - entries[x].tokens <= Rate * clock' - entries'[x].tokens
              /\ \A u \in Threads : held'[u] = x => held[u] = x /\ now'[u] = now[u]
  <2>1. x \in InHand(held') /\ x # NoEntry /\ x \notin InList(lru) /\ entries'[x].ip = Watched
    BY <1>8 DEF Orphans, InHand
  <2>2. x \in DOMAIN entries' /\ x \in DOMAIN entries
    BY <1>2, <2>1 DEF Referenced
  <2>3. entries'[x].tokens <= entries[x].tokens
        /\ entries'[x].tokens \in Int /\ entries[x].tokens \in Int
    BY <1>5, <1>6, <2>2
  <2>4. Rate * clock - entries[x].tokens <= Rate * clock' - entries'[x].tokens
    BY <1>2, <1>9, <2>3
  <2>5. QED
    BY <1>2, <1>9, <2>1, <2>2, <2>4 DEF Orphans
<1>11. Owed' \subseteq Owed /\ Cardinality(Owed') <= Cardinality(Owed)
  BY <1>3, <1>10, OwedShrinks
<1>12. /\ TableTokens' <= TableTokens
       /\ (Watched \in DOMAIN clients => clients[Watched] # e) => TableTokens' = TableTokens
  <2>1. CASE Watched \in DOMAIN clients
    <3>1. clients[Watched] \in InList(lru) /\ clients[Watched] \in DOMAIN entries'
      BY <1>3, <1>8, <2>1 DEF TableInv
    <3>2. QED
      BY <1>2, <1>6, <2>1, <3>1 DEF TableTokens
  <2>2. CASE Watched \notin DOMAIN clients
    BY <1>2, <2>2, Numbers DEF TableTokens
  <2>3. QED
    BY <2>1, <2>2
<1>13. allowed' + TableTokens' + Cardinality(Owed')
         <= allowed + TableTokens + Cardinality(Owed)
  <2>1. CASE allowed' = allowed
    BY <1>3, <1>11, <1>12, <2>1, Amounts, AmountsNext DEF Numeric
  <2>2. CASE entries[e].tokens >= 1 /\ caller[t] = Watched /\ e \in InList(lru)
    <3>1. Watched \in DOMAIN clients /\ clients[Watched] = e
      BY <1>2, <1>3, <2>2 DEF TableInv, InList
    <3>2. TableTokens = entries[e].tokens /\ TableTokens' = entries[e].tokens - 1
      BY <1>2, <1>8, <2>2, <3>1 DEF TableTokens
    <3>3. allowed' = allowed + 1
      BY <1>2, <2>2
    <3>4. QED
      BY <1>3, <1>11, <3>2, <3>3, Amounts, AmountsNext DEF Numeric
  <2>3. CASE entries[e].tokens >= 1 /\ caller[t] = Watched /\ e \notin InList(lru)
    <3>1. TableTokens' = TableTokens
      BY <1>3, <1>12, <2>3 DEF TableInv
    <3>2. allowed' = allowed + 1
      BY <1>2, <2>3
    <3>3. e \in Orphans
      BY <1>2, <1>4, <2>3 DEF Orphans
    <3>4. PICK m \in Int : m = Rate * clock - entries[e].tokens + 1
      BY <1>2, <1>5, <1>9
    <3>5. Rate * clock - entries[e].tokens < m /\ m <= Rate * clock
      BY <1>2, <1>5, <1>9, <2>3, <3>4
    <3>6. m <= Rate * (now[t] + Skew)
      <4>1. now[t] + Skew \in Int /\ Rate * (now[t] + Skew) \in Int
        BY <1>4, Numbers
      <4>2. Rate * clock <= Rate * (now[t] + Skew)
        <5>1. Rate \in Nat /\ clock \in Int
          BY <1>4, Numbers
        <5>2. QED
          BY <1>4, <4>1, <5>1, Product
      <4>3. QED
        BY <1>9, <3>5, <4>1, <4>2
    <3>7. m \in Marks
      <4>1. clock <= MaxClock + Skew /\ MaxClock + Skew \in Int
        BY <1>3, <1>4, Numbers DEF TypeOK, Times
      <4>2. Rate * clock <= Rate * (MaxClock + Skew) /\ Rate * (MaxClock + Skew) \in Int
        BY <1>4, <4>1, Product, Numbers
      <4>3. 0 <= Rate * clock
        BY <1>4, Numbers, Product, Rate * 0 = 0
      <4>4. -Burst <= m
        BY <1>2, <1>5, <1>9, <3>4, <4>3, Numbers
      <4>5. m <= Rate * (MaxClock + Skew)
        BY <1>9, <3>5, <4>2
      <4>6. QED
        BY <4>2, <4>4, <4>5, Numbers DEF Marks
    <3>8. <<e, m>> \in Owed
      BY <1>1, <3>3, <3>5, <3>6, <3>7 DEF Owed
    <3>9. <<e, m>> \notin Owed'
      <4>1. SUFFICES ASSUME e \in Orphans', Rate * clock' - entries'[e].tokens < m
                     PROVE  FALSE
        BY DEF Owed
      <4>2. e \in DOMAIN entries'
        BY <1>2, <4>1 DEF Orphans, Referenced
      <4>3. entries'[e].tokens = entries[e].tokens - 1
        BY <1>2, <2>3, <4>2
      <4>4. QED
        BY <1>2, <1>5, <1>9, <3>4, <4>1, <4>3
    <3>10. Cardinality(Owed') <= Cardinality(Owed) - 1
      <4>1. /\ IsFiniteSet(Owed \ {<<e, m>>})
            /\ Cardinality(Owed \ {<<e, m>>}) = Cardinality(Owed) - 1
        BY <3>8, Amounts, FS_RemoveElement DEF Numeric
      <4>2. Owed' \subseteq Owed \ {<<e, m>>}
        BY <1>11, <3>9
      <4>3. Cardinality(Owed') <= Cardinality(Owed \ {<<e, m>>})
        BY <4>1, <4>2, FS_Subset
      <4>4. QED
        BY <4>1, <4>3
    <3>11. QED
      BY <1>3, <3>1, <3>2, <3>10, Amounts, AmountsNext DEF Numeric
  <2>4. QED
    BY <1>2, <1>3, <2>1, <2>2, <2>3 DEF TypeOK
<1>14. RateInv'
  BY <1>2, <1>3, <1>13, RateKept
<1>15. QED
  BY <1>7, <1>14

\* The tokens that the orphan left by an eviction owes: what it has, and what it
\* earns while the requests that hold it are late.
LEMMA EvictionOwes ==
  ASSUME NEW g, NEW k \in Int, NEW m \in Nat, NEW new,
         new \subseteq {g} \X ((k + 1)..(k + m))
  PROVE  IsFiniteSet(new) /\ Cardinality(new) \in Nat /\ Cardinality(new) <= m
<1>1. /\ k + 1 \in Int /\ k + m \in Int
      /\ (k + m) - (k + 1) + 1 = m /\ (k + 1 > k + m => m = 0)
  OBVIOUS
<1>2. /\ IsFiniteSet((k + 1)..(k + m))
      /\ Cardinality((k + 1)..(k + m)) = m
  BY <1>1, FS_Interval
<1>3. IsFiniteSet({g}) /\ Cardinality({g}) = 1
  BY FS_Singleton
<1>4. /\ IsFiniteSet({g} \X ((k + 1)..(k + m)))
      /\ Cardinality({g} \X ((k + 1)..(k + m))) = 1 * m
  BY <1>2, <1>3, FS_Product
<1>5. QED
  BY <1>4, FS_Subset, FS_CardinalityType

\* A new source gets a full bucket, which is what it could get before; an eviction
\* of Watched gives it one more, and leaves an orphan.
LEMMA NewRate ==
  ASSUME IInv, RefillInv, RateInv, NEW t \in Threads, New(t)
  PROVE  RefillInv' /\ RateInv'
<1>1. PICK e \in Ids, n \in 0..Len(lru), kept \in Seq(Ids) :
        /\ e \notin Referenced(lru, held)
        /\ n = IF Full THEN 1 ELSE 0
        /\ Len(kept) = Len(lru) - n /\ Len(kept) + 1 <= MaxTrackedIPs
        /\ \A a \in 1..Len(kept) : kept[a] = lru[a + n]
        /\ lru' = Append(kept, e)
        /\ clients' = [i \in (DOMAIN clients \ HeadIPs(n)) \cup {caller[t]} |->
                         IF i = caller[t] THEN e ELSE clients[i]]
        /\ held' = [held EXCEPT ![t] = e]
        /\ evicted' = evicted + IF Watched \in HeadIPs(n) THEN 1 ELSE 0
        /\ Keep([x \in DOMAIN entries \cup {e} |->
                   IF x = e THEN NewEntry(caller[t], now[t]) ELSE entries[x]])
  BY NewStep
<1>2. /\ HeadIPs(n) \subseteq DOMAIN clients
      /\ InList(kept) \subseteq InList(lru)
      /\ \A ip \in DOMAIN clients \ HeadIPs(n) : clients[ip] \in InList(kept)
  <2>1. Len(kept) = Len(lru) - n /\ \A a \in 1..Len(kept) : kept[a] = lru[a + n]
    BY <1>1
  <2>2. QED
    BY <2>1, HeadGone
<1>3. /\ InList(lru') = InList(kept) \cup {e}
      /\ InHand(held') = InHand(held) \cup {e}
      /\ DOMAIN entries' = Referenced(lru', held')
      /\ InList(kept) \subseteq DOMAIN entries'
      /\ entries'[e] = NewEntry(caller[t], now[t])
      /\ \A x \in DOMAIN entries' : x # e => x \in DOMAIN entries /\ entries'[x] = entries[x]
  BY <1>1, <1>2, NewEffect
<1>4. /\ IInv' /\ TypeOK /\ TableInv /\ TimeInv /\ Locked(t)
      /\ caller[t] \notin DOMAIN clients
  BY NewPreserves DEF New, IInv
<1>5. /\ UNCHANGED <<clock, now, allowed>> /\ clock \in Nat /\ Skew \in Nat
      /\ clock \in Int /\ Rate * clock \in Int
  <2>1. UNCHANGED <<clock, now, allowed>>
    BY <1>4 DEF Locked
  <2>2. clock \in Nat /\ Skew \in Nat /\ Rate \in Nat
    BY <1>4, Numbers DEF TypeOK
  <2>3. QED
    BY <2>1, <2>2
<1>6. entries'[e].ip = caller[t] /\ entries'[e].tokens = Burst
  BY <1>3 DEF NewEntry
<1>7. RefillInv'
  BY <1>3, <1>5, <1>6 DEF RefillInv
<1>8. ASSUME NEW x \in Orphans'
      PROVE  /\ x # e /\ x \in DOMAIN entries /\ entries'[x] = entries[x]
             /\ x \in InHand(held) /\ x \notin InList(kept) /\ entries[x].ip = Watched
             /\ \A u \in Threads : held'[u] = x => held[u] = x /\ now'[u] = now[u]
             /\ x \in Orphans \/ (Watched \in HeadIPs(n) /\ x = clients[Watched])
  <2>1. x # e /\ x \in InHand(held) /\ x \notin InList(kept) /\ entries'[x].ip = Watched
    BY <1>3 DEF Orphans
  <2>2. x \in DOMAIN entries /\ entries'[x] = entries[x]
    BY <1>3, <1>4, <2>1 DEF Referenced
  <2>3. \A u \in Threads : held'[u] = x => held[u] = x /\ now'[u] = now[u]
    BY <1>1, <1>4, <1>5, <2>1 DEF TypeOK
  <2>4. CASE x \notin InList(lru)
    BY <2>1, <2>2, <2>3, <2>4 DEF Orphans
  <2>5. CASE x \in InList(lru)
    <3>1. Watched \in DOMAIN clients /\ clients[Watched] = x
      BY <1>4, <2>1, <2>2, <2>5 DEF TableInv, InList
    <3>2. Watched \in HeadIPs(n)
      BY <1>2, <2>1, <3>1
    <3>3. QED
      BY <2>1, <2>2, <2>3, <3>1, <3>2
  <2>6. QED
    BY <2>4, <2>5
<1>9. ASSUME NEW x \in Orphans'
      PROVE  Rate * clock - entries[x].tokens <= Rate * clock' - entries'[x].tokens
  <2>1. entries[x].tokens \in Int
    BY <1>4, <1>8, Typed, Numbers
  <2>2. QED
    BY <1>5, <1>8, <2>1
<1>10. CASE Watched \notin HeadIPs(n)
  <2>1. Cardinality(Owed') <= Cardinality(Owed)
    <3>1. \A x \in Orphans' :
            /\ x \in Orphans
            /\ Rate * clock - entries[x].tokens <= Rate * clock' - entries'[x].tokens
            /\ \A u \in Threads : held'[u] = x => held[u] = x /\ now'[u] = now[u]
      BY <1>8, <1>9, <1>10
    <3>2. QED
      BY <1>4, <3>1, OwedShrinks
  <2>2. TableTokens' = TableTokens
    <3>1. CASE Watched = caller[t]
      BY <1>1, <1>4, <1>6, <3>1 DEF TableTokens
    <3>2. CASE Watched # caller[t] /\ Watched \in DOMAIN clients
      <4>1. /\ Watched \in DOMAIN clients' /\ clients'[Watched] = clients[Watched]
            /\ clients[Watched] \in InList(kept)
        BY <1>1, <1>2, <1>10, <3>2
      <4>2. clients[Watched] \in DOMAIN entries /\ clients[Watched] # e
        BY <1>1, <1>4, <3>2, Typed DEF TableInv
      <4>3. QED
        BY <1>3, <3>2, <4>1, <4>2 DEF TableTokens
    <3>3. CASE Watched # caller[t] /\ Watched \notin DOMAIN clients
      BY <1>1, <3>3 DEF TableTokens
    <3>4. QED
      BY <3>1, <3>2, <3>3
  <2>3. evicted' = evicted
    BY <1>1, <1>4, <1>10 DEF TypeOK
  <2>4. allowed' + TableTokens' + Cardinality(Owed')
          <= allowed + TableTokens + Cardinality(Owed)
    BY <1>4, <1>5, <2>1, <2>2, Amounts, AmountsNext DEF Numeric
  <2>5. RateInv'
    BY <1>4, <1>5, <2>3, <2>4, RateKept
  <2>6. QED
    BY <1>7, <2>5
<1>11. CASE Watched \in HeadIPs(n)
  <2>1. PICK g \in DOMAIN entries : g = clients[Watched]
    BY <1>2, <1>4, <1>11, Typed
  <2>2. /\ Watched \in DOMAIN clients /\ TableTokens = entries[g].tokens
        /\ entries[g].tokens \in Nat
    BY <1>2, <1>4, <1>11, <2>1, Typed, Numbers DEF TableTokens
  <2>3. TableTokens' = Burst /\ evicted' = evicted + 1
    BY <1>1, <1>4, <1>11, <2>2 DEF TableTokens
  <2>4. PICK k \in Int : k = Rate * clock - entries[g].tokens
    BY <1>5, <2>2
  <2>5. PICK m \in Nat : m = entries[g].tokens + Rate * Skew
    BY <2>2, Numbers
  <2>6. k + m = Rate * (clock + Skew) /\ Rate * Skew \in Nat
    BY <1>5, <2>2, <2>4, <2>5, Product, Numbers
  <2>7. PICK new : new = Owed' \ Owed
    OBVIOUS
  <2>8. new \subseteq {g} \X ((k + 1)..(k + m))
    <3> SUFFICES ASSUME NEW o \in Owed', o \notin Owed
                 PROVE  o \in {g} \X ((k + 1)..(k + m))
      BY <2>7
    <3>1. o \in Orphans' \X Marks /\ o[1] \in Orphans' /\ o[2] \in Int
      BY Numbers DEF Owed, Marks
    <3>2. PICK x \in Orphans' : x = o[1]
      BY <3>1
    <3>3. x = g
      <4>1. x \notin Orphans
        BY <1>4, <1>8, <1>9, <3>2, OwedStill
      <4>2. QED
        BY <1>8, <2>1, <3>2, <4>1
    <3>4. k < o[2]
      <4>1. Rate * clock' - entries'[x].tokens < o[2]
        BY <3>2 DEF Owed
      <4>2. entries'[x] = entries[g] /\ clock' = clock
        BY <1>5, <1>8, <3>2, <3>3
      <4>3. QED
        BY <2>4, <4>1, <4>2
    <3>5. o[2] <= k + m
      <4>1. PICK u \in Threads : held'[u] = x /\ o[2] <= Rate * (now'[u] + Skew)
        BY <3>2 DEF Owed
      <4>2. /\ now'[u] + Skew \in Int /\ clock + Skew \in Int
            /\ now'[u] + Skew <= clock + Skew
        <5>1. now[u] \in Nat /\ now[u] <= clock /\ now'[u] = now[u]
          BY <1>4, <1>5, Numbers DEF TimeInv, TypeOK
        <5>2. QED
          BY <1>5, <5>1
      <4>3. /\ Rate * (now'[u] + Skew) <= Rate * (clock + Skew)
            /\ Rate * (now'[u] + Skew) \in Int /\ Rate * (clock + Skew) \in Int
        <5>1. Rate \in Nat
          BY Numbers
        <5>2. QED
          BY <4>2, <5>1, Product
      <4>4. QED
        BY <2>6, <3>1, <4>1, <4>3
    <3>6. o[2] \in (k + 1)..(k + m)
      BY <3>1, <3>4, <3>5
    <3>7. QED
      BY <3>1, <3>2, <3>3, <3>6
  <2>9. Cardinality(Owed') <= Cardinality(Owed) + m
    <3>1. IsFiniteSet(Owed) /\ Cardinality(Owed) \in Nat
      BY Amounts DEF Numeric
    <3>2. IsFiniteSet(new) /\ Cardinality(new) \in Nat /\ Cardinality(new) <= m
      BY <2>8, EvictionOwes
    <3>3. /\ IsFiniteSet(Owed \cup new)
          /\ Cardinality(Owed \cup new)
               = Cardinality(Owed) + Cardinality(new) - Cardinality(Owed \cap new)
      BY <3>1, <3>2, FS_Union
    <3>4. Owed \cap new = {} /\ Owed' \subseteq Owed \cup new
      BY <2>7
    <3>5. Cardinality(Owed \cap new) = 0
      BY <3>4, FS_EmptySet
    <3>6. Cardinality(Owed') <= Cardinality(Owed \cup new)
          /\ Cardinality(Owed') \in Nat
      BY <3>3, <3>4, FS_Subset, FS_CardinalityType
    <3>7. QED
      BY <3>1, <3>2, <3>3, <3>5, <3>6
  <2>10. RateInv'
    <3> SUFFICES ASSUME RefillsBeforePurge
                 PROVE  allowed + Burst + Cardinality(Owed')
                          <= Burst * (1 + evicted') + Rate * (clock + Skew * evicted')
      BY <1>5, <2>3 DEF RateInv, RefillsBeforePurge
    <3>1. evicted \in Nat /\ allowed \in Nat /\ Cardinality(Owed) \in Nat
          /\ Cardinality(Owed') \in Nat /\ Burst \in Nat /\ Rate \in Nat
      BY <1>4, Amounts, AmountsNext, Numbers DEF Numeric
    <3>2. PICK b \in Int : b = Burst * (1 + evicted)
      BY <3>1
    <3>3. PICK d \in Int : d = clock + Skew * evicted
      BY <1>5, <3>1
    <3>4. allowed + entries[g].tokens + Cardinality(Owed) <= b + Rate * d
      BY <2>2, <3>2, <3>3 DEF RateInv
    <3>5. Burst * (1 + evicted') = b + Burst
      <4>1. Burst * ((1 + evicted) + 1) = Burst * (1 + evicted) + Burst * 1
        BY <3>1, Product
      <4>2. (1 + evicted) + 1 = 1 + evicted' /\ Burst * 1 = Burst
        BY <2>3, <3>1
      <4>3. QED
        BY <3>2, <4>1, <4>2
    <3>6. clock + Skew * evicted' = d + Skew
      <4>1. Skew * (evicted + 1) = Skew * evicted + Skew * 1 /\ Skew * evicted \in Int
        BY <1>5, <3>1, Product
      <4>2. QED
        BY <1>5, <2>3, <3>3, <4>1, Skew * 1 = Skew
    <3>7. Rate * (d + Skew) = Rate * d + Rate * Skew /\ Rate * d \in Int
      BY <1>5, <3>1, Product
    <3>8. Cardinality(Owed') <= Cardinality(Owed) + entries[g].tokens + Rate * Skew
      BY <2>2, <2>5, <2>6, <2>9, <3>1
    <3>9. allowed + Burst + Cardinality(Owed') <= (b + Burst) + (Rate * d + Rate * Skew)
      <4>1. PICK p \in Int : p = Rate * d
        BY <3>7
      <4>2. PICK q \in Int : q = Rate * Skew
        BY <2>6
      <4>3. /\ allowed + entries[g].tokens + Cardinality(Owed) <= b + p
            /\ Cardinality(Owed') <= Cardinality(Owed) + entries[g].tokens + q
        BY <3>4, <3>8, <4>1, <4>2
      <4>4. allowed + Burst + Cardinality(Owed') <= (b + Burst) + (p + q)
        BY <2>2, <3>1, <4>3
      <4>5. QED
        BY <4>1, <4>2, <4>4
    <3>10. QED
      BY <3>5, <3>6, <3>7, <3>9
  <2>11. QED
    BY <1>7, <2>10
<1>12. QED
  BY <1>10, <1>11

\* Nothing that is in use has expired when it is full only after CleanupTTL.
LEMMA ExpiredIsFull ==
  ASSUME IInv, RefillInv, RefillsBeforePurge, NEW x \in DOMAIN entries, Expired(x)
  PROVE  entries[x].tokens = Burst /\ x \notin InHand(held)
<1>1. TypeOK /\ TableInv /\ TimeInv
  BY DEF IInv
<1>2. /\ clock \in Nat /\ purge.now \in Nat /\ purge.now <= clock
      /\ entries[x].lastSeen \in Nat /\ entries[x].tokens \in Nat
      /\ entries[x].tokens <= Burst
  <2>1. clock \in Nat /\ purge.now \in Nat /\ purge.now <= clock
    BY <1>1, Numbers DEF TimeInv, TypeOK
  <2>2. entries[x].lastSeen \in Nat /\ entries[x].tokens \in 0..Burst /\ Burst \in Nat
    BY <1>1, Typed, Numbers
  <2>3. QED
    BY <2>1, <2>2
<1>3. Burst \in Nat /\ Burst # 0 /\ Rate \in Nat /\ CleanupTTL \in Nat /\ Skew \in Nat
  BY Numbers
<1>4. PICK d \in Int : d = clock - entries[x].lastSeen - 2 * Skew
  BY <1>2, <1>3
<1>5. PICK b \in Int : b = CleanupTTL + 1 - 2 * Skew
  BY <1>3
<1>6. b <= d
  BY <1>2, <1>3, <1>4, <1>5 DEF Expired
<1>7. Rate * b <= Rate * d /\ Rate * b \in Int /\ Rate * d \in Int
  BY <1>3, <1>6, Product
<1>8. Burst <= Rate * b
  BY <1>5 DEF RefillsBeforePurge
<1>9. entries[x].tokens = Burst
  <2>1. entries[x].tokens = Burst \/ entries[x].tokens >= Rate * d
    BY <1>4 DEF RefillInv
  <2>2. QED
    BY <1>2, <1>3, <1>7, <1>8, <2>1
<1>10. ASSUME x \in InHand(held) PROVE FALSE
  <2>1. PICK u \in Threads : held[u] = x /\ held[u] # NoEntry
    BY <1>10 DEF InHand
  <2>2. clock <= entries[x].lastSeen + 2 * Skew
    BY <2>1, InUse
  <2>3. d <= 0
    BY <1>2, <1>3, <1>4, <2>2
  <2>4. Rate * d <= 0
    BY <2>3, NotPositive
  <2>5. QED
    BY <1>3, <1>7, <1>8, <2>4
<1>11. QED
  BY <1>9, <1>10

\* What leaves the table is full, and nobody uses it.
LEMMA PurgeRate ==
  ASSUME IInv, RefillInv, RateInv, Purge
  PROVE  RefillInv' /\ RateInv'
<1>1. PICK n \in 0..Len(lru) :
        /\ StopsAfter(n)
        /\ clients' = [ip \in DOMAIN clients \ HeadIPs(n) |-> clients[ip]]
        /\ lru' \in Seq(Ids) /\ Len(lru') = Len(lru) - n
        /\ \A a \in 1..Len(lru') : lru'[a] = lru[a + n]
  BY PurgeStep
<1>2. /\ IInv' /\ TypeOK /\ TableInv
      /\ UNCHANGED <<clock, now, held, allowed, evicted>>
      /\ Keep(entries)
  BY PurgePreserves DEF Purge, IInv, threadVars, history
<1>3. /\ HeadIPs(n) \subseteq DOMAIN clients
      /\ InList(lru') \subseteq InList(lru)
      /\ \A ip \in DOMAIN clients \ HeadIPs(n) : clients[ip] \in InList(lru')
  BY <1>1, HeadGone
<1>4. /\ DOMAIN entries' = Referenced(lru', held')
      /\ DOMAIN entries' \subseteq DOMAIN entries
      /\ \A x \in DOMAIN entries' : entries'[x] = entries[x]
      /\ InHand(held') = InHand(held)
  BY <1>2, <1>3 DEF Keep, Referenced, TableInv, InHand
<1>5. RefillInv'
  BY <1>2, <1>4 DEF RefillInv
<1>6. ASSUME NEW ip \in HeadIPs(n)
      PROVE  clients[ip] \in DOMAIN entries /\ Expired(clients[ip])
  <2>1. PICK k \in 1..n : ip = entries[lru[k]].ip
    BY DEF HeadIPs
  <2>2. k \in 1..Len(lru)
    BY <1>2, Typed
  <2>3. clients[ip] = lru[k] /\ lru[k] \in DOMAIN entries
    BY <1>2, <2>1, <2>2, Typed DEF TableInv
  <2>4. QED
    BY <1>1, <2>3 DEF StopsAfter
<1>7. CASE RefillsBeforePurge
  <2>1. TableTokens' = TableTokens
    <3>1. CASE Watched \in HeadIPs(n)
      <4>1. clients[Watched] \in DOMAIN entries /\ Expired(clients[Watched])
        BY <1>6, <3>1
      <4>2. entries[clients[Watched]].tokens = Burst
        BY <1>7, <4>1, ExpiredIsFull
      <4>3. QED
        BY <1>1, <3>1, <4>2 DEF TableTokens
    <3>2. CASE Watched \notin HeadIPs(n) /\ Watched \in DOMAIN clients
      <4>1. /\ Watched \in DOMAIN clients' /\ clients'[Watched] = clients[Watched]
            /\ clients[Watched] \in DOMAIN entries'
        BY <1>1, <1>3, <1>4, <3>2 DEF Referenced
      <4>2. QED
        BY <1>4, <3>2, <4>1 DEF TableTokens
    <3>3. CASE Watched \notin DOMAIN clients
      BY <1>1, <3>3 DEF TableTokens
    <3>4. QED
      BY <3>1, <3>2, <3>3
  <2>2. ASSUME NEW x \in Orphans'
        PROVE  /\ x \in Orphans
               /\ Rate * clock - entries[x].tokens <= Rate * clock' - entries'[x].tokens
               /\ \A u \in Threads : held'[u] = x => held[u] = x /\ now'[u] = now[u]
    <3>1. /\ x \in InHand(held) /\ x \notin InList(lru') /\ x \in DOMAIN entries
          /\ entries'[x] = entries[x] /\ entries[x].ip = Watched
      BY <1>4 DEF Orphans, Referenced
    <3>2. x \notin InList(lru)
      <4>1. SUFFICES ASSUME x \in InList(lru) PROVE FALSE
        OBVIOUS
      <4>2. Watched \in DOMAIN clients /\ clients[Watched] = x
        BY <1>2, <3>1, <4>1 DEF TableInv, InList
      <4>3. Watched \in HeadIPs(n)
        BY <1>3, <3>1, <4>2
      <4>4. Expired(x)
        BY <1>6, <4>2, <4>3
      <4>5. QED
        BY <1>7, <3>1, <4>4, ExpiredIsFull
    <3>3. entries[x].tokens \in Int /\ Rate * clock \in Int
      <4>1. clock \in Nat /\ Rate \in Nat
        BY <1>2, Numbers DEF TypeOK
      <4>2. entries[x].tokens \in Int
        BY <1>2, <3>1, Typed, Numbers
      <4>3. QED
        BY <4>1, <4>2
    <3>4. QED
      BY <1>2, <3>1, <3>2, <3>3 DEF Orphans
  <2>3. Cardinality(Owed') <= Cardinality(Owed)
    BY <1>2, <2>2, OwedShrinks
  <2>4. allowed' + TableTokens' + Cardinality(Owed')
          <= allowed + TableTokens + Cardinality(Owed)
    BY <1>2, <2>1, <2>3, Amounts, AmountsNext DEF Numeric
  <2>5. QED
    BY <1>2, <1>5, <2>4, RateKept
<1>8. CASE ~RefillsBeforePurge
  BY <1>5, <1>8 DEF RateInv, RefillsBeforePurge
<1>9. QED
  BY <1>7, <1>8

LEMMA InitRInv == Init => RInv
<1> SUFFICES ASSUME Init PROVE RInv
  OBVIOUS
<1>1. IInv
  BY InitIInv
<1>2. /\ clock = 0 /\ allowed = 0 /\ evicted = 0
      /\ DOMAIN clients = {} /\ DOMAIN entries = {}
      /\ \A u \in Threads : held[u] = NoEntry
  BY DEF Init
<1>3. RefillInv
  BY <1>2 DEF RefillInv
<1>4. TableTokens = Burst
  BY <1>2 DEF TableTokens
<1>5. Owed = {}
  BY <1>2 DEF Owed, Orphans, InHand
<1>6. Cardinality(Owed) = 0
  BY <1>5, FS_EmptySet
<1>7. RateInv
  <2>1. Burst \in Nat /\ Rate \in Nat /\ Skew \in Nat
    BY Numbers
  <2>2. Burst * (1 + evicted) = Burst /\ Rate * (clock + Skew * evicted) = 0
    BY <1>2, <2>1
  <2>3. QED
    BY <1>2, <1>4, <1>6, <2>1, <2>2 DEF RateInv
<1>8. QED
  BY <1>1, <1>3, <1>7 DEF RInv

LEMMA NextRInv == RInv /\ [Next]_vars => RInv'
<1> SUFFICES ASSUME RInv, [Next]_vars PROVE RInv'
  OBVIOUS
<1>1. IInv /\ RefillInv /\ RateInv
  BY DEF RInv
<1>2. IInv'
  BY <1>1, NextIInv
<1>3. RefillInv' /\ RateInv'
  <2>1. CASE UNCHANGED vars
    <3>1. UNCHANGED <<clock, clients, lru, entries, now, held, allowed, evicted>>
      BY <2>1 DEF vars, tableVars, threadVars, history
    <3>2. InHand(held') = InHand(held) /\ InList(lru') = InList(lru)
      BY <3>1 DEF InHand, InList
    <3>3. TableTokens' = TableTokens /\ Orphans' = Orphans
      BY <3>1, <3>2 DEF TableTokens, Orphans
    <3>4. Owed' = Owed
      BY <3>1, <3>3 DEF Owed
    <3>5. QED
      BY <1>1, <3>1, <3>3, <3>4 DEF RefillInv, RateInv, RefillsBeforePurge
  <2>2. QED
    BY <1>1, <2>1, ReadClockRate, KnownRate, NewRate, AllowRate, PurgeTickRate,
       PurgeRate, TickRate DEF Next
<1>4. QED
  BY <1>2, <1>3 DEF RInv

\* A source never gets more than the burst of its bucket and what the rate brings,
\* plus one bucket for every eviction and what the evicted one earns while late
\* requests use it, however requests, purges and evictions interleave (Allow,
\* cleanupLoop); a purge gives nothing.
THEOREM RateAlwaysHolds == Spec => []RateHolds
<1>1. RInv => RateHolds
  <2> SUFFICES ASSUME RInv, RefillsBeforePurge
               PROVE  allowed <= Burst * (1 + evicted) + Rate * (clock + Skew * evicted)
    BY DEF RateHolds
  <2>1. allowed + TableTokens + Cardinality(Owed)
          <= Burst * (1 + evicted) + Rate * (clock + Skew * evicted)
    BY DEF RInv, RateInv
  <2>2. /\ allowed \in Nat /\ TableTokens \in Nat /\ Cardinality(Owed) \in Nat
        /\ evicted \in Nat /\ clock \in Nat
    BY Amounts DEF RInv, Numeric
  <2>3. Burst * (1 + evicted) + Rate * (clock + Skew * evicted) \in Int
    BY <2>2, Numbers
  <2>4. QED
    BY <2>1, <2>2, <2>3
<1>2. QED
  BY <1>1, InitRInv, NextRInv, PTL DEF Spec
=============================================================================
