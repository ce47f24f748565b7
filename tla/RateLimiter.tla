---------------------------- MODULE RateLimiter ----------------------------
(***************************************************************************)
(* IPRateLimiter: one token bucket per source, at most MaxTrackedIPs of    *)
(* them, evicted in LRU order and purged when idle.  Allow reads the clock *)
(* before it takes the lock and uses the bucket after it has released it,  *)
(* so a request has three steps; cleanupLoop also reads the clock before   *)
(* the lock.  What happens under the lock is one step.                     *)
(*                                                                         *)
(* Simplifications: time is in seconds and never goes back; a request or  *)
(* the purge is delayed by at most Skew seconds; a bucket is modelled from *)
(* what golang.org/x/time/rate promises, with whole tokens, which come as  *)
(* time passes (the library computes them when the bucket is used).        *)
(***************************************************************************)
EXTENDS Integers, Sequences, FiniteSets

CONSTANTS IPs,            \* sources
          Watched,        \* the source whose requests are counted
          Threads,        \* requests in flight
          MaxTrackedIPs,  \* capacity of the table
          Burst, Rate,    \* of every bucket: capacity, tokens per second
          CleanupTTL,     \* idle time after which an entry is purged
          Skew,           \* bound on the delay of a request or of the purge
          MaxClock,       \* bound on the clock
          MaxEvictions    \* bound on the evictions of a behaviour

ASSUME WatchedAssumption == Watched \in IPs
ASSUME ThreadsAssumption == IsFiniteSet(Threads)
ASSUME NumbersAssumption ==
  /\ MaxTrackedIPs \in Nat \ {0} /\ Burst \in Nat \ {0} /\ Rate \in Nat \ {0}
  /\ CleanupTTL \in Nat /\ Skew \in Nat /\ MaxClock \in Nat /\ MaxEvictions \in Nat

VARIABLES clock,    \* the time
          clients,  \* clients[ip]: the entry of ip, for the tracked sources
          lru,      \* the list of entries, the least recently used first
          entries,  \* the entries somebody refers to
          pc,       \* pc[t]: "idle", "locking" or "allowing"
          now,      \* now[t]: the time t has read
          caller,   \* caller[t]: the source of the request of t
          held,     \* held[t]: the entry whose bucket t is about to use
          purge,    \* the cleanup goroutine, and the time it has read
          allowed,  \* history: how many requests of Watched were allowed
          evicted   \* history: how often an entry of Watched was evicted

threadVars == <<pc, now, caller, held>>
tableVars  == <<clients, lru, entries>>
history    == <<allowed, evicted>>
vars == <<clock, tableVars, threadVars, purge, history>>

Times == 0..MaxClock
Ids   == 1..(MaxTrackedIPs + Cardinality(Threads))

NoEntry == 0

Entry == [ip : IPs, lastSeen : Times, tokens : 0..Burst]

TypeOK ==
  /\ clock \in Times
  /\ DOMAIN clients \subseteq IPs /\ \A ip \in DOMAIN clients : clients[ip] \in Ids
  /\ lru \in Seq(Ids)
  /\ DOMAIN entries \subseteq Ids /\ \A e \in DOMAIN entries : entries[e] \in Entry
  /\ pc \in [Threads -> {"idle", "locking", "allowing"}]
  /\ now \in [Threads -> Times]
  /\ caller \in [Threads -> IPs]
  /\ held \in [Threads -> Ids \cup {NoEntry}]
  /\ purge \in [state : {"idle", "locking"}, now : Times]
  /\ allowed \in Nat /\ evicted \in Nat

Init ==
  /\ clock = 0
  /\ clients = [ip \in {} |-> NoEntry]
  /\ lru = <<>>
  /\ entries = [e \in {} |-> NoEntry]
  /\ pc = [t \in Threads |-> "idle"]
  /\ now = [t \in Threads |-> 0]
  /\ caller = [t \in Threads |-> Watched]
  /\ held = [t \in Threads |-> NoEntry]
  /\ purge = [state |-> "idle", now |-> 0]
  /\ allowed = 0
  /\ evicted = 0

-----------------------------------------------------------------------------
(* Helpers *)

InList(list) == {list[i] : i \in 1..Len(list)}

InHand(hands) == {hands[t] : t \in Threads} \ {NoEntry}

\* An entry lives as long as the list or a request refers to it.
Referenced(list, hands) == InList(list) \cup InHand(hands)

FreshId == CHOOSE e \in Ids : e \notin Referenced(lru, held)

\* list.MoveToBack of the element at position i.
MoveToBack(list, i) ==
  [j \in 1..Len(list) |->
     IF j < i THEN list[j] ELSE IF j < Len(list) THEN list[j + 1] ELSE list[i]]

NewEntry(ip, time) == [ip |-> ip, lastSeen |-> time, tokens |-> Burst]

Dropping(ips) == [ip \in DOMAIN clients \ ips |-> clients[ip]]

\* The entries that somebody still refers to, in their new state.
Keep(table) == entries' = [e \in Referenced(lru', held') |-> table[e]]

-----------------------------------------------------------------------------
(* Allow *)

\* A request reads the clock on its way to the lock.
ReadClock(t) ==
  /\ pc[t] = "idle"
  /\ pc' = [pc EXCEPT ![t] = "locking"]
  /\ now' = [now EXCEPT ![t] = clock]
  /\ \E ip \in IPs : caller' = [caller EXCEPT ![t] = ip]
  /\ UNCHANGED <<clock, tableVars, held, purge, history>>

Locked(t) ==
  /\ pc[t] = "locking"
  /\ pc' = [pc EXCEPT ![t] = "allowing"]
  /\ UNCHANGED <<clock, now, caller, purge, allowed>>

\* Faulty variant: a known source keeps its rank in the list.
KnownKeepsRank(t) ==
  /\ Locked(t)
  /\ caller[t] \in DOMAIN clients
  /\ LET e == clients[caller[t]] IN
       /\ held' = [held EXCEPT ![t] = e]
       /\ UNCHANGED lru
       /\ Keep([entries EXCEPT ![e].lastSeen = now[t]])
  /\ UNCHANGED <<clients, evicted>>

\* The source is tracked: its entry becomes the most recent.
Known(t) ==
  /\ Locked(t)
  /\ caller[t] \in DOMAIN clients
  /\ LET e == clients[caller[t]] IN
       /\ held' = [held EXCEPT ![t] = e]
       /\ \E i \in 1..Len(lru) : lru[i] = e /\ lru' = MoveToBack(lru, i)
       /\ Keep([entries EXCEPT ![e].lastSeen = now[t]])
  /\ UNCHANGED <<clients, evicted>>

Full == Cardinality(DOMAIN clients) >= MaxTrackedIPs

Oldest == Head(lru)

\* The source is new: it gets a full bucket, in a free place or in the place of
\* the source that has been silent for the longest time.  (A full table whose
\* list is empty, which the code also provides for, contradicts TableIsConsistent.)
New(t) ==
  /\ Locked(t)
  /\ caller[t] \notin DOMAIN clients
  /\ LET ip == caller[t]
         e == FreshId
         kept == IF Full THEN Tail(lru) ELSE lru
         gone == IF Full THEN {entries[Oldest].ip} ELSE {}
     IN /\ evicted' = evicted + IF Watched \in gone THEN 1 ELSE 0
        /\ Full => evicted' <= MaxEvictions
        /\ held' = [held EXCEPT ![t] = e]
        /\ lru' = Append(kept, e)
        /\ clients' = [i \in (DOMAIN clients \ gone) \cup {ip} |->
                         IF i = ip THEN e ELSE clients[i]]
        /\ Keep([x \in DOMAIN entries \cup {e} |->
                   IF x = e THEN NewEntry(ip, now[t]) ELSE entries[x]])

\* Faulty variant: a token is taken whether there is one or not.
AllowUnchecked(t) ==
  /\ pc[t] = "allowing"
  /\ pc' = [pc EXCEPT ![t] = "idle"]
  /\ held' = [held EXCEPT ![t] = NoEntry]
  /\ now' = [now EXCEPT ![t] = 0]
  /\ caller' = [caller EXCEPT ![t] = Watched]
  /\ UNCHANGED <<clock, clients, lru, purge, evicted>>
  /\ Keep([entries EXCEPT ![held[t]].tokens = @ - 1])
  /\ allowed' = allowed + IF caller[t] = Watched THEN 1 ELSE 0

\* The lock released, the request takes a token of the bucket it has found,
\* which may have left the table; without a token it is refused.
Allow(t) ==
  /\ pc[t] = "allowing"
  /\ pc' = [pc EXCEPT ![t] = "idle"]
  /\ held' = [held EXCEPT ![t] = NoEntry]
  /\ now' = [now EXCEPT ![t] = 0]
  /\ caller' = [caller EXCEPT ![t] = Watched]
  /\ UNCHANGED <<clock, clients, lru, purge, evicted>>
  /\ LET e == held[t]
         ok == entries[e].tokens >= 1
     IN /\ Keep(IF ok THEN [entries EXCEPT ![e].tokens = @ - 1] ELSE entries)
        /\ allowed' = allowed + IF ok /\ caller[t] = Watched THEN 1 ELSE 0

-----------------------------------------------------------------------------
(* cleanupLoop and time; Stop, at the end of the service, only ends the loop. *)

\* The ticker fires; the goroutine reads the clock on its way to the lock.
PurgeTick ==
  /\ purge.state = "idle"
  /\ purge' = [state |-> "locking", now |-> clock]
  /\ UNCHANGED <<clock, tableVars, threadVars, history>>

\* Faulty variant: an entry expires as soon as it is not used.
ExpiredAtOnce(e) == purge.now - entries[e].lastSeen >= 0

Expired(e) == purge.now - entries[e].lastSeen > CleanupTTL

\* The loop from the head of the list stops after n entries: they have expired,
\* and the next one, if there is one, has not.
StopsAfter(n) ==
  /\ \A k \in 1..n : Expired(lru[k])
  /\ n < Len(lru) => ~Expired(lru[n + 1])

Beyond(n) == SubSeq(lru, n + 1, Len(lru))

\* Faulty variant: the entries leave the list but stay in the map.
PurgeListOnly ==
  /\ purge.state = "locking"
  /\ purge' = [state |-> "idle", now |-> 0]
  /\ \E n \in 0..Len(lru) : StopsAfter(n) /\ lru' = Beyond(n)
  /\ UNCHANGED <<clock, threadVars, clients, entries, history>>

Purge ==
  /\ purge.state = "locking"
  /\ purge' = [state |-> "idle", now |-> 0]
  /\ \E n \in 0..Len(lru) :
       /\ StopsAfter(n)
       /\ lru' = Beyond(n)
       /\ clients' = Dropping({entries[lru[k]].ip : k \in 1..n})
  /\ UNCHANGED <<clock, threadVars, history>>
  /\ Keep(entries)

Refilled(entry) ==
  [entry EXCEPT !.tokens = IF @ + Rate > Burst THEN Burst ELSE @ + Rate]

\* Time passes, but no request and no purge is delayed by more than Skew.
Tick ==
  /\ clock < MaxClock
  /\ \A t \in Threads : pc[t] # "idle" => clock - now[t] < Skew
  /\ purge.state = "locking" => clock - purge.now < Skew
  /\ clock' = clock + 1
  /\ entries' = [e \in DOMAIN entries |-> Refilled(entries[e])]
  /\ UNCHANGED <<clients, lru, threadVars, purge, history>>

-----------------------------------------------------------------------------
Next ==
  \/ \E t \in Threads : ReadClock(t) \/ Known(t) \/ New(t) \/ Allow(t)
  \/ PurgeTick
  \/ Purge
  \/ Tick

Spec == Init /\ [][Next]_vars

-----------------------------------------------------------------------------
(* Properties *)

\* The map and the list describe the same sources, each once, within the
\* capacity, whatever requests, evictions and purges interleave.
TableIsConsistent ==
  /\ Len(lru) = Cardinality(DOMAIN clients) /\ Len(lru) <= MaxTrackedIPs
  /\ \A ip \in DOMAIN clients :
       clients[ip] \in InList(lru) /\ entries[clients[ip]].ip = ip

\* The list is in chronological order up to the delay of a request, so the
\* purge, which stops at the first recent entry, leaves nothing behind that has
\* been idle for longer than that.
NearlyChronological ==
  \A i, j \in 1..Len(lru) :
    i < j => entries[lru[i]].lastSeen <= entries[lru[j]].lastSeen + Skew

\* A bucket is full again before its entry can be purged.
RefillsBeforePurge == Burst <= Rate * (CleanupTTL + 1 - 2 * Skew)

\* A source is held to its rate: a purge never gives it tokens it would not
\* have had, and an eviction gives it at most one more bucket and what its old
\* one earns while a delayed request still uses it (Allow, cleanupLoop).
RateHolds ==
  RefillsBeforePurge =>
    allowed <= Burst * (1 + evicted) + Rate * (clock + Skew * evicted)
=============================================================================
