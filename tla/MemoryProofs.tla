---------------------------- MODULE MemoryProofs ----------------------------
(***************************************************************************)
(* What Memory claims of one request, for every limit, every size of the   *)
(* chunks and of the slack, and JSON bodies of any number of fields; and   *)
(* what BodyLimit claims of the limit itself.                              *)
(***************************************************************************)
EXTENDS Memory, BodyLimit, TLAPS

Array == [cap : Nat, len : Nat, dirty : Nat]

Member == [key : Keys, value : Values]

MemTyped ==
  /\ pc \in {"idle", "read", "parse", "engine", "respond", "stream", "finish"}
  /\ req \in Requests
  /\ arr \in [Roles -> Array]
  /\ chunk \in Array
  /\ left \in Nat
  /\ doc \in Seq(Member)
  /\ leaked \in BOOLEAN
  /\ status \in {0, 200, 400, 413, 422, 500}

\* ReadAll never has more than was sent, keeps the tail out of its window, and
\* keeps the array it began with when the length was announced.
BodyInv ==
  LET a == arr["body"]
  IN  /\ pc \in {"read", "parse", "engine"} =>
           /\ a.len <= req.size /\ a.len <= Limit /\ a.cap >= a.len + TailSlack
           /\ req.hint >= 0 => a.cap = req.hint + 1 + TailSlack /\ req.size <= Limit
      /\ pc \in {"parse", "engine"} => a.len = req.size
      /\ status = 413 => req.size > Limit

\* Each array holds its secret within its length, and each phase has wiped the
\* arrays it is done with.
SecretInv ==
  /\ ~leaked
  /\ \A r \in Roles : arr[r].dirty <= arr[r].len /\ arr[r].len <= arr[r].cap
  /\ chunk.dirty <= chunk.len
  /\ pc = "stream" => chunk.len <= left
  /\ pc # "stream" => chunk.dirty = 0
  /\ pc # "respond" \/ Streams => arr["resp"].dirty = 0
  /\ pc \in {"engine", "respond", "stream", "finish"} /\ req.format = "json" =>
       arr["body"].dirty = 0
  /\ req.route \notin Seals => arr["text"] = NoArray
  /\ pc = "idle" => \A r \in Roles : arr[r].dirty = 0

Kept == {"base64", "text"}

\* The reader has one array for each field it has met, and has read each once.
DocInv ==
  /\ pc \in {"read", "parse"} => \A k \in Kept :
       arr[RoleOf(k)] # NoArray => \E f \in DOMAIN dst \cap DOMAIN Kinds : Kinds[f] = k
  /\ pc \in {"idle", "read"} => doc = <<>>
  /\ pc \in {"parse", "engine"} => \A i \in DOMAIN doc :
       LET name == doc[i].key.name
           v    == doc[i].value
       IN  /\ name \in DOMAIN dst /\ name \in DOMAIN Kinds /\ dst[name] = v
           /\ v.type = "string" => Kinds[name] \in Kept \cup {"string"}
           /\ v.type = "string" /\ Kinds[name] \in Kept =>
                arr[RoleOf(Kinds[name])].len = v.len

\* The inductive invariant.
MemInv == MemTyped /\ BodyInv /\ SecretInv /\ DocInv

-----------------------------------------------------------------------------
(* Numbers, arrays and fields *)

LEMMA Sizes ==
  /\ Limit \in Nat /\ MinReadChunk \in Nat /\ MinReadChunk > 0
  /\ TailSlack \in Nat /\ TailSlack > 0 /\ StreamThreshold \in Nat
  /\ StreamChunk \in Nat /\ StreamChunk > 0 /\ Lengths \subseteq Nat
BY SizesAssumption

LEMMA MinOfTwo ==
  ASSUME NEW a \in Int, NEW b \in Int
  PROVE  Min({a, b}) = IF a <= b THEN a ELSE b
<1>1. \E m \in {a, b} : \A y \in {a, b} : m <= y
  OBVIOUS
<1>2. Min({a, b}) \in {a, b} /\ \A y \in {a, b} : Min({a, b}) <= y
  BY <1>1 DEF Min
<1>3. QED
  BY <1>2

LEMMA MaxOfTwo ==
  ASSUME NEW a \in Int, NEW b \in Int
  PROVE  Max({a, b}) = IF a >= b THEN a ELSE b
<1>1. \E m \in {a, b} : \A y \in {a, b} : m >= y
  OBVIOUS
<1>2. Max({a, b}) \in {a, b} /\ \A y \in {a, b} : Max({a, b}) >= y
  BY <1>1 DEF Max
<1>3. QED
  BY <1>2

\* Wipe leaves the shape of an array, and no secret when it covers it.
LEMMA WipedFacts ==
  ASSUME NEW a \in Array, NEW n \in Nat
  PROVE  /\ Wiped(a, n) \in Array
         /\ Wiped(a, n).len = a.len /\ Wiped(a, n).cap = a.cap
         /\ Wiped(a, n).dirty <= a.dirty
         /\ n >= a.dirty => Wiped(a, n).dirty = 0
BY DEF Wiped, Array

\* A buffer that is grown keeps what it holds, gets room beside its tail, and
\* leaves no secret behind; one that has room is left alone.
LEMMA ReadiedFacts ==
  ASSUME NEW a \in Array, a.cap >= a.len + TailSlack, a.len <= Limit, a.dirty <= a.len
  PROVE  /\ Readied(a).new \in Array
         /\ Readied(a).new.len = a.len /\ Readied(a).new.dirty = a.dirty
         /\ Window(Readied(a).new) > 0
         /\ a.cap > a.len + TailSlack => Readied(a).new = a
         /\ Readied(a).old.dirty = 0
<1>1. a.cap \in Nat /\ a.len \in Nat /\ a.dirty \in Nat
  BY DEF Array
<1>2. CASE a.len = a.cap - TailSlack
  <2>1. PICK n \in Nat : n = Growth(a.len) /\ n > TailSlack
    <3>1. PICK m \in Int : m = Max({a.len, MinReadChunk}) /\ m > 0
      BY <1>1, Sizes, MaxOfTwo
    <3>2. Limit + 1 - a.len \in Int /\ Limit + 1 - a.len > 0
      BY <1>1, Sizes
    <3>3. PICK k \in Int : k = Min({m, Limit + 1 - a.len}) /\ k > 0
      BY <3>1, <3>2, MinOfTwo
    <3>4. Growth(a.len) = k + TailSlack
      BY <3>1, <3>3 DEF Growth
    <3>5. QED
      BY <3>3, <3>4, Sizes
  <2>2. a.cap - a.len = TailSlack /\ ~(n <= a.cap - a.len)
    BY <1>1, <1>2, <2>1, Sizes
  <2>3. PICK c \in Nat : c = Max({2 * a.cap, a.len + n}) /\ c >= a.len + n
    <3>1. 2 * a.cap \in Int /\ a.len + n \in Int /\ a.len + n >= 0
      BY <1>1, <2>1
    <3>2. QED
      BY <3>1, MaxOfTwo
  <2>4. Readied(a) = [new |-> [a EXCEPT !.cap = c], old |-> Wiped(a, a.cap)]
    BY <1>2, <2>1, <2>2, <2>3 DEF Readied, Grown
  <2>5. /\ Readied(a).new \in Array /\ Readied(a).new.cap = c
        /\ Readied(a).new.len = a.len /\ Readied(a).new.dirty = a.dirty
    BY <2>4 DEF Array
  <2>6. Wiped(a, a.cap).dirty = 0
    <3>1. a.cap >= a.dirty
      BY <1>1, Sizes
    <3>2. QED
      BY <1>1, <3>1, WipedFacts
  <2>7. Window(Readied(a).new) > 0
    BY <1>1, <2>1, <2>3, <2>5, Sizes DEF Window
  <2>8. QED
    BY <1>1, <1>2, <2>4, <2>5, <2>6, <2>7, Sizes
<1>3. CASE a.len # a.cap - TailSlack
  <2>1. Readied(a).new = a /\ Readied(a).old = NoArray
    BY <1>3 DEF Readied
  <2>2. Window(a) > 0
    BY <1>1, <1>3, Sizes DEF Window
  <2>3. QED
    BY <2>1, <2>2 DEF NoArray
<1>4. QED
  BY <1>2, <1>3

\* A request has at most one field that is decoded from Base64 and one of text,
\* and only what is sealed has a text.
LEMMA OneFieldOfAKind ==
  ASSUME req \in Requests
  PROVE  /\ \A f \in DOMAIN Kinds : Kinds[f] \in Kept \cup {"string", "int", "uint"}
         /\ \A f, g \in DOMAIN Kinds : Kinds[f] = Kinds[g] /\ Kinds[f] \in Kept => f = g
         /\ req.route \notin Seals => \A f \in DOMAIN Kinds : Kinds[f] # "text"
<1>1. req.route \in Routes
  BY DEF Requests
<1>2. CASE req.route = "encrypt"
  BY <1>2 DEF Kinds, FieldsOf, Kept, Seals
<1>3. CASE req.route = "wrap"
  BY <1>3 DEF Kinds, FieldsOf, Kept, Seals
<1>4. CASE req.route = "decrypt"
  BY <1>4 DEF Kinds, FieldsOf, Kept, Seals
<1>5. CASE req.route = "unwrap"
  BY <1>5 DEF Kinds, FieldsOf, Kept, Seals
<1>6. CASE req.route = "generate"
  BY <1>6 DEF Kinds, FieldsOf, Kept, Seals
<1>7. QED
  BY <1>1, <1>2, <1>3, <1>4, <1>5, <1>6 DEF Routes

\* The request that is served.
LEMMA Served ==
  ASSUME req \in Requests
  PROVE  /\ req.route \in Routes /\ req.format \in {"json", "binary"}
         /\ req.size \in Nat /\ req.hint \in Int
         /\ req.hint = -1 \/ req.hint = req.size
         /\ req.format = "binary" => req.route # "generate"
BY Sizes DEF Requests

LEMMA SecretsFacts ==
  ASSUME req \in Requests, NEW n \in Nat
  PROVE  Secrets(n) \in Nat /\ Secrets(n) <= n /\ (req.route \notin Seals => Secrets(n) = 0)
BY DEF Secrets

LEMMA InitMemInv == Init => MemInv
<1> SUFFICES ASSUME Init PROVE MemInv
  OBVIOUS
<1>1. NoArray \in Array /\ chunk \in Array /\ chunk.dirty = 0 /\ chunk.len = 0
  BY Sizes DEF Init, NoArray, Array
<1>2. req \in Requests
  BY Sizes DEF Init, Requests, Routes
<1>3. MemTyped
  <2>1. arr \in [Roles -> Array] /\ doc \in Seq(Member)
    BY <1>1 DEF Init
  <2>2. QED
    BY <1>1, <1>2, <2>1 DEF Init, MemTyped
<1>4. BodyInv /\ SecretInv /\ DocInv
  BY <1>1 DEF Init, BodyInv, SecretInv, DocInv, NoArray, Roles, Seals
<1>5. QED
  BY <1>3, <1>4 DEF MemInv

-----------------------------------------------------------------------------
(* ReadAll *)

LEMMA ArrivePreserves ==
  ASSUME MemInv, NEW q \in Requests, Arrive(q)
  PROVE  MemInv'
<1>1. /\ MemTyped /\ SecretInv /\ DocInv /\ pc = "idle"
      /\ req' = q /\ UNCHANGED <<chunk, left, doc, dst, leaked>>
  BY DEF MemInv, Arrive
<1>2. doc' = <<>> /\ chunk.dirty = 0 /\ ~leaked
  BY <1>1 DEF DocInv, SecretInv
<1>3. NoArray \in Array /\ NoArray.dirty = 0 /\ NoArray.len = 0 /\ NoArray.cap = 0
  BY DEF NoArray, Array
<1>4. /\ q.size \in Nat /\ q.hint \in Int /\ (q.hint = -1 \/ q.hint = q.size)
  BY Sizes DEF Requests
<1>5. DOMAIN dst' = DOMAIN dst /\ doc' \in Seq(Member')
  BY <1>1, <1>2
<1>6. CASE q.hint > Limit
  <2>1. pc' = "finish" /\ status' = 413 /\ arr' = [r \in Roles |-> NoArray]
    BY <1>6 DEF Arrive
  <2>2. MemTyped'
    BY <1>1, <1>3, <1>5, <2>1 DEF MemTyped
  <2>3. BodyInv'
    BY <1>1, <1>4, <1>6, <2>1, Sizes DEF BodyInv
  <2>4. SecretInv'
    BY <1>1, <1>2, <1>3, <2>1 DEF SecretInv, Roles
  <2>5. DocInv'
    BY <1>2, <2>1 DEF DocInv
  <2>6. QED
    BY <2>2, <2>3, <2>4, <2>5 DEF MemInv
<1>7. CASE ~(q.hint > Limit)
  <2>1. PICK c \in Nat :
          /\ c = InitialCapacity(q.hint) /\ c >= TailSlack
          /\ q.hint >= 0 => c = q.hint + 1 + TailSlack
    <3>1. PICK n \in Int :
            n = (IF q.hint \in 0..Limit THEN q.hint + 1 ELSE MinReadChunk) /\ n > 0
      BY <1>4, Sizes
    <3>2. Limit + 1 \in Int
      BY Sizes
    <3>3. PICK m \in Int : m = Min({n, Limit + 1}) /\ m > 0 /\ (n <= Limit + 1 => m = n)
      BY <3>1, <3>2, MinOfTwo, Sizes
    <3>4. q.hint >= 0 => n = q.hint + 1 /\ n <= Limit + 1
      BY <1>4, <1>7, <3>1, Sizes
    <3>5. InitialCapacity(q.hint) = m + TailSlack
      BY <3>1, <3>3 DEF InitialCapacity
    <3>6. QED
      BY <1>4, <3>3, <3>4, <3>5, Sizes
  <2>2. /\ pc' = "read" /\ status' = 0
        /\ arr' = [r \in Roles |-> IF r = "body" THEN [NoArray EXCEPT !.cap = c] ELSE NoArray]
    BY <1>7, <2>1 DEF Arrive
  <2>3. PICK a \in Array : a = [NoArray EXCEPT !.cap = c] /\ a.cap = c /\ a.len = 0 /\ a.dirty = 0
    <3>1. [NoArray EXCEPT !.cap = c] = [cap |-> c, len |-> 0, dirty |-> 0]
      BY DEF NoArray
    <3>2. [cap |-> c, len |-> 0, dirty |-> 0] \in Array
      BY DEF Array
    <3>3. QED
      BY <3>1, <3>2
  <2>4. arr'["body"] = a /\ \A r \in Roles : r # "body" => arr'[r] = NoArray
    BY <2>2, <2>3 DEF Roles
  <2>5. MemTyped'
    <3>1. arr' \in [Roles -> Array]
      BY <1>3, <2>2, <2>3
    <3>2. QED
      BY <1>1, <1>5, <2>2, <3>1 DEF MemTyped
  <2>6. BodyInv'
    <3>1. Limit \in Nat /\ TailSlack \in Nat
      BY Sizes
    <3>2. /\ 0 <= q.size /\ 0 <= Limit /\ c >= 0 + TailSlack
          /\ q.hint >= 0 => c = q.hint + 1 + TailSlack /\ q.size <= Limit
      BY <1>4, <1>7, <2>1, <3>1
    <3>3. pc' = "read" /\ status' = 0 /\ req' = q /\ arr'["body"].len = 0 /\ arr'["body"].cap = c
      BY <1>1, <2>2, <2>3, <2>4
    <3>4. QED
      BY <3>2, <3>3 DEF BodyInv
  <2>7. SecretInv'
    <3>1. \A r \in Roles : arr'[r].dirty = 0 /\ arr'[r].len = 0 /\ arr'[r].len <= arr'[r].cap
      <4>1. a.len <= a.cap
        BY <2>1, <2>3
      <4>2. QED
        <5> SUFFICES ASSUME NEW r \in Roles
                     PROVE  arr'[r].dirty = 0 /\ arr'[r].len = 0 /\ arr'[r].len <= arr'[r].cap
          OBVIOUS
        <5>1. CASE r = "body"
          BY <2>3, <2>4, <4>1, <5>1
        <5>2. CASE r # "body"
          BY <1>3, <2>4, <5>2
        <5>3. QED
          BY <5>1, <5>2
    <3>2. "resp" \in Roles /\ "text" \in Roles /\ "text" # "body" /\ "resp" # "body"
      BY DEF Roles
    <3>3. QED
      BY <1>1, <1>2, <2>2, <2>4, <3>1, <3>2 DEF SecretInv
  <2>8. DocInv'
    BY <1>2, <2>2, <2>4 DEF DocInv, RoleOf, Roles
  <2>9. QED
    BY <2>5, <2>6, <2>7, <2>8 DEF MemInv
<1>8. QED
  BY <1>6, <1>7

\* What a turn of ReadAll can do.
LEMMA ReadStep ==
  ASSUME MemInv, Read
  PROVE  \E b \in Array :
           /\ b.len <= req.size /\ b.cap >= b.len + TailSlack /\ b.dirty <= b.len
           /\ req.hint >= 0 => b.cap = req.hint + 1 + TailSlack
           /\ \/ /\ arr' = [arr EXCEPT !["body"] = Wiped(b, b.cap)]
                 /\ pc' = "finish" /\ status' \in {400, 413}
                 /\ status' = 413 => b.len > Limit
              \/ /\ arr' = [arr EXCEPT !["body"] = b]
                 /\ b.len <= Limit /\ status' = status
                 /\ \/ /\ b.len = req.size
                       /\ pc' = IF req.format = "json" THEN "parse" ELSE "engine"
                    \/ pc' = "read"
           /\ leaked' = FALSE /\ pc = "read" /\ UNCHANGED <<req, chunk, left, doc, dst>>
<1>1. /\ MemTyped /\ BodyInv /\ SecretInv /\ pc = "read"
      /\ UNCHANGED <<req, chunk, left, doc, dst>>
  BY DEF MemInv, Read
<1> DEFINE a0 == arr["body"]
           a  == Readied(a0).new
<1>2. a0 \in Array
  BY <1>1 DEF MemTyped, Roles
<1>3. /\ a0.len <= req.size /\ a0.len <= Limit /\ a0.cap >= a0.len + TailSlack
      /\ req.hint >= 0 => a0.cap = req.hint + 1 + TailSlack
      /\ a0.dirty <= a0.len
  BY <1>1, <1>2 DEF BodyInv, SecretInv, Roles
<1>4. /\ a \in Array /\ a.len = a0.len /\ a.dirty = a0.dirty /\ Window(a) > 0
      /\ a0.cap > a0.len + TailSlack => a = a0
      /\ Readied(a0).old.dirty = 0
  BY <1>2, <1>3, ReadiedFacts
<1>5. /\ req.size \in Nat /\ req.hint \in Int /\ (req.hint = -1 \/ req.hint = req.size)
  BY <1>1, Served DEF MemTyped
<1>6. /\ a.len \in Nat /\ a.cap \in Nat /\ a0.cap \in Nat /\ a0.len \in Nat
      /\ TailSlack \in Nat /\ Limit \in Nat
  BY <1>2, <1>4, Sizes DEF Array
<1>7. /\ Window(a) \in Int /\ a.cap = a.len + TailSlack + Window(a)
      /\ req.hint >= 0 => a.cap = req.hint + 1 + TailSlack
  <2>1. Window(a) = a.cap - TailSlack - a.len
    BY DEF Window
  <2>2. ASSUME req.hint >= 0 PROVE a.cap = req.hint + 1 + TailSlack
    <3>1. a0.cap > a0.len + TailSlack
      BY <1>3, <1>5, <1>6, <2>2
    <3>2. QED
      BY <1>3, <1>4, <2>2, <3>1
  <2>3. QED
    BY <1>6, <2>1, <2>2
<1>8. leaked' = FALSE
  <2>1. leaked' = (leaked \/ Readied(a0).old.dirty > 0) /\ leaked \in BOOLEAN /\ ~leaked
    BY <1>1 DEF Read, MemTyped, SecretInv
  <2>2. ~(Readied(a0).old.dirty > 0)
    BY <1>4
  <2>3. QED
    BY <2>1, <2>2
<1>9. PICK n \in 0..Min({Window(a), req.size - a.len}) :
        LET b == [a EXCEPT !.len = @ + n, !.dirty = Secrets(a.len + n)]
        IN  \/ b.len > Limit /\ GiveUp(b, 413)
            \/ b.len <= Limit /\ GiveUp(b, 400)
            \/ /\ b.len <= Limit
               /\ arr' = [arr EXCEPT !["body"] = b]
               /\ status' = status
               /\ \/ /\ b.len = req.size /\ Window(a) > 0
                     /\ pc' = (IF req.format = "json" THEN "parse" ELSE "engine")
                  \/ (n > 0 \/ Window(a) = 0) /\ pc' = "read"
  BY DEF Read
<1> HIDE DEF a, a0
<1>10. n \in Nat /\ n <= Window(a) /\ a.len + n <= req.size
  <2>1. req.size - a.len \in Int
    BY <1>5, <1>6
  <2>2. Min({Window(a), req.size - a.len}) \in Int
        /\ Min({Window(a), req.size - a.len}) <= Window(a)
        /\ Min({Window(a), req.size - a.len}) <= req.size - a.len
    BY <1>7, <2>1, MinOfTwo
  <2>3. QED
    BY <1>5, <1>6, <1>7, <2>1, <2>2
<1>11. PICK s \in Nat : s = Secrets(a.len + n) /\ s <= a.len + n
  BY <1>1, <1>6, <1>10, SecretsFacts DEF MemTyped
<1>12. PICK b \in Array :
         /\ b = [a EXCEPT !.len = @ + n, !.dirty = Secrets(a.len + n)]
         /\ b.len = a.len + n /\ b.cap = a.cap /\ b.dirty = s
  <2>1. [a EXCEPT !.len = @ + n, !.dirty = Secrets(a.len + n)]
          = [a EXCEPT !.len = a.len + n, !.dirty = s]
    BY <1>11
  <2>2. a.len + n \in Nat
    BY <1>6, <1>10
  <2>3. a \in Array
    BY <1>4
  <2>4. PICK b \in Array :
          /\ b = [a EXCEPT !.len = a.len + n, !.dirty = s]
          /\ b.len = a.len + n /\ b.cap = a.cap /\ b.dirty = s
    <3>1. PICK m \in Nat : m = a.len + n
      BY <2>2
    <3>2. /\ [a EXCEPT !.len = m, !.dirty = s] \in Array
          /\ [a EXCEPT !.len = m, !.dirty = s].len = m
          /\ [a EXCEPT !.len = m, !.dirty = s].cap = a.cap
          /\ [a EXCEPT !.len = m, !.dirty = s].dirty = s
      BY <2>3 DEF Array
    <3>3. QED
      BY <3>1, <3>2
  <2>5. QED
    BY <2>1, <2>4
<1>13. /\ b.len <= req.size /\ b.cap >= b.len + TailSlack /\ b.dirty <= b.len
       /\ req.hint >= 0 => b.cap = req.hint + 1 + TailSlack
  BY <1>6, <1>7, <1>10, <1>11, <1>12
<1>14. \/ b.len > Limit /\ GiveUp(b, 413)
       \/ b.len <= Limit /\ GiveUp(b, 400)
       \/ /\ b.len <= Limit
          /\ arr' = [arr EXCEPT !["body"] = b]
          /\ status' = status
          /\ \/ /\ b.len = req.size
                /\ pc' = (IF req.format = "json" THEN "parse" ELSE "engine")
             \/ pc' = "read"
  BY <1>9, <1>12
<1>15. QED
  BY <1>1, <1>8, <1>13, <1>14 DEF GiveUp

LEMMA ReadPreserves ==
  ASSUME MemInv, Read
  PROVE  MemInv'
<1>1. PICK b \in Array :
        /\ b.len <= req.size /\ b.cap >= b.len + TailSlack /\ b.dirty <= b.len
        /\ req.hint >= 0 => b.cap = req.hint + 1 + TailSlack
        /\ \/ /\ arr' = [arr EXCEPT !["body"] = Wiped(b, b.cap)]
              /\ pc' = "finish" /\ status' \in {400, 413}
              /\ status' = 413 => b.len > Limit
           \/ /\ arr' = [arr EXCEPT !["body"] = b]
              /\ b.len <= Limit /\ status' = status
              /\ \/ /\ b.len = req.size
                    /\ pc' = IF req.format = "json" THEN "parse" ELSE "engine"
                 \/ pc' = "read"
        /\ leaked' = FALSE /\ pc = "read" /\ UNCHANGED <<req, chunk, left, doc, dst>>
  BY ReadStep
<1>2. MemTyped /\ BodyInv /\ SecretInv /\ DocInv
  BY DEF MemInv
<1>3. /\ b.len \in Nat /\ b.cap \in Nat /\ b.dirty \in Nat /\ TailSlack \in Nat /\ Limit \in Nat
      /\ b.dirty <= b.cap /\ b.len <= b.cap
  BY <1>1, Sizes DEF Array
<1>4. /\ Wiped(b, b.cap) \in Array /\ Wiped(b, b.cap).len = b.len
      /\ Wiped(b, b.cap).cap = b.cap /\ Wiped(b, b.cap).dirty = 0
  BY <1>3, WipedFacts
<1>5. /\ req.size \in Nat /\ req.hint \in Int /\ (req.hint = -1 \/ req.hint = req.size)
      /\ req.format \in {"json", "binary"}
  BY <1>2, Served DEF MemTyped
<1>6. PICK x \in Array :
        /\ arr' = [arr EXCEPT !["body"] = x] /\ x.dirty <= x.len /\ x.len <= x.cap
        /\ pc' = "finish" => x.dirty = 0
        /\ pc' # "finish" => x = b
  BY <1>1, <1>3, <1>4
<1>7. /\ arr' \in [Roles -> Array] /\ arr'["body"] = x
      /\ \A r \in Roles : r # "body" => arr'[r] = arr[r]
  BY <1>2, <1>6 DEF MemTyped, Roles
<1>8. MemTyped'
  <2>1. doc' \in Seq(Member')
    BY <1>1, <1>2 DEF MemTyped, Member, Keys, Kinds
  <2>2. QED
    <3>1. pc' \in {"read", "parse", "engine", "finish"}
          /\ status' \in {0, 200, 400, 413, 422, 500}
      BY <1>1, <1>2 DEF MemTyped
    <3>2. QED
      BY <1>1, <1>2, <1>7, <2>1, <3>1 DEF MemTyped
<1>9. BodyInv'
  <2>1. CASE pc' = "finish"
    BY <1>1, <1>2, <1>3, <1>5, <2>1 DEF BodyInv
  <2>2. CASE pc' # "finish"
    <3>1. /\ b.len <= Limit /\ status' = status /\ arr'["body"] = b
          /\ pc' \in {"parse", "engine"} => b.len = req.size
      BY <1>1, <1>6, <1>7, <2>2
    <3>2. QED
      BY <1>1, <1>2, <1>3, <1>5, <3>1 DEF BodyInv
  <2>3. QED
    BY <2>1, <2>2
<1>10. SecretInv'
  <2>1. \A r \in Roles : arr'[r].dirty <= arr'[r].len /\ arr'[r].len <= arr'[r].cap
    BY <1>2, <1>6, <1>7 DEF SecretInv
  <2>2. arr'["text"] = arr["text"] /\ arr'["resp"] = arr["resp"]
    BY <1>7 DEF Roles
  <2>3. pc' \in {"engine", "finish", "parse", "read"}
        /\ (pc' = "engine" => req.format = "binary")
    BY <1>1, <1>5
  <2>4. pc' = "finish" => arr'["body"].dirty = 0
    BY <1>6, <1>7
  <2>5. QED
    BY <1>1, <1>2, <2>1, <2>2, <2>3, <2>4 DEF SecretInv
<1>11. DocInv'
  <2>1. arr'["text"] = arr["text"] /\ arr'["data"] = arr["data"] /\ doc' = <<>>
    BY <1>1, <1>2, <1>7 DEF Roles, DocInv
  <2>2. \A k \in Kept : arr'[RoleOf(k)] = arr[RoleOf(k)]
    BY <2>1 DEF RoleOf
  <2>3. DOMAIN Kinds' = DOMAIN Kinds /\ Kinds' = Kinds
    BY <1>1 DEF Kinds
  <2>4. QED
    BY <1>1, <1>2, <2>1, <2>2, <2>3 DEF DocInv
<1>12. QED
  BY <1>8, <1>9, <1>10, <1>11 DEF MemInv

-----------------------------------------------------------------------------
(* DecodeStrict and bindJSON *)

\* The wipe method of a request erases what is sealed.
LEMMA WipeFieldsFacts ==
  ASSUME NEW x \in [Roles -> Array], \A r \in Roles : x[r].dirty <= x[r].len
  PROVE  /\ WipeFields(x) \in [Roles -> Array]
         /\ \A r \in Roles :
              /\ WipeFields(x)[r].len = x[r].len /\ WipeFields(x)[r].cap = x[r].cap
              /\ WipeFields(x)[r].dirty <= x[r].dirty
              /\ r \notin {"data", "text"} => WipeFields(x)[r] = x[r]
         /\ req.route \in Seals =>
              WipeFields(x)["data"].dirty = 0 /\ WipeFields(x)["text"].dirty = 0
         /\ req.route \notin Seals => WipeFields(x) = x
<1>1. "data" \in Roles /\ "text" \in Roles
  BY DEF Roles
<1>2. \A r \in Roles :
        /\ x[r] \in Array /\ x[r].len \in Nat /\ x[r].dirty \in Nat
        /\ Wiped(x[r], x[r].len) \in Array
        /\ Wiped(x[r], x[r].len).len = x[r].len
        /\ Wiped(x[r], x[r].len).cap = x[r].cap
        /\ Wiped(x[r], x[r].len).dirty = 0
  <2> SUFFICES ASSUME NEW r \in Roles
               PROVE  /\ x[r] \in Array /\ x[r].len \in Nat /\ x[r].dirty \in Nat
                      /\ Wiped(x[r], x[r].len) \in Array
                      /\ Wiped(x[r], x[r].len).len = x[r].len
                      /\ Wiped(x[r], x[r].len).cap = x[r].cap
                      /\ Wiped(x[r], x[r].len).dirty = 0
    OBVIOUS
  <2>1. x[r] \in Array /\ x[r].len \in Nat /\ x[r].dirty \in Nat /\ x[r].len >= x[r].dirty
    BY DEF Array
  <2>2. QED
    BY <2>1, WipedFacts
<1>3. CASE req.route \in Seals
  <2>1. WipeFields(x) = [r \in Roles |-> IF r \in {"data", "text"}
                                         THEN Wiped(x[r], x[r].len) ELSE x[r]]
    BY <1>1, <1>3 DEF WipeFields
  <2>2. QED
    BY <1>1, <1>2, <1>3, <2>1
<1>4. CASE req.route \notin Seals
  <2>1. WipeFields(x) = x
    BY <1>4 DEF WipeFields
  <2>2. QED
    BY <1>2, <1>4, <2>1
<1>5. QED
  BY <1>3, <1>4

\* Wipe of one array over its length, the others left alone.
LEMMA WipedOne ==
  ASSUME NEW x \in [Roles -> Array], \A r \in Roles : x[r].dirty <= x[r].len, NEW p \in Roles
  PROVE  /\ [x EXCEPT ![p] = Wiped(@, @.len)] \in [Roles -> Array]
         /\ [x EXCEPT ![p] = Wiped(@, @.len)][p].dirty = 0
         /\ [x EXCEPT ![p] = Wiped(@, @.len)][p].len = x[p].len
         /\ [x EXCEPT ![p] = Wiped(@, @.len)][p].cap = x[p].cap
         /\ \A r \in Roles : r # p => [x EXCEPT ![p] = Wiped(@, @.len)][r] = x[r]
<1>1. x[p] \in Array /\ x[p].len \in Nat /\ x[p].len >= x[p].dirty
  BY DEF Array
<1>2. /\ Wiped(x[p], x[p].len) \in Array /\ Wiped(x[p], x[p].len).dirty = 0
      /\ Wiped(x[p], x[p].len).len = x[p].len /\ Wiped(x[p], x[p].len).cap = x[p].cap
  BY <1>1, WipedFacts
<1>3. QED
  BY <1>2

LEMMA RefusePreserves ==
  ASSUME MemInv, pc = "parse", Refuse, UNCHANGED <<req, chunk, left>>, leaked' = FALSE
  PROVE  MemInv'
<1>1. /\ MemTyped /\ BodyInv /\ SecretInv /\ DocInv
      /\ arr \in [Roles -> Array] /\ "body" \in Roles /\ "text" \in Roles /\ "resp" \in Roles
  BY DEF MemInv, MemTyped, Roles
<1>2. PICK x \in [Roles -> Array] :
        /\ x = [arr EXCEPT !["body"] = Wiped(@, @.len)]
        /\ x["body"].dirty = 0 /\ x["body"].len = arr["body"].len
        /\ x["body"].cap = arr["body"].cap
        /\ \A r \in Roles : r # "body" => x[r] = arr[r]
  <2>1. PICK x : x = [arr EXCEPT !["body"] = Wiped(@, @.len)]
    OBVIOUS
  <2>2. /\ x \in [Roles -> Array]
        /\ x["body"].dirty = 0 /\ x["body"].len = arr["body"].len
        /\ x["body"].cap = arr["body"].cap
        /\ \A r \in Roles : r # "body" => x[r] = arr[r]
    BY <1>1, <2>1, WipedOne DEF SecretInv
  <2>3. QED
    BY <2>1, <2>2
<1>3. arr' = WipeFields(x) /\ doc' = <<>> /\ dst' = NoDoc /\ status' = 400 /\ pc' = "finish"
  BY <1>2 DEF Refuse
<1>4. \A r \in Roles :
        /\ x[r].dirty <= x[r].len /\ x[r].len <= x[r].cap
        /\ x[r].dirty \in Nat /\ x[r].len \in Nat /\ x[r].cap \in Nat
  <2>1. 0 <= arr["body"].len /\ arr["body"].len <= arr["body"].cap
    BY <1>1 DEF SecretInv, Array
  <2>2. QED
    BY <1>1, <1>2, <2>1 DEF SecretInv, Array
<1>5. /\ arr' \in [Roles -> Array]
      /\ \A r \in Roles :
           /\ arr'[r].len = x[r].len /\ arr'[r].cap = x[r].cap
           /\ arr'[r].dirty <= x[r].dirty
           /\ r \notin {"data", "text"} => arr'[r] = x[r]
      /\ req.route \notin Seals => arr' = x
  BY <1>3, <1>4, WipeFieldsFacts
<1>6. \A r \in Roles : arr'[r].dirty \in Nat
  BY <1>5 DEF Array
<1>7. MemTyped'
  <2>1. doc' \in Seq(Member')
    BY <1>3
  <2>2. QED
    BY <1>1, <1>3, <1>5, <2>1 DEF MemTyped
<1>8. BodyInv'
  BY <1>3 DEF BodyInv
<1>9. SecretInv'
  <2>1. \A r \in Roles : arr'[r].dirty <= arr'[r].len /\ arr'[r].len <= arr'[r].cap
    BY <1>4, <1>5, <1>6
  <2>2. arr'["body"].dirty = 0 /\ arr'["resp"] = arr["resp"]
    BY <1>1, <1>2, <1>5
  <2>3. req.route \notin Seals => arr'["text"] = NoArray
    BY <1>1, <1>2, <1>5 DEF SecretInv
  <2>4. QED
    BY <1>1, <1>3, <2>1, <2>2, <2>3 DEF SecretInv
<1>10. DocInv'
  BY <1>3 DEF DocInv
<1>11. QED
  BY <1>7, <1>8, <1>9, <1>10 DEF MemInv

LEMMA MalformedPreserves ==
  ASSUME MemInv, Malformed
  PROVE  MemInv'
BY RefusePreserves DEF Malformed, MemInv, MemTyped, SecretInv

\* The body is wiped and the parser hands over to the handler.
LEMMA ParsedPreserves ==
  ASSUME MemInv, pc = "parse", pc' = "engine",
         arr' = [arr EXCEPT !["body"] = Wiped(@, @.len)],
         UNCHANGED <<req, chunk, left, doc, dst, leaked, status>>
  PROVE  MemInv'
<1>1. /\ MemTyped /\ BodyInv /\ SecretInv /\ DocInv
      /\ arr \in [Roles -> Array] /\ "body" \in Roles /\ "text" \in Roles /\ "resp" \in Roles
      /\ "data" \in Roles
  BY DEF MemInv, MemTyped, Roles
<1>2. /\ arr' \in [Roles -> Array]
      /\ arr'["body"].dirty = 0 /\ arr'["body"].len = arr["body"].len
      /\ arr'["body"].cap = arr["body"].cap
      /\ \A r \in Roles : r # "body" => arr'[r] = arr[r]
  BY <1>1, WipedOne DEF SecretInv
<1>3. MemTyped'
  <2>1. Member' = Member
    BY DEF Member, Keys, Kinds
  <2>2. QED
    BY <1>1, <1>2, <2>1 DEF MemTyped
<1>4. BodyInv'
  BY <1>1, <1>2 DEF BodyInv
<1>5. SecretInv'
  <2>1. \A r \in Roles : arr'[r].dirty <= arr'[r].len /\ arr'[r].len <= arr'[r].cap
    <3>1. 0 <= arr["body"].len /\ arr["body"].len <= arr["body"].cap
      BY <1>1 DEF SecretInv, Array
    <3>2. QED
      BY <1>1, <1>2, <3>1 DEF SecretInv
  <2>2. QED
    BY <1>1, <1>2, <2>1 DEF SecretInv
<1>6. DocInv'
  <2>1. Kinds' = Kinds
    BY DEF Kinds
  <2>2. \A k \in Kept : arr'[RoleOf(k)] = arr[RoleOf(k)]
    BY <1>1, <1>2 DEF RoleOf
  <2>3. QED
    BY <1>1, <2>1, <2>2 DEF DocInv
<1>7. QED
  BY <1>3, <1>4, <1>5, <1>6 DEF MemInv

LEMMA ClosePreserves ==
  ASSUME MemInv, Close
  PROVE  MemInv'
BY ParsedPreserves DEF Close

LEMMA BlankPreserves ==
  ASSUME MemInv, Blank
  PROVE  MemInv'
<1>1. CASE req.route = "generate"
  BY <1>1, ParsedPreserves DEF Blank
<1>2. CASE req.route # "generate"
  BY <1>2, RefusePreserves DEF Blank, MemInv, MemTyped, SecretInv
<1>3. QED
  BY <1>1, <1>2

\* What a value leaves in an array, and what is wiped of it at once.
LEMMA ValueArrays ==
  ASSUME req \in Requests, NEW v \in Values
  PROVE  /\ v.len \in Nat
         /\ \A k : Temporary(k, v).dirty = 0
         /\ \A k : \A a \in Held(k, v) :
              /\ a \in Array /\ a.len = v.len /\ a.dirty <= a.len /\ a.len <= a.cap
<1>1. v.len \in Nat
  <2>1. CASE v \in [type : {"null", "nested", "bool", "integer", "negative", "huge",
                            "fraction", "garbled"},
                    good : {"none"}, escaped : {FALSE}, len : {0}]
    <3>1. v.len \in {0}
      BY <2>1
    <3>2. QED
      BY <3>1
  <2>2. CASE v \in [type : {"string"}, good : {"base64", "utf8", "none"},
                    escaped : BOOLEAN, len : Lengths]
    <3>1. v.len \in Lengths
      BY <2>2
    <3>2. QED
      BY <3>1, Sizes
  <2>3. QED
    BY <2>1, <2>2 DEF Values
<1>2. Secrets(v.len) \in Nat /\ Secrets(v.len) <= v.len
  BY <1>1, SecretsFacts
<1>3. ASSUME NEW k PROVE Temporary(k, v).dirty = 0
  <2>1. PICK a \in Array : a = [cap |-> v.len, len |-> v.len, dirty |-> Secrets(v.len)]
    BY <1>1, <1>2 DEF Array
  <2>2. Wiped(a, v.len).dirty = 0
    BY <1>1, <1>2, <2>1, WipedFacts
  <2>3. QED
    BY <2>1, <2>2 DEF Temporary, NoArray
<1>4. ASSUME NEW k, NEW a \in Held(k, v)
      PROVE  a \in Array /\ a.len = v.len /\ a.dirty <= a.len /\ a.len <= a.cap
  <2>1. PICK spare \in Nat :
          a = [cap |-> v.len + spare, len |-> v.len, dirty |-> Secrets(v.len)]
    BY Sizes DEF Held
  <2>2. v.len + spare \in Nat /\ v.len <= v.len + spare
    BY <1>1
  <2>3. QED
    BY <1>1, <1>2, <2>1, <2>2 DEF Array
<1>5. QED
  BY <1>1, <1>3, <1>4

\* A field that is accepted is new, and has an array to itself.
LEMMA FieldPreserves ==
  ASSUME MemInv, NEW key \in Keys, NEW v \in Values, Field(key, v)
  PROVE  MemInv'
<1>1. /\ MemTyped /\ BodyInv /\ SecretInv /\ DocInv /\ pc = "parse" /\ req \in Requests
      /\ arr \in [Roles -> Array] /\ UNCHANGED <<req, chunk, left>>
  BY DEF MemInv, MemTyped, Field
<1>2. CASE ~(KeyAllowed(key) /\ ValueAllowed(Kinds[key.name], v))
  <2>1. Refuse /\ leaked' = FALSE
    <3>1. Refuse /\ leaked' = (leaked \/ Temporary("base64", v).dirty > 0)
      BY <1>2 DEF Field
    <3>2. ~(Temporary("base64", v).dirty > 0)
      BY <1>1, ValueArrays
    <3>3. leaked = FALSE
      BY <1>1 DEF MemTyped, SecretInv
    <3>4. QED
      BY <3>1, <3>2, <3>3
  <2>2. QED
    BY <1>1, <2>1, RefusePreserves
<1>3. CASE KeyAllowed(key) /\ ValueAllowed(Kinds[key.name], v)
  <2>1. PICK name : name = key.name
    OBVIOUS
  <2>2. PICK kind : kind = Kinds[name]
    OBVIOUS
  <2>3. /\ name \in DOMAIN Kinds /\ name \notin DOMAIN dst
        /\ kind \in Kept \cup {"string", "int", "uint"}
        /\ v.type = "string" => kind \in Kept \cup {"string"}
        /\ \A f \in DOMAIN Kinds : Kinds[f] = kind /\ kind \in Kept => f = name
    <3>1. name \in DOMAIN Kinds /\ name \notin DOMAIN dst
      BY <1>3, <2>1 DEF KeyAllowed
    <3>2. v.type = "string" => kind \in Kept \cup {"string"}
      BY <1>3, <2>1, <2>2 DEF ValueAllowed, Kept
    <3>3. QED
      BY <1>1, <2>2, <3>1, <3>2, OneFieldOfAKind
  <2>4. /\ dst' = [f \in DOMAIN dst \cup {name} |-> IF f = name THEN v ELSE dst[f]]
        /\ doc' = Append(doc, [key |-> key, value |-> v])
        /\ IF v.type = "string" /\ kind \in {"base64", "text"}
           THEN \E a \in Held(kind, v) : arr' = [arr EXCEPT ![RoleOf(kind)] = a]
           ELSE arr' = arr
        /\ leaked' = \/ leaked
                     \/ v.type = "string" /\ kind # "string" /\ arr[RoleOf(kind)].dirty > 0
                     \/ kind # "text" /\ Temporary(kind, v).dirty > 0
        /\ UNCHANGED <<pc, status>>
    BY <1>3, <2>1, <2>2 DEF Field
  <2>5. RoleOf(kind) \in Roles /\ \A k \in Kept : RoleOf(k) \in Roles
    BY DEF RoleOf, Roles
  <2>6. leaked' = FALSE
    <3>1. leaked = FALSE
      BY <1>1 DEF MemTyped, SecretInv
    <3>2. ASSUME v.type = "string", kind # "string" PROVE ~(arr[RoleOf(kind)].dirty > 0)
      <4>1. kind \in Kept /\ arr[RoleOf(kind)] = NoArray
        BY <1>1, <2>3, <3>2 DEF DocInv
      <4>2. QED
        BY <4>1 DEF NoArray
    <3>3. ~(Temporary(kind, v).dirty > 0)
      BY <1>1, ValueArrays
    <3>4. QED
      BY <2>4, <3>1, <3>2, <3>3
  <2>7. /\ arr' \in [Roles -> Array]
        /\ \A r \in Roles : r # RoleOf(kind) \/ ~(v.type = "string" /\ kind \in Kept) =>
             arr'[r] = arr[r]
        /\ v.type = "string" /\ kind \in Kept =>
             LET a == arr'[RoleOf(kind)]
             IN  a.len = v.len /\ a.dirty <= a.len /\ a.len <= a.cap
    <3>1. CASE v.type = "string" /\ kind \in Kept
      <4>1. PICK a \in Held(kind, v) : arr' = [arr EXCEPT ![RoleOf(kind)] = a]
        BY <2>4, <3>1 DEF Kept
      <4>2. a \in Array /\ a.len = v.len /\ a.dirty <= a.len /\ a.len <= a.cap
        BY <1>1, ValueArrays
      <4>3. /\ arr' \in [Roles -> Array] /\ arr'[RoleOf(kind)] = a
            /\ \A r \in Roles : r # RoleOf(kind) => arr'[r] = arr[r]
        BY <1>1, <2>5, <4>1, <4>2
      <4>4. QED
        BY <3>1, <4>2, <4>3
    <3>2. CASE ~(v.type = "string" /\ kind \in Kept)
      BY <1>1, <2>4, <3>2 DEF Kept
    <3>3. QED
      BY <3>1, <3>2
  <2>8. MemTyped'
    <3>1. Member' = Member
      BY <1>1 DEF Member, Keys, Kinds
    <3>2. doc' \in Seq(Member)
      <4>1. [key |-> key, value |-> v] \in Member
        BY DEF Member
      <4>2. QED
        BY <1>1, <2>4, <4>1 DEF MemTyped
    <3>3. QED
      BY <1>1, <2>4, <2>6, <2>7, <3>1, <3>2 DEF MemTyped
  <2>9. /\ arr'["body"] = arr["body"] /\ arr'["resp"] = arr["resp"]
        /\ req.route \notin Seals => arr'["text"] = arr["text"]
    <3>1. RoleOf(kind) \notin {"body", "resp"} /\ (kind # "text" /\ kind \in Kept => RoleOf(kind) = "data")
      BY DEF RoleOf, Kept
    <3>2. req.route \notin Seals => kind # "text"
      BY <1>1, <2>2, <2>3, OneFieldOfAKind
    <3>3. QED
      BY <2>7, <3>1, <3>2 DEF Roles
  <2>10. BodyInv'
    BY <1>1, <2>4, <2>9 DEF BodyInv
  <2>11. SecretInv'
    <3>1. \A r \in Roles : arr'[r].dirty <= arr'[r].len /\ arr'[r].len <= arr'[r].cap
      BY <1>1, <2>7 DEF SecretInv
    <3>2. QED
      BY <1>1, <2>4, <2>6, <2>9, <3>1 DEF SecretInv
  <2>12. DocInv'
    <3>1. Kinds' = Kinds /\ pc' = "parse"
      BY <1>1, <2>4 DEF Kinds
    <3>2. ASSUME NEW k \in Kept, arr'[RoleOf(k)] # NoArray
          PROVE  \E f \in DOMAIN dst' \cap DOMAIN Kinds : Kinds[f] = k
      <4>1. CASE arr[RoleOf(k)] # NoArray
        BY <1>1, <2>4, <4>1 DEF DocInv
      <4>2. CASE arr[RoleOf(k)] = NoArray
        <5>1. v.type = "string" /\ kind \in Kept /\ RoleOf(k) = RoleOf(kind)
          BY <2>5, <2>7, <3>2, <4>2
        <5>2. k = kind
          BY <5>1 DEF RoleOf, Kept
        <5>3. QED
          BY <2>2, <2>3, <2>4, <5>2
      <4>3. QED
        BY <4>1, <4>2
    <3>3. ASSUME NEW i \in DOMAIN doc'
          PROVE  /\ doc'[i].key.name \in DOMAIN dst' /\ doc'[i].key.name \in DOMAIN Kinds
                 /\ dst'[doc'[i].key.name] = doc'[i].value
                 /\ doc'[i].value.type = "string" =>
                      Kinds[doc'[i].key.name] \in Kept \cup {"string"}
                 /\ doc'[i].value.type = "string" /\ Kinds[doc'[i].key.name] \in Kept =>
                      arr'[RoleOf(Kinds[doc'[i].key.name])].len = doc'[i].value.len
      <4>1. doc \in Seq(Member) /\ DOMAIN doc = 1..Len(doc) /\ Len(doc) \in Nat
        BY <1>1 DEF MemTyped
      <4>2. CASE i \in DOMAIN doc
        <5>1. doc'[i] = doc[i]
          BY <2>4, <4>1, <4>2
        <5>2. PICK n, w : n = doc[i].key.name /\ w = doc[i].value
          OBVIOUS
        <5>3. /\ n \in DOMAIN dst /\ n \in DOMAIN Kinds /\ dst[n] = w
              /\ w.type = "string" => Kinds[n] \in Kept \cup {"string"}
              /\ w.type = "string" /\ Kinds[n] \in Kept => arr[RoleOf(Kinds[n])].len = w.len
          BY <1>1, <4>2, <5>2 DEF DocInv
        <5>4. n \in DOMAIN dst' /\ dst'[n] = w
          BY <2>3, <2>4, <5>3
        <5>5. ASSUME w.type = "string", Kinds[n] \in Kept
              PROVE  arr'[RoleOf(Kinds[n])].len = w.len
          <6>1. Kinds[n] # kind
            BY <2>3, <5>3, <5>5
          <6>2. kind \in Kept => RoleOf(Kinds[n]) # RoleOf(kind)
            BY <5>5, <6>1 DEF RoleOf, Kept
          <6>3. QED
            BY <2>5, <2>7, <5>3, <5>5, <6>2
        <5>6. QED
          BY <5>1, <5>2, <5>3, <5>4, <5>5
      <4>3. CASE i \notin DOMAIN doc
        <5>1. doc'[i] = [key |-> key, value |-> v]
          BY <2>4, <4>1, <4>3
        <5>2. doc'[i].key.name = name /\ doc'[i].value = v
          BY <2>1, <5>1
        <5>3. name \in DOMAIN dst' /\ dst'[name] = v
          BY <2>4
        <5>4. QED
          BY <2>2, <2>3, <2>7, <5>2, <5>3
      <4>4. QED
        BY <4>2, <4>3
    <3>4. QED
      BY <3>1, <3>2, <3>3 DEF DocInv
  <2>13. QED
    BY <2>8, <2>10, <2>11, <2>12 DEF MemInv
<1>4. QED
  BY <1>2, <1>3

-----------------------------------------------------------------------------
(* The handlers and their answers *)

\* Once the engine is called, only what the arrays hold matters.
LEMMA Answering ==
  ASSUME MemInv, pc' \in {"respond", "stream", "finish"}, UNCHANGED <<req, doc, dst>>,
         status' \in {200, 400, 422, 500} \/ status' = status,
         arr' \in [Roles -> Array], chunk' \in Array, left' \in Nat, leaked' \in BOOLEAN,
         SecretInv'
  PROVE  MemInv'
<1>1. MemTyped /\ BodyInv
  BY DEF MemInv
<1>2. MemTyped'
  <2>1. Member' = Member
    BY DEF Member, Keys, Kinds
  <2>2. status' \in {0, 200, 400, 413, 422, 500}
    BY <1>1 DEF MemTyped
  <2>3. QED
    BY <1>1, <2>1, <2>2 DEF MemTyped
<1>3. BodyInv'
  BY <1>1 DEF BodyInv
<1>4. DocInv'
  BY DEF DocInv
<1>5. QED
  BY <1>2, <1>3, <1>4 DEF MemInv

LEMMA Given ==
  ASSUME MemInv
  PROVE  /\ MemTyped /\ SecretInv /\ req \in Requests /\ leaked = FALSE
         /\ arr \in [Roles -> Array] /\ chunk \in Array /\ left \in Nat
         /\ \A r \in Roles :
              /\ arr[r] \in Array /\ arr[r].dirty <= arr[r].len /\ arr[r].len <= arr[r].cap
              /\ arr[r].dirty \in Nat /\ arr[r].len \in Nat /\ arr[r].cap \in Nat
         /\ "body" \in Roles /\ "data" \in Roles /\ "text" \in Roles /\ "key" \in Roles
         /\ "resp" \in Roles
         /\ Source \in {"body", "data", "text", "none"}
         /\ Source = "body" <=> req.format = "binary"
         /\ Source = "text" => req.route \in Seals
<1>1. /\ MemTyped /\ SecretInv /\ req \in Requests /\ leaked = FALSE
      /\ arr \in [Roles -> Array] /\ chunk \in Array /\ left \in Nat
  BY DEF MemInv, MemTyped, SecretInv
<1>2. Source = "text" => arr["text"].len > 0
  BY DEF Source
<1>3. Source = "text" => req.route \in Seals
  BY <1>1, <1>2 DEF SecretInv, NoArray
<1>4. \A r \in Roles :
        /\ arr[r] \in Array /\ arr[r].dirty <= arr[r].len /\ arr[r].len <= arr[r].cap
        /\ arr[r].dirty \in Nat /\ arr[r].len \in Nat /\ arr[r].cap \in Nat
  BY <1>1 DEF SecretInv, Array
<1>5. /\ Source \in {"body", "data", "text", "none"}
      /\ Source = "body" <=> req.format = "binary"
  BY DEF Source
<1>6. QED
  BY <1>1, <1>3, <1>4, <1>5 DEF Roles

\* A step that changes one array leaves the other claims of SecretInv alone.
LEMMA OneArrayChanged ==
  ASSUME MemInv, NEW p \in Roles, NEW a \in Array,
         arr' = [arr EXCEPT ![p] = a], a.dirty <= a.len, a.len <= a.cap,
         UNCHANGED <<req, chunk>>, leaked' = FALSE,
         pc # "idle", pc # "stream", pc' \in {"respond", "finish"},
         p = "body" => req.format = "binary" \/ a.dirty = 0,
         p = "text" => req.route \in Seals,
         pc' # "respond" \/ Streams' =>
           (p = "resp" /\ a.dirty = 0) \/ (p # "resp" /\ arr["resp"].dirty = 0),
         p # "body" /\ req.format = "json" => arr["body"].dirty = 0
  PROVE  arr' \in [Roles -> Array] /\ SecretInv'
<1>1. /\ SecretInv /\ arr \in [Roles -> Array]
      /\ "body" \in Roles /\ "text" \in Roles /\ "resp" \in Roles
      /\ req.format \in {"json", "binary"}
  BY Given, Served
<1>2. /\ arr' \in [Roles -> Array] /\ arr'[p] = a
      /\ \A r \in Roles : r # p => arr'[r] = arr[r]
  BY <1>1
<1>3. \A r \in Roles : arr'[r].dirty <= arr'[r].len /\ arr'[r].len <= arr'[r].cap
  BY <1>1, <1>2 DEF SecretInv
<1>4. pc' # "respond" \/ Streams' => arr'["resp"].dirty = 0
  BY <1>1, <1>2
<1>5. req.format = "json" => arr'["body"].dirty = 0
  BY <1>1, <1>2
<1>6. req.route \notin Seals => arr'["text"] = NoArray
  BY <1>1, <1>2 DEF SecretInv
<1>7. QED
  BY <1>1, <1>2, <1>3, <1>4, <1>5, <1>6 DEF SecretInv

LEMMA EngineRefusesPreserves ==
  ASSUME MemInv, EngineRefuses
  PROVE  MemInv'
<1>1. /\ pc = "engine" /\ pc' = "finish" /\ status' \in {400, 422, 500}
      /\ UNCHANGED <<req, chunk, left, doc, dst, leaked>>
  BY DEF EngineRefuses
<1>2. req.format \in {"json", "binary"} /\ arr["resp"].dirty = 0
  BY <1>1, Given, Served DEF SecretInv
<1>3. PICK a \in Array :
        /\ arr' = [arr EXCEPT !["body"] = a] /\ a.dirty = 0 /\ a.dirty <= a.len /\ a.len <= a.cap
  <2>1. CASE req.format = "binary"
    <3>1. PICK a : a = Wiped(arr["body"], arr["body"].len)
      OBVIOUS
    <3>2. /\ arr["body"] \in Array /\ arr["body"].len \in Nat
          /\ arr["body"].len >= arr["body"].dirty /\ arr["body"].len <= arr["body"].cap
      BY Given
    <3>3. a \in Array /\ a.dirty = 0 /\ a.len = arr["body"].len /\ a.cap = arr["body"].cap
      BY <3>1, <3>2, WipedFacts
    <3>4. arr' = [arr EXCEPT !["body"] = a]
      BY <2>1, <3>1 DEF EngineRefuses
    <3>5. a.dirty <= a.len /\ a.len <= a.cap
      BY <3>2, <3>3
    <3>6. QED
      BY <3>3, <3>4, <3>5
  <2>2. CASE req.format = "json"
    <3>1. arr' = arr /\ arr["body"].dirty = 0
      BY <1>1, <2>2, Given DEF EngineRefuses, SecretInv
    <3>2. PICK a \in Array : a = arr["body"] /\ a.dirty <= a.len /\ a.len <= a.cap
      BY Given
    <3>3. arr' = [arr EXCEPT !["body"] = a]
      BY <3>1, <3>2, Given
    <3>4. QED
      BY <3>1, <3>2, <3>3
  <2>3. QED
    BY <1>2, <2>1, <2>2
<1>4. arr' \in [Roles -> Array] /\ SecretInv'
  <2>1. "body" \in Roles /\ leaked' = FALSE
    BY <1>1, Given
  <2>2. QED
    BY <1>1, <1>2, <1>3, <2>1, OneArrayChanged
<1>5. QED
  BY <1>1, <1>4, Given, Answering

LEMMA SealedInPlaceFacts ==
  ASSUME NEW old \in Array, old.dirty <= old.len, old.len <= old.cap
  PROVE  LET a == SealedInPlace(old)
         IN  a \in Array /\ a.dirty <= a.len /\ a.len <= a.cap /\ (a # old => a.dirty = 0)
<1>1. old.dirty \in Nat /\ old.len \in Nat /\ old.cap \in Nat
  BY DEF Array
<1>2. PICK a : a = SealedInPlace(old)
  OBVIOUS
<1>3. CASE old.cap - old.len >= TailSlack
  <2>1. PICK m \in Nat : m = old.len + TailSlack
    BY <1>1, Sizes
  <2>2. a = [old EXCEPT !.len = m, !.dirty = 0]
    BY <1>2, <1>3, <2>1 DEF SealedInPlace
  <2>3. a \in Array /\ a.dirty = 0 /\ a.len = m /\ a.cap = old.cap
    BY <2>2 DEF Array
  <2>4. QED
    BY <1>1, <1>2, <1>3, <2>1, <2>3, Sizes
<1>4. CASE ~(old.cap - old.len >= TailSlack)
  <2>1. a = old
    BY <1>2, <1>4 DEF SealedInPlace
  <2>2. QED
    BY <1>2, <2>1
<1>5. QED
  BY <1>3, <1>4

\* The plaintext is overwritten, or it stays where Finish wipes it.
LEMMA SealRequestPreserves ==
  ASSUME MemInv, SealRequest
  PROVE  MemInv'
<1> DEFINE old == arr[Source]
           a   == SealedInPlace(old)
<1>1. /\ pc = "engine" /\ pc' = "finish" /\ status' = 200 /\ req.route \in Seals
      /\ Source \in {"body", "data", "text"} /\ Source \in Roles
      /\ UNCHANGED <<req, chunk, left, doc, dst>>
      /\ IF req.route = "encrypt" /\ Source = "data" /\ a # old
         THEN arr' = [arr EXCEPT !["data"] = NoArray] /\ leaked' = (leaked \/ a.dirty > 0)
         ELSE arr' = [arr EXCEPT ![Source] = a] /\ leaked' = leaked
  BY Given DEF SealRequest
<1>2. req.format \in {"json", "binary"} /\ arr["resp"].dirty = 0
      /\ (req.format = "json" => arr["body"].dirty = 0)
  BY <1>1, Given, Served DEF SecretInv
<1>3. /\ old \in Array /\ old.dirty <= old.len /\ old.len <= old.cap
      /\ old.dirty \in Nat /\ old.len \in Nat /\ old.cap \in Nat
  BY <1>1, Given
<1> HIDE DEF old
<1>4. a \in Array /\ a.dirty <= a.len /\ a.len <= a.cap /\ (a # old => a.dirty = 0)
  BY <1>3, SealedInPlaceFacts
<1> HIDE DEF a
<1>5. PICK p \in Roles, b \in Array :
        /\ arr' = [arr EXCEPT ![p] = b] /\ b.dirty <= b.len /\ b.len <= b.cap
        /\ leaked' = FALSE /\ p \in {"body", "data", "text"}
        /\ p = "body" => req.format = "binary"
  <2>1. CASE req.route = "encrypt" /\ Source = "data" /\ a # old
    <3>1. NoArray \in Array /\ NoArray.dirty <= NoArray.len /\ NoArray.len <= NoArray.cap
      BY DEF NoArray, Array
    <3>2. leaked' = FALSE
      <4>1. leaked' = (leaked \/ a.dirty > 0)
        BY <1>1, <2>1
      <4>2. ~(a.dirty > 0) /\ leaked = FALSE
        BY <1>4, <2>1, Given
      <4>3. QED
        BY <4>1, <4>2
    <3>3. QED
      BY <1>1, <2>1, <3>1, <3>2, Given
  <2>2. CASE ~(req.route = "encrypt" /\ Source = "data" /\ a # old)
    BY <1>1, <1>4, <2>2, Given
  <2>3. QED
    BY <2>1, <2>2
<1>6. arr' \in [Roles -> Array] /\ SecretInv'
  BY <1>1, <1>2, <1>5, OneArrayChanged
<1>7. QED
  BY <1>1, <1>5, <1>6, Given, Answering

\* The plaintext lies in the array of the ciphertext.
LEMMA OpenRequestPreserves ==
  ASSUME MemInv, OpenRequest
  PROVE  MemInv'
<1> DEFINE old == arr[Source]
           n   == old.len - TailSlack
           a   == [old EXCEPT !.dirty = n, !.len = IF Source = "body" THEN @ ELSE n]
<1>1. /\ pc = "engine" /\ pc' \in {"finish", "respond"} /\ status' = 200
      /\ req.route \in Opens /\ req.route \notin Seals
      /\ Source \in {"body", "data"} /\ Source \in Roles /\ old.len > TailSlack
      /\ UNCHANGED <<req, chunk, doc, dst, leaked>>
      /\ left' = IF Source = "body" THEN 0 ELSE n
      /\ arr' = [arr EXCEPT ![Source].dirty = n,
                            ![Source].len = IF Source = "body" THEN @ ELSE n]
  BY Given DEF OpenRequest, Seals, Opens
<1>2. req.format \in {"json", "binary"} /\ arr["resp"].dirty = 0
      /\ (req.format = "json" => arr["body"].dirty = 0)
  BY <1>1, Given, Served DEF SecretInv
<1>3. /\ old \in Array /\ old.len <= old.cap
      /\ old.dirty \in Nat /\ old.len \in Nat /\ old.cap \in Nat
  BY <1>1, Given
<1>4. arr' = [arr EXCEPT ![Source] = a]
  BY <1>1, Given
<1> HIDE DEF old
<1>5. n \in Nat /\ n <= old.len
  BY <1>1, <1>3, Sizes
<1> HIDE DEF n
<1>6. a \in Array /\ a.dirty <= a.len /\ a.len <= a.cap
  <2>1. CASE Source = "body"
    <3>1. a = [old EXCEPT !.dirty = n]
      BY <1>3, <2>1 DEF Array
    <3>2. QED
      BY <1>3, <1>5, <3>1 DEF Array
  <2>2. CASE Source # "body"
    <3>1. a = [old EXCEPT !.dirty = n, !.len = n]
      BY <2>2
    <3>2. a \in Array /\ a.dirty = n /\ a.len = n /\ a.cap = old.cap
      BY <1>3, <1>5, <3>1 DEF Array
    <3>3. QED
      BY <1>3, <1>5, <3>2
  <2>3. QED
    BY <2>1, <2>2
<1> HIDE DEF a
<1>7. arr' \in [Roles -> Array] /\ SecretInv'
  BY <1>1, <1>2, <1>4, <1>6, Given, OneArrayChanged
<1>8. QED
  BY <1>1, <1>5, <1>7, Given, Answering

LEMMA GenerateKeyPreserves ==
  ASSUME MemInv, GenerateKey
  PROVE  MemInv'
<1>1. PICK a \in Array :
        a = [cap |-> 1, len |-> 1, dirty |-> 1] /\ a.dirty <= a.len /\ a.len <= a.cap
  <2>1. PICK a : a = [cap |-> 1, len |-> 1, dirty |-> 1]
    OBVIOUS
  <2>2. a \in Array /\ a.dirty = 1 /\ a.len = 1 /\ a.cap = 1
    BY <2>1 DEF Array
  <2>3. QED
    BY <2>1, <2>2
<1>2. /\ pc = "engine" /\ pc' = "respond" /\ status' = 200 /\ left' = 1
      /\ arr' = [arr EXCEPT !["key"] = a]
      /\ UNCHANGED <<req, chunk, doc, dst, leaked>>
  BY <1>1 DEF GenerateKey
<1>3. (req.format = "json" => arr["body"].dirty = 0) /\ arr["resp"].dirty = 0
  BY <1>2, Given DEF SecretInv
<1>4. arr' \in [Roles -> Array] /\ SecretInv'
  <2>1. "key" \in Roles /\ leaked' = FALSE
    BY <1>2, Given
  <2>2. QED
    BY <1>1, <1>2, <1>3, <2>1, OneArrayChanged
<1>5. QED
  BY <1>2, <1>4, Given, Answering

LEMMA EncodePreserves ==
  ASSUME MemInv, Encode
  PROVE  MemInv'
<1>1. PICK a \in Array :
        a = [cap |-> left + 1, len |-> left, dirty |-> left] /\ a.dirty <= a.len /\ a.len <= a.cap
  <2>1. left \in Nat /\ left + 1 \in Nat /\ left <= left + 1
    BY Given
  <2>2. PICK a : a = [cap |-> left + 1, len |-> left, dirty |-> left]
    OBVIOUS
  <2>3. a \in Array /\ a.dirty = left /\ a.len = left /\ a.cap = left + 1
    BY <2>1, <2>2 DEF Array
  <2>4. QED
    BY <2>1, <2>2, <2>3
<1>2. /\ pc = "respond" /\ pc' = "respond" /\ status' = status
      /\ arr' = [arr EXCEPT !["resp"] = a]
      /\ UNCHANGED <<req, chunk, left, doc, dst, leaked>> /\ ~Streams'
  BY <1>1 DEF Encode, Streams
<1>3. req.format = "json" => arr["body"].dirty = 0
  BY <1>2, Given DEF SecretInv
<1>4. arr' \in [Roles -> Array] /\ SecretInv'
  BY <1>1, <1>2, <1>3, Given, OneArrayChanged
<1>5. QED
  BY <1>2, <1>4, Given, Answering

LEMMA SendBufferPreserves ==
  ASSUME MemInv, SendBuffer
  PROVE  MemInv'
<1>1. PICK a : a = Wiped(arr["resp"], arr["resp"].cap)
  OBVIOUS
<1>2. /\ arr["resp"] \in Array /\ arr["resp"].cap \in Nat /\ arr["resp"].cap >= arr["resp"].dirty
      /\ arr["resp"].len <= arr["resp"].cap /\ 0 <= arr["resp"].len
  BY Given
<1>3. a \in Array /\ a.dirty = 0 /\ a.dirty <= a.len /\ a.len <= a.cap
  BY <1>1, <1>2, WipedFacts
<1>4. /\ pc = "respond" /\ pc' = "finish" /\ left' = 0
      /\ arr' = [arr EXCEPT !["resp"] = a]
      /\ UNCHANGED <<req, chunk, doc, dst, leaked, status>>
  BY <1>1 DEF SendBuffer
<1>5. req.format = "json" => arr["body"].dirty = 0
  BY <1>4, Given DEF SecretInv
<1>6. arr' \in [Roles -> Array] /\ SecretInv'
  BY <1>3, <1>4, <1>5, Given, OneArrayChanged
<1>7. QED
  BY <1>4, <1>6, Given, Answering

\* A chunk holds the block that is being written, and nothing between two answers.
LEMMA ChunkPreserves ==
  ASSUME MemInv, TakeChunk \/ WriteChunk
  PROVE  MemInv'
<1>1. /\ pc \in {"respond", "stream"} /\ UNCHANGED <<req, arr, doc, dst, leaked, status>>
      /\ SecretInv /\ chunk \in Array /\ left \in Nat /\ arr \in [Roles -> Array]
      /\ leaked = FALSE /\ arr["resp"].dirty = 0
  BY Given DEF TakeChunk, WriteChunk, SecretInv
<1>2. chunk.len \in Nat /\ chunk.dirty \in Nat /\ chunk.dirty <= chunk.len
  BY <1>1 DEF SecretInv, Array
<1>3. PICK w \in Array : w = Wiped(chunk, chunk.len) /\ w.dirty = 0 /\ w.len = chunk.len
  BY <1>1, <1>2, WipedFacts
<1>4. \A l \in Nat : Min({l, StreamChunk}) \in Nat /\ Min({l, StreamChunk}) <= l
  <2> SUFFICES ASSUME NEW l \in Nat
               PROVE  Min({l, StreamChunk}) \in Nat /\ Min({l, StreamChunk}) <= l
    OBVIOUS
  <2>1. l \in Int /\ StreamChunk \in Int /\ StreamChunk \in Nat
    BY Sizes
  <2>2. QED
    BY <2>1, MinOfTwo
<1>5. \A n \in Nat : Max({0, n}) = n /\ Max({n, 0}) = n
  BY MaxOfTwo
<1>6. /\ chunk' \in Array /\ left' \in Nat /\ pc' \in {"stream", "finish"}
      /\ chunk'.dirty <= chunk'.len
      /\ pc' = "stream" => chunk'.len <= left'
      /\ pc' # "stream" => chunk'.dirty = 0
  <2>1. CASE TakeChunk
    <3>1. PICK n \in Nat : n = Min({left, StreamChunk}) /\ n <= left
      BY <1>1, <1>4
    <3>2. chunk.dirty = 0 /\ pc' = "stream" /\ left' = left
      BY <1>1, <2>1 DEF TakeChunk, SecretInv
    <3>3. chunk' = [chunk EXCEPT !.len = n, !.dirty = n]
      BY <1>5, <2>1, <3>1, <3>2 DEF TakeChunk
    <3>4. chunk' \in Array /\ chunk'.len = n /\ chunk'.dirty = n
      BY <1>1, <3>3 DEF Array
    <3>5. QED
      BY <1>1, <3>1, <3>2, <3>4
  <2>2. CASE WriteChunk /\ chunk' = w /\ pc' = "finish" /\ left' = 0
    BY <1>2, <1>3, <2>2
  <2>3. CASE WriteChunk /\ ~(chunk' = w /\ pc' = "finish" /\ left' = 0)
    <3>1. /\ left' = left - chunk.len /\ pc = "stream"
          /\ chunk' = [w EXCEPT !.len = Min({left', StreamChunk}),
                                !.dirty = Max({Min({left', StreamChunk}), w.dirty})]
          /\ pc' = IF left' = 0 THEN "finish" ELSE "stream"
      BY <1>3, <2>3 DEF WriteChunk
    <3>2. left' \in Nat
      BY <1>1, <1>2, <3>1 DEF SecretInv
    <3>3. PICK n \in Nat : n = Min({left', StreamChunk}) /\ n <= left'
      BY <1>4, <3>2
    <3>4. chunk' = [w EXCEPT !.len = n, !.dirty = n]
      BY <1>3, <1>5, <3>1, <3>3
    <3>5. chunk' \in Array /\ chunk'.len = n /\ chunk'.dirty = n
      BY <1>3, <3>4 DEF Array
    <3>6. QED
      BY <3>1, <3>2, <3>3, <3>5
  <2>4. QED
    BY <2>1, <2>2, <2>3
<1>7. SecretInv'
  BY <1>1, <1>6 DEF SecretInv
<1>8. QED
  BY <1>1, <1>6, <1>7, Answering

\* The deferred wipes reach everything that is still secret.
LEMMA FinishPreserves ==
  ASSUME MemInv, Finish
  PROVE  MemInv'
<1>1. /\ pc = "finish" /\ pc' = "idle" /\ doc' = <<>> /\ dst' = NoDoc
      /\ UNCHANGED <<req, chunk, left, leaked, status>>
      /\ MemTyped /\ BodyInv /\ SecretInv /\ req.format \in {"json", "binary"}
  BY Given, Served DEF Finish, MemInv
<1>2. PICK x : x = WipeFields(arr)
  OBVIOUS
<1>3. /\ x \in [Roles -> Array]
      /\ \A r \in Roles :
           /\ x[r].len = arr[r].len /\ x[r].cap = arr[r].cap
           /\ x[r].dirty <= arr[r].dirty
           /\ r \notin {"data", "text"} => x[r] = arr[r]
      /\ req.route \in Seals => x["text"].dirty = 0
      /\ req.route \notin Seals => x = arr
  BY <1>2, Given, WipeFieldsFacts
<1>4. ASSUME NEW r \in Roles
      PROVE  /\ x[r] \in Array /\ x[r].len \in Nat /\ x[r].len >= x[r].dirty
             /\ x[r].len <= x[r].cap /\ x[r].dirty \in Nat
             /\ Wiped(x[r], x[r].len) \in Array /\ Wiped(x[r], x[r].len).dirty = 0
             /\ Wiped(x[r], x[r].len).len = x[r].len /\ Wiped(x[r], x[r].len).cap = x[r].cap
  <2>1. x[r] \in Array /\ x[r].len \in Nat /\ x[r].dirty \in Nat
    BY <1>3 DEF Array
  <2>2. /\ x[r].dirty <= arr[r].dirty /\ arr[r].dirty <= arr[r].len /\ arr[r].dirty \in Nat
        /\ arr[r].len = x[r].len /\ arr[r].len <= arr[r].cap /\ x[r].cap = arr[r].cap
    BY <1>3, Given
  <2>3. x[r].len >= x[r].dirty /\ x[r].len <= x[r].cap
    BY <2>1, <2>2
  <2>4. QED
    BY <2>1, <2>3, WipedFacts
<1>5. arr' = [r \in Roles |->
                IF r \in {"data", "key"} \/ (r = "body" /\ req.format = "binary")
                THEN Wiped(x[r], x[r].len) ELSE x[r]]
  <2>1. arr' = [x EXCEPT !["body"] = IF req.format = "binary" THEN Wiped(@, @.len) ELSE @,
                         !["data"] = Wiped(@, @.len),
                         !["key"]  = Wiped(@, @.len)]
    BY <1>2 DEF Finish
  <2>2. QED
    BY <1>3, <2>1 DEF Roles
<1>6. /\ arr' \in [Roles -> Array]
      /\ \A r \in Roles : arr'[r].len = x[r].len /\ arr'[r].cap = x[r].cap
  BY <1>4, <1>5
<1>7. \A r \in Roles : arr'[r].dirty = 0
  <2>1. \A r \in Roles : r \in {"data", "key"} \/ (r = "body" /\ req.format = "binary") =>
          arr'[r].dirty = 0
    BY <1>4, <1>5
  <2>2. req.format = "json" => arr'["body"].dirty = 0
    BY <1>1, <1>3, <1>5, Given DEF SecretInv
  <2>3. arr'["resp"].dirty = 0
    BY <1>1, <1>3, <1>5, Given DEF SecretInv
  <2>4. arr'["text"].dirty = 0
    BY <1>1, <1>3, <1>5, Given DEF SecretInv, NoArray
  <2>5. QED
    BY <1>1, <2>1, <2>2, <2>3, <2>4 DEF Roles
<1>8. MemTyped'
  <2>1. doc' \in Seq(Member')
    BY <1>1
  <2>2. QED
    BY <1>1, <1>6, <2>1 DEF MemTyped
<1>9. BodyInv'
  BY <1>1 DEF BodyInv
<1>10. SecretInv'
  <2>1. \A r \in Roles : arr'[r].dirty <= arr'[r].len /\ arr'[r].len <= arr'[r].cap
    BY <1>4, <1>6, <1>7
  <2>2. req.route \notin Seals => arr'["text"] = NoArray
    BY <1>1, <1>3, <1>5, Given DEF SecretInv
  <2>3. "resp" \in Roles
    BY DEF Roles
  <2>4. QED
    BY <1>1, <1>7, <2>1, <2>2, <2>3 DEF SecretInv
<1>11. DocInv'
  BY <1>1 DEF DocInv
<1>12. QED
  BY <1>8, <1>9, <1>10, <1>11 DEF MemInv

-----------------------------------------------------------------------------
(* Theorems *)

LEMMA NextMemInv == MemInv /\ [Next]_vars => MemInv'
<1> SUFFICES ASSUME MemInv, [Next]_vars PROVE MemInv'
  OBVIOUS
<1>1. CASE UNCHANGED vars
  <2>1. UNCHANGED <<pc, req, arr, chunk, left, doc, dst, leaked, status>>
    BY <1>1 DEF vars
  <2>2. MemTyped /\ BodyInv /\ SecretInv /\ DocInv
    BY DEF MemInv
  <2>3. MemTyped'
    BY <2>1, <2>2 DEF MemTyped, Member, Keys, Kinds
  <2>4. BodyInv' /\ SecretInv'
    BY <2>1, <2>2 DEF BodyInv, SecretInv, Streams
  <2>5. DocInv'
    BY <2>1, <2>2 DEF DocInv, Kinds
  <2>6. QED
    BY <2>3, <2>4, <2>5 DEF MemInv
<1>2. CASE Next
  BY <1>2, ArrivePreserves, ReadPreserves, FieldPreserves, ClosePreserves,
     MalformedPreserves, BlankPreserves, EngineRefusesPreserves, SealRequestPreserves,
     OpenRequestPreserves, GenerateKeyPreserves, EncodePreserves, SendBufferPreserves,
     ChunkPreserves, FinishPreserves DEF Next
<1>3. QED
  BY <1>1, <1>2

LEMMA MemInvariance == Spec => []MemInv
BY InitMemInv, NextMemInv, PTL DEF Spec

\* Whatever a request sends and however it fails, no array is given up, left behind or
\* given back to the pool with a secret in it (ReadAll, DecodeStrict, the handlers and
\* the streams of their answers), for every limit and size of the chunks.
THEOREM NoSecretEverLeft == Spec => []NoSecretLeft
<1>1. MemInv => NoSecretLeft
  BY DEF MemInv, SecretInv, NoSecretLeft
<1>2. QED
  BY <1>1, MemInvariance, PTL

\* ReadAll delivers a body whole or refuses it, never stalls on an empty window, and
\* answers 413 only to what is too long, for every limit and every chunk and slack.
THEOREM ReadAlwaysExact == Spec => []ReadIsExact
<1>1. MemInv => ReadIsExact
  <2> SUFFICES ASSUME MemInv PROVE ReadIsExact
    OBVIOUS
  <2>1. /\ MemTyped /\ BodyInv /\ SecretInv /\ arr["body"] \in Array
        /\ arr["body"].dirty <= arr["body"].len
        /\ arr["body"].len \in Nat /\ arr["body"].cap \in Nat /\ TailSlack \in Nat
    BY Given, Sizes DEF MemInv
  <2>2. pc = "read" => Window(Readied(arr["body"]).new) > 0
    BY <2>1, ReadiedFacts DEF BodyInv
  <2>3. pc \in {"parse", "engine"} => arr["body"].cap - arr["body"].len >= TailSlack
    BY <2>1 DEF BodyInv
  <2>4. QED
    BY <2>1, <2>2, <2>3 DEF BodyInv, ReadIsExact
<1>2. QED
  BY <1>1, MemInvariance, PTL

\* A body that DecodeStrict accepts has one reading, for bodies of any number of fields
\* and values of any length.
THEOREM AlwaysOneReading == Spec => []OneReading
<1>1. MemInv => OneReading
  BY DEF MemInv, DocInv, OneReading, Kept
<1>2. QED
  BY <1>1, MemInvariance, PTL

-----------------------------------------------------------------------------
\* The limit is one an int64 holds, and so is every sum it is computed from
\* (OpenBodyLimit tests before it adds).
THEOREM OpenBodyLimitFits ==
  ASSUME NEW maxInt64 \in Int, maxInt64 >= 2 * OpenEnvelopeMargin,
         NEW s \in Int, s <= maxInt64
  PROVE  /\ OpenBodyLimit(s, maxInt64) \in SmallBodyLimit..maxInt64
         /\ s > 0 /\ s <= ((maxInt64 - OpenEnvelopeMargin) \div 3) * 2
              => s + s \div 2 <= maxInt64 - OpenEnvelopeMargin
<1>1. CASE s <= 0
  BY <1>1 DEF OpenBodyLimit, SmallBodyLimit, OpenEnvelopeMargin
<1>2. CASE s > 0 /\ s > ((maxInt64 - OpenEnvelopeMargin) \div 3) * 2
  BY <1>2 DEF OpenBodyLimit, SmallBodyLimit, OpenEnvelopeMargin
<1>3. CASE s > 0 /\ s <= ((maxInt64 - OpenEnvelopeMargin) \div 3) * 2
  <2>1. s + s \div 2 <= maxInt64 - OpenEnvelopeMargin
    BY <1>3 DEF OpenEnvelopeMargin
  <2> QED BY <1>3, <2>1 DEF OpenBodyLimit, SmallBodyLimit, OpenEnvelopeMargin
<1>4. ~(s > ((maxInt64 - OpenEnvelopeMargin) \div 3) * 2) <=> s <= ((maxInt64 - OpenEnvelopeMargin) \div 3) * 2
  BY DEF OpenEnvelopeMargin
<1> QED BY <1>1, <1>2, <1>3, <1>4

\* Whatever /encrypt seals, /decrypt accepts: the plaintext is no longer than the body it
\* came in, and the envelope fits the limit of /decrypt even when a client writes every
\* eighth character of the Base64 with a backslash and adds 65000 bytes of its own.
THEOREM SealedFitsOpen ==
  ASSUME NEW maxInt64 \in Int,
         NEW s \in Int, s > 0, s <= ((maxInt64 - OpenEnvelopeMargin) \div 3) * 2,
         NEW p \in 0..s,
         NEW escaped \in Int, 8 * escaped <= B64Len(p + 16),
         NEW rest \in Int, rest <= 65000
  PROVE  EnvelopeSize(p, escaped, rest) <= OpenBodyLimit(s, maxInt64)
<1>1. OpenBodyLimit(s, maxInt64) = s + s \div 2 + OpenEnvelopeMargin
  BY DEF OpenBodyLimit, OpenEnvelopeMargin
<1>2. B64Len(p + 16) \in Int /\ 3 * B64Len(p + 16) <= 4 * (p + 18)
  BY DEF B64Len
<1>3. 8 * (B64Len(p + 16) + escaped) <= 12 * (p + 18)
  BY <1>2
<1>4. 2 * (B64Len(p + 16) + escaped) <= 3 * (s + 18)
  BY <1>2, <1>3
<1>5. 2 * (s \div 2) >= s - 1
  OBVIOUS
<1> QED
  BY <1>1, <1>2, <1>4, <1>5 DEF EnvelopeSize, OpenEnvelopeMargin

\* A configured limit is at most 1 GiB (Config.Validate): the limit of /decrypt then never
\* reaches the greatest int64, where ReadAll could not tell one byte more.
THEOREM OneByteMoreFits ==
  ASSUME NEW maxInt64 \in Int, maxInt64 >= 4294967296,
         NEW s \in Int, s <= 1073741824
  PROVE  OpenBodyLimit(s, maxInt64) + 1 <= maxInt64
<1>1. CASE s <= 0
  BY <1>1 DEF OpenBodyLimit, SmallBodyLimit
<1>2. CASE s > 0
  <2>1. s <= ((maxInt64 - OpenEnvelopeMargin) \div 3) * 2
    BY DEF OpenEnvelopeMargin
  <2>2. s \div 2 <= 536870912
    OBVIOUS
  <2> QED BY <1>2, <2>1, <2>2 DEF OpenBodyLimit, OpenEnvelopeMargin
<1> QED BY <1>1, <1>2
=============================================================================
