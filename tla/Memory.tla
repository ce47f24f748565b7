------------------------------- MODULE Memory -------------------------------
(***************************************************************************)
(* Where the bytes of one request live: ReadAll and its growing buffer,    *)
(* the strict JSON reader, the handlers that seal and open in place, and   *)
(* the two ways to answer, a wiped buffer or the chunks of a pool.  An     *)
(* array keeps its capacity, its length and how many of its first bytes    *)
(* may hold a secret.  A handler shares no array with another but the      *)
(* chunk, which one handler holds at a time: one request at a time loses   *)
(* nothing.  Which requests the engine refuses is the matter of Envelope.  *)
(***************************************************************************)
EXTENDS Integers, Sequences, FiniteSetsExt

CONSTANTS Limit,           \* the body limit of the route, as MaxBodySizeMiddleware sets it
          MinReadChunk,    \* minReadChunk
          TailSlack,       \* TailSlack: the size of a GCM tag
          StreamThreshold, \* streamThreshold
          StreamChunk,     \* streamChunk
          Lengths,         \* lengths of the values of fields
          MaxFields        \* bound: fields of a JSON body

ASSUME SizesAssumption ==
  /\ Limit \in Nat /\ TailSlack \in Nat \ {0} /\ MinReadChunk \in Nat \ {0}
  /\ StreamThreshold \in Nat /\ StreamChunk \in Nat \ {0}
  /\ Lengths \subseteq Nat /\ MaxFields \in Nat

VARIABLES pc,     \* where the handler stands
          req,    \* its request
          arr,    \* its arrays, by role
          chunk,  \* the chunk of the pool
          left,   \* bytes still to stream
          doc,    \* history: the fields of the JSON body so far
          dst,    \* the fields decoded so far
          leaked, \* history: an array was given up with a secret in it
          status  \* the status of the last answer, 0 before it

vars == <<pc, req, arr, chunk, left, doc, dst, leaked, status>>

Routes == {"encrypt", "wrap", "decrypt", "unwrap", "generate"}
Seals  == {"encrypt", "wrap"}
Opens  == {"decrypt", "unwrap"}

\* The requests of each route: size is what the client means to send, hint its
\* Content-Length or -1; net/http lets no client send more than it announced.
Requests ==
  {q \in [route : Routes, format : {"json", "binary"}, size : 0..Limit + 2, hint : -1..Limit + 2] :
     q.hint \in {-1, q.size} /\ (q.format = "binary" => q.route # "generate")}

NoArray == [cap |-> 0, len |-> 0, dirty |-> 0]
NoDoc   == [f \in {} |-> 0]
Roles   == {"body", "data", "text", "key", "resp"}

Init ==
  /\ pc = "idle" /\ req = [route |-> "encrypt", format |-> "json", size |-> 0, hint |-> 0]
  /\ arr = [r \in Roles |-> NoArray] /\ chunk = [NoArray EXCEPT !.cap = StreamChunk] /\ left = 0
  /\ doc = <<>> /\ dst = NoDoc
  /\ leaked = FALSE /\ status = 0

\* Wipe on the first n bytes of a.
Wiped(a, n) == IF n >= a.dirty THEN [a EXCEPT !.dirty = 0] ELSE a

-----------------------------------------------------------------------------
(* ReadAll and Buffer *)

\* Faulty variant: the capacity announced, without the byte that lets EOF be read.
InitialCapacityTight(hint) ==
  Min({IF hint \in 0..Limit THEN hint ELSE MinReadChunk, Limit + 1}) + TailSlack

InitialCapacity(hint) ==
  Min({IF hint \in 0..Limit THEN hint + 1 ELSE MinReadChunk, Limit + 1}) + TailSlack

\* What a full buffer is grown by.
Growth(len) == Min({Max({len, MinReadChunk}), Limit + 1 - len}) + TailSlack

\* Faulty variant: append, which leaves the old array as it is.
GrownByAppend(a, n) ==
  IF n <= a.cap - a.len THEN [new |-> a, old |-> NoArray]
  ELSE [new |-> [a EXCEPT !.cap = Max({2 * a.cap, a.len + n})], old |-> a]

Grown(a, n) ==
  IF n <= a.cap - a.len THEN [new |-> a, old |-> NoArray]
  ELSE [new |-> [a EXCEPT !.cap = Max({2 * a.cap, a.len + n})], old |-> Wiped(a, a.cap)]

\* The buffer before the next read: TailSlack bytes stay out of its window.
Readied(a) ==
  IF a.len = a.cap - TailSlack THEN Grown(a, Growth(a.len)) ELSE [new |-> a, old |-> NoArray]

Window(a) == a.cap - TailSlack - a.len

\* What the first n bytes of a body may reveal.
Secrets(n) == IF req.route \in Seals THEN n ELSE 0

\* MaxBodySizeMiddleware refuses what announces too much; ReadAll allocates the rest.
Arrive(q) ==
  /\ pc = "idle"
  /\ req' = q
  /\ IF q.hint > Limit
     THEN pc' = "finish" /\ status' = 413 /\ arr' = [r \in Roles |-> NoArray]
     ELSE /\ pc' = "read" /\ status' = 0
          /\ arr' = [r \in Roles |->
                       IF r = "body" THEN [NoArray EXCEPT !.cap = InitialCapacity(q.hint)] ELSE NoArray]
  /\ UNCHANGED <<chunk, left, doc, dst, leaked>>

\* The buffer is wiped and given up: 413 past the limit, 400 when the client fails.
GiveUp(a, code) ==
  /\ arr' = [arr EXCEPT !["body"] = Wiped(a, a.cap)]
  /\ status' = code /\ pc' = "finish"

\* One turn of ReadAll on a MaxBytesReader: n bytes arrive, with or without the end.
Read ==
  /\ pc = "read"
  /\ LET grown == Readied(arr["body"])
         a     == grown.new
     IN  /\ leaked' = (leaked \/ grown.old.dirty > 0)
         /\ \E n \in 0..Min({Window(a), req.size - a.len}) :
              LET b == [a EXCEPT !.len = @ + n, !.dirty = Secrets(a.len + n)]
              IN  \/ b.len > Limit /\ GiveUp(b, 413)
                  \/ b.len <= Limit /\ GiveUp(b, 400)
                  \/ /\ b.len <= Limit
                     /\ arr' = [arr EXCEPT !["body"] = b]
                     /\ status' = status
                     /\ \/ /\ b.len = req.size /\ Window(a) > 0
                           /\ pc' = (IF req.format = "json" THEN "parse" ELSE "engine")
                        \/ (n > 0 \/ Window(a) = 0) /\ pc' = "read"
  /\ UNCHANGED <<req, chunk, left, doc, dst>>

-----------------------------------------------------------------------------
(* DecodeStrict and bindJSON *)

\* The fields of each request that matter here, by the kind structFields finds.
FieldsOf ==
  [encrypt  |-> [data |-> "base64", plaintext |-> "text", context |-> "string"],
   wrap     |-> [plaintext_key |-> "base64", context |-> "string"],
   decrypt  |-> [ciphertext |-> "base64", suite_id |-> "uint"],
   unwrap   |-> [wrapped_key |-> "base64", suite_id |-> "uint"],
   generate |-> [key_length |-> "int", context |-> "string"]]

Kinds == FieldsOf[req.route]

\* A key as another reader takes it, and the form it is written in.
Keys == [name : DOMAIN Kinds, form : {"exact", "escaped", "otherCase"}] \cup
        {[name |-> "unknown", form |-> "exact"]}

\* Values by what value, setString and setNumber tell apart: a string is good as Base64,
\* as UTF-8 only, or as neither.
Values ==
  [type : {"null", "nested", "bool", "integer", "negative", "huge", "fraction", "garbled"},
   good : {"none"}, escaped : {FALSE}, len : {0}] \cup
  [type : {"string"}, good : {"base64", "utf8", "none"}, escaped : BOOLEAN, len : Lengths]

\* Faulty variant: the map of the keys seen is not consulted.
KeyAllowedTwice(key) == key.form = "exact" /\ key.name \in DOMAIN Kinds

KeyAllowed(key) == /\ key.form = "exact" /\ key.name \in DOMAIN Kinds
                   /\ key.name \notin DOMAIN dst

ValueAllowed(kind, v) ==
  \/ v.type = "null"
  \/ v.type = "integer"  /\ kind \in {"int", "uint"}
  \/ v.type = "negative" /\ kind = "int"
  \/ v.type = "string"   /\ kind = "base64" /\ v.good = "base64"
  \/ v.type = "string"   /\ kind \in {"text", "string"} /\ v.good # "none"

\* The arrays a value may be left in: Base64 gets TailSlack bytes more than its data; a text
\* is the array its escapes were resolved in, longer than it, or a copy append has sized.
Held(kind, v) ==
  {[cap |-> v.len + spare, len |-> v.len, dirty |-> Secrets(v.len)] :
     spare \in IF kind = "base64" THEN {TailSlack}
               ELSE IF v.escaped THEN {1, TailSlack} ELSE {0, TailSlack}}

\* The arrays of a value that is refused, or resolved and not kept: wiped over their length.
Temporary(kind, v) ==
  IF v.type = "string" /\ (v.escaped \/ kind = "base64")
  THEN Wiped([cap |-> v.len, len |-> v.len, dirty |-> Secrets(v.len)], v.len) ELSE NoArray

RoleOf(kind) == IF kind = "base64" THEN "data" ELSE "text"

\* The wipe method of each request: only what is sealed is secret.
WipeFields(a) ==
  IF req.route \in Seals
  THEN [a EXCEPT !["data"] = Wiped(@, @.len), !["text"] = Wiped(@, @.len)] ELSE a

\* bindJSON on an error: the body and the fields decoded so far are wiped.
Refuse ==
  /\ arr' = WipeFields([arr EXCEPT !["body"] = Wiped(@, @.len)])
  /\ doc' = <<>> /\ dst' = NoDoc
  /\ status' = 400 /\ pc' = "finish"

\* One turn of the loop of DecodeStrict.
Field(key, v) ==
  /\ pc = "parse" /\ req.size > 0 /\ Len(doc) < MaxFields
  /\ IF KeyAllowed(key) /\ ValueAllowed(Kinds[key.name], v)
     THEN LET kind == Kinds[key.name]
          IN  /\ dst' = [f \in DOMAIN dst \cup {key.name} |-> IF f = key.name THEN v ELSE dst[f]]
              /\ doc' = Append(doc, [key |-> key, value |-> v])
              /\ IF v.type = "string" /\ kind \in {"base64", "text"}
                 THEN \E a \in Held(kind, v) : arr' = [arr EXCEPT ![RoleOf(kind)] = a]
                 ELSE arr' = arr
              /\ leaked' = \/ leaked
                           \/ v.type = "string" /\ kind # "string" /\ arr[RoleOf(kind)].dirty > 0
                           \/ kind # "text" /\ Temporary(kind, v).dirty > 0
              /\ UNCHANGED <<pc, status>>
     ELSE /\ Refuse
          /\ leaked' = (leaked \/ Temporary("base64", v).dirty > 0)
  /\ UNCHANGED <<req, chunk, left>>

\* The object is closed and nothing follows: the body is wiped.
Close ==
  /\ pc = "parse" /\ req.size > 0
  /\ arr' = [arr EXCEPT !["body"] = Wiped(@, @.len)]
  /\ pc' = "engine"
  /\ UNCHANGED <<req, chunk, left, doc, dst, leaked, status>>

\* No object, one that is cut, or one that something follows.
Malformed ==
  /\ pc = "parse" /\ req.size > 0
  /\ Refuse
  /\ UNCHANGED <<req, chunk, left, leaked>>

\* Nothing but blanks: admitted where every field is optional.
Blank ==
  /\ pc = "parse" /\ doc = <<>>
  /\ IF req.route = "generate"
     THEN /\ arr' = [arr EXCEPT !["body"] = Wiped(@, @.len)]
          /\ pc' = "engine" /\ UNCHANGED <<doc, dst, status>>
     ELSE Refuse
  /\ UNCHANGED <<req, chunk, left, leaked>>

-----------------------------------------------------------------------------
(* The handlers, around the engine *)

\* The array a handler gives to the engine, "none" when the request is incomplete.
Source ==
  IF req.format = "binary" THEN "body"
  ELSE IF arr["data"].len > 0 /\ arr["text"].len > 0 THEN "none"
  ELSE IF arr["data"].len > 0 THEN "data"
  ELSE IF arr["text"].len > 0 THEN "text" ELSE "none"

\* sealSymmetric: the ciphertext takes the place of the plaintext when it fits there.
SealedInPlace(a) ==
  IF a.cap - a.len >= TailSlack THEN [a EXCEPT !.len = @ + TailSlack, !.dirty = 0] ELSE a

\* The engine, or a check before it, refuses; handleBinarySeal erases the plaintext.
EngineRefuses ==
  /\ pc = "engine"
  /\ arr' = IF req.format = "binary" THEN [arr EXCEPT !["body"] = Wiped(@, @.len)] ELSE arr
  /\ \E code \in {400, 422, 500} : status' = code
  /\ pc' = "finish"
  /\ UNCHANGED <<req, chunk, left, doc, dst, leaked>>

\* Encrypt, WrapKey and handleBinarySeal: the answer holds no secret; Encrypt lets go of the
\* data it sealed in place.
SealRequest ==
  /\ pc = "engine" /\ req.route \in Seals /\ Source # "none" /\ arr[Source].len > 0
  /\ LET a == SealedInPlace(arr[Source])
     IN  IF req.route = "encrypt" /\ Source = "data" /\ a # arr[Source]
         THEN arr' = [arr EXCEPT !["data"] = NoArray] /\ leaked' = (leaked \/ a.dirty > 0)
         ELSE arr' = [arr EXCEPT ![Source] = a] /\ leaked' = leaked
  /\ status' = 200 /\ pc' = "finish"
  /\ UNCHANGED <<req, chunk, left, doc, dst>>

\* openEnvelope: the plaintext takes the place of the ciphertext.
OpenRequest ==
  /\ pc = "engine" /\ req.route \in Opens /\ Source # "none" /\ arr[Source].len > TailSlack
  /\ LET n == arr[Source].len - TailSlack
     IN  /\ arr' = [arr EXCEPT ![Source].dirty = n, ![Source].len = IF Source = "body" THEN @ ELSE n]
         /\ left' = IF Source = "body" THEN 0 ELSE n
  /\ status' = 200
  /\ pc' = IF Source = "body" THEN "finish" ELSE "respond"
  /\ UNCHANGED <<req, chunk, doc, dst, leaked>>

\* GenerateDataKey; KEMEncapsulate and KEMDecapsulate treat their shared secret alike.
GenerateKey ==
  /\ pc = "engine" /\ req.route = "generate"
  /\ arr' = [arr EXCEPT !["key"] = [cap |-> 1, len |-> 1, dirty |-> 1]]
  /\ left' = 1
  /\ status' = 200 /\ pc' = "respond"
  /\ UNCHANGED <<req, chunk, doc, dst, leaked>>

-----------------------------------------------------------------------------
(* The answers that carry a secret *)

\* The threshold of respondPlaintext.
Streams == req.route = "decrypt" /\ left > StreamThreshold

\* A JSON object in one buffer sized for it.
Encode ==
  /\ pc = "respond" /\ ~Streams /\ arr["resp"] = NoArray
  /\ arr' = [arr EXCEPT !["resp"] = [cap |-> left + 1, len |-> left, dirty |-> left]]
  /\ UNCHANGED <<pc, req, chunk, left, doc, dst, leaked, status>>

\* respondBuffer: written, or not when the client has left, then wiped.
SendBuffer ==
  /\ pc = "respond" /\ ~Streams /\ arr["resp"] # NoArray
  /\ arr' = [arr EXCEPT !["resp"] = Wiped(@, @.cap)]
  /\ left' = 0 /\ pc' = "finish"
  /\ UNCHANGED <<req, chunk, doc, dst, leaked, status>>

\* StreamBase64 and StreamJSONString take a chunk from the pool and encode the first block.
TakeChunk ==
  /\ pc = "respond" /\ Streams
  /\ pc' = "stream"
  /\ LET n == Min({left, StreamChunk}) IN chunk' = [chunk EXCEPT !.len = n, !.dirty = Max({@, n})]
  /\ UNCHANGED <<req, arr, left, doc, dst, leaked, status>>

\* Faulty variant: the chunk is wiped after the error of the write is looked at.
WriteChunkFirst ==
  /\ pc = "stream"
  /\ \/ pc' = "finish" /\ left' = 0 /\ chunk' = chunk
     \/ /\ left' = left - chunk.len
        /\ LET n == Min({left', StreamChunk})
           IN  chunk' = [Wiped(chunk, chunk.len) EXCEPT !.len = n, !.dirty = n]
        /\ pc' = (IF left' = 0 THEN "finish" ELSE "stream")
  /\ UNCHANGED <<req, arr, doc, dst, leaked, status>>

\* The block is written, or not, and wiped; the next one is encoded over it.
WriteChunk ==
  /\ pc = "stream"
  /\ \/ pc' = "finish" /\ left' = 0 /\ chunk' = Wiped(chunk, chunk.len)
     \/ /\ left' = left - chunk.len
        /\ LET n == Min({left', StreamChunk})
               w == Wiped(chunk, chunk.len)
           IN  chunk' = [w EXCEPT !.len = n, !.dirty = Max({n, w.dirty})]
        /\ pc' = (IF left' = 0 THEN "finish" ELSE "stream")
  /\ UNCHANGED <<req, arr, doc, dst, leaked, status>>

\* The deferred wipes; the arrays are then left to the garbage collector.
Finish ==
  /\ pc = "finish"
  /\ pc' = "idle"
  /\ arr' = [WipeFields(arr) EXCEPT
               !["body"] = IF req.format = "binary" THEN Wiped(@, @.len) ELSE @,
               !["data"] = Wiped(@, @.len),
               !["key"]  = Wiped(@, @.len)]
  /\ doc' = <<>> /\ dst' = NoDoc
  /\ UNCHANGED <<req, chunk, left, leaked, status>>

Next ==
  \/ \E q \in Requests : Arrive(q)
  \/ Read
  \/ \E key \in Keys, v \in Values : Field(key, v)
  \/ Close \/ Malformed \/ Blank
  \/ EngineRefuses \/ SealRequest \/ OpenRequest \/ GenerateKey
  \/ Encode \/ SendBuffer \/ TakeChunk \/ WriteChunk
  \/ Finish

Spec == Init /\ [][Next]_vars

-----------------------------------------------------------------------------
(* Properties *)

\* Whatever a request sends and however it fails, no array that may still hold a secret is
\* given up while it is served, nor left behind, nor given back to the pool, at its end.
NoSecretLeft ==
  /\ ~leaked
  /\ pc = "idle" => chunk.dirty = 0 /\ \A r \in Roles : arr[r].dirty = 0

\* ReadAll delivers what was sent, whole, and refuses with 413 only what is too long; it
\* never reads into an empty window, never reallocates when the length was announced, and
\* leaves room for sealing in place.
ReadIsExact ==
  /\ pc = "read" => Window(Readied(arr["body"]).new) > 0
  /\ pc \in {"parse", "engine"} =>
       LET a == arr["body"]
       IN  /\ a.len = req.size /\ a.len <= Limit
           /\ a.cap - a.len >= TailSlack
           /\ req.hint >= 0 => a.cap = req.hint + 1 + TailSlack
  /\ status = 413 => req.size > Limit

\* A body that is accepted has one reading: whether a reader takes the first or the last of
\* its fields of a name, and ignores the case and the escapes of names or not, it reads what
\* the handler was given (DecodeStrict).
OneReading ==
  pc = "engine" =>
    \A i \in DOMAIN doc :
      LET name == doc[i].key.name
          v    == doc[i].value
      IN  /\ name \in DOMAIN dst /\ dst[name] = v
          /\ v.type = "string" /\ Kinds[name] # "string" => arr[RoleOf(Kinds[name])].len = v.len
=============================================================================
