------------------------------- MODULE Envelope -------------------------------
(***************************************************************************)
(* The handlers and HybridEngine: envelopes are sealed, leave with their   *)
(* client, come back whole, re-encoded, damaged, or from another client,   *)
(* and are opened.  The cryptography is ideal: the KEM rejects implicitly, *)
(* a key derivation is a term of all its inputs, and AES-GCM opens what it *)
(* sealed under the same key, nonce and associated data, nothing else.     *)
(*                                                                         *)
(* The engine keeps nothing between two requests, so one operation at a    *)
(* time loses no behaviour, and one envelope at a time is enough.          *)
(***************************************************************************)
EXTENDS Access

CONSTANTS Algorithm,   \* the configured suite: "ML-KEM" or "DUAL"
          LocalKey,    \* the public key of the service
          ForeignKeys, \* well-formed public keys of others
          Contexts,    \* contexts clients use: sequences of characters
          MaxContext,  \* MaxEncryptionContextSize
          Proxies,     \* addresses of TRUSTED_PROXIES
          Hosts,       \* addresses of clients
          Forgeries,   \* what clients write in X-Forwarded-For, <<>> for no header
          Routes       \* the proxies a request meets after the first

ASSUME AlgorithmAssumption == Algorithm \in {"ML-KEM", "DUAL"}
ASSUME ContextAssumption   == MaxContext \in Nat /\ Contexts \subseteq Seq(Characters)
ASSUME HostsAssumption     == Proxies \cap Hosts = {} /\ "" \notin Proxies \cup Hosts
ASSUME HeadersAssumption   ==
  Forgeries \subseteq Seq(Hosts \cup Proxies \cup {""}) /\ Routes \subseteq Seq(Proxies)

VARIABLES deployed,  \* the configuration that serves
          callers,   \* the identities that reach the engine under it
          issued,    \* history: what was sealed or encapsulated last, with how
          answer     \* the last answer, with its request

vars == <<deployed, callers, issued, answer>>

\* recipient_public_key: absent (the local key), good, of a wrong size, or with an
\* X25519 part of low order.
Recipients == {"none", "malformed", "lowOrder"} \cup ForeignKeys

ASSUME KeysAssumption ==
  LocalKey \notin Recipients \cup {"", "unknown"} /\ "" \notin Recipients

\* The classes of payloads that validateUsagePayload tells apart.
Payloads == {"empty", "short", "key"}

Usages  == {"DATA_ENCRYPTION", "KEY_WRAPPING_DEK"}
Formats == {"json", "binary"}

Version   == "GO-PQC-GATEWAY-V2"
NoSecret  == <<>>
Nothing   == [op |-> "none"]
NotIssued == [kind |-> "none"]

\* A list of checks in their order, each an error or "ok".
Check(failed, error) == IF failed THEN error ELSE "ok"

FirstError(errors) ==
  LET failed == {i \in DOMAIN errors : errors[i] # "ok"}
  IN  IF failed = {} THEN "ok" ELSE errors[Min(failed)]

-----------------------------------------------------------------------------
(* The context of a request *)

\* A context in a header loses the spaces around it; in JSON it is taken as it is.
Received(format, ctx) ==
  LET kept == {i \in DOMAIN ctx : ctx[i] # " "}
  IN  IF format = "json" THEN ctx
      ELSE IF kept = {} THEN <<>> ELSE SubSeq(ctx, Min(kept), Max(kept))

\* Faulty variant: no separator between the identity and the context.
BoundContextJoined(id, ctx) == <<"IDENTITY:">> \o id \o ctx

BoundContext(id, ctx) == <<"IDENTITY:">> \o id \o <<"NUL">> \o ctx

EffectiveContext(id, ctx) == IF deployed.bind THEN BoundContext(id, ctx) ELSE ctx

\* The identity that matters to an envelope.
Owner(id) == IF deployed.bind THEN id ELSE NoName

ContextError(id, ctx) ==
  Check(Len(EffectiveContext(id, ctx)) > MaxContext, "ErrInvalidPayloadSize")

-----------------------------------------------------------------------------
(* Derivations *)

AlgoForUsage(usage) ==
  IF usage = "KEY_AGREEMENT" THEN <<Algorithm>> ELSE <<Algorithm, "AES-256-GCM">>

\* Faulty variant: the context is not part of the transcript.
TranscriptOpen(label, usage, encap, pk, ctx) ==
  <<Version, label, AlgoForUsage(usage), usage, encap, pk>>

\* hashTranscriptInto: a field of each, the context only when there is one.
Transcript(label, usage, encap, pk, ctx) ==
  <<Version, label, AlgoForUsage(usage), usage, encap, pk>>
    \o (IF ctx = <<>> THEN <<>> ELSE <<"ENCRYPTION-CONTEXT", ctx>>)

\* What the KEM and its combiner give the holder of a key for an encapsulated key: the
\* sender's secret, or one of its own for a key that was altered or made for another.
SharedSecret(holder, encap) ==
  <<IF encap.form = "whole" /\ encap.pk = holder THEN "agreed" ELSE "rejected", encap>>

\* Faulty variant: the usage is in neither the salt nor the info.
DeriveSecretOneUsage(secret, usage, encap, pk, ctx) ==
  <<secret, Transcript("SALT", "DATA_ENCRYPTION", encap, pk, ctx), "DATA_ENCRYPTION">>

\* HKDF with the transcript as salt and the usage in its info.
DeriveSecret(secret, usage, encap, pk, ctx) ==
  <<secret, Transcript("SALT", usage, encap, pk, ctx), usage>>

\* Faulty variant: the key is the one of the request, even when there is none.
EffectiveKeyAsGiven(rcpt) == rcpt

EffectiveKey(rcpt) == IF rcpt = "none" THEN LocalKey ELSE rcpt

\* The two KEMs: a wrong size, and for the dual one a point of low order.
EncapsulateError(rcpt) ==
  FirstError(<<Check(rcpt = "malformed", "ErrInvalidKey"),
               Check(rcpt = "lowOrder" /\ Algorithm = "DUAL", "ECDH")>>)

DecapsulateError(encap) ==
  Check(encap.form = "short" \/ (encap.form = "lowOrder" /\ Algorithm = "DUAL"),
        "ErrDecapsulationFailed")

\* A fresh encapsulated key.
Encapsulated(rcpt) == [pk |-> IF rcpt = "none" THEN LocalKey ELSE rcpt, form |-> "whole"]

UsagePayloadError(payload, usage) ==
  FirstError(<<Check(usage = "DATA_ENCRYPTION" /\ payload = "empty", "ErrEmptyPayload"),
               Check(usage = "KEY_WRAPPING_DEK" /\ payload # "key", "ErrInvalidPayloadSize")>>)

\* writeCryptoError; the handlers answer 200 to the rest.
StatusOf(error) ==
  CASE error = "ok" -> 200
    [] error \in {"ErrInvalidKey", "ErrInvalidEnvelope", "ErrEmptyPayload",
                  "ErrInvalidPayloadSize", "ErrUnsupportedAlgorithm",
                  "ErrMismatchedSuite", "ErrMismatchedVersion"} -> 400
    [] error \in {"ErrUnknownKey", "ErrDecapsulationFailed", "ErrDecryptionFailed"} -> 422
    [] OTHER -> 500

-----------------------------------------------------------------------------
(* Requests that the front of the service answers *)

Init ==
  /\ \E c \in {c \in Configurations : Validate(c)} : deployed = Deployed(c)
  /\ callers = Callers(deployed)
  /\ issued = NotIssued
  /\ answer = Nothing

\* The client has its answer.
Receive ==
  /\ answer # Nothing
  /\ answer' = Nothing
  /\ UNCHANGED <<deployed, callers, issued>>

\* The middlewares and /health, which keep nothing: asking before any envelope is enough.
Front(q) ==
  /\ answer = Nothing /\ issued = NotIssued
  /\ Connects(deployed, q)
  /\ answer' = [op |-> "front", request |-> q, info |-> Verdict(deployed, q)]
  /\ UNCHANGED <<deployed, callers, issued>>

\* X-Forwarded-For as the proxies hand it over: what the client made up, the address that
\* the first proxy saw, then the proxies on the way, joined into one line or each on a line
\* added to those it received.
HandedOver(joined, forged, host, hops) ==
  IF joined THEN <<forged \o <<host>> \o hops>>
  ELSE (IF forged = <<>> THEN <<>> ELSE <<forged>>)
         \o <<<<host>>>> \o [i \in DOMAIN hops |-> <<hops[i]>>]

\* The key of the limits.
Limit(id, remote, joined, forged, host, hops) ==
  /\ answer = Nothing /\ issued = NotIssued
  /\ answer' = [op |-> "limit", id |-> id, remote |-> remote, host |-> host,
                joined |-> joined, forged |-> forged # <<>>,
                source |-> Source(id, remote, HandedOver(joined, forged, host, hops), Proxies)]
  /\ UNCHANGED <<deployed, callers, issued>>

-----------------------------------------------------------------------------
(* Sealing *)

\* The envelope for a recipient: the kid of its key, and data under a fresh key.
Sealed(rcpt, usage, payload, ctx) ==
  LET encap == Encapsulated(rcpt)
      pk    == EffectiveKey(rcpt)
  IN  [suite |-> Algorithm, version |-> Version, algorithm |-> Algorithm, kid |-> pk,
       encap |-> encap, nonce |-> "whole",
       data  |-> [form |-> "whole", plain |-> payload,
                  key  |-> DeriveSecret(SharedSecret(encap.pk, encap), usage, encap, pk, ctx),
                  aad  |-> Transcript("AAD", usage, encap, pk, ctx)]]

\* Encrypt, WrapKey and handleBinarySeal, which always uses the local key.
Seal(op, id, format, rcpt, usage, payload, context) ==
  LET ctx   == Received(format, context)
      error == FirstError(<<UsagePayloadError(payload, usage), ContextError(id, ctx),
                            EncapsulateError(rcpt)>>)
  IN  /\ answer = Nothing /\ issued = NotIssued
      /\ format = "binary" => rcpt = "none"
      /\ answer' = [op |-> op, status |-> StatusOf(error)]
      /\ issued' = IF error # "ok" THEN issued ELSE
           [kind |-> "envelope", owner |-> Owner(id), usage |-> usage, ctx |-> ctx,
            payload |-> payload, rcpt |-> rcpt,
            envelope |-> Sealed(rcpt, usage, payload, EffectiveContext(id, ctx))]
      /\ UNCHANGED <<deployed, callers>>

\* A key of the asked length, 32 bytes when there is none, in the clear and wrapped.
GenerateDataKey(id, rcpt, size, ctx) ==
  Seal("generate", id, "json", rcpt, "KEY_WRAPPING_DEK", IF size = "empty" THEN "key" ELSE size, ctx)

\* An agreement on a key, which no context or identity is bound to.
Encapsulate(rcpt) ==
  LET encap == Encapsulated(rcpt)
      error == EncapsulateError(rcpt)
  IN  /\ answer = Nothing /\ issued = NotIssued
      /\ answer' = [op |-> "encapsulate", status |-> StatusOf(error)]
      /\ issued' = IF error # "ok" THEN issued ELSE
           [kind |-> "agreement", rcpt |-> rcpt, encap |-> encap,
            secret |-> DeriveSecret(SharedSecret(encap.pk, encap), "KEY_AGREEMENT", encap,
                                    EffectiveKey(rcpt), <<>>)]
      /\ UNCHANGED <<deployed, callers>>

-----------------------------------------------------------------------------
(* Opening *)

\* What may become of an envelope on its way.  A client may leave out its kid, as in the
\* binary format V2 and in envelopes of version 0.0.x.
Honest(env) == {env, [env EXCEPT !.kid = ""]}

\* In JSON it can also leave out the name of the algorithm.
Unnamed(env, format) == IF format = "json" THEN {[env EXCEPT !.algorithm = ""]} ELSE {}

Damaged(env, format) ==
  {[env EXCEPT !.suite = ""], [env EXCEPT !.suite = "other"], [env EXCEPT !.kid = "unknown"],
   [env EXCEPT !.nonce = "altered"], [env EXCEPT !.data.form = "altered"]}
    \cup {[env EXCEPT !.encap.form = f] : f \in {"altered", "short", "lowOrder", "empty"}}
    \cup (IF format = "binary" THEN {[env EXCEPT !.data.form = "truncated"]} ELSE
            {[env EXCEPT !.version = ""], [env EXCEPT !.version = "V1"],
             [env EXCEPT !.algorithm = "other"], [env EXCEPT !.nonce = "short"],
             [env EXCEPT !.nonce = "empty"], [env EXCEPT !.data.form = "empty"]})

\* The binary format has no version of the protocol, nor the name of the algorithm, and
\* wants room for a nonce and a tag.
Parsed(env, format) ==
  IF format = "json" THEN env ELSE [env EXCEPT !.version = Version, !.algorithm = ""]

ParseError(env, format) ==
  Check(format = "binary" /\ env.data.form = "truncated", "ErrInvalidEnvelope")

CompleteError(env) ==
  Check("empty" \in {env.encap.form, env.nonce, env.data.form}, "ErrInvalidEnvelope")

MetaError(env) ==
  FirstError(<<Check(env.suite = "" \/ env.version = "", "ErrInvalidEnvelope"),
               Check(env.suite # Algorithm, "ErrMismatchedSuite"),
               Check(env.version # Version, "ErrMismatchedVersion"),
               Check(env.algorithm \notin {"", Algorithm}, "ErrUnsupportedAlgorithm")>>)

\* Faulty variant: an envelope of version 0.0.x, without kid, is refused.
KidErrorStrict(env) == Check(env.kid # LocalKey, "ErrUnknownKey")

KidError(env) == Check(env.kid \notin {"", LocalKey}, "ErrUnknownKey")

\* openSymmetric with the key that the service derives, then the rules of the usage.
DataError(env, usage, ctx) ==
  LET Key == DeriveSecret(SharedSecret(LocalKey, env.encap), usage, env.encap, LocalKey, ctx)
      Aad == Transcript("AAD", usage, env.encap, LocalKey, ctx)
  IN  FirstError(<<Check(env.nonce = "short", "nonce size"),
                   Check(\/ env.nonce # "whole" \/ env.data.form # "whole"
                         \/ env.data.key # Key \/ env.data.aad # Aad, "ErrDecryptionFailed"),
                   UsagePayloadError(env.data.plain, usage)>>)

\* Decrypt, UnwrapKey and handleBinaryOpen.
Open(id, format, env, usage, context) ==
  LET ctx   == Received(format, context)
      sent  == Parsed(env, format)
      error == FirstError(<<ParseError(env, format), CompleteError(sent), MetaError(sent),
                            ContextError(id, ctx), KidError(sent), DecapsulateError(sent.encap),
                            DataError(sent, usage, EffectiveContext(id, ctx))>>)
  IN  /\ answer = Nothing
      /\ answer' = [op |-> "open", owner |-> Owner(id), usage |-> usage, ctx |-> ctx,
                    sent |-> CASE env \in Honest(issued.envelope) -> "whole"
                               [] env \in Unnamed(issued.envelope, format) -> "unnamed"
                               [] OTHER -> "damaged",
                    status |-> StatusOf(error),
                    plain |-> IF error = "ok" THEN env.data.plain ELSE "none"]
      /\ UNCHANGED <<deployed, callers, issued>>

\* KEMDecapsulate, of an agreement or of the encapsulated key of an envelope.
Decapsulate(encap) ==
  LET error == FirstError(<<Check(encap.form = "empty", "ErrInvalidKey"), DecapsulateError(encap)>>)
  IN  /\ answer = Nothing
      /\ answer' = [op |-> "decapsulate", encap |-> encap, status |-> StatusOf(error),
                    secret |-> IF error # "ok" THEN NoSecret ELSE
                      DeriveSecret(SharedSecret(LocalKey, encap), "KEY_AGREEMENT", encap, LocalKey, <<>>)]
      /\ UNCHANGED <<deployed, callers, issued>>

-----------------------------------------------------------------------------
Asked ==
  \/ \E q \in Requests : Front(q)
  \/ \E id \in callers, remote \in Proxies \cup Hosts \cup {""}, joined \in BOOLEAN,
        forged \in Forgeries, host \in Hosts, hops \in Routes :
       Limit(id, remote, joined, forged, host, hops)

\* A header cannot hold a NUL.
Given(format) == {ctx \in Contexts : format = "binary" => \A i \in DOMAIN ctx : ctx[i] # "NUL"}

Sent ==
  \/ \E id \in callers, format \in Formats, rcpt \in Recipients, usage \in Usages, payload \in Payloads :
       \E ctx \in Given(format) : Seal("seal", id, format, rcpt, usage, payload, ctx)
  \/ \E id \in callers, rcpt \in Recipients, size \in Payloads, ctx \in Contexts :
       GenerateDataKey(id, rcpt, size, ctx)
  \/ callers # {} /\ \E rcpt \in Recipients : Encapsulate(rcpt)

\* Whole envelopes come from anyone, under any usage and context; damaged ones the way
\* they were sealed.
Returned ==
  \/ /\ issued.kind = "envelope"
     /\ \E id \in callers, format \in Formats, usage \in Usages :
          \E ctx \in Given(format) :
            \/ \E env \in Honest(issued.envelope) \cup Unnamed(issued.envelope, format) :
                 Open(id, format, env, usage, ctx)
            \/ /\ Owner(id) = issued.owner /\ usage = issued.usage /\ ctx = issued.ctx
               /\ \E env \in Damaged(issued.envelope, format) : Open(id, format, env, usage, ctx)
  \/ /\ issued # NotIssued
     /\ \E f \in {"whole", "altered", "short", "lowOrder", "empty"} :
          LET encap == IF issued.kind = "envelope" THEN issued.envelope.encap ELSE issued.encap
          IN  Decapsulate([encap EXCEPT !.form = f])

Next == Receive \/ Asked \/ Sent \/ Returned

Spec == Init /\ [][Next]_vars

-----------------------------------------------------------------------------
(* Properties *)

\* An allowed certificate, one of whose names is printable and in TLS_CLIENT_ALLOWED_NAMES.
ShowsCertificate(d, q) ==
  /\ q.cert # NoCert
  /\ d.allowed # {} => \E i \in DOMAIN q.cert : q.cert[i] \in d.allowed \ Unprintable

\* Whoever reaches the engine has shown the credentials the configuration asks for on the way
\* it came: a token on every listener, a listed user on the socket, an identity where envelopes
\* are bound to one, and an allowed certificate over TLS, this one where MAX_CONNECTIONS is 0
\* (see CertificateRequired); under mTLS nobody comes in the clear over TCP, and only /health
\* answers the unknown (NewRouter).
Guarded ==
  answer.op = "front" =>
    LET q    == answer.request
        info == answer.info
    IN  /\ info.status = 0 /\ q.path = CryptoPath =>
             /\ deployed.mtls => q.via # "plain"
             /\ deployed.mtls /\ q.via = "tls" /\ ~deployed.limited => ShowsCertificate(deployed, q)
             /\ deployed.tokens # {} => q.secret \in deployed.tokens
             /\ q.via = "unix" /\ deployed.uids # {} => q.uid \in deployed.uids
             /\ deployed.bind => info.identity # NoName
        /\ info.anonymous => q.path = "/health"

\* The comment of RequireClientCertMiddleware: in mTLS, every request that comes over TLS and
\* reaches the engine has shown an allowed certificate.  It does not hold: limitListener hides
\* TLS from the middleware.
CertificateRequired ==
  answer.op = "front" /\ answer.info.status = 0 /\ answer.request.path = CryptoPath =>
    (deployed.mtls /\ answer.request.via = "tls" => ShowsCertificate(deployed, answer.request))

\* What a client is to be limited by: its identity, else the address of its connection, else
\* the address the first trusted proxy saw.
ProperSource(a) ==
  CASE a.id # NoName -> <<"id:">> \o a.id
    [] a.id = NoName /\ a.remote \in Proxies -> <<a.host>>
    [] OTHER -> <<a.remote>>

\* The key under which a client is limited is not its to choose, whatever it writes in
\* X-Forwarded-For, when it has an identity, when it comes without a trusted proxy, and when the
\* proxies hand over a single line; nor is it when it writes none.  Behind proxies that add
\* lines of their own the first line is the client's, and decides (NewClientIPResolver).
SourceCannotBeForged ==
  answer.op = "limit" =>
    \/ answer.source = ProperSource(answer)
    \/ ~answer.joined /\ answer.forged /\ answer.id = NoName /\ answer.remote \in Proxies

\* An envelope opens for the usage, context and, where they are bound, the client it was
\* sealed for, and only if it is whole; and what comes out is what went in.
OpensOnlyWhatWasSealed ==
  answer.op = "open" /\ answer.status = 200 =>
    /\ answer.sent # "damaged" /\ issued.rcpt = "none"
    /\ answer.usage = issued.usage /\ answer.ctx = issued.ctx /\ answer.owner = issued.owner
    /\ answer.plain = issued.payload

\* What the service sealed for itself it opens again for whoever it was sealed for, in either
\* format, with or without its kid; and both sides of an agreement derive the same secret,
\* exactly when the encapsulated key was made for this service and came back whole
\* (HybridEngine.open, decapsulate).
HonestRoundTrip ==
  /\ /\ answer.op = "open" /\ answer.sent = "whole" /\ issued.rcpt = "none"
     /\ answer.usage = issued.usage /\ answer.ctx = issued.ctx /\ answer.owner = issued.owner
     => answer.status = 200 /\ answer.plain = issued.payload
  /\ answer.op = "decapsulate" /\ issued.kind = "agreement" =>
       (answer.secret = issued.secret <=> issued.rcpt = "none" /\ answer.encap = issued.encap)

\* Nobody obtains the key of an envelope by decapsulating the key it carries.
KeysAreSeparated ==
  answer.op = "decapsulate" /\ issued.kind = "envelope" => answer.secret # issued.envelope.data.key
=============================================================================
