-------------------------------- MODULE Access --------------------------------
(***************************************************************************)
(* Who may ask for what: the configurations Validate accepts, the          *)
(* listeners they open, and the verdict of the middlewares between a       *)
(* connection and the handlers.  Operators only; Envelope uses them.       *)
(*                                                                         *)
(* A name is a sequence of characters, empty for no name.  A bearer secret *)
(* stands for the name it is registered under; a certificate, verified     *)
(* during the handshake, is the sequence of its names (CN, DNS, URI).      *)
(***************************************************************************)
EXTENDS Naturals, Sequences, FiniteSetsExt

CONSTANTS Characters,   \* of names and contexts, the prefixes of identities among them
          Certs,        \* certificates of the client authority
          Secrets,      \* bearer secrets clients may present
          Uids,         \* users of the host
          Unprintable,  \* the names that printableIdentity refuses
          AllowedNames, \* values of TLS_CLIENT_ALLOWED_NAMES
          TokenSets,    \* values of AUTH_TOKENS
          UidSets       \* values of SOCKET_ALLOWED_UIDS

NoName == <<>>
NoCert == <<>>

\* What printableIdentity and validTokenName let through.
Names == Seq(Characters \ {"NUL"})

Printable(name) == name # NoName /\ name \notin Unprintable

ASSUME NamesAssumption ==
  /\ {"uid:", "serial:"} \cup Uids \subseteq Characters \ {"NUL"}
  /\ Certs \subseteq Seq(Seq(Characters)) /\ NoCert \notin Certs
  /\ \A cert \in Certs : \A i \in DOMAIN cert : Printable(cert[i]) => cert[i] \in Names
  /\ \A tokens \in TokenSets : tokens \subseteq Secrets \cap Names /\ NoName \notin tokens

-----------------------------------------------------------------------------
(* The configuration *)

\* limited: MAX_CONNECTIONS is above 0, as it is by default.
Configurations ==
  [disableTCP : BOOLEAN, socket : BOOLEAN,
   cert : BOOLEAN, key : BOOLEAN, clientCA : BOOLEAN, allowed : AllowedNames,
   tokens : TokenSets, uids : UidSets, bind : BOOLEAN, limited : BOOLEAN,
   loopback : BOOLEAN, production : BOOLEAN, insecure : BOOLEAN]

TLSEnabled(c)  == c.cert
MTLSEnabled(c) == c.clientCA

TransportSecure(c) ==
  /\ c.cert = c.key
  /\ MTLSEnabled(c) => TLSEnabled(c)
  /\ \/ c.disableTCP \/ TLSEnabled(c) \/ c.loopback \/ ~c.production
     \/ c.insecure

Validate(c) ==
  /\ c.disableTCP => c.socket
  /\ TransportSecure(c)
  /\ c.uids # {} => c.socket
  /\ c.bind => c.tokens # {} \/ MTLSEnabled(c) \/ c.uids # {}

\* What is left of it once the listeners are open, each wrapped by newLimitListener when
\* connections are limited, and the router is built.
Deployed(c) ==
  [tcp     |-> IF c.disableTCP THEN "none" ELSE IF TLSEnabled(c) THEN "tls" ELSE "plain",
   unix    |-> c.socket,
   limited |-> c.limited,
   mtls    |-> MTLSEnabled(c),
   allowed |-> IF MTLSEnabled(c) THEN c.allowed ELSE {},
   tokens  |-> c.tokens,
   uids    |-> c.uids,
   bind    |-> c.bind]

-----------------------------------------------------------------------------
(* The requests *)

CryptoPath == "/encrypt"  \* stands for every route that uses the engine
Paths      == {"/health", "/metrics", CryptoPath}

Requests ==
  [via : {"plain", "tls", "unix"}, cert : Certs \cup {NoCert},
   secret : Secrets \cup {NoName}, uid : Uids, path : Paths]

\* A certificate is only asked for, and verified, when there is a client authority;
\* peerCredListener closes the connections of other users before it reads them.
Connects(d, q) ==
  /\ q.via \in {"plain", "tls"} => d.tcp = q.via
  /\ q.via = "unix" => d.unix /\ (d.uids # {} => q.uid \in d.uids)
  /\ q.cert # NoCert => q.via = "tls" /\ d.mtls

\* What the middlewares establish about a request; status is 0 until one refuses it.
Info(identity, anonymous, status) ==
  [identity |-> identity, anonymous |-> anonymous, status |-> status]

Refuse(code) == Info(NoName, FALSE, code)

PeerIdentity(d, q) ==
  Info(IF q.via = "unix" /\ d.uids # {} THEN <<"uid:", q.uid>> ELSE NoName, FALSE, 0)

\* matchClientName: the first printable name that is allowed; with an empty list the
\* first printable one, or the serial number.
MatchClientName(cert, allowed) ==
  LET fits == {i \in DOMAIN cert : Printable(cert[i]) /\ (allowed = {} \/ cert[i] \in allowed)}
  IN  IF fits # {} THEN cert[Min(fits)] ELSE IF allowed = {} THEN <<"serial:">> ELSE NoName

\* Whether r.TLS is set: net/http sets it for a *tls.Conn only, and the connections of a
\* limitListener are limitConns.
SeesTLS(d, q) == q.via = "tls" /\ ~d.limited

RequireClientCert(d, q, info) ==
  CASE ~d.mtls \/ ~SeesTLS(d, q) -> info
    [] d.mtls /\ SeesTLS(d, q) /\ q.cert = NoCert ->
         IF q.path = "/health" THEN Info(NoName, TRUE, 0) ELSE Refuse(401)
    [] OTHER ->
         LET name == MatchClientName(q.cert, d.allowed)
         IN  IF name = NoName THEN Refuse(403) ELSE Info(name, FALSE, 0)

\* Faulty variant: a client known by its certificate or its uid needs no token.
RequireTokenIfUnknown(d, q, info) ==
  CASE d.tokens = {} \/ info.status # 0 \/ info.identity # NoName -> info
    [] q.secret \in d.tokens -> Info(q.secret, FALSE, 0)
    [] OTHER -> IF q.path = "/health" THEN [info EXCEPT !.anonymous = TRUE] ELSE Refuse(401)

RequireToken(d, q, info) ==
  CASE d.tokens = {} \/ info.status # 0 -> info
    [] d.tokens # {} /\ info.status = 0 /\ q.secret \in d.tokens ->
         Info(IF info.identity = NoName THEN q.secret ELSE info.identity, FALSE, 0)
    [] OTHER -> IF q.path = "/health" THEN [info EXCEPT !.anonymous = TRUE] ELSE Refuse(401)

RequireIdentity(d, q, info) ==
  IF info.status = 0 /\ d.bind /\ q.path \notin {"/health", "/metrics"} /\ info.identity = NoName
  THEN Refuse(401)
  ELSE info

\* The chain of NewRouter: PeerIdentity, ClientCert, Token, RequireIdentity.
Verdict(d, q) ==
  RequireIdentity(d, q, RequireToken(d, q, RequireClientCert(d, q, PeerIdentity(d, q))))

\* The identities under which a request may reach the engine.
Callers(d) ==
  {Verdict(d, q).identity : q \in {r \in Requests :
      /\ r.path = CryptoPath /\ Connects(d, r)
      /\ Verdict(d, r).status = 0}}

-----------------------------------------------------------------------------
(* The source of a request, for the rate and concurrency limits *)

\* Faulty variant: the first address of the header is the client's.
ForwardedFirst(forwarded, proxies) ==
  IF forwarded # <<>> THEN <<forwarded[1]>> ELSE <<>>

\* The addresses of a header, from the right, up to the first that is no proxy; a malformed
\* entry ("") stops the search.
Forwarded(forwarded, proxies) ==
  LET candidates == {i \in DOMAIN forwarded : forwarded[i] \notin proxies}
  IN  IF candidates = {} THEN <<>>
      ELSE LET last == CHOOSE i \in candidates : \A j \in candidates : j <= i
           IN  IF forwarded[last] = "" THEN <<>> ELSE <<forwarded[last]>>

\* Header.Get: of several lines of the same header, the first.
FirstLine(lines) == IF lines = <<>> THEN <<>> ELSE lines[1]

\* NewClientIPResolver: "" is the address of a Unix socket, lines are those of
\* X-Forwarded-For, each a sequence of addresses.
Source(identity, remote, lines, proxies) ==
  CASE identity # NoName -> <<"id:">> \o identity
    [] identity = NoName /\ (remote = "" \/ remote \notin proxies) -> <<remote>>
    [] OTHER -> LET found == Forwarded(FirstLine(lines), proxies)
                IN  IF found = <<>> THEN <<remote>> ELSE found
=============================================================================
