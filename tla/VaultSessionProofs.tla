------------------------- MODULE VaultSessionProofs -------------------------
(***************************************************************************)
(* What VaultSession claims of the credentials of one run of the process,  *)
(* for any number of exchanges.                                            *)
(***************************************************************************)
EXTENDS VaultSession, TLAPS

Tokens == Vaults \X Nat

Client == [state : {"none", "open", "closed"}, creds : BOOLEAN,
           token : Tokens \cup {NoToken}, loaded : BOOLEAN]

SessionTyped ==
  /\ pc \in {"load", "refused", "open", "talk", "close", "serving", "over"}
  /\ setup \in Setups
  /\ env \subseteq Vaults /\ held \subseteq Vaults
  /\ client \in [Vaults -> Client]
  /\ live \subseteq Tokens
  /\ given \in [Vaults -> SUBSET Tokens]
  /\ kept \subseteq Vaults
  /\ failed \in BOOLEAN
  /\ calls \in Nat

\* A vault issues each token once, after the configured one, and a client uses a
\* token it was given.
IssueInv ==
  /\ \A v \in Vaults : \A t \in given[v] : t[2] \in 1..calls
  /\ \A v \in Vaults : client[v].token \in given[v] \cup {NoToken}
  /\ \A v \in Vaults : setup.kind[v] = "token" => Configured(v) \in live

\* A token of AppRole that is still good is the one its client holds.
AppRoleInv ==
  \A v \in Vaults \ kept : setup.kind[v] = "approle" =>
    \A t \in given[v] \cap live : t = client[v].token

\* Only an open client has credentials, and none is open after WipeSecrets.
HoldInv ==
  /\ pc \notin {"load", "refused"} => env = {}
  /\ pc \in {"serving", "over"} => held = {}
  /\ pc \in {"serving", "over"} => \A v \in Vaults : client[v].state # "open"
  /\ \A v \in Vaults : client[v].state # "open" =>
       ~client[v].creds /\ client[v].token = NoToken

\* A client that has met an authority it cannot load is not used again.
TrustInv ==
  /\ \A v \in Vaults : client[v].loaded => pc \notin {"load", "refused", "open"}
  /\ \A v \in Vaults : client[v].loaded /\ setup.ca[v] = "bad" => pc # "talk"
  /\ \A v \in Vaults : <<v, "system">> \in trusted => setup.ca[v] = "none"

SInv == SessionTyped /\ IssueInv /\ AppRoleInv /\ HoldInv /\ TrustInv

-----------------------------------------------------------------------------
(* Helpers *)

LEMMA Facts ==
  ASSUME SInv
  PROVE  /\ SessionTyped /\ IssueInv /\ AppRoleInv /\ HoldInv /\ TrustInv
         /\ pc \in {"load", "refused", "open", "talk", "close", "serving", "over"}
         /\ setup \in Setups /\ client \in [Vaults -> Client] /\ calls \in Nat
         /\ env \subseteq Vaults /\ held \subseteq Vaults /\ kept \subseteq Vaults
         /\ live \subseteq Tokens /\ given \in [Vaults -> SUBSET Tokens]
         /\ failed \in BOOLEAN
BY DEF SInv, SessionTyped

LEMMA SetupFacts ==
  ASSUME NEW s \in Setups, NEW v \in Vaults
  PROVE  s.kind[v] \in Kinds /\ s.ca[v] \in {"none", "good", "bad"} /\ Named \subseteq Vaults
BY DEF Setups, Named

\* Tokens are pairs: none is the absence of a token.
LEMMA TokenFacts ==
  /\ NoToken \notin Tokens
  /\ \A v \in Vaults : Configured(v) \in Tokens /\ Configured(v)[2] = 0
  /\ \A v \in Vaults : \A n \in Nat : <<v, n>> \in Tokens /\ <<v, n>>[2] = n
BY DEF Tokens, NoToken, Configured

\* The records the actions make of a client.
LEMMA ClientFacts ==
  ASSUME NEW c \in Client
  PROVE  /\ c.state \in {"none", "open", "closed"} /\ c.creds \in BOOLEAN
         /\ c.token \in Tokens \cup {NoToken} /\ c.loaded \in BOOLEAN
         /\ NoClient \in Client
         /\ NoClient.state = "none" /\ ~NoClient.creds /\ NoClient.token = NoToken
         /\ ~NoClient.loaded
BY DEF Client, NoClient

LEMMA ClosedFacts ==
  ASSUME NEW v
  PROVE  /\ Stopped(v) \in Client /\ Stopped(v).state = "closed" /\ ~Stopped(v).creds
         /\ Stopped(v).token = NoToken /\ ~Stopped(v).loaded
BY DEF Client, NoClient, Stopped

LEMMA LoadedFacts ==
  ASSUME NEW c \in Client, NEW d, d = [c EXCEPT !.loaded = TRUE]
  PROVE  d \in Client /\ d.state = c.state /\ d.creds = c.creds /\ d.token = c.token /\ d.loaded
BY DEF Client

LoggedIn(c, t) == [c EXCEPT !.loaded = TRUE, !.token = t]

LEMMA LoggedInFacts ==
  ASSUME NEW c \in Client, NEW t \in Tokens \cup {NoToken}
  PROVE  /\ LoggedIn(c, t) \in Client
         /\ LoggedIn(c, t).state = c.state /\ LoggedIn(c, t).creds = c.creds
         /\ LoggedIn(c, t).token = t /\ LoggedIn(c, t).loaded
BY DEF Client, LoggedIn

LEMMA ForgottenFacts ==
  ASSUME NEW c \in Client, NEW d, d = [c EXCEPT !.token = NoToken]
  PROVE  d \in Client /\ d.state = c.state /\ d.creds = c.creds /\ d.token = NoToken
         /\ d.loaded = c.loaded
BY DEF Client

Opening(c, b) == [c EXCEPT !.state = "open", !.creds = b]

LEMMA OpenedFacts ==
  ASSUME NEW c \in Client, NEW b \in BOOLEAN
  PROVE  /\ Opening(c, b) \in Client /\ Opening(c, b).state = "open"
         /\ Opening(c, b).token = c.token /\ Opening(c, b).loaded = c.loaded
BY DEF Client, Opening

LEMMA OneClientChanged ==
  ASSUME NEW v \in Vaults, NEW c \in Client, client \in [Vaults -> Client],
         client' = [client EXCEPT ![v] = c]
  PROVE  /\ client' \in [Vaults -> Client] /\ client'[v] = c
         /\ \A w \in Vaults : w # v => client'[w] = client[w]
OBVIOUS

-----------------------------------------------------------------------------
(* The actions *)

LEMMA InitSInv == Init => SInv
<1> SUFFICES ASSUME Init PROVE SInv
  OBVIOUS
<1>1. \A v \in Vaults : client[v] = NoClient /\ given[v] = {}
  BY DEF Init
<1>2. NoClient \in Client /\ NoClient.state = "none" /\ ~NoClient.creds
      /\ NoClient.token = NoToken /\ ~NoClient.loaded
  BY DEF NoClient, Client
<1>3. \A v \in Vaults : Configured(v) \in Tokens
  BY TokenFacts
<1>4. SessionTyped
  BY <1>1, <1>2, <1>3 DEF Init, SessionTyped
<1>5. IssueInv
  BY <1>1, <1>2 DEF Init, IssueInv
<1>6. AppRoleInv /\ HoldInv /\ TrustInv
  BY <1>1, <1>2 DEF Init, AppRoleInv, HoldInv, TrustInv
<1>7. QED
  BY <1>4, <1>5, <1>6 DEF SInv

\* The steps that touch neither a client nor a token.
LEMMA QuietPreserves ==
  ASSUME SInv, Load \/ LoadFails \/ OpenNone \/ Ready \/ Wipe
  PROVE  SInv'
<1>1. UNCHANGED <<setup, client, live, given, kept, trusted, calls>>
  BY DEF Load, LoadFails, OpenNone, Ready, Wipe
<1>2. /\ pc' \in {"refused", "open", "talk", "close", "serving", "over"}
      /\ env' \subseteq Vaults /\ held' \subseteq Vaults /\ failed' \in BOOLEAN
      /\ pc' # "refused" => env' = {}
      /\ pc' \in {"serving", "over"} => held' = {} /\ \A v \in Vaults : client[v].state # "open"
      /\ pc' \in {"refused", "open"} => pc = "load"
      /\ pc' = "talk" => pc = "talk"
  BY Facts, SetupFacts DEF Load, LoadFails, OpenNone, Ready, Wipe, Found, HoldInv, Named
<1>3. SessionTyped'
  BY <1>1, <1>2, Facts DEF SessionTyped
<1>4. IssueInv'
  BY <1>1, Facts DEF IssueInv
<1>5. AppRoleInv'
  BY <1>1, Facts DEF AppRoleInv
<1>6. HoldInv'
  BY <1>1, <1>2, Facts DEF HoldInv
<1>7. TrustInv'
  BY <1>1, <1>2, Facts DEF TrustInv
<1>8. QED
  BY <1>3, <1>4, <1>5, <1>6, <1>7 DEF SInv

\* Only a token that was issued expires.
LEMMA ExpirePreserves ==
  ASSUME SInv, Expire
  PROVE  SInv'
<1>1. UNCHANGED <<pc, setup, env, held, client, given, kept, trusted, failed, calls>>
  BY DEF Expire
<1>2. PICK t \in live \cap Issued : live' = live \ {t}
  BY DEF Expire
<1>3. t[2] # 0
  BY <1>2, CallsAssumption DEF Issued
<1>4. \A v \in Vaults : Configured(v) # t
  BY <1>3, TokenFacts
<1>5. SessionTyped'
  BY <1>1, <1>2, Facts DEF SessionTyped
<1>6. IssueInv'
  BY <1>1, <1>2, <1>4, Facts DEF IssueInv, Configured
<1>7. AppRoleInv'
  BY <1>1, <1>2, Facts DEF AppRoleInv
<1>8. HoldInv' /\ TrustInv'
  BY <1>1, Facts DEF HoldInv, TrustInv
<1>9. QED
  BY <1>5, <1>6, <1>7, <1>8 DEF SInv

LEMMA OpenedAreVaults == \A i \in DOMAIN Opened : Opened[i] \in Vaults
<1>1. CASE Opened = <<"source", "target">>
  BY <1>1 DEF Vaults
<1>2. CASE Opened = <<>>
  BY <1>2
<1>3. CASE Opened = <<"target">>
  BY <1>3 DEF Vaults
<1>4. Opened \in {<<"source", "target">>, <<>>, <<"target">>}
  BY DEF Opened
<1>5. QED
  BY <1>1, <1>2, <1>3, <1>4

LEMMA OpenPreserves ==
  ASSUME SInv, Open
  PROVE  SInv'
<1>1. /\ pc = "open" /\ pc' \in {"open", "talk", "close"} /\ failed' \in BOOLEAN
      /\ UNCHANGED <<setup, env, live, given, kept, trusted, calls>>
      /\ held' \subseteq Vaults
  BY Facts DEF Open, Taken
<1>2. PICK v \in Vaults :
        /\ client[v].state = "none"
        /\ \/ client' = [client EXCEPT ![v].state = "open", ![v].creds = v \in held]
           \/ client' = client
  BY OpenedAreVaults DEF Open
<1>3. /\ client' \in [Vaults -> Client]
      /\ \A w \in Vaults : /\ client'[w].token = client[w].token
                           /\ client'[w].loaded = client[w].loaded
                           /\ client'[w].state # "open" =>
                                /\ client[w].state # "open"
                                /\ client'[w].creds = client[w].creds
  <2>1. CASE client' = client
    BY <2>1, Facts
  <2>2. CASE client' = [client EXCEPT ![v].state = "open", ![v].creds = v \in held]
    <3>1. PICK c \in Client : c = client[v]
      BY Facts
    <3>2. (v \in held) \in BOOLEAN
      OBVIOUS
    <3>3. PICK d : d = Opening(c, v \in held)
      OBVIOUS
    <3>4. /\ d \in Client /\ d.state = "open" /\ d.token = c.token /\ d.loaded = c.loaded
      BY <3>2, <3>3, OpenedFacts
    <3>5. client' = [client EXCEPT ![v] = d]
      BY <2>2, <3>1, <3>3, Facts DEF Opening
    <3>6. /\ client' \in [Vaults -> Client] /\ client'[v] = d
          /\ \A w \in Vaults : w # v => client'[w] = client[w]
      BY <3>4, <3>5, Facts, OneClientChanged
    <3>7. QED
      BY <3>1, <3>4, <3>6
  <2>3. QED
    BY <1>2, <2>1, <2>2
<1>4. SessionTyped'
  BY <1>1, <1>3, Facts DEF SessionTyped
<1>5. IssueInv'
  BY <1>1, <1>3, Facts DEF IssueInv
<1>6. AppRoleInv'
  BY <1>1, <1>3, Facts DEF AppRoleInv
<1>7. HoldInv'
  BY <1>1, <1>3, Facts DEF HoldInv
<1>8. TrustInv'
  BY <1>1, <1>3, Facts DEF TrustInv
<1>9. QED
  BY <1>4, <1>5, <1>6, <1>7, <1>8 DEF SInv

\* A client closes: what it held is revoked, or the failure is remembered.
LEMMA ClosePreserves ==
  ASSUME SInv, NEW v \in Vaults, Close(v)
  PROVE  SInv'
<1>1. /\ pc = "close" /\ UNCHANGED <<pc, setup, env, held, given, trusted, failed, calls>>
      /\ client' = [client EXCEPT ![v] = Stopped(v)]
  BY DEF Close
<1>2. PICK c \in Client : /\ c = Stopped(v) /\ c.state = "closed" /\ ~c.creds
                          /\ c.token = NoToken /\ ~c.loaded
  BY ClosedFacts
<1>3. /\ client' \in [Vaults -> Client] /\ client'[v] = c
      /\ \A w \in Vaults : w # v => client'[w] = client[w]
  BY <1>1, <1>2, Facts, OneClientChanged
<1>4. /\ live' \subseteq live /\ kept' \subseteq Vaults /\ kept \subseteq kept'
      /\ setup.kind[v] # "approle" \/ client[v].token = NoToken => live' = live
      /\ \A t \in live : t # client[v].token => t \in live'
      /\ setup.kind[v] = "approle" /\ v \notin kept' => client[v].token \notin live'
  <2>1. CASE setup.kind[v] = "approle" /\ client[v].token # NoToken
    BY <2>1, Facts DEF Close
  <2>2. CASE ~(setup.kind[v] = "approle" /\ client[v].token # NoToken)
    <3>1. live' = live /\ kept' = kept
      BY <2>2 DEF Close
    <3>2. client[v].token = NoToken => client[v].token \notin live
      BY Facts, TokenFacts
    <3>3. QED
      BY <2>2, <3>1, <3>2, Facts
  <2>3. QED
    BY <2>1, <2>2
<1>5. SessionTyped'
  BY <1>1, <1>3, <1>4, Facts DEF SessionTyped
<1>6. IssueInv'
  <2>1. \A w \in Vaults : client'[w].token \in given[w] \cup {NoToken}
    BY <1>2, <1>3, Facts DEF IssueInv
  <2>2. \A w \in Vaults : setup.kind[w] = "token" => Configured(w) \in live'
    <3> SUFFICES ASSUME NEW w \in Vaults, setup.kind[w] = "token"
                 PROVE  Configured(w) \in live'
      OBVIOUS
    <3>1. Configured(w) \in live /\ Configured(w) \in Tokens /\ Configured(w)[2] = 0
      BY Facts, TokenFacts DEF IssueInv
    <3>2. CASE client[v].token = NoToken
      BY <1>4, <3>1, <3>2
    <3>3. CASE client[v].token # NoToken
      <4>1. client[v].token \in given[v] /\ client[v].token[2] \in 1..calls
        BY <3>3, Facts DEF IssueInv
      <4>2. client[v].token # Configured(w)
        BY <3>1, <4>1, Facts
      <4>3. QED
        BY <1>4, <3>1, <4>2
    <3>4. QED
      BY <3>2, <3>3
  <2>3. QED
    BY <1>1, <2>1, <2>2, Facts DEF IssueInv, Configured
<1>7. AppRoleInv'
  <2> SUFFICES ASSUME NEW w \in Vaults \ kept', setup.kind[w] = "approle",
                      NEW t \in given[w] \cap live'
               PROVE  t = client'[w].token
    BY <1>1 DEF AppRoleInv
  <2>1. t = client[w].token
    BY <1>4, Facts DEF AppRoleInv
  <2>2. w # v
    BY <1>4, <2>1
  <2>3. QED
    BY <1>3, <2>1, <2>2
<1>8. HoldInv'
  BY <1>1, <1>2, <1>3, Facts DEF HoldInv
<1>9. TrustInv'
  BY <1>1, <1>2, <1>3, Facts DEF TrustInv
<1>10. QED
  BY <1>5, <1>6, <1>7, <1>8, <1>9 DEF SInv

LEMMA ForgetPreserves ==
  ASSUME SInv, NEW v \in Vaults, Forget(v)
  PROVE  SInv'
<1>1. /\ UNCHANGED <<pc, setup, env, held, live, given, kept, trusted, failed, calls>>
      /\ pc = "talk" /\ setup.kind[v] = "infisical"
      /\ client' = [client EXCEPT ![v].token = NoToken]
  BY DEF Forget
<1>2. PICK c \in Client : c = client[v]
  BY Facts
<1>3. PICK d : d = [c EXCEPT !.token = NoToken]
  OBVIOUS
<1>4. /\ d \in Client /\ d.state = c.state /\ d.creds = c.creds /\ d.token = NoToken
      /\ d.loaded = c.loaded
  BY <1>3, ForgottenFacts
<1>5. client' = [client EXCEPT ![v] = d]
  BY <1>1, <1>2, <1>3, Facts
<1>6. /\ client' \in [Vaults -> Client] /\ client'[v] = d
      /\ \A w \in Vaults : w # v => client'[w] = client[w]
  BY <1>4, <1>5, Facts, OneClientChanged
<1>7. SessionTyped'
  BY <1>1, <1>6, Facts DEF SessionTyped
<1>8. IssueInv'
  BY <1>1, <1>4, <1>6, Facts DEF IssueInv, Configured
<1>9. AppRoleInv'
  BY <1>1, <1>6, Facts DEF AppRoleInv
<1>10. HoldInv'
  BY <1>1, <1>2, <1>4, <1>6, Facts DEF HoldInv
<1>11. TrustInv'
  BY <1>1, <1>2, <1>4, <1>6, Facts DEF TrustInv
<1>12. QED
  BY <1>7, <1>8, <1>9, <1>10, <1>11 DEF SInv

\* The steps that reach a vault with the token the client has, or none: its authority has
\* been loaded, or the start is abandoned.
LEMMA UsedPreserves ==
  ASSUME SInv, NEW v \in Vaults, Unable(v) \/ Call(v)
  PROVE  SInv'
<1>1. /\ pc = "talk" /\ pc' \in {"talk", "close"} /\ failed' \in BOOLEAN
      /\ client[v].state = "open" /\ calls' = calls + 1
      /\ client' = [client EXCEPT ![v].loaded = TRUE]
      /\ UNCHANGED <<setup, env, held, live, given, kept>>
  BY Facts DEF Unable, Call, Able, CanTalk, Abandon
<1>2. PICK c \in Client : c = client[v]
  BY Facts
<1>3. PICK d : d = [c EXCEPT !.loaded = TRUE]
  OBVIOUS
<1>4. d \in Client /\ d.state = c.state /\ d.creds = c.creds /\ d.token = c.token /\ d.loaded
  BY <1>3, LoadedFacts
<1>5. client' = [client EXCEPT ![v] = d]
  BY <1>1, <1>2, <1>3, Facts
<1>6. /\ client' \in [Vaults -> Client] /\ client'[v] = d
      /\ \A w \in Vaults : w # v => client'[w] = client[w]
  BY <1>4, <1>5, Facts, OneClientChanged
<1>7. /\ \A w \in Vaults : <<w, "system">> \in trusted' => setup.ca[w] = "none"
      /\ setup.ca[v] = "bad" => pc' # "talk"
  <2>1. CASE Unable(v)
    BY <2>1, Facts DEF Unable, Abandon, TrustInv
  <2>2. CASE Call(v)
    <3>1. setup.ca[v] # "bad"
      BY <1>1, <2>2, Facts DEF Call, Able, CARefuses, TrustInv
    <3>2. setup.ca[v] = "good" \/ setup.ca[v] = "none"
      BY <3>1, Facts, SetupFacts
    <3>3. trusted' = trusted \cup {<<v, Trust(v)>>}
      BY <2>2 DEF Call
    <3>4. Trust(v) = "system" => setup.ca[v] = "none"
      BY <3>2 DEF Trust
    <3>5. QED
      BY <3>1, <3>3, <3>4, Facts DEF TrustInv
  <2>3. QED
    BY <2>1, <2>2
<1>8. SessionTyped'
  BY <1>1, <1>6, Facts DEF SessionTyped
<1>9. IssueInv'
  <2>1. \A n \in 1..calls : n \in 1..calls'
    BY <1>1, Facts
  <2>2. QED
    BY <1>1, <1>2, <1>4, <1>6, <2>1, Facts DEF IssueInv, Configured
<1>10. AppRoleInv'
  BY <1>1, <1>2, <1>4, <1>6, Facts DEF AppRoleInv
<1>11. HoldInv'
  BY <1>1, <1>2, <1>4, <1>6, Facts DEF HoldInv
<1>12. TrustInv'
  <2>1. \A w \in Vaults : client'[w].loaded => pc' \notin {"load", "refused", "open"}
    BY <1>1
  <2>2. ASSUME NEW w \in Vaults, client'[w].loaded, setup.ca[w] = "bad"
        PROVE  pc' # "talk"
    BY <1>1, <1>6, <1>7, <2>2, Facts DEF TrustInv
  <2>3. QED
    BY <1>1, <1>7, <2>1, <2>2 DEF TrustInv
<1>13. QED
  BY <1>8, <1>9, <1>10, <1>11, <1>12 DEF SInv

\* A new token is another than all that were given; a client of AppRole asks for one only.
LEMMA LogInPreserves ==
  ASSUME SInv, NEW v \in Vaults, LogIn(v)
  PROVE  SInv'
<1>1. PICK t : t = <<v, calls + 1>> /\ t \in Tokens /\ t[2] = calls + 1
  <2>1. calls + 1 \in Nat
    BY Facts
  <2>2. <<v, calls + 1>> \in Tokens /\ <<v, calls + 1>>[2] = calls + 1
    BY <2>1, TokenFacts
  <2>3. QED
    BY <2>2
<1>2. /\ pc = "talk" /\ pc' \in {"talk", "close"} /\ failed' \in BOOLEAN
      /\ client[v].state = "open" /\ client[v].token = NoToken /\ calls' = calls + 1
      /\ setup.kind[v] \in {"approle", "infisical"}
      /\ trusted' = trusted \cup {<<v, Trust(v)>>}
      /\ UNCHANGED <<setup, env, held, kept>>
  BY Facts DEF LogIn, Able, CanTalk, MustLogIn, Abandon
<1>3. PICK k \in Tokens \cup {NoToken} :
        /\ client' = [client EXCEPT ![v].loaded = TRUE, ![v].token = k]
        /\ live \subseteq live' /\ live' \subseteq live \cup {t}
        /\ \/ k = t /\ given' = [given EXCEPT ![v] = @ \cup {t}]
           \/ k = NoToken /\ given' = given
  <2>1. \/ /\ live' = live \cup {t} /\ given' = [given EXCEPT ![v] = @ \cup {t}]
           /\ client' = [client EXCEPT ![v].loaded = TRUE, ![v].token = t]
        \/ /\ live' \in {live, live \cup {t}} /\ given' = given
           /\ client' = [client EXCEPT ![v].loaded = TRUE]
    BY <1>1 DEF LogIn
  <2>2. CASE /\ live' = live \cup {t} /\ given' = [given EXCEPT ![v] = @ \cup {t}]
             /\ client' = [client EXCEPT ![v].loaded = TRUE, ![v].token = t]
    <3>1. t \in Tokens \cup {NoToken}
      BY <1>1
    <3>2. live \subseteq live' /\ live' \subseteq live \cup {t}
      BY <2>2
    <3>3. QED
      BY <2>2, <3>1, <3>2
  <2>3. CASE /\ live' \in {live, live \cup {t}} /\ given' = given
             /\ client' = [client EXCEPT ![v].loaded = TRUE]
    <3>1. client' = [client EXCEPT ![v].loaded = TRUE, ![v].token = NoToken]
      <4>1. PICK c \in Client : c = client[v] /\ c.token = NoToken
        BY <1>2, Facts
      <4>2. [c EXCEPT !.loaded = TRUE] = [c EXCEPT !.loaded = TRUE, !.token = NoToken]
        BY <4>1 DEF Client
      <4>3. client' = [client EXCEPT ![v] = [c EXCEPT !.loaded = TRUE]]
        BY <2>3, <4>1, Facts
      <4>4. client' = [client EXCEPT ![v] = [c EXCEPT !.loaded = TRUE, !.token = NoToken]]
        BY <4>2, <4>3
      <4>5. QED
        BY <4>1, <4>4, Facts
    <3>2. live \subseteq live' /\ live' \subseteq live \cup {t}
      BY <2>3
    <3>3. NoToken \in Tokens \cup {NoToken}
      OBVIOUS
    <3>4. QED
      BY <2>3, <3>1, <3>2, <3>3
  <2>4. QED
    BY <2>1, <2>2, <2>3
<1>4. PICK c \in Client : c = client[v]
  BY Facts
<1>5. PICK d : d = LoggedIn(c, k)
  OBVIOUS
<1>6. d \in Client /\ d.state = c.state /\ d.creds = c.creds /\ d.token = k /\ d.loaded
  BY <1>5, LoggedInFacts
<1>7. client' = [client EXCEPT ![v] = d]
  BY <1>3, <1>4, <1>5, Facts DEF LoggedIn
<1>8. /\ client' \in [Vaults -> Client] /\ client'[v] = d
      /\ \A w \in Vaults : w # v => client'[w] = client[w]
  BY <1>6, <1>7, Facts, OneClientChanged
<1>9. /\ given' \in [Vaults -> SUBSET Tokens] /\ given'[v] \subseteq given[v] \cup {t}
      /\ given[v] \subseteq given'[v] /\ (k = t => t \in given'[v])
      /\ k # t => given'[v] = given[v]
      /\ \A w \in Vaults : w # v => given'[w] = given[w]
  <2>1. CASE k = t /\ given' = [given EXCEPT ![v] = @ \cup {t}]
    BY <1>1, <2>1, Facts
  <2>2. CASE k = NoToken /\ given' = given
    BY <1>1, <2>2, Facts, TokenFacts
  <2>3. QED
    BY <1>3, <2>1, <2>2
<1>10. \A w \in Vaults : t \notin given[w]
  BY <1>1, Facts DEF IssueInv
<1>11. /\ \A w \in Vaults : <<w, "system">> \in trusted' => setup.ca[w] = "none"
       /\ setup.ca[v] # "bad"
  <2>1. setup.ca[v] # "bad"
    BY <1>2, Facts DEF LogIn, Able, CARefuses, TrustInv
  <2>2. setup.ca[v] = "good" \/ setup.ca[v] = "none"
    BY <2>1, Facts, SetupFacts
  <2>3. Trust(v) = "system" => setup.ca[v] = "none"
    BY <2>2 DEF Trust
  <2>4. QED
    BY <1>2, <2>1, <2>3, Facts DEF TrustInv
<1>12. SessionTyped'
  BY <1>1, <1>2, <1>3, <1>8, <1>9, Facts DEF SessionTyped
<1>13. IssueInv'
  <2>1. /\ \A n \in 1..calls : n \in 1..calls'
        /\ t[2] \in 1..calls'
    BY <1>1, <1>2, Facts
  <2>2. \A w \in Vaults : \A u \in given'[w] : u[2] \in 1..calls'
    BY <1>9, <2>1, Facts DEF IssueInv
  <2>3. \A w \in Vaults : client'[w].token \in given'[w] \cup {NoToken}
    BY <1>3, <1>6, <1>8, <1>9, Facts DEF IssueInv
  <2>4. \A w \in Vaults : setup.kind[w] = "token" => Configured(w) \in live'
    BY <1>3, Facts DEF IssueInv
  <2>5. QED
    BY <1>2, <2>2, <2>3, <2>4 DEF IssueInv, Configured
<1>14. AppRoleInv'
  <2> SUFFICES ASSUME NEW w \in Vaults \ kept, setup.kind[w] = "approle",
                      NEW u \in given'[w] \cap live'
               PROVE  u = client'[w].token
    BY <1>2 DEF AppRoleInv
  <2>1. CASE w # v
    <3>1. u \in given[w] /\ u # t /\ client'[w] = client[w]
      BY <1>8, <1>9, <1>10, <2>1
    <3>2. u \in live
      BY <1>3, <3>1
    <3>3. QED
      BY <3>1, <3>2, Facts DEF AppRoleInv
  <2>2. CASE w = v
    <3>1. u = t
      <4> SUFFICES ASSUME u # t PROVE FALSE
        OBVIOUS
      <4>1. u \in given[v] /\ u \in live /\ u \in Tokens
        BY <1>3, <1>9, <2>2, Facts
      <4>2. u = NoToken
        BY <1>2, <2>2, <4>1, Facts DEF AppRoleInv
      <4>3. QED
        BY <4>1, <4>2, TokenFacts
    <3>2. k = t
      BY <1>9, <1>10, <2>2, <3>1
    <3>3. QED
      BY <1>6, <1>8, <2>2, <3>1, <3>2
  <2>3. QED
    BY <2>1, <2>2
<1>15. HoldInv'
  BY <1>2, <1>4, <1>6, <1>8, Facts DEF HoldInv
<1>16. TrustInv'
  <2>1. \A w \in Vaults : client'[w].loaded => pc' \notin {"load", "refused", "open"}
    BY <1>2
  <2>2. ASSUME NEW w \in Vaults, client'[w].loaded, setup.ca[w] = "bad"
        PROVE  pc' # "talk"
    BY <1>2, <1>8, <1>11, <2>2, Facts DEF TrustInv
  <2>3. QED
    BY <1>2, <1>11, <2>1, <2>2 DEF TrustInv
<1>17. QED
  BY <1>12, <1>13, <1>14, <1>15, <1>16 DEF SInv

-----------------------------------------------------------------------------
(* The theorems *)

LEMMA Invariant == Spec => []SInv
<1>1. SInv /\ [Next]_vars => SInv'
  <2> SUFFICES ASSUME SInv, [Next]_vars PROVE SInv'
    OBVIOUS
  <2>1. CASE UNCHANGED vars
    BY <2>1 DEF vars, SInv, SessionTyped, IssueInv, AppRoleInv, HoldInv, TrustInv, Configured
  <2>2. CASE Load \/ LoadFails \/ OpenNone \/ Ready \/ Wipe
    BY <2>2, QuietPreserves
  <2>3. CASE Open
    BY <2>3, OpenPreserves
  <2>4. CASE Expire
    BY <2>4, ExpirePreserves
  <2>5. ASSUME NEW v \in Vaults, Unable(v) \/ Call(v) PROVE SInv'
    BY <2>5, UsedPreserves
  <2>6. ASSUME NEW v \in Vaults, LogIn(v) PROVE SInv'
    BY <2>6, LogInPreserves
  <2>7. ASSUME NEW v \in Vaults, Forget(v) PROVE SInv'
    BY <2>7, ForgetPreserves
  <2>8. ASSUME NEW v \in Vaults, Close(v) PROVE SInv'
    BY <2>8, ClosePreserves
  <2>9. QED
    BY <2>1, <2>2, <2>3, <2>4, <2>5, <2>6, <2>7, <2>8 DEF Next
<1>2. QED
  BY <1>1, InitSInv, PTL DEF Spec

\* On every path to service or to the end of the process, the environment, Config and the
\* clients (takeEnvSecret, WipeSecrets, Close) keep no credential, and a token of AppRole is
\* revoked unless the vault could not be told.
THEOREM NoCredentialKept == Spec => []NothingKept
<1>1. SInv => NothingKept
  <2> SUFFICES ASSUME SInv PROVE NothingKept
    OBVIOUS
  <2>1. pc \in {"serving", "over"} =>
          /\ env = {} /\ held = {}
          /\ \A v \in Vaults : ~client[v].creds /\ client[v].token = NoToken
    BY Facts DEF HoldInv
  <2>2. ASSUME pc \in {"serving", "over"}, NEW v \in Vaults \ kept, setup.kind[v] = "approle"
        PROVE  given[v] \cap live = {}
    <3> SUFFICES ASSUME NEW t \in given[v] \cap live PROVE FALSE
      OBVIOUS
    <3>1. t = NoToken
      BY <2>1, <2>2, Facts DEF AppRoleInv
    <3>2. t \in Tokens
      BY Facts
    <3>3. QED
      BY <3>1, <3>2, TokenFacts
  <2>3. \A v \in Vaults : setup.kind[v] = "token" => Configured(v) \in live
    BY Facts DEF IssueInv
  <2>4. QED
    BY <2>1, <2>2, <2>3 DEF NothingKept
<1>2. QED
  BY <1>1, Invariant, PTL

\* No client falls back on the system's authorities when the one of its CA_FILE cannot be
\* loaded, at the first exchange or at a later one (caOnce).
THEOREM VaultAlwaysTrusted == Spec => []VaultIsTrusted
<1>1. SInv => VaultIsTrusted
  BY Facts DEF TrustInv, VaultIsTrusted
<1>2. QED
  BY <1>1, Invariant, PTL
=============================================================================
