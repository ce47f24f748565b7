----------------------------- MODULE VaultSession -----------------------------
(***************************************************************************)
(* One run of the process seen from its credentials: LoadConfig takes the  *)
(* secrets of the vaults out of the environment, the clients take them     *)
(* over, authenticate, talk to their vaults, and are closed before the     *)
(* service serves, or before the migration ends.  What the exchanges say   *)
(* is the matter of Bootstrap and Migration.                               *)
(***************************************************************************)
EXTENDS Naturals, Sequences

CONSTANT MaxCalls  \* bound: exchanges of a run

ASSUME CallsAssumption == MaxCalls \in Nat

VARIABLES pc,       \* load, refused, open, talk, close, serving or over
          setup,    \* the configuration
          env,      \* vaults with a secret in the environment
          held,     \* vaults with a secret in Config.keystoreSecrets
          client,   \* the client of each vault
          live,     \* tokens that the vaults honour
          given,    \* history: the tokens each client was given
          kept,     \* history: clients whose revocation failed
          trusted,  \* history: what was trusted to contact a vault
          failed,   \* a step of the start has failed
          calls     \* exchanges made

vars == <<pc, setup, env, held, client, live, given, kept, trusted, failed, calls>>

\* KEYSTORE and KEYSTORE_MIGRATE_FROM, each with its method of authentication.
Vaults == {"target", "source"}
Kinds  == {"none", "token", "approle", "infisical"}

Named == {v \in Vaults : setup.kind[v] # "none"}

Backend(kind) == IF kind = "infisical" THEN "infisical" ELSE "openbao"

\* The vaults a run opens, in the order it does.
Opened == IF setup.mode = "migrate" THEN <<"source", "target">>
          ELSE IF setup.kind["target"] = "none" THEN <<>> ELSE <<"target">>

\* What Config.Validate and runKeyMigration admit.
Valid(s) ==
  /\ s.kind["target"] # "none" /\ s.kind["source"] # "none" =>
       Backend(s.kind["target"]) # Backend(s.kind["source"])
  /\ s.mode = "migrate" => \A v \in Vaults : s.kind[v] # "none"

Setups ==
  {s \in [mode : {"serve", "migrate"}, kind : [Vaults -> Kinds],
          ca : [Vaults -> {"none", "good", "bad"}], sound : [Vaults -> BOOLEAN]] :
     /\ Valid(s)
     /\ \A v \in Vaults : s.kind[v] = "none" => s.ca[v] = "none" /\ s.sound[v]}

NoToken  == <<>>
NoClient == [state |-> "none", creds |-> FALSE, token |-> NoToken, loaded |-> FALSE]

\* The token of OPENBAO_TOKEN, and those a vault issues.
Configured(v) == <<v, 0>>
Issued        == Vaults \X (1..MaxCalls)

Init ==
  /\ pc = "load"
  /\ setup \in Setups /\ env \in SUBSET Vaults
  /\ held = {} /\ client = [v \in Vaults |-> NoClient]
  /\ live = {Configured(v) : v \in {w \in Vaults : setup.kind[w] = "token"}}
  /\ given = [v \in Vaults |-> {}] /\ kept = {} /\ trusted = {}
  /\ failed = FALSE /\ calls = 0

\* takeEnvSecret: a vault's secret comes from its file, or else from its variable.
Found(files) == Named \cap (env \cup files)

\* takeKeystoreSecrets: those of the named vaults are taken, every variable is removed.
Load ==
  /\ pc = "load"
  /\ \E files \in SUBSET Vaults : held' = Found(files)
  /\ env' = {}
  /\ pc' = "open"
  /\ UNCHANGED <<setup, client, live, given, kept, trusted, failed, calls>>

\* A value, a vault or a secret file is refused: the process stops where it is.
LoadFails ==
  /\ pc = "load"
  /\ held' \in SUBSET Named /\ env' \in SUBSET env
  /\ pc' = "refused" /\ failed' = TRUE
  /\ UNCHANGED <<setup, client, live, given, kept, trusted, calls>>

-----------------------------------------------------------------------------
(* Opening and closing *)

\* Settings.Secret hands the secret over; the caller's copy is wiped in all cases.
Taken(v) == held \ {v}

\* openKeystore: Validate asks OpenBao for its secret, Infisical asks for it at login.
Open ==
  /\ pc = "open"
  /\ \E i \in DOMAIN Opened :
       LET v == Opened[i]
       IN  /\ client[v].state = "none"
           /\ \A j \in 1..i - 1 : client[Opened[j]].state = "open"
           /\ held' = Taken(v)
           /\ IF setup.sound[v] /\ (setup.kind[v] = "infisical" \/ v \in held)
              THEN /\ client' = [client EXCEPT ![v].state = "open", ![v].creds = v \in held]
                   /\ pc' = (IF i = Len(Opened) THEN "talk" ELSE "open") /\ failed' = failed
              ELSE pc' = "close" /\ failed' = TRUE /\ client' = client
  /\ UNCHANGED <<setup, env, live, given, kept, trusted, calls>>

\* No vault is named: the pair is ephemeral.
OpenNone ==
  /\ pc = "open" /\ Opened = <<>>
  /\ pc' = "close"
  /\ UNCHANGED <<setup, env, held, client, live, given, kept, trusted, failed, calls>>

Stopped(v) == [NoClient EXCEPT !.state = "closed"]

\* Faulty variant: the token is erased without being revoked.
CloseSilently(v) ==
  /\ pc = "close" /\ client[v].state = "open"
  /\ client' = [client EXCEPT ![v] = Stopped(v)]
  /\ UNCHANGED <<pc, setup, env, held, live, given, kept, trusted, failed, calls>>

\* Close: a token obtained by AppRole is revoked, if the vault can be reached; a configured
\* one is not; the credentials are erased.
Close(v) ==
  /\ pc = "close" /\ client[v].state = "open"
  /\ client' = [client EXCEPT ![v] = Stopped(v)]
  /\ IF setup.kind[v] = "approle" /\ client[v].token # NoToken
     THEN \/ live' = live \ {client[v].token} /\ kept' = kept
          \/ live' \in {live, live \ {client[v].token}} /\ kept' = kept \cup {v}
     ELSE UNCHANGED <<live, kept>>
  /\ UNCHANGED <<pc, setup, env, held, given, trusted, failed, calls>>

\* WipeSecrets, on every path; then the service serves, or the process ends.
Wipe ==
  /\ pc = "close" /\ \A v \in Vaults : client[v].state # "open"
  /\ held' = {}
  /\ pc' = (IF failed \/ setup.mode = "migrate" THEN "over" ELSE "serving")
  /\ UNCHANGED <<setup, env, client, live, given, kept, trusted, failed, calls>>

-----------------------------------------------------------------------------
(* Exchanges *)

\* The authority of CA_FILE is loaded once: OpenBao remembers that it failed, Infisical
\* reports it to the first caller only.
CARefuses(v) ==
  setup.ca[v] = "bad" /\ (setup.kind[v] = "infisical" => ~client[v].loaded)

Trust(v) == IF setup.ca[v] = "good" THEN "configured" ELSE "system"

\* Faulty variant: the start tries again after an error.
AbandonNot(v) == failed' = failed /\ pc' = pc

\* Whatever fails, BuildEngine and Migrate return, and the clients are closed.
Abandon(v) == failed' = TRUE /\ pc' = "close"

CanTalk(v) == pc = "talk" /\ client[v].state = "open" /\ calls < MaxCalls

\* authenticate fails before anything is sent.
Unable(v) ==
  /\ CanTalk(v)
  /\ CARefuses(v) \/ (client[v].token = NoToken /\ ~client[v].creds)
  /\ client' = [client EXCEPT ![v].loaded = TRUE]
  /\ Abandon(v)
  /\ calls' = calls + 1
  /\ UNCHANGED <<setup, env, held, live, given, kept, trusted>>

Able(v) == CanTalk(v) /\ ~CARefuses(v) /\ (client[v].token # NoToken \/ client[v].creds)

\* Faulty variant: every exchange logs in again.
MustLogInAlways(v) == setup.kind[v] \in {"approle", "infisical"}

\* A token is asked for once, and used until it is about to expire.
MustLogIn(v) == setup.kind[v] \in {"approle", "infisical"} /\ client[v].token = NoToken

\* The login: granted, granted with the answer lost, or refused.
LogIn(v) ==
  /\ Able(v) /\ MustLogIn(v)
  /\ trusted' = trusted \cup {<<v, Trust(v)>>}
  /\ LET t == <<v, calls + 1>>
     IN  \/ /\ live' = live \cup {t} /\ given' = [given EXCEPT ![v] = @ \cup {t}]
            /\ client' = [client EXCEPT ![v].loaded = TRUE, ![v].token = t]
            /\ UNCHANGED <<failed, pc>>
         \/ /\ live' \in {live, live \cup {t}} /\ given' = given
            /\ client' = [client EXCEPT ![v].loaded = TRUE]
            /\ Abandon(v)
  /\ calls' = calls + 1
  /\ UNCHANGED <<setup, env, held, kept>>

\* An exchange with a token: answered, or not.
Call(v) ==
  /\ Able(v) /\ ~MustLogIn(v)
  /\ trusted' = trusted \cup {<<v, Trust(v)>>}
  /\ client' = [client EXCEPT ![v].loaded = TRUE]
  /\ Abandon(v) \/ UNCHANGED <<failed, pc>>
  /\ calls' = calls + 1
  /\ UNCHANGED <<setup, env, held, live, given, kept>>

\* The engine is built, or the pair copied.
Ready ==
  /\ pc = "talk"
  /\ pc' = "close"
  /\ UNCHANGED <<setup, env, held, client, live, given, kept, trusted, failed, calls>>

\* Infisical's client forgets a token a minute before the vault does.
Forget(v) ==
  /\ pc = "talk" /\ setup.kind[v] = "infisical" /\ client[v].token # NoToken
  /\ client' = [client EXCEPT ![v].token = NoToken]
  /\ UNCHANGED <<pc, setup, env, held, live, given, kept, trusted, failed, calls>>

\* A vault lets a token expire.
Expire ==
  /\ \E t \in live \cap Issued : live' = live \ {t}
  /\ UNCHANGED <<pc, setup, env, held, client, given, kept, trusted, failed, calls>>

Next ==
  \/ Load \/ LoadFails \/ Open \/ OpenNone \/ Ready \/ Wipe \/ Expire
  \/ \E v \in Vaults : Unable(v) \/ LogIn(v) \/ Call(v) \/ Forget(v) \/ Close(v)

Spec == Init /\ [][Next]_vars

-----------------------------------------------------------------------------
(* Properties *)

\* Once the service serves, or the process ends after it has opened its vaults, however it
\* fails, no credential is left in the environment, in Config or in a client, and every token
\* a client was given by AppRole has been revoked, unless the vault could not be told; the
\* configured token is still good.  A start refused before (main.go:41-43) wipes nothing, and
\* the token of a login to Infisical is erased but stays good until it expires.
NothingKept ==
  /\ pc \in {"serving", "over"} =>
       /\ env = {} /\ held = {}
       /\ \A v \in Vaults : ~client[v].creds /\ client[v].token = NoToken
       /\ \A v \in Vaults \ kept : setup.kind[v] = "approle" => given[v] \cap live = {}
  /\ \A v \in Vaults : setup.kind[v] = "token" => Configured(v) \in live

\* A vault whose authority is configured is never contacted on the trust of the system, also
\* when that authority cannot be loaded (caOnce of both clients).
VaultIsTrusted ==
  \A v \in Vaults : <<v, "system">> \in trusted => setup.ca[v] = "none"
===============================================================================
