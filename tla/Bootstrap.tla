----------------------------- MODULE Bootstrap -----------------------------
(***************************************************************************)
(* Instances of the gateway that start on the same vault: each one loads   *)
(* the keypair, or generates it, writes it, reads it back and compares     *)
(* (buildEngineWithStore and bootstrapKeys), one vault request per step.   *)
(*                                                                         *)
(* A read answered by the vault is one step: what the client does with the *)
(* answer touches no other process.  A write whose answer is lost may be   *)
(* applied later, so it waits in "wire".  Anything that goes wrong outside *)
(* the program (a failed request, a crash, a deletion) uses up one of      *)
(* MaxFaults.                                                              *)
(***************************************************************************)
EXTENDS Vault, Naturals

CONSTANTS Instances,  \* processes that run pq-server
          Algo,       \* Algo[p]: the suite ALGORITHM selects for p
          NoPair,     \* no keypair in memory
          Imported,   \* keypairs made elsewhere: no instance generates them
          MaxFaults   \* bound on the faults of a behaviour

ASSUME AlgoAssumption      == Algo \in [Instances -> Algorithms]
ASSUME NoPairAssumption    == NoPair \notin Pairs
ASSUME MaxFaultsAssumption == MaxFaults \in Nat

VARIABLES vault,   \* the vault, a VaultRecord
          wire,    \* bundles of writes given up by their client, not yet applied
          ever,    \* history: every bundle the vault has held
          pc,      \* pc[p]: what p is doing
          req,     \* req[p]: the request FetchKeys is at, while p is fetching
          key,     \* key[p]: the keypair p has generated or loaded
          err,     \* err[p]: why p stopped
          faults   \* faults used up

bootVars == <<pc, req, key, err>>
vars == <<vault, wire, ever, pc, req, key, err, faults>>

Phases == {"off", "load", "store", "protect", "reread", "selftest", "serving", "stopped"}
Errors == {"none", "deleted", "legacy", "corrupt", "notFound",
           "io", "writeConflict", "bootstrapConflict", "selftest"}

TypeOK ==
  /\ vault \in VaultRecord
  /\ wire \in SUBSET Bundle
  /\ ever \in SUBSET Bundle
  /\ pc \in [Instances -> Phases]
  /\ req \in [Instances -> Requests]
  /\ key \in [Instances -> Pairs \cup {NoPair}]
  /\ err \in [Instances -> Errors]
  /\ faults \in 0..MaxFaults

Held(v) == IF v.bundle = NoBundle THEN {} ELSE {v.bundle}

Init ==
  /\ InitialVault(vault)
  /\ wire = {}
  /\ ever = Held(vault)
  /\ pc = [p \in Instances |-> "off"]
  /\ req = [p \in Instances |-> "data"]
  /\ key = [p \in Instances |-> NoPair]
  /\ err = [p \in Instances |-> "none"]
  /\ faults = 0

-----------------------------------------------------------------------------
(* Helpers *)

Fault ==
  /\ faults < MaxFaults
  /\ faults' = faults + 1

Fetching(p) == pc[p] \in {"load", "reread"}

Goto(p, phase) == pc' = [pc EXCEPT ![p] = phase]

Stop(p, why) ==
  /\ Goto(p, "stopped")
  /\ err' = [err EXCEPT ![p] = why]
  /\ key' = [key EXCEPT ![p] = NoPair]

InUse ==
  Imported \cup {key[p] : p \in Instances} \cup {b.pair : b \in ever \cup wire}

\* GenerateKeyPair returns a keypair that nobody holds; which one is immaterial.
FreshPair == CHOOSE k \in Pairs : k \notin InUse

VaultUnchanged == UNCHANGED <<vault, wire, ever>>

\* The effect on the vault of a write request that reaches it.
Apply(bundle) ==
  /\ vault' = Write(vault, bundle)
  /\ ever' = ever \cup Held(vault')

-----------------------------------------------------------------------------
(* FetchKeys *)

Start(p) ==
  /\ pc[p] \in {"off", "stopped"}
  /\ Goto(p, "load")
  /\ req' = [req EXCEPT ![p] = "data"]
  /\ err' = [err EXCEPT ![p] = "none"]
  /\ UNCHANGED <<key, faults>>
  /\ VaultUnchanged

\* The answer leaves FetchKeys undecided: it sends another request.
FetchContinues(p) ==
  /\ Fetching(p)
  /\ \E o \in FetchOutcomes(vault, Algo[p], req[p]) \cap Requests :
       req' = [req EXCEPT ![p] = o]
  /\ UNCHANGED <<pc, key, err, faults>>
  /\ VaultUnchanged

\* Faulty variant: the engine is given the bundle undecoded.
LoadBundle(p) ==
  /\ pc[p] = "load"
  /\ "keys" \in FetchOutcomes(vault, Algo[p], req[p])
  /\ Goto(p, "selftest")
  /\ key' = [key EXCEPT ![p] = vault.bundle]
  /\ UNCHANGED <<req, err, faults>>
  /\ VaultUnchanged

LoadKeys(p) ==
  /\ pc[p] = "load"
  /\ "keys" \in FetchOutcomes(vault, Algo[p], req[p])
  /\ Goto(p, "selftest")
  /\ key' = [key EXCEPT ![p] = vault.bundle.pair]
  /\ UNCHANGED <<req, err, faults>>
  /\ VaultUnchanged

\* No keypair: bootstrapKeys generates one and is about to write it.
Generate(p) ==
  /\ pc[p] = "load"
  /\ "notFound" \in FetchOutcomes(vault, Algo[p], req[p])
  /\ Pairs \ InUse # {}
  /\ key' = [key EXCEPT ![p] = FreshPair]
  /\ Goto(p, "store")
  /\ UNCHANGED <<req, err, faults>>
  /\ VaultUnchanged

\* Any other answer is fatal, and so is a missing keypair when reading back.
FetchBlocked(p) ==
  /\ Fetching(p)
  /\ \E o \in FetchOutcomes(vault, Algo[p], req[p]) \ (Requests \cup {"keys"}) :
       /\ o = "notFound" => pc[p] = "reread"
       /\ Stop(p, o)
  /\ UNCHANGED <<req, faults>>
  /\ VaultUnchanged

\* A failed request, the 10 s timeout of the client or the 15 s of the start.
FetchFails(p) ==
  /\ Fetching(p)
  /\ Fault
  /\ Stop(p, "io")
  /\ UNCHANGED req
  /\ VaultUnchanged

-----------------------------------------------------------------------------
(* bootstrapKeys *)

AfterStore(v) == IF v.kind = "openbao" THEN "protect" ELSE "reread"

StoreAccepted(p) ==
  /\ pc[p] = "store"
  /\ Accepts(vault)
  /\ Apply(EncodeBundle(Algo[p], key[p]))
  /\ Goto(p, AfterStore(vault))
  /\ req' = [req EXCEPT ![p] = "data"]
  /\ UNCHANGED <<wire, key, err, faults>>

\* Faulty variant: the refusal is taken for a success.
StoreRefusalIgnored(p) ==
  /\ pc[p] = "store"
  /\ ~Accepts(vault)
  /\ Goto(p, "selftest")
  /\ UNCHANGED <<req, key, err, faults>>
  /\ VaultUnchanged

StoreRefused(p) ==
  /\ pc[p] = "store"
  /\ ~Accepts(vault)
  /\ Stop(p, "writeConflict")
  /\ UNCHANGED <<req, faults>>
  /\ VaultUnchanged

\* The client gives up: the write is lost, or still on its way to the vault.
StoreFails(p) ==
  /\ pc[p] = "store"
  /\ Fault
  /\ \/ UNCHANGED wire
     \/ wire' = wire \cup {EncodeBundle(Algo[p], key[p])}
  /\ Stop(p, "io")
  /\ UNCHANGED <<vault, ever, req>>

LateWrite ==
  \E bundle \in wire :
    /\ Apply(bundle)
    /\ wire' = wire \ {bundle}
    /\ UNCHANGED <<bootVars, faults>>

\* protect sets cas_required and delete_version_after; its outcome is only logged.
Protect(p) ==
  /\ pc[p] = "protect"
  /\ Goto(p, "reread")
  /\ UNCHANGED <<req, key, err, faults>>
  /\ VaultUnchanged

SameAsGenerated(p) == vault.bundle.pair = key[p]

\* The pair read back must be the pair generated; it is the one that serves.
Reread(p) ==
  /\ pc[p] = "reread"
  /\ "keys" \in FetchOutcomes(vault, Algo[p], req[p])
  /\ IF SameAsGenerated(p)
       THEN /\ Goto(p, "selftest")
            /\ UNCHANGED <<key, err>>
       ELSE Stop(p, "bootstrapConflict")
  /\ UNCHANGED <<req, faults>>
  /\ VaultUnchanged

-----------------------------------------------------------------------------
(* From the keys to the service, and failures *)

SelfTest(p) ==
  /\ pc[p] = "selftest"
  /\ Goto(p, "serving")
  /\ UNCHANGED <<req, key, err, faults>>
  /\ VaultUnchanged

SelfTestFails(p) ==
  /\ pc[p] = "selftest"
  /\ Fault
  /\ Stop(p, "selftest")
  /\ UNCHANGED req
  /\ VaultUnchanged

\* The process dies anywhere; a write it had sent may still reach the vault.
Crash(p) ==
  /\ pc[p] \notin {"off", "stopped"}
  /\ Fault
  /\ \/ UNCHANGED wire
     \/ /\ pc[p] = "store"
        /\ wire' = wire \cup {EncodeBundle(Algo[p], key[p])}
  /\ Goto(p, "off")
  /\ key' = [key EXCEPT ![p] = NoPair]
  /\ UNCHANGED <<vault, ever, req, err>>

\* The operator of an OpenBao vault deletes, restores or destroys the keypair.
Operate ==
  /\ Fault
  /\ vault' \in Operated(vault)
  /\ UNCHANGED <<wire, ever, bootVars>>

-----------------------------------------------------------------------------
Step(p) ==
  \/ Start(p)
  \/ FetchContinues(p)
  \/ LoadKeys(p)
  \/ Generate(p)
  \/ FetchBlocked(p)
  \/ StoreAccepted(p)
  \/ StoreRefused(p)
  \/ Protect(p)
  \/ Reread(p)
  \/ SelfTest(p)

Failure(p) ==
  \/ FetchFails(p)
  \/ StoreFails(p)
  \/ SelfTestFails(p)
  \/ Crash(p)

Next ==
  \/ \E p \in Instances : Step(p) \/ Failure(p)
  \/ LateWrite
  \/ Operate

\* Requests end (10 s), and the container is restarted until it is stopped.
Fairness == \A p \in Instances : WF_vars(Step(p))

Spec == Init /\ [][Next]_vars /\ Fairness

-----------------------------------------------------------------------------
(* Properties *)

Serving(p) == pc[p] = "serving"

\* A serving instance serves the keypair the vault holds, so all the instances
\* on a vault serve the same one (buildEngineWithStore: never a key the vault
\* does not hold).
ServedIsStored ==
  \A p \in Instances :
    Serving(p) => vault.bundle = EncodeBundle(Algo[p], key[p])

\* A vault is given one keypair in its life: no start, race, retry, late write
\* or deletion makes the gateway write another (StoreKeys never overwrites, and
\* only a vault that never held a keypair triggers a generation).
OneBundleEver == \A b, c \in ever : b = c

\* The vault lets p start: nothing deleted or corrupted, the same suite, and
\* no secret of the historical layout when there is no bundle.
Bootable(p) ==
  CASE vault.state = "live"  -> KeysValid(vault.bundle, Algo[p])
    [] vault.state = "never" -> vault.legacy = {}
    [] OTHER                 -> FALSE

\* Once requests stop failing, an instance whose vault is healthy ends up
\* serving, whoever won the race to write the keypair and whatever the earlier
\* starts left behind.
Converges == \A p \in Instances : []Bootable(p) => <>[]Serving(p)

\* A start never hangs: it ends by serving, by stopping or by dying.
StartEnds ==
  \A p \in Instances : pc[p] = "load" ~> pc[p] \in {"serving", "stopped", "off"}

\* A blocked start writes nothing: only a vault without keypair and without
\* historical layout is ever written to.
WrittenOnlyIfMissing ==
  [][vault'.bundle # vault.bundle => vault.state = "never" /\ vault.legacy = {}]_vars

-----------------------------------------------------------------------------
(* Bootstrap implements WriteOnceKey. *)

PairOf(bundle) == IF bundle = NoBundle THEN NoPair ELSE bundle.pair

WOK == INSTANCE WriteOnceKey WITH
         chosen <- PairOf(vault.bundle),
         serves <- [p \in Instances |-> IF Serving(p) THEN key[p] ELSE NoPair]

ImplementsWriteOnceKey == WOK!Spec
=============================================================================
