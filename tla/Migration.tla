----------------------------- MODULE Migration -----------------------------
(***************************************************************************)
(* pq-server -migrate-keys: runs of keystore.Migrate copy the keypair of a *)
(* source vault to a target vault, one vault request per step, while       *)
(* instances of the gateway already start on the target.  The module adds  *)
(* the source vault and the migrations to Bootstrap, whose vault is the    *)
(* target.                                                                 *)
(***************************************************************************)
EXTENDS Bootstrap

CONSTANTS Migrators,  \* processes that run pq-server -migrate-keys
          MAlgo       \* MAlgo[m]: the suite ALGORITHM selects for m

ASSUME MAlgoAssumption == MAlgo \in [Migrators -> Algorithms]

VARIABLES src,    \* the source vault, a VaultRecord
          mpc,    \* mpc[m]: what m is doing, or how its last run ended
          mreq,   \* mreq[m]: the request FetchKeys is at, while m is reading
          mpair   \* mpair[m]: the keypair m has read in the source

migVars == <<mpc, mreq, mpair>>
allVars == <<vars, src, migVars>>

Success == {"copied", "present"}
Ended   == Success \cup {"conflict", "failed"}
Running == {"source", "target", "store", "reread"}

MTypeOK ==
  /\ src \in VaultRecord
  /\ mpc \in [Migrators -> {"idle"} \cup Running \cup Ended]
  /\ mreq \in [Migrators -> Requests]
  /\ mpair \in [Migrators -> Pairs \cup {NoPair}]

MInit ==
  /\ Init
  /\ InitialVault(src)
  /\ mpc = [m \in Migrators |-> "idle"]
  /\ mreq = [m \in Migrators |-> "data"]
  /\ mpair = [m \in Migrators |-> NoPair]

-----------------------------------------------------------------------------
(* Helpers *)

Reading(m) == mpc[m] \in {"source", "target", "reread"}

\* The answers of the vault m is reading to the request it is at.
MOutcomes(m) ==
  FetchOutcomes(IF mpc[m] = "source" THEN src ELSE vault, MAlgo[m], mreq[m])

Proceed(m, phase) ==
  /\ mpc' = [mpc EXCEPT ![m] = phase]
  /\ mreq' = [mreq EXCEPT ![m] = "data"]

End(m, outcome) ==
  /\ Proceed(m, outcome)
  /\ mpair' = [mpair EXCEPT ![m] = NoPair]

\* samePair, against the keypair read in the source.
SamePair(m) == vault.bundle.pair = mpair[m]

-----------------------------------------------------------------------------
(* One run of Migrate *)

MStart(m) ==
  /\ mpc[m] \in Ended \cup {"idle"}
  /\ Proceed(m, "source")
  /\ UNCHANGED <<vars, src, mpair>>

MReadContinues(m) ==
  /\ Reading(m)
  /\ \E o \in MOutcomes(m) \cap Requests : mreq' = [mreq EXCEPT ![m] = o]
  /\ UNCHANGED <<vars, src, mpc, mpair>>

MSourceRead(m) ==
  /\ mpc[m] = "source"
  /\ "keys" \in MOutcomes(m)
  /\ Proceed(m, "target")
  /\ mpair' = [mpair EXCEPT ![m] = src.bundle.pair]
  /\ UNCHANGED <<vars, src>>

\* Faulty variant: whatever the target holds is taken for the same keypair.
MTargetUnchecked(m) ==
  /\ mpc[m] = "target"
  /\ "keys" \in MOutcomes(m)
  /\ End(m, "present")
  /\ UNCHANGED <<vars, src>>

\* Faulty variant: a target that is not empty is refused.
MTargetMustBeEmpty(m) ==
  /\ mpc[m] = "target"
  /\ "keys" \in MOutcomes(m)
  /\ End(m, "failed")
  /\ UNCHANGED <<vars, src>>

MTargetRead(m) ==
  /\ mpc[m] = "target"
  /\ "keys" \in MOutcomes(m)
  /\ End(m, IF SamePair(m) THEN "present" ELSE "conflict")
  /\ UNCHANGED <<vars, src>>

MTargetEmpty(m) ==
  /\ mpc[m] = "target"
  /\ "notFound" \in MOutcomes(m)
  /\ Proceed(m, "store")
  /\ UNCHANGED <<vars, src, mpair>>

\* Faulty variant: the write does not depend on what the target holds.
MStoreOverwrites(m) ==
  /\ mpc[m] = "store"
  /\ vault' = Written(vault, EncodeBundle(MAlgo[m], mpair[m]))
  /\ ever' = ever \cup Held(vault')
  /\ Proceed(m, "reread")
  /\ UNCHANGED <<wire, bootVars, faults, src, mpair>>

\* StoreKeys; the metadata it hardens next on OpenBao decide nothing here.
MStored(m) ==
  /\ mpc[m] = "store"
  /\ Accepts(vault)
  /\ Apply(EncodeBundle(MAlgo[m], mpair[m]))
  /\ Proceed(m, "reread")
  /\ UNCHANGED <<wire, bootVars, faults, src, mpair>>

\* Faulty variant: a refused write is reported as a conflict.
MRefusedIsConflict(m) ==
  /\ mpc[m] = "store"
  /\ ~Accepts(vault)
  /\ End(m, "conflict")
  /\ UNCHANGED <<vars, src>>

MRefused(m) ==
  /\ mpc[m] = "store"
  /\ ~Accepts(vault)
  /\ End(m, "failed")
  /\ UNCHANGED <<vars, src>>

MReread(m) ==
  /\ mpc[m] = "reread"
  /\ "keys" \in MOutcomes(m)
  /\ End(m, IF SamePair(m) THEN "copied" ELSE "conflict")
  /\ UNCHANGED <<vars, src>>

\* Any other answer ends the run; only the target may have no keypair yet.
MBlocked(m) ==
  /\ Reading(m)
  /\ \E o \in MOutcomes(m) \ (Requests \cup {"keys"}) :
       o = "notFound" => mpc[m] # "target"
  /\ End(m, "failed")
  /\ UNCHANGED <<vars, src>>

\* A failed request, a timeout or a crash; a write may still reach the target.
MFails(m) ==
  /\ mpc[m] \in Running
  /\ Fault
  /\ \/ UNCHANGED wire
     \/ /\ mpc[m] = "store"
        /\ wire' = wire \cup {EncodeBundle(MAlgo[m], mpair[m])}
  /\ End(m, "failed")
  /\ UNCHANGED <<vault, ever, bootVars, src>>

\* The operator of the source deletes, restores or destroys its keypair.
OperateSource ==
  /\ Fault
  /\ src' \in Operated(src)
  /\ UNCHANGED <<vault, wire, ever, bootVars, migVars>>

-----------------------------------------------------------------------------
MStep(m) ==
  \/ MStart(m)
  \/ MReadContinues(m)
  \/ MSourceRead(m)
  \/ MTargetRead(m)
  \/ MTargetEmpty(m)
  \/ MStored(m)
  \/ MRefused(m)
  \/ MReread(m)
  \/ MBlocked(m)

BootNext == Next /\ UNCHANGED <<src, migVars>>

MNext ==
  \/ BootNext
  \/ \E m \in Migrators : MStep(m) \/ MFails(m)
  \/ OperateSource

\* Requests end, and a migration that has ended is run again.
MFairness == \A m \in Migrators : WF_allVars(MStep(m))

MigrationSpec == MInit /\ [][MNext]_allVars /\ MFairness

-----------------------------------------------------------------------------
(* Properties *)

\* When a migration has reported success, both vaults hold the same keypair
\* and every instance that serves on the target uses it: what was encrypted
\* under the source's keypair stays readable (Migrate: no data made unreadable).
MigrationKeepsData ==
  \A m \in Migrators : mpc[m] \in Success =>
    /\ PairOf(vault.bundle) = PairOf(src.bundle)
    /\ \A p \in Instances : Serving(p) => key[p] = PairOf(src.bundle)

\* A conflict is reported only when the vaults hold different keypairs, never
\* because another migration of the same keypair won the race.
ConflictIsReal ==
  \A m \in Migrators : mpc[m] = "conflict" =>
    NoPair # PairOf(vault.bundle) /\ PairOf(vault.bundle) # PairOf(src.bundle)

\* No run, however it is interrupted or repeated, changes the source or a
\* keypair the target already holds, and it only ever writes the source's.
MigrationOverwritesNothing ==
  [][/\ src'.bundle = src.bundle
     /\ vault.bundle # NoBundle => vault'.bundle = vault.bundle
     /\ mpc' # mpc /\ vault'.bundle # vault.bundle =>
          PairOf(vault'.bundle) = PairOf(src.bundle)]_allVars

\* The source can be read, and the target holds its keypair or may be given it.
Migratable(m) ==
  /\ src.state = "live" /\ KeysValid(src.bundle, MAlgo[m])
  /\ \/ vault.state = "never" /\ vault.legacy = {}
     \/ /\ vault.state = "live" /\ KeysValid(vault.bundle, MAlgo[m])
        /\ vault.bundle.pair = src.bundle.pair

\* A migration can be replayed until it succeeds, whatever its earlier runs or
\* the other migrations left behind.
ReplaySucceeds ==
  \A m \in Migrators : []Migratable(m) => []<>(mpc[m] \in Success)
=============================================================================
