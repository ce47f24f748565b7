-------------------------- MODULE MigrationProofs --------------------------
(***************************************************************************)
(* The safety of Migration for any number of migrations and of instances,  *)
(* any suites, any keypairs and any number of faults.  The target and the  *)
(* instances satisfy the invariant of BootstrapProofs at every step of a   *)
(* migration as well.                                                      *)
(***************************************************************************)
EXTENDS Migration, BootstrapProofs

\* The source keeps its keypair, whatever its operator does.
SourceInv == src.state = "never" <=> src.bundle = NoBundle

\* From the moment a migration has read the source, its keypair is the source's;
\* it may write only if both halves of the historical layout are missing; from
\* the accepted write on, the target holds the bundle of the source.
MigratorInv(m) ==
  /\ mpc[m] \in {"target", "store", "reread"}
       => mpair[m] \in Pairs /\ src.bundle = EncodeBundle(MAlgo[m], mpair[m])
  /\ mpc[m] = "store" => vault.legacy = {}
  /\ mpc[m] \in {"reread"} \cup Success
       => src.bundle # NoBundle /\ vault.bundle = src.bundle
  /\ mpc[m] = "conflict"
       => /\ src.bundle # NoBundle /\ vault.bundle # NoBundle
          /\ src.bundle.pair # vault.bundle.pair
  /\ mpc[m] = "target" /\ mreq[m] = "meta" => vault.kind = "openbao"
  /\ mpc[m] = "target" /\ mreq[m] = "priv" => "pub" \notin vault.legacy

\* The inductive invariant.
MIInv == IInv /\ MTypeOK /\ SourceInv /\ \A m \in Migrators : MigratorInv(m)

-----------------------------------------------------------------------------
(* The invariant is inductive. *)

LEMMA MInitMIInv == MInit => MIInv
<1> SUFFICES ASSUME MInit PROVE MIInv
  OBVIOUS
<1>1. IInv /\ SourceInv
  BY InitIInv DEF MInit, InitialVault, SourceInv
<1>2. MTypeOK
  BY DEF MInit, InitialVault, MTypeOK, Requests
<1>3. \A m \in Migrators : MigratorInv(m)
  BY DEF MInit, MigratorInv, Success
<1>4. QED
  BY <1>1, <1>2, <1>3 DEF MIInv

\* What a migration is and knows before one of its steps.
LEMMA MBefore ==
  ASSUME MIInv, NEW m \in Migrators
  PROVE  /\ IInv /\ SourceInv /\ MigratorInv(m)
         /\ vault \in VaultRecord /\ src \in VaultRecord
         /\ VaultInv /\ wire \in SUBSET Bundle
         /\ faults \in 0..MaxFaults
         /\ mpc \in [Migrators -> {"idle"} \cup Running \cup Ended]
         /\ mreq \in [Migrators -> Requests]
         /\ mpair \in [Migrators -> Pairs \cup {NoPair}]
         /\ MAlgo[m] \in Algorithms
BY MAlgoAssumption DEF MIInv, MTypeOK, IInv, TypeOK

\* A step that leaves both vaults alone and moves one migration preserves the
\* invariant if that migration satisfies its part of it.
LEMMA MLocalStep ==
  ASSUME MIInv, NEW m \in Migrators, IInv', UNCHANGED <<vault, src>>,
         NEW phase \in {"idle"} \cup Running \cup Ended,
         NEW r \in Requests, NEW k \in Pairs \cup {NoPair},
         mpc' = [mpc EXCEPT ![m] = phase],
         mreq' = [mreq EXCEPT ![m] = r],
         mpair' = [mpair EXCEPT ![m] = k],
         MigratorInv(m)'
  PROVE  MIInv'
<1>1. MTypeOK'
  BY DEF MIInv, MTypeOK
<1>2. SourceInv'
  BY DEF MIInv, SourceInv
<1>3. ASSUME NEW n \in Migrators, n # m PROVE MigratorInv(n)'
  <2>1. mpc'[n] = mpc[n] /\ mreq'[n] = mreq[n] /\ mpair'[n] = mpair[n]
    BY <1>3 DEF MIInv, MTypeOK
  <2>2. QED
    BY <2>1 DEF MIInv, MigratorInv
<1>4. QED
  BY <1>1, <1>2, <1>3 DEF MIInv

\* A step that touches nothing of Bootstrap.
LEMMA VarsUnchanged == IInv /\ UNCHANGED vars => IInv'
BY NextIInv

\* What SamePair compares: the bundle read is the source's if its keypair is.
LEMMA SameBundle ==
  ASSUME MIInv, NEW m \in Migrators, mpc[m] \in {"target", "reread"},
         "keys" \in MOutcomes(m)
  PROVE  /\ src.bundle # NoBundle /\ vault.bundle # NoBundle
         /\ SamePair(m) <=> vault.bundle = src.bundle
         /\ src.bundle.pair = mpair[m]
<1>1. vault.state = "live" /\ KeysValid(vault.bundle, MAlgo[m])
  BY MBefore, Outcomes DEF MOutcomes
<1>2. vault.bundle \in Bundle /\ vault.bundle # NoBundle
  BY <1>1, MBefore DEF VaultInv, VaultRecord
<1>3. vault.bundle = EncodeBundle(MAlgo[m], vault.bundle.pair)
  BY <1>1, <1>2, MBefore, Encoding
<1>4. mpair[m] \in Pairs /\ src.bundle = EncodeBundle(MAlgo[m], mpair[m])
  BY MBefore DEF MigratorInv
<1>5. src.bundle.pair = mpair[m] /\ src.bundle # NoBundle
  BY <1>4, MBefore, Encoding DEF EncodeBundle
<1>6. QED
  BY <1>2, <1>3, <1>4, <1>5 DEF SamePair

LEMMA MStartPreserves ==
  ASSUME MIInv, NEW m \in Migrators, MStart(m)
  PROVE  MIInv'
<1>1. /\ IInv' /\ UNCHANGED <<vault, src>>
      /\ mpc' = [mpc EXCEPT ![m] = "source"]
      /\ mreq' = [mreq EXCEPT ![m] = "data"]
      /\ mpair' = [mpair EXCEPT ![m] = mpair[m]]
  BY MBefore, VarsUnchanged DEF MStart, Proceed, vars
<1>2. MigratorInv(m)'
  BY <1>1, MBefore DEF MigratorInv, Success
<1>3. "source" \in Running /\ "data" \in Requests /\ mpair[m] \in Pairs \cup {NoPair}
  BY MBefore DEF Running, Requests
<1>4. QED
  BY <1>1, <1>2, <1>3, MLocalStep

LEMMA MReadContinuesPreserves ==
  ASSUME MIInv, NEW m \in Migrators, MReadContinues(m)
  PROVE  MIInv'
<1>1. PICK o \in MOutcomes(m) \cap Requests : mreq' = [mreq EXCEPT ![m] = o]
  BY DEF MReadContinues
<1>2. /\ IInv' /\ UNCHANGED <<vault, src>> /\ Reading(m)
      /\ mpc' = [mpc EXCEPT ![m] = mpc[m]]
      /\ mpair' = [mpair EXCEPT ![m] = mpair[m]]
  BY MBefore, VarsUnchanged DEF MReadContinues, vars
<1>3. mpc[m] = "target" => /\ o = "meta" => vault.kind = "openbao"
                           /\ o = "priv" => "pub" \notin vault.legacy
  <2> SUFFICES ASSUME mpc[m] = "target"
               PROVE  /\ o = "meta" => vault.kind = "openbao"
                      /\ o = "priv" => "pub" \notin vault.legacy
    OBVIOUS
  <2>1. o \in FetchOutcomes(vault, MAlgo[m], mreq[m])
    BY <1>1 DEF MOutcomes
  <2>2. "pub" \notin vault.legacy \/ o # "priv"
    BY <2>1, MBefore, Outcomes
  <2>3. o = "meta" => vault.kind = "openbao"
    BY <2>1, MBefore DEF FetchOutcomes, DataOutcomes, MetaOutcome, LegacyOutcome,
       VaultRecord, VaultInv
  <2>4. QED
    BY <2>2, <2>3
<1>4. MigratorInv(m)'
  BY <1>1, <1>2, <1>3, MBefore DEF MigratorInv
<1>5. QED
  BY <1>1, <1>2, <1>4, MBefore, MLocalStep

LEMMA MSourceReadPreserves ==
  ASSUME MIInv, NEW m \in Migrators, MSourceRead(m)
  PROVE  MIInv'
<1>1. /\ IInv' /\ UNCHANGED <<vault, src>>
      /\ mpc' = [mpc EXCEPT ![m] = "target"]
      /\ mreq' = [mreq EXCEPT ![m] = "data"]
      /\ mpair' = [mpair EXCEPT ![m] = src.bundle.pair]
  BY MBefore, VarsUnchanged DEF MSourceRead, Proceed, vars
<1>2. src.state = "live" /\ KeysValid(src.bundle, MAlgo[m])
  BY MBefore, Outcomes DEF MSourceRead, MOutcomes
<1>3. src.bundle \in Bundle
  BY <1>2, MBefore DEF SourceInv, VaultRecord
<1>4. /\ src.bundle.pair \in Pairs
      /\ src.bundle = EncodeBundle(MAlgo[m], src.bundle.pair)
  BY <1>2, <1>3, MBefore, Encoding
<1>5. MigratorInv(m)'
  BY <1>1, <1>4, MBefore DEF MigratorInv, Success
<1>6. "target" \in Running /\ "data" \in Requests
  BY DEF Running, Requests
<1>7. QED
  BY <1>1, <1>4, <1>5, <1>6, MLocalStep

\* A run that ends without touching a vault.
LEMMA MEndStep ==
  ASSUME MIInv, IInv', NEW m \in Migrators, NEW outcome \in Ended,
         End(m, outcome), UNCHANGED <<vault, src>>,
         outcome \in Success
           => src.bundle # NoBundle /\ vault.bundle = src.bundle,
         outcome = "conflict"
           => /\ src.bundle # NoBundle /\ vault.bundle # NoBundle
              /\ src.bundle.pair # vault.bundle.pair
  PROVE  MIInv'
<1>1. /\ mpc' = [mpc EXCEPT ![m] = outcome]
      /\ mreq' = [mreq EXCEPT ![m] = "data"]
      /\ mpair' = [mpair EXCEPT ![m] = NoPair]
  BY DEF End, Proceed
<1>2. MigratorInv(m)'
  BY <1>1, MBefore DEF MigratorInv, Ended, Success
<1>3. "data" \in Requests
  BY DEF Requests
<1>4. QED
  BY <1>1, <1>2, <1>3, MLocalStep

LEMMA MTargetReadPreserves ==
  ASSUME MIInv, NEW m \in Migrators, MTargetRead(m)
  PROVE  MIInv'
<1> DEFINE outcome == IF SamePair(m) THEN "present" ELSE "conflict"
<1>1. IInv' /\ UNCHANGED <<vault, src>> /\ End(m, outcome)
  BY MBefore, VarsUnchanged DEF MTargetRead, vars
<1>2. /\ src.bundle # NoBundle /\ vault.bundle # NoBundle
      /\ SamePair(m) <=> vault.bundle = src.bundle
      /\ src.bundle.pair = mpair[m]
  BY SameBundle DEF MTargetRead
<1>3. outcome \in Ended
  BY DEF Ended, Success
<1>4. outcome \in Success => SamePair(m)
  BY DEF Success
<1>5. outcome = "conflict" => src.bundle.pair # vault.bundle.pair
  BY <1>2 DEF SamePair
<1>6. QED
  BY <1>1, <1>2, <1>3, <1>4, <1>5, MEndStep

LEMMA MTargetEmptyPreserves ==
  ASSUME MIInv, NEW m \in Migrators, MTargetEmpty(m)
  PROVE  MIInv'
<1>1. /\ IInv' /\ UNCHANGED <<vault, src>>
      /\ mpc' = [mpc EXCEPT ![m] = "store"]
      /\ mreq' = [mreq EXCEPT ![m] = "data"]
      /\ mpair' = [mpair EXCEPT ![m] = mpair[m]]
  BY MBefore, VarsUnchanged DEF MTargetEmpty, Proceed, vars
<1>2. vault.legacy = {}
  <2>1. mpc[m] = "target" /\ "notFound" \in FetchOutcomes(vault, MAlgo[m], mreq[m])
    BY DEF MTargetEmpty, MOutcomes
  <2>2. mreq[m] = "meta" \/ (mreq[m] = "priv" /\ "priv" \notin vault.legacy)
    BY <2>1, MBefore, Outcomes
  <2>3. vault.legacy \subseteq {"pub", "priv"}
    BY MBefore DEF VaultRecord
  <2>4. QED
    BY <2>1, <2>2, <2>3, MBefore DEF MigratorInv, VaultInv
<1>3. MigratorInv(m)'
  BY <1>1, <1>2, MBefore DEF MigratorInv, MTargetEmpty, Success
<1>4. "store" \in Running /\ "data" \in Requests /\ mpair[m] \in Pairs \cup {NoPair}
  BY MBefore DEF Running, Requests
<1>5. QED
  BY <1>1, <1>3, <1>4, MLocalStep

LEMMA MStoredPreserves ==
  ASSUME MIInv, NEW m \in Migrators, MStored(m)
  PROVE  MIInv'
<1> DEFINE b == EncodeBundle(MAlgo[m], mpair[m])
<1>1. /\ mpc[m] = "store" /\ mpair[m] \in Pairs /\ src.bundle = b
      /\ vault.legacy = {} /\ vault.bundle = NoBundle
  BY MBefore DEF MStored, Accepts, MigratorInv, VaultInv
<1>2. /\ b \in Bundle /\ b # NoBundle /\ Apply(b)
      /\ UNCHANGED <<wire, pc, req, key, err, faults, src, mpair>>
      /\ mpc' = [mpc EXCEPT ![m] = "reread"]
      /\ mreq' = [mreq EXCEPT ![m] = "data"]
  BY <1>1, MBefore, Encoding DEF MStored, Proceed, bootVars
<1>3. /\ vault' \in VaultRecord /\ ever' \in SUBSET Bundle
      /\ VaultInv' /\ vault'.bundle = b
      /\ vault'.kind = vault.kind /\ vault'.legacy = vault.legacy
  BY <1>1, <1>2, MBefore, ApplyStep
<1>4. TypeOK'
  BY <1>2, <1>3, MBefore DEF TypeOK, IInv
<1>5. ASSUME NEW p \in Instances PROVE ProcessInv(p)'
  <2>1. pc[p] \notin {"protect", "reread", "selftest", "serving"}
    BY <1>1, MBefore, AlgoAssumption, Encoding DEF IInv, ProcessInv
  <2>2. QED
    BY <1>2, <1>3, <2>1, MBefore DEF IInv, ProcessInv, Fetching
<1>6. IInv'
  BY <1>3, <1>4, <1>5 DEF IInv
<1>7. MTypeOK' /\ SourceInv'
  <2>1. "reread" \in Running /\ "data" \in Requests
    BY DEF Running, Requests
  <2>2. QED
    BY <1>2, <2>1, MBefore DEF MTypeOK, SourceInv
<1>8. MigratorInv(m)'
  BY <1>1, <1>2, <1>3, MBefore DEF MigratorInv, Success
<1>9. ASSUME NEW n \in Migrators, n # m PROVE MigratorInv(n)'
  <2>1. mpc'[n] = mpc[n] /\ mreq'[n] = mreq[n] /\ mpair'[n] = mpair[n]
    BY <1>2, <1>9, MBefore
  <2>2. mpc[n] \notin {"reread", "conflict"} \cup Success
    BY <1>1, <1>2, MBefore DEF MIInv, MigratorInv
  <2>3. QED
    BY <1>2, <1>3, <2>1, <2>2, MBefore DEF MIInv, MigratorInv
<1>10. QED
  BY <1>6, <1>7, <1>8, <1>9 DEF MIInv

LEMMA MRereadPreserves ==
  ASSUME MIInv, NEW m \in Migrators, MReread(m)
  PROVE  MIInv'
<1>1. SamePair(m)
  BY SameBundle, MBefore DEF MReread, MigratorInv
<1>2. IInv' /\ UNCHANGED <<vault, src>> /\ End(m, "copied")
  BY <1>1, MBefore, VarsUnchanged DEF MReread, vars
<1>3. src.bundle # NoBundle /\ vault.bundle = src.bundle
  BY MBefore DEF MReread, MigratorInv
<1>4. "copied" \in Ended
  BY DEF Ended, Success
<1>5. QED
  BY <1>2, <1>3, <1>4, MEndStep

LEMMA MFailedPreserves ==
  ASSUME MIInv, NEW m \in Migrators, MRefused(m) \/ MBlocked(m)
  PROVE  MIInv'
<1>1. IInv' /\ UNCHANGED <<vault, src>> /\ End(m, "failed")
  BY MBefore, VarsUnchanged DEF MRefused, MBlocked, vars
<1>2. "failed" \in Ended /\ "failed" \notin Success
  BY DEF Ended, Success
<1>3. QED
  BY <1>1, <1>2, MEndStep

LEMMA MFailsPreserves ==
  ASSUME MIInv, NEW m \in Migrators, MFails(m)
  PROVE  MIInv'
<1>1. /\ UNCHANGED <<vault, ever, pc, req, key, err, src>>
      /\ faults' \in 0..MaxFaults /\ End(m, "failed")
      /\ \/ wire' = wire
         \/ mpc[m] = "store" /\ wire' = wire \cup {EncodeBundle(MAlgo[m], mpair[m])}
  BY MBefore, MaxFaultsAssumption DEF MFails, Fault, bootVars
<1>2. wire' \in SUBSET Bundle /\ (wire' # {} => vault.legacy = {})
  BY <1>1, MBefore, Encoding DEF MigratorInv, VaultInv
<1>3. IInv'
  <2>1. TypeOK'
    BY <1>1, <1>2, MBefore DEF IInv, TypeOK
  <2>2. VaultInv'
    BY <1>1, <1>2, MBefore DEF VaultInv, Held
  <2>3. \A p \in Instances : ProcessInv(p)'
    BY <1>1, MBefore DEF IInv, ProcessInv, Fetching
  <2>4. QED
    BY <2>1, <2>2, <2>3 DEF IInv
<1>4. "failed" \in Ended /\ "failed" \notin Success
  BY DEF Ended, Success
<1>5. QED
  BY <1>1, <1>3, <1>4, MEndStep

LEMMA OperateSourcePreserves ==
  ASSUME MIInv, OperateSource
  PROVE  MIInv'
<1>1. /\ src' \in Operated(src)
      /\ UNCHANGED <<vault, wire, ever, pc, req, key, err, mpc, mreq, mpair>>
      /\ faults' \in 0..MaxFaults
      /\ IInv /\ MTypeOK /\ src \in VaultRecord
  BY MaxFaultsAssumption
  DEF OperateSource, bootVars, migVars, Fault, MIInv, IInv, TypeOK, MTypeOK
<1>2. /\ src' \in VaultRecord /\ src'.bundle = src.bundle
      /\ src.state # "never" /\ src'.state # "never"
  BY <1>1, OperatedKeeps
<1>3. IInv'
  BY <1>1 DEF IInv, TypeOK, VaultInv, Held, ProcessInv, Fetching
<1>4. MTypeOK' /\ SourceInv'
  BY <1>1, <1>2 DEF MTypeOK, SourceInv, MIInv
<1>5. \A m \in Migrators : MigratorInv(m)'
  BY <1>1, <1>2 DEF MIInv, MigratorInv
<1>6. QED
  BY <1>3, <1>4, <1>5 DEF MIInv

\* No step of an instance, of a late write or of the operator of the vault
\* changes a keypair the vault holds, its kind or its historical layout.
LEMMA VaultKept ==
  ASSUME IInv, Next
  PROVE  /\ vault.bundle # NoBundle => vault'.bundle = vault.bundle
         /\ vault'.kind = vault.kind
         /\ vault'.legacy = vault.legacy
<1>1. ASSUME NEW b \in Bundle, Apply(b)
      PROVE  /\ vault.bundle # NoBundle => vault'.bundle = vault.bundle
             /\ vault'.kind = vault.kind
             /\ vault'.legacy = vault.legacy
  BY <1>1, WriteOnce DEF Apply, IInv, TypeOK, VaultInv
<1>2. CASE LateWrite
  BY <1>1, <1>2 DEF LateWrite, IInv, TypeOK
<1>3. CASE Operate
  BY <1>3, OperatedKeeps DEF Operate, IInv, TypeOK
<1>4. ASSUME NEW p \in Instances, StoreAccepted(p)
      PROVE  EncodeBundle(Algo[p], key[p]) \in Bundle
  BY <1>4, Before, Encoding DEF StoreAccepted, ProcessInv
<1>5. ASSUME NEW p \in Instances, Step(p), ~StoreAccepted(p)
      PROVE  vault' = vault
  BY <1>5 DEF Step, Start, FetchContinues, LoadKeys, Generate, FetchBlocked,
              StoreRefused, Protect, Reread, SelfTest, VaultUnchanged
<1>6. ASSUME NEW p \in Instances, Failure(p)
      PROVE  vault' = vault
  BY <1>6 DEF Failure, FetchFails, StoreFails, SelfTestFails, Crash, VaultUnchanged
<1>7. ASSUME NEW p \in Instances, StoreAccepted(p)
      PROVE  /\ vault.bundle # NoBundle => vault'.bundle = vault.bundle
             /\ vault'.kind = vault.kind
             /\ vault'.legacy = vault.legacy
  BY <1>1, <1>4, <1>7 DEF StoreAccepted
<1>8. QED
  BY <1>2, <1>3, <1>5, <1>6, <1>7 DEF Next

LEMMA BootNextPreserves ==
  ASSUME MIInv, BootNext
  PROVE  MIInv'
<1>1. /\ IInv /\ IInv'
      /\ UNCHANGED <<src, mpc, mreq, mpair>>
      /\ vault.bundle # NoBundle => vault'.bundle = vault.bundle
      /\ vault'.kind = vault.kind
      /\ vault'.legacy = vault.legacy
  BY NextIInv, VaultKept DEF MIInv, BootNext, migVars
<1>2. MTypeOK' /\ SourceInv'
  BY <1>1 DEF MIInv, MTypeOK, SourceInv
<1>3. \A m \in Migrators : MigratorInv(m)'
  BY <1>1 DEF MIInv, MigratorInv
<1>4. QED
  BY <1>1, <1>2, <1>3 DEF MIInv

LEMMA MNextMIInv == MIInv /\ [MNext]_allVars => MIInv'
<1> SUFFICES ASSUME MIInv, [MNext]_allVars PROVE MIInv'
  OBVIOUS
<1>1. CASE UNCHANGED allVars
  <2>1. UNCHANGED <<vars, src, mpc, mreq, mpair>>
    BY <1>1 DEF allVars, migVars
  <2>2. IInv' /\ vault' = vault
    BY <2>1, VarsUnchanged DEF MIInv, vars
  <2>3. QED
    BY <2>1, <2>2 DEF MIInv, MTypeOK, SourceInv, MigratorInv
<1>2. ASSUME NEW m \in Migrators, MStep(m)
      PROVE  MIInv'
  BY <1>2, MStartPreserves, MReadContinuesPreserves, MSourceReadPreserves,
     MTargetReadPreserves, MTargetEmptyPreserves, MStoredPreserves,
     MRereadPreserves, MFailedPreserves DEF MStep
<1>3. QED
  BY <1>1, <1>2, MFailsPreserves, OperateSourcePreserves, BootNextPreserves
  DEF MNext

LEMMA MInvariance == MigrationSpec => []MIInv
BY MInitMIInv, MNextMIInv, PTL DEF MigrationSpec

-----------------------------------------------------------------------------
(* What the invariant gives. *)

\* Every variable of the migrations keeps its type.
THEOREM MTypeCorrect == MigrationSpec => []MTypeOK
<1>1. MIInv => MTypeOK
  BY DEF MIInv
<1>2. QED
  BY <1>1, MInvariance, PTL

\* While migrations run, fail and are run again, an instance that serves on the
\* target still uses the keypair the target holds (buildEngineWithStore).
THEOREM ServedKeyIsStoredMigrating == MigrationSpec => []ServedIsStored
<1>1. MIInv => ServedIsStored
  BY DEF MIInv, IInv, ProcessInv, ServedIsStored, Serving
<1>2. QED
  BY <1>1, MInvariance, PTL

\* A successful migration leaves source and target with the same keypair, the
\* one every serving instance of the target uses (Migrate, samePair).
THEOREM DataStaysReadable == MigrationSpec => []MigrationKeepsData
<1>1. MIInv => MigrationKeepsData
  <2> SUFFICES ASSUME MIInv, NEW m \in Migrators, mpc[m] \in Success
               PROVE  /\ PairOf(vault.bundle) = PairOf(src.bundle)
                      /\ \A p \in Instances : Serving(p) => key[p] = PairOf(src.bundle)
    BY DEF MigrationKeepsData
  <2>1. src.bundle # NoBundle /\ vault.bundle = src.bundle
    BY MBefore DEF MigratorInv
  <2>2. ASSUME NEW p \in Instances, Serving(p)
        PROVE  key[p] = PairOf(src.bundle)
    <3>1. vault.bundle = EncodeBundle(Algo[p], key[p])
      BY <2>2 DEF MIInv, IInv, ProcessInv, Serving
    <3>2. vault.bundle.pair = key[p]
      BY <3>1 DEF EncodeBundle
    <3>3. QED
      BY <2>1, <3>2 DEF PairOf
  <2>3. QED
    BY <2>1, <2>2
<1>2. QED
  BY <1>1, MInvariance, PTL

\* A conflict is only reported between two different keypairs, whoever wrote
\* the target first (Migrate, ErrKeyPairConflict).
THEOREM ConflictsAreReal == MigrationSpec => []ConflictIsReal
<1>1. MIInv => ConflictIsReal
  <2> SUFFICES ASSUME MIInv, NEW m \in Migrators, mpc[m] = "conflict"
               PROVE  /\ NoPair # PairOf(vault.bundle)
                      /\ PairOf(vault.bundle) # PairOf(src.bundle)
    BY DEF ConflictIsReal
  <2>1. /\ src.bundle # NoBundle /\ vault.bundle # NoBundle
        /\ src.bundle.pair # vault.bundle.pair
    BY MBefore DEF MigratorInv
  <2>2. vault.bundle.pair \in Pairs
    BY <2>1, MBefore DEF VaultRecord, Bundle
  <2>3. QED
    BY <2>1, <2>2, NoPairAssumption DEF PairOf
<1>2. QED
  BY <1>1, MInvariance, PTL

\* No migration, however interrupted or repeated, changes the keypair of the
\* source or one the target holds, and it writes no other than the source's.
THEOREM NothingOverwritten == MigrationSpec => MigrationOverwritesNothing
<1> DEFINE A == /\ src'.bundle = src.bundle
                /\ vault.bundle # NoBundle => vault'.bundle = vault.bundle
                /\ mpc' # mpc /\ vault'.bundle # vault.bundle =>
                     PairOf(vault'.bundle) = PairOf(src.bundle)
<1>1. MIInv /\ [MNext]_allVars => [A]_allVars
  <2> SUFFICES ASSUME MIInv, MNext PROVE A
    OBVIOUS
  <2>1. CASE BootNext
    BY <2>1, VaultKept DEF BootNext, MIInv, migVars
  <2>2. CASE OperateSource
    BY <2>2, OperatedKeeps DEF OperateSource, MIInv, MTypeOK, migVars
  <2>3. ASSUME NEW m \in Migrators, MStored(m)
        PROVE  A
    <3>1. vault.bundle = NoBundle /\ src' = src
      BY <2>3, MBefore DEF MStored, Accepts, VaultInv
    <3>2. /\ src.bundle = EncodeBundle(MAlgo[m], mpair[m])
          /\ vault' = Written(vault, src.bundle)
      BY <2>3, MBefore DEF MStored, MigratorInv, Apply, Write
    <3>3. vault'.bundle = src.bundle
      BY <3>2, MBefore DEF Written, VaultRecord
    <3>4. QED
      BY <3>1, <3>3
  <2>4. ASSUME NEW m \in Migrators, MStep(m) \/ MFails(m), ~MStored(m)
        PROVE  A
    <3>1. vault' = vault /\ src' = src
      BY <2>4 DEF MStep, MStart, MReadContinues, MSourceRead, MTargetRead,
                  MTargetEmpty, MRefused, MReread, MBlocked, MFails, vars
    <3>2. QED
      BY <3>1
  <2>5. QED
    BY <2>1, <2>2, <2>3, <2>4 DEF MNext
<1>2. QED
  BY <1>1, MInvariance, PTL DEF MigrationSpec, MigrationOverwritesNothing

-----------------------------------------------------------------------------
(* The refinement. *)

\* Migrations and instances together implement WriteOnceKey: the target is
\* given one keypair, by whichever process writes first, and serves no other.
THEOREM MigrationImplements == MigrationSpec => ImplementsWriteOnceKey
<1>1. MInit => WOK!Init
  BY InitRefines DEF MInit
<1>2. MIInv /\ [MNext]_allVars => [WOK!Next]_(WOK!vars)
  <2> SUFFICES ASSUME MIInv, [MNext]_allVars PROVE [WOK!Next]_(WOK!vars)
    OBVIOUS
  <2>1. CASE BootNext \/ UNCHANGED allVars
    BY <2>1, NextRefines DEF BootNext, allVars, MIInv
  <2>2. ASSUME NEW m \in Migrators, MStored(m)
        PROVE  [WOK!Next]_(WOK!vars)
    <3>1. /\ IInv /\ vault.legacy = {} /\ wire' = wire
          /\ EncodeBundle(MAlgo[m], mpair[m]) \in Bundle
          /\ Apply(EncodeBundle(MAlgo[m], mpair[m]))
          /\ UNCHANGED <<pc, key>>
      BY <2>2, MBefore, Encoding DEF MStored, MigratorInv, bootVars
    <3>2. QED
      BY <3>1, ApplyChooses DEF Serving, WOK!Next
  <2>3. ASSUME NEW m \in Migrators, MStep(m) \/ MFails(m), ~MStored(m)
        PROVE  [WOK!Next]_(WOK!vars)
    <3>1. UNCHANGED <<vault, pc, key>>
      BY <2>3 DEF MStep, MStart, MReadContinues, MSourceRead, MTargetRead,
                  MTargetEmpty, MRefused, MReread, MBlocked, MFails, vars, bootVars
    <3>2. QED
      BY <3>1, Stutters DEF Serving
  <2>4. CASE OperateSource
    BY <2>4, Stutters DEF OperateSource, bootVars, Serving
  <2>5. QED
    BY <2>1, <2>2, <2>3, <2>4 DEF MNext
<1>3. QED
  BY <1>1, <1>2, MInvariance, PTL DEF MigrationSpec, WOK!Spec, ImplementsWriteOnceKey
=============================================================================
