-------------------------- MODULE BootstrapProofs --------------------------
(***************************************************************************)
(* The safety of Bootstrap for any number of instances, any suites, any    *)
(* keypairs and any number of faults.                                      *)
(***************************************************************************)
EXTENDS Bootstrap, TLAPS

\* What the vault holds never changes once it holds something, and only
\* OpenBao remembers a deleted version; only Infisical has a historical layout.
VaultInv ==
  /\ vault.state = "never" <=> vault.bundle = NoBundle
  /\ vault.state \in {"deleted", "destroyed"} => vault.kind = "openbao"
  /\ vault.kind = "openbao" => vault.legacy = {}
  /\ wire # {} => vault.legacy = {}
  /\ ever = Held(vault)

\* An instance that may write has found both halves of the historical layout
\* missing; from the accepted write or the load on, its keypair is the vault's.
ProcessInv(p) ==
  /\ pc[p] = "store" => key[p] \in Pairs /\ vault.legacy = {}
  /\ pc[p] \in {"protect", "reread", "selftest", "serving"}
       => key[p] \in Pairs /\ vault.bundle = EncodeBundle(Algo[p], key[p])
  /\ pc[p] = "protect" => req[p] = "data"
  /\ Fetching(p) /\ req[p] = "meta" => vault.kind = "openbao"
  /\ Fetching(p) /\ req[p] = "priv" => "pub" \notin vault.legacy

\* The inductive invariant.
IInv == TypeOK /\ VaultInv /\ \A p \in Instances : ProcessInv(p)

-----------------------------------------------------------------------------
(* The operators of Vault. *)

\* An encoded bundle is a bundle, and what Keys accepts is what was encoded.
LEMMA Encoding ==
  /\ \A a \in Algorithms, k \in Pairs :
       EncodeBundle(a, k) \in Bundle /\ EncodeBundle(a, k) # NoBundle
  /\ \A b \in Bundle, a \in Algorithms :
       KeysValid(b, a) => b = EncodeBundle(a, b.pair) /\ b.pair \in Pairs
<1>1. ASSUME NEW a \in Algorithms, NEW k \in Pairs
      PROVE  EncodeBundle(a, k) \in Bundle
  BY DEF EncodeBundle, Bundle
<1>2. NoBundle \notin Bundle
  BY NoBundleAssumption DEF Bundle
<1>3. ASSUME NEW b \in Bundle, NEW a \in Algorithms, KeysValid(b, a)
      PROVE  b = EncodeBundle(a, b.pair) /\ b.pair \in Pairs
  BY <1>3 DEF EncodeBundle, Bundle, KeysValid
<1>4. QED
  BY <1>1, <1>2, <1>3

\* A write changes a vault only if it held nothing, and then it holds the bundle.
LEMMA WriteOnce ==
  ASSUME NEW v \in VaultRecord, NEW b \in Bundle,
         v.state = "never" <=> v.bundle = NoBundle
  PROVE  /\ Write(v, b) \in VaultRecord
         /\ Write(v, b).state # "never"
         /\ Write(v, b).bundle # NoBundle
         /\ Write(v, b).kind = v.kind
         /\ Write(v, b).legacy = v.legacy
         /\ v.bundle = NoBundle => Write(v, b).bundle = b
         /\ v.bundle # NoBundle => Write(v, b) = v
BY NoBundleAssumption DEF Write, Written, Accepts, VaultRecord, Bundle

\* The operator of the vault changes neither the keypair nor the layout.
LEMMA OperatedKeeps ==
  ASSUME NEW v \in VaultRecord, NEW w \in Operated(v)
  PROVE  /\ w \in VaultRecord
         /\ w.bundle = v.bundle
         /\ w.kind = v.kind
         /\ w.legacy = v.legacy
         /\ v.kind = "openbao"
         /\ v.state # "never"
         /\ w.state # "never"
<1>1. v.kind = "openbao" /\ v.state \in {"live", "deleted"}
  BY DEF Operated
<1>2. PICK s \in {"live", "deleted", "destroyed"} : w = [v EXCEPT !.state = s]
  BY <1>1 DEF Operated
<1>3. QED
  BY <1>1, <1>2 DEF VaultRecord

\* What each outcome of a request says about the vault.
LEMMA Outcomes ==
  ASSUME NEW v \in VaultRecord, NEW a \in Algorithms, NEW r \in Requests
  PROVE  /\ FetchOutcomes(v, a, r) \subseteq Requests \cup Results
         /\ "keys" \in FetchOutcomes(v, a, r)
              => v.state = "live" /\ KeysValid(v.bundle, a)
         /\ "data" \notin FetchOutcomes(v, a, r)
         /\ "pub" \in FetchOutcomes(v, a, r) => v.kind # "openbao"
         /\ "priv" \in FetchOutcomes(v, a, r) => "pub" \notin v.legacy
         /\ "notFound" \in FetchOutcomes(v, a, r)
              => \/ r = "meta"
                 \/ r = "priv" /\ "priv" \notin v.legacy
BY DEF FetchOutcomes, DataOutcomes, MetaOutcome, LegacyOutcome, VaultRecord,
       Requests, Results, Kinds

-----------------------------------------------------------------------------
(* The invariant is inductive. *)

LEMMA InitIInv == Init => IInv
<1> SUFFICES ASSUME Init PROVE IInv
  OBVIOUS
<1>1. TypeOK
  <2>1. vault \in VaultRecord
    BY DEF Init, InitialVault
  <2>2. ever \in SUBSET Bundle
    BY <2>1 DEF Init, Held, VaultRecord
  <2>3. faults \in 0..MaxFaults
    BY MaxFaultsAssumption DEF Init
  <2>4. QED
    BY <2>1, <2>2, <2>3 DEF Init, TypeOK, Phases, Errors, Requests
<1>2. VaultInv
  BY DEF Init, VaultInv, InitialVault
<1>3. \A p \in Instances : ProcessInv(p)
  BY DEF Init, ProcessInv, Fetching
<1>4. QED
  BY <1>1, <1>2, <1>3 DEF IInv

\* A step that leaves the vault alone and moves one process preserves the
\* invariant if that process satisfies its part of it.
LEMMA LocalStep ==
  ASSUME IInv, NEW p \in Instances,
         pc' \in [Instances -> Phases],
         req' \in [Instances -> Requests],
         key' \in [Instances -> Pairs \cup {NoPair}],
         err' \in [Instances -> Errors],
         faults' \in 0..MaxFaults,
         \A q \in Instances \ {p} :
           pc'[q] = pc[q] /\ req'[q] = req[q] /\ key'[q] = key[q],
         UNCHANGED <<vault, ever>>,
         \/ wire' = wire
         \/ pc[p] = "store" /\ wire' = wire \cup {EncodeBundle(Algo[p], key[p])},
         ProcessInv(p)'
  PROVE  IInv'
<1>1. /\ TypeOK /\ VaultInv /\ \A q \in Instances : ProcessInv(q)
      /\ Algo[p] \in Algorithms
  BY AlgoAssumption DEF IInv
<1>2. wire' \in SUBSET Bundle /\ (wire' # {} => vault.legacy = {})
  BY <1>1, Encoding DEF TypeOK, VaultInv, ProcessInv
<1>3. TypeOK'
  BY <1>1, <1>2 DEF TypeOK
<1>4. VaultInv'
  BY <1>1, <1>2 DEF VaultInv, Held
<1>5. ASSUME NEW q \in Instances PROVE ProcessInv(q)'
  BY <1>1 DEF ProcessInv, Fetching
<1>6. QED
  BY <1>3, <1>4, <1>5 DEF IInv

\* A write that reaches the vault changes it only if it held nothing.
LEMMA ApplyStep ==
  ASSUME IInv, NEW b \in Bundle, Apply(b), vault.legacy = {},
         wire' # {} => vault.legacy = {}
  PROVE  /\ vault' \in VaultRecord
         /\ ever' \in SUBSET Bundle
         /\ VaultInv'
         /\ vault'.kind = vault.kind
         /\ vault'.legacy = vault.legacy
         /\ vault.bundle # NoBundle => vault' = vault
         /\ vault.bundle = NoBundle => vault'.bundle = b
<1>1. /\ vault \in VaultRecord /\ ever \in SUBSET Bundle
      /\ VaultInv
  BY DEF IInv, TypeOK
<1>2. vault' = Write(vault, b) /\ ever' = ever \cup Held(vault')
  BY DEF Apply
<1>3. /\ vault' \in VaultRecord
      /\ vault'.state # "never" /\ vault'.bundle # NoBundle
      /\ vault'.kind = vault.kind /\ vault'.legacy = vault.legacy
      /\ vault.bundle = NoBundle => vault'.bundle = b
      /\ vault.bundle # NoBundle => vault' = vault
  BY <1>1, <1>2, WriteOnce DEF VaultInv
<1>4. vault.bundle = NoBundle => vault'.state = "live"
  BY <1>1, <1>2 DEF Write, Written, Accepts, VaultInv, VaultRecord
<1>5. ever' = Held(vault')
  BY <1>1, <1>2, <1>3 DEF VaultInv, Held
<1>6. VaultInv'
  BY <1>1, <1>3, <1>4, <1>5 DEF VaultInv
<1>7. ever' \in SUBSET Bundle
  BY <1>3, <1>5 DEF Held, VaultRecord
<1>8. QED
  BY <1>1, <1>2, <1>3, <1>6, <1>7

\* What a process is and knows before one of its steps.
LEMMA Before ==
  ASSUME IInv, NEW p \in Instances
  PROVE  /\ TypeOK /\ VaultInv /\ ProcessInv(p)
         /\ Algo[p] \in Algorithms
         /\ vault \in VaultRecord
         /\ pc \in [Instances -> Phases]
         /\ req \in [Instances -> Requests]
         /\ key \in [Instances -> Pairs \cup {NoPair}]
         /\ err \in [Instances -> Errors]
         /\ faults \in 0..MaxFaults
BY AlgoAssumption DEF IInv, TypeOK

\* Stopping needs nothing but a reason.
LEMMA StopStep ==
  ASSUME IInv, NEW p \in Instances, NEW why \in Errors, Stop(p, why),
         UNCHANGED <<vault, ever, req>>, faults' \in 0..MaxFaults,
         \/ wire' = wire
         \/ pc[p] = "store" /\ wire' = wire \cup {EncodeBundle(Algo[p], key[p])}
  PROVE  IInv'
<1>1. /\ pc' = [pc EXCEPT ![p] = "stopped"] /\ "stopped" \in Phases
      /\ key' = [key EXCEPT ![p] = NoPair]
      /\ err' = [err EXCEPT ![p] = why]
  BY DEF Stop, Goto, Phases
<1>2. ProcessInv(p)'
  BY <1>1, Before DEF ProcessInv, Fetching
<1>3. QED
  BY <1>1, <1>2, Before, LocalStep

LEMMA StartPreserves ==
  ASSUME IInv, NEW p \in Instances, Start(p)
  PROVE  IInv'
<1>1. /\ pc' = [pc EXCEPT ![p] = "load"] /\ "load" \in Phases
      /\ req' = [req EXCEPT ![p] = "data"] /\ "data" \in Requests
      /\ err' = [err EXCEPT ![p] = "none"] /\ "none" \in Errors
      /\ UNCHANGED <<key, faults, vault, wire, ever>>
  BY DEF Start, Goto, VaultUnchanged, Phases, Requests, Errors
<1>2. ProcessInv(p)'
  BY <1>1, Before DEF ProcessInv, Fetching
<1>3. QED
  BY <1>1, <1>2, Before, LocalStep

LEMMA FetchContinuesPreserves ==
  ASSUME IInv, NEW p \in Instances, FetchContinues(p)
  PROVE  IInv'
<1>1. PICK o \in FetchOutcomes(vault, Algo[p], req[p]) \cap Requests :
        req' = [req EXCEPT ![p] = o]
  BY DEF FetchContinues
<1>2. /\ UNCHANGED <<pc, key, err, faults, vault, wire, ever>>
      /\ pc[p] \in {"load", "reread"}
  BY DEF FetchContinues, VaultUnchanged, Fetching
<1>3. o = "priv" => "pub" \notin vault.legacy
  BY <1>1, Before, Outcomes
<1>4. o = "meta" => vault.kind = "openbao"
  <2>1. o = "meta" => req[p] = "data"
    BY <1>1, Before DEF FetchOutcomes, MetaOutcome, LegacyOutcome
  <2>2. "meta" \in DataOutcomes(vault, Algo[p]) => vault.kind = "openbao"
    BY Before DEF DataOutcomes, VaultInv, VaultRecord
  <2>3. QED
    BY <1>1, <2>1, <2>2 DEF FetchOutcomes
<1>5. ProcessInv(p)'
  BY <1>1, <1>2, <1>3, <1>4, Before DEF ProcessInv, Fetching
<1>6. QED
  BY <1>1, <1>2, <1>5, Before, LocalStep

LEMMA LoadKeysPreserves ==
  ASSUME IInv, NEW p \in Instances, LoadKeys(p)
  PROVE  IInv'
<1>1. vault.state = "live" /\ KeysValid(vault.bundle, Algo[p])
  BY Before, Outcomes DEF LoadKeys
<1>2. vault.bundle \in Bundle
  BY <1>1, Before DEF VaultInv, VaultRecord
<1>3. /\ vault.bundle = EncodeBundle(Algo[p], vault.bundle.pair)
      /\ vault.bundle.pair \in Pairs
  BY <1>1, <1>2, Before, Encoding
<1>4. /\ pc' = [pc EXCEPT ![p] = "selftest"] /\ "selftest" \in Phases
      /\ key' = [key EXCEPT ![p] = vault.bundle.pair]
      /\ UNCHANGED <<req, err, faults, vault, wire, ever>>
  BY DEF LoadKeys, Goto, VaultUnchanged, Phases
<1>5. ProcessInv(p)'
  BY <1>3, <1>4, Before DEF ProcessInv, Fetching
<1>6. QED
  BY <1>3, <1>4, <1>5, Before, LocalStep

LEMMA GeneratePreserves ==
  ASSUME IInv, NEW p \in Instances, Generate(p)
  PROVE  IInv'
<1>1. FreshPair \in Pairs
  BY DEF Generate, FreshPair
<1>2. pc[p] = "load" /\ "notFound" \in FetchOutcomes(vault, Algo[p], req[p])
  BY DEF Generate
<1>3. vault.legacy = {}
  <2>1. req[p] = "meta" \/ (req[p] = "priv" /\ "priv" \notin vault.legacy)
    BY <1>2, Before, Outcomes
  <2>2. QED
    BY <1>2, <2>1, Before DEF ProcessInv, Fetching, VaultInv, VaultRecord
<1>4. /\ pc' = [pc EXCEPT ![p] = "store"] /\ "store" \in Phases
      /\ key' = [key EXCEPT ![p] = FreshPair]
      /\ UNCHANGED <<req, err, faults, vault, wire, ever>>
  BY DEF Generate, Goto, VaultUnchanged, Phases
<1>5. ProcessInv(p)'
  BY <1>1, <1>3, <1>4, Before DEF ProcessInv, Fetching
<1>6. QED
  BY <1>1, <1>4, <1>5, Before, LocalStep

LEMMA FetchBlockedPreserves ==
  ASSUME IInv, NEW p \in Instances, FetchBlocked(p)
  PROVE  IInv'
<1>1. PICK o \in FetchOutcomes(vault, Algo[p], req[p]) \ (Requests \cup {"keys"}) :
        Stop(p, o)
  BY DEF FetchBlocked
<1>2. o \in Errors
  BY <1>1, Before, Outcomes DEF Results, Errors
<1>3. QED
  BY <1>1, <1>2, Before, StopStep DEF FetchBlocked, VaultUnchanged

\* The accepted write is where the vault receives its keypair: nobody can be
\* past a write or a load at that time, since the vault held nothing.
LEMMA StoreAcceptedPreserves ==
  ASSUME IInv, NEW p \in Instances, StoreAccepted(p)
  PROVE  IInv'
<1> DEFINE b == EncodeBundle(Algo[p], key[p])
<1>1. /\ pc[p] = "store" /\ key[p] \in Pairs /\ vault.legacy = {}
      /\ vault.bundle = NoBundle
  BY Before DEF StoreAccepted, Accepts, ProcessInv, VaultInv
<1>2. b \in Bundle /\ Apply(b)
  BY <1>1, Before, Encoding DEF StoreAccepted
<1>3. /\ vault' \in VaultRecord /\ ever' \in SUBSET Bundle
      /\ VaultInv' /\ vault'.bundle = b
      /\ vault'.kind = vault.kind /\ vault'.legacy = vault.legacy
  BY <1>1, <1>2, ApplyStep
<1>4. AfterStore(vault) \in {"protect", "reread"}
  BY DEF AfterStore
<1>5. /\ pc' = [pc EXCEPT ![p] = AfterStore(vault)]
      /\ req' = [req EXCEPT ![p] = "data"]
      /\ UNCHANGED <<wire, key, err, faults>>
  BY DEF StoreAccepted, Goto
<1>6. TypeOK'
  BY <1>3, <1>4, <1>5, Before DEF TypeOK, Phases, Requests
<1>7. ProcessInv(p)'
  BY <1>1, <1>3, <1>4, <1>5, Before DEF ProcessInv, Fetching
<1>8. ASSUME NEW q \in Instances, q # p PROVE ProcessInv(q)'
  <2>1. ProcessInv(q) /\ Algo[q] \in Algorithms
    BY AlgoAssumption DEF IInv
  <2>2. pc[q] \notin {"protect", "reread", "selftest", "serving"}
    BY <1>1, <2>1, Encoding DEF ProcessInv
  <2>3. pc'[q] = pc[q] /\ req'[q] = req[q] /\ key'[q] = key[q]
    BY <1>5, <1>8, Before
  <2>4. QED
    BY <1>3, <2>1, <2>2, <2>3 DEF ProcessInv, Fetching
<1>9. QED
  BY <1>3, <1>6, <1>7, <1>8 DEF IInv

LEMMA ProtectPreserves ==
  ASSUME IInv, NEW p \in Instances, Protect(p)
  PROVE  IInv'
<1>1. /\ pc[p] = "protect"
      /\ pc' = [pc EXCEPT ![p] = "reread"] /\ "reread" \in Phases
      /\ UNCHANGED <<req, key, err, faults, vault, wire, ever>>
  BY DEF Protect, Goto, VaultUnchanged, Phases
<1>2. ProcessInv(p)'
  BY <1>1, Before DEF ProcessInv, Fetching
<1>3. QED
  BY <1>1, <1>2, Before, LocalStep

LEMMA RereadPreserves ==
  ASSUME IInv, NEW p \in Instances, Reread(p)
  PROVE  IInv'
<1>1. CASE SameAsGenerated(p)
  <2>1. /\ pc[p] = "reread"
        /\ pc' = [pc EXCEPT ![p] = "selftest"] /\ "selftest" \in Phases
        /\ UNCHANGED <<req, key, err, faults, vault, wire, ever>>
    BY <1>1 DEF Reread, Goto, VaultUnchanged, Phases
  <2>2. ProcessInv(p)'
    BY <2>1, Before DEF ProcessInv, Fetching
  <2>3. QED
    BY <2>1, <2>2, Before, LocalStep
<1>2. CASE ~SameAsGenerated(p)
  <2>1. /\ Stop(p, "bootstrapConflict") /\ "bootstrapConflict" \in Errors
        /\ UNCHANGED <<req, faults, vault, wire, ever>>
    BY <1>2 DEF Reread, VaultUnchanged, Errors
  <2>2. QED
    BY <2>1, Before, StopStep
<1>3. QED
  BY <1>1, <1>2

LEMMA SelfTestPreserves ==
  ASSUME IInv, NEW p \in Instances, SelfTest(p)
  PROVE  IInv'
<1>1. /\ pc[p] = "selftest"
      /\ pc' = [pc EXCEPT ![p] = "serving"] /\ "serving" \in Phases
      /\ UNCHANGED <<req, key, err, faults, vault, wire, ever>>
  BY DEF SelfTest, Goto, VaultUnchanged, Phases
<1>2. ProcessInv(p)'
  BY <1>1, Before DEF ProcessInv, Fetching
<1>3. QED
  BY <1>1, <1>2, Before, LocalStep

LEMMA StepPreserves ==
  ASSUME IInv, NEW p \in Instances, Step(p)
  PROVE  IInv'
<1>1. CASE StoreRefused(p)
  <2>1. /\ Stop(p, "writeConflict") /\ "writeConflict" \in Errors
        /\ UNCHANGED <<req, faults, vault, wire, ever>>
    BY <1>1 DEF StoreRefused, VaultUnchanged, Errors
  <2>2. QED
    BY <2>1, Before, StopStep
<1>2. QED
  BY <1>1, StartPreserves, FetchContinuesPreserves, LoadKeysPreserves,
     GeneratePreserves, FetchBlockedPreserves, StoreAcceptedPreserves,
     ProtectPreserves, RereadPreserves, SelfTestPreserves DEF Step

LEMMA FailurePreserves ==
  ASSUME IInv, NEW p \in Instances, Failure(p)
  PROVE  IInv'
<1>1. Fault => faults' \in 0..MaxFaults
  BY Before, MaxFaultsAssumption DEF Fault
<1>2. CASE FetchFails(p)
  <2>1. "io" \in Errors
    BY DEF Errors
  <2>2. QED
    BY <1>1, <1>2, <2>1, StopStep DEF FetchFails, VaultUnchanged
<1>3. CASE StoreFails(p)
  <2>1. "io" \in Errors
    BY DEF Errors
  <2>2. QED
    BY <1>1, <1>3, <2>1, StopStep DEF StoreFails
<1>4. CASE SelfTestFails(p)
  <2>1. "selftest" \in Errors
    BY DEF Errors
  <2>2. QED
    BY <1>1, <1>4, <2>1, StopStep DEF SelfTestFails, VaultUnchanged
<1>5. CASE Crash(p)
  <2>1. /\ pc' = [pc EXCEPT ![p] = "off"] /\ "off" \in Phases
        /\ key' = [key EXCEPT ![p] = NoPair]
        /\ UNCHANGED <<vault, ever, req, err>>
        /\ \/ wire' = wire
           \/ pc[p] = "store" /\ wire' = wire \cup {EncodeBundle(Algo[p], key[p])}
    BY <1>5 DEF Crash, Goto, Phases
  <2>2. ProcessInv(p)'
    BY <2>1, Before DEF ProcessInv, Fetching
  <2>3. faults' \in 0..MaxFaults
    BY <1>1, <1>5 DEF Crash
  <2>4. QED
    BY <2>1, <2>2, <2>3, Before, LocalStep
<1>6. QED
  BY <1>2, <1>3, <1>4, <1>5 DEF Failure

LEMMA LateWritePreserves ==
  ASSUME IInv, LateWrite
  PROVE  IInv'
<1>1. PICK b \in wire :
        Apply(b) /\ wire' = wire \ {b} /\ UNCHANGED <<pc, req, key, err, faults>>
  BY DEF LateWrite, bootVars
<1>2. /\ TypeOK /\ VaultInv /\ \A p \in Instances : ProcessInv(p)
      /\ b \in Bundle /\ vault.legacy = {} /\ wire' \in SUBSET Bundle
  BY <1>1 DEF IInv, TypeOK, VaultInv
<1>3. /\ vault' \in VaultRecord /\ ever' \in SUBSET Bundle
      /\ VaultInv' /\ vault'.kind = vault.kind /\ vault'.legacy = vault.legacy
      /\ vault.bundle # NoBundle => vault' = vault
  BY <1>1, <1>2, ApplyStep
<1>4. TypeOK'
  BY <1>1, <1>2, <1>3 DEF TypeOK
<1>5. ASSUME NEW p \in Instances PROVE ProcessInv(p)'
  <2>1. pc[p] \in {"protect", "reread", "selftest", "serving"} => vault.bundle # NoBundle
    BY <1>2, AlgoAssumption, Encoding DEF ProcessInv
  <2>2. QED
    BY <1>1, <1>2, <1>3, <2>1 DEF ProcessInv, Fetching
<1>6. QED
  BY <1>3, <1>4, <1>5 DEF IInv

LEMMA OperatePreserves ==
  ASSUME IInv, Operate
  PROVE  IInv'
<1>1. /\ vault' \in Operated(vault)
      /\ UNCHANGED <<wire, ever, pc, req, key, err>>
      /\ faults' \in 0..MaxFaults
      /\ TypeOK /\ VaultInv /\ \A p \in Instances : ProcessInv(p)
  BY MaxFaultsAssumption DEF Operate, bootVars, Fault, IInv, TypeOK
<1>2. /\ vault' \in VaultRecord /\ vault'.bundle = vault.bundle
      /\ vault'.kind = vault.kind /\ vault'.legacy = vault.legacy
      /\ vault.state # "never" /\ vault'.state # "never"
      /\ vault.kind = "openbao"
  BY <1>1, OperatedKeeps DEF TypeOK
<1>3. TypeOK'
  BY <1>1, <1>2 DEF TypeOK
<1>4. VaultInv'
  BY <1>1, <1>2 DEF VaultInv, Held
<1>5. \A p \in Instances : ProcessInv(p)'
  BY <1>1, <1>2 DEF ProcessInv, Fetching
<1>6. QED
  BY <1>3, <1>4, <1>5 DEF IInv

LEMMA NextIInv == IInv /\ [Next]_vars => IInv'
<1> SUFFICES ASSUME IInv, [Next]_vars PROVE IInv'
  OBVIOUS
<1>1. CASE UNCHANGED vars
  BY <1>1 DEF vars, IInv, TypeOK, VaultInv, ProcessInv, Fetching, Held
<1>2. QED
  BY <1>1, StepPreserves, FailurePreserves, LateWritePreserves, OperatePreserves
  DEF Next

LEMMA Invariance == Spec => []IInv
BY InitIInv, NextIInv, PTL DEF Spec

-----------------------------------------------------------------------------
(* What the invariant gives. *)

\* Every variable keeps its type.
THEOREM TypeCorrect == Spec => []TypeOK
<1>1. IInv => TypeOK
  BY DEF IInv
<1>2. QED
  BY <1>1, Invariance, PTL

\* However many instances start, fail and restart, each one that serves uses the
\* keypair the vault holds (buildEngineWithStore).
THEOREM ServedKeyIsStored == Spec => []ServedIsStored
<1>1. IInv => ServedIsStored
  BY DEF IInv, ProcessInv, ServedIsStored, Serving
<1>2. QED
  BY <1>1, Invariance, PTL

\* A vault is given at most one keypair in its life (bootstrapKeys, StoreKeys).
THEOREM OneKeypairForLife == Spec => []OneBundleEver
<1>1. IInv => OneBundleEver
  BY DEF IInv, VaultInv, Held, OneBundleEver
<1>2. QED
  BY <1>1, Invariance, PTL

\* Only a vault with neither keypair nor historical layout is ever written to
\* (checkNoLegacyLayout, StoreKeys).
THEOREM BlockedStartWritesNothing == Spec => WrittenOnlyIfMissing
<1>1. IInv /\ [Next]_vars
        => [vault'.bundle # vault.bundle => vault.state = "never" /\ vault.legacy = {}]_vars
  <2> SUFFICES ASSUME IInv, Next, vault'.bundle # vault.bundle
               PROVE  vault.state = "never" /\ vault.legacy = {}
    BY DEF vars
  <2>1. ASSUME NEW b, Apply(b)
        PROVE  vault.state = "never"
    BY <2>1 DEF Apply, Write, Accepts
  <2>2. ASSUME NEW p \in Instances, StoreAccepted(p)
        PROVE  vault.state = "never" /\ vault.legacy = {}
    BY <2>1, <2>2, Before DEF StoreAccepted, ProcessInv
  <2>3. ASSUME LateWrite
        PROVE  vault.state = "never" /\ vault.legacy = {}
    BY <2>1, <2>3 DEF LateWrite, IInv, VaultInv
  <2>4. ~Operate
    BY OperatedKeeps DEF Operate, IInv, TypeOK
  <2>5. ASSUME NEW p \in Instances, Step(p), ~StoreAccepted(p)
        PROVE  vault' = vault
    BY <2>5 DEF Step, Start, FetchContinues, LoadKeys, Generate, FetchBlocked,
                StoreRefused, Protect, Reread, SelfTest, VaultUnchanged
  <2>6. ASSUME NEW p \in Instances, Failure(p)
        PROVE  vault' = vault
    BY <2>6 DEF Failure, FetchFails, StoreFails, SelfTestFails, Crash, VaultUnchanged
  <2>7. QED
    BY <2>2, <2>3, <2>4, <2>5, <2>6 DEF Next
<1>2. QED
  BY <1>1, Invariance, PTL DEF Spec, WrittenOnlyIfMissing

-----------------------------------------------------------------------------
(* The refinement. *)

Serves == [p \in Instances |-> IF Serving(p) THEN key[p] ELSE NoPair]

\* A step that changes neither the keypair of the vault nor who serves what.
LEMMA Stutters ==
  ASSUME UNCHANGED vault,
         \A q \in Instances : Serving(q)' <=> Serving(q),
         \A q \in Instances : Serving(q) => key'[q] = key[q]
  PROVE  UNCHANGED WOK!vars
<1>1. Serves' = Serves
  BY DEF Serves
<1>2. QED
  BY <1>1 DEF WOK!vars, Serves, PairOf

\* A write that reaches the vault chooses its keypair, or does nothing.
LEMMA ApplyChooses ==
  ASSUME IInv, NEW b \in Bundle, Apply(b), vault.legacy = {},
         wire' # {} => vault.legacy = {},
         \A q \in Instances : Serving(q)' <=> Serving(q),
         UNCHANGED key
  PROVE  WOK!Choose \/ UNCHANGED WOK!vars
<1>1. /\ vault.bundle # NoBundle => vault' = vault
      /\ vault.bundle = NoBundle => vault'.bundle = b
  BY ApplyStep
<1>2. CASE vault.bundle # NoBundle
  BY <1>1, <1>2, Stutters
<1>3. CASE vault.bundle = NoBundle
  <2>1. b # NoBundle /\ b.pair \in Pairs
    BY NoBundleAssumption DEF Bundle
  <2>2. PairOf(vault.bundle) = NoPair /\ PairOf(vault'.bundle) \in Pairs
    BY <1>1, <1>3, <2>1 DEF PairOf
  <2>3. Serves' = Serves
    BY DEF Serves
  <2>4. QED
    BY <2>2, <2>3 DEF WOK!Choose, Serves, PairOf
<1>4. QED
  BY <1>2, <1>3

LEMMA StepRefines ==
  ASSUME IInv, NEW p \in Instances, Step(p)
  PROVE  [WOK!Next]_(WOK!vars)
<1>1. CASE StoreAccepted(p)
  <2>1. /\ pc[p] = "store" /\ key[p] \in Pairs /\ vault.legacy = {}
        /\ EncodeBundle(Algo[p], key[p]) \in Bundle
    BY <1>1, Before, Encoding DEF StoreAccepted, ProcessInv
  <2>2. \A q \in Instances : Serving(q)' <=> Serving(q)
    BY <1>1, <2>1, Before DEF StoreAccepted, Goto, AfterStore, Serving
  <2>3. QED
    BY <1>1, <2>1, <2>2, ApplyChooses DEF StoreAccepted, WOK!Next
<1>2. CASE SelfTest(p)
  <2>1. /\ pc[p] = "selftest" /\ pc' = [pc EXCEPT ![p] = "serving"]
        /\ UNCHANGED <<vault, key>>
    BY <1>2 DEF SelfTest, Goto, VaultUnchanged
  <2>2. /\ key[p] \in Pairs /\ PairOf(vault.bundle) = key[p]
        /\ key[p] # NoPair
    <3>1. key[p] \in Pairs /\ vault.bundle = EncodeBundle(Algo[p], key[p])
      BY <2>1, Before DEF ProcessInv
    <3>2. vault.bundle # NoBundle /\ vault.bundle.pair = key[p]
      BY <3>1, Before, Encoding DEF EncodeBundle
    <3>3. QED
      BY <3>1, <3>2, NoPairAssumption DEF PairOf
  <2>3. Serves[p] = NoPair /\ Serves' = [Serves EXCEPT ![p] = key[p]]
    BY <2>1, Before DEF Serves, Serving
  <2>4. WOK!Serve(p)
    BY <2>1, <2>2, <2>3 DEF WOK!Serve, Serves, PairOf
  <2>5. QED
    BY <2>4 DEF WOK!Next
<1>3. ASSUME ~StoreAccepted(p), ~SelfTest(p)
      PROVE  UNCHANGED WOK!vars
  <2>1. pc[p] # "serving" /\ UNCHANGED vault
    BY <1>3 DEF Step, Start, FetchContinues, LoadKeys, Generate, FetchBlocked,
                StoreRefused, Protect, Reread, Fetching, VaultUnchanged
  <2>2. \A q \in Instances : Serving(q)' <=> Serving(q)
    BY <1>3, <2>1, Before
    DEF Step, Start, FetchContinues, LoadKeys, Generate, FetchBlocked,
        StoreRefused, Protect, Reread, Goto, Stop, Serving
  <2>3. \A q \in Instances : Serving(q) => key'[q] = key[q]
    BY <1>3, <2>1, Before
    DEF Step, Start, FetchContinues, LoadKeys, Generate, FetchBlocked,
        StoreRefused, Protect, Reread, Stop, Serving
  <2>4. QED
    BY <2>1, <2>2, <2>3, Stutters
<1>4. QED
  BY <1>1, <1>2, <1>3

LEMMA FailureRefines ==
  ASSUME IInv, NEW p \in Instances, Failure(p)
  PROVE  [WOK!Next]_(WOK!vars)
<1>1. UNCHANGED vault
  BY DEF Failure, FetchFails, StoreFails, SelfTestFails, Crash, VaultUnchanged
<1>2. /\ pc' = [pc EXCEPT ![p] = pc'[p]] /\ pc'[p] \in {"off", "stopped"}
      /\ key' = [key EXCEPT ![p] = NoPair]
  BY Before DEF Failure, FetchFails, StoreFails, SelfTestFails, Crash, Stop, Goto
<1>3. CASE Serving(p)
  <2>1. key[p] \in Pairs /\ Serves[p] = key[p] /\ key[p] # NoPair
    BY <1>3, Before, NoPairAssumption DEF ProcessInv, Serves, Serving
  <2>2. Serves' = [Serves EXCEPT ![p] = NoPair]
    BY <1>2, Before DEF Serves, Serving
  <2>3. WOK!Stop(p)
    BY <1>1, <2>1, <2>2 DEF WOK!Stop, Serves, PairOf
  <2>4. QED
    BY <2>3 DEF WOK!Next
<1>4. CASE ~Serving(p)
  <2>1. \A q \in Instances : Serving(q)' <=> Serving(q)
    BY <1>2, <1>4, Before DEF Serving
  <2>2. \A q \in Instances : Serving(q) => key'[q] = key[q]
    BY <1>2, <1>4, Before
  <2>3. QED
    BY <1>1, <2>1, <2>2, Stutters
<1>5. QED
  BY <1>3, <1>4

LEMMA InitRefines == Init => WOK!Init
<1> SUFFICES ASSUME Init PROVE WOK!Init
  OBVIOUS
<1>1. PairOf(vault.bundle) \in Pairs \cup {NoPair}
  BY DEF Init, InitialVault, VaultRecord, Bundle, PairOf
<1>2. [p \in Instances |-> IF Serving(p) THEN key[p] ELSE NoPair]
        = [p \in Instances |-> NoPair]
  BY DEF Init, Serving
<1>3. QED
  BY <1>1, <1>2 DEF WOK!Init

LEMMA NextRefines == IInv /\ [Next]_vars => [WOK!Next]_(WOK!vars)
<1> SUFFICES ASSUME IInv, [Next]_vars PROVE [WOK!Next]_(WOK!vars)
  OBVIOUS
<1>1. CASE UNCHANGED vars
  BY <1>1, Stutters DEF vars, Serving
<1>2. CASE LateWrite
  <2>1. PICK b \in wire :
          Apply(b) /\ wire' = wire \ {b} /\ UNCHANGED <<pc, req, key, err, faults>>
    BY <1>2 DEF LateWrite, bootVars
  <2>2. b \in Bundle /\ vault.legacy = {}
    BY <2>1 DEF IInv, TypeOK, VaultInv
  <2>3. QED
    BY <2>1, <2>2, ApplyChooses DEF Serving, WOK!Next
<1>3. CASE Operate
  <2>1. vault'.bundle = vault.bundle /\ UNCHANGED <<pc, key>>
    BY <1>3, OperatedKeeps DEF Operate, bootVars, IInv, TypeOK
  <2>2. QED
    BY <2>1 DEF WOK!vars, PairOf, Serving
<1>4. QED
  BY <1>1, <1>2, <1>3, StepRefines, FailureRefines DEF Next

\* Bootstrap implements WriteOnceKey: a vault chooses its keypair once, and an
\* instance serves that one or none.
THEOREM Implements == Spec => ImplementsWriteOnceKey
BY InitRefines, NextRefines, Invariance, PTL DEF Spec, WOK!Spec, ImplementsWriteOnceKey

=============================================================================
