------------------------------- MODULE Vault -------------------------------
(***************************************************************************)
(* One key vault as the gateway sees it: what it holds, how it answers the *)
(* requests of the OpenBao and Infisical clients, and how the clients turn *)
(* these answers into the result of FetchKeys and StoreKeys.  The module   *)
(* has no variable: Bootstrap and Migration apply its operators to the     *)
(* vaults they keep.                                                       *)
(*                                                                         *)
(* Simplifications:                                                        *)
(*  - a vault holds one keypair path, the one its client reads;            *)
(*  - a bundle is its keypair, its algorithm and whether its checksum, its  *)
(*    version and its encoding are valid;                                   *)
(*  - OpenBao metadata written before any data version (current_version 0) *)
(*    answer like no metadata at all, so "never" stands for both;          *)
(*  - authentication (AppRole login, Universal Auth) is part of the request *)
(*    it precedes: when it fails, the request fails.                       *)
(***************************************************************************)
EXTENDS FiniteSets

CONSTANTS Pairs,       \* keypairs (the recipient key and its private key)
          Algorithms,  \* KEM suites an instance may be configured with
          NoBundle     \* the content of a vault that holds nothing

ASSUME NoBundleAssumption ==
  NoBundle \notin [pair : Pairs, alg : Algorithms, intact : BOOLEAN]

Bundle == [pair : Pairs, alg : Algorithms, intact : BOOLEAN]

Kinds == {"openbao", "infisical"}

\* "live": the last version is readable; "deleted" can be undeleted, "destroyed" cannot.
VaultRecord ==
  [kind   : Kinds,
   bundle : Bundle \cup {NoBundle},
   state  : {"never", "live", "deleted", "destroyed"},
   legacy : SUBSET {"pub", "priv"}]

\* A vault is in one of these states when the gateway is first pointed at it.
\* Only Infisical has held the historical split layout.
InitialVault(v) ==
  /\ v \in VaultRecord
  /\ v.state \in {"never", "live"}
  /\ (v.state = "never") <=> (v.bundle = NoBundle)
  /\ v.kind = "openbao" => v.legacy = {}

-----------------------------------------------------------------------------
(* Bundles *)

EncodeBundle(alg, pair) == [pair |-> pair, alg |-> alg, intact |-> TRUE]

\* Faulty variant: the checksum and the algorithm are not verified.
KeysUnchecked(bundle, alg) == TRUE

\* Keys decodes the bundle: the algorithm and the checksum must match.
KeysValid(bundle, alg) == bundle.intact /\ bundle.alg = alg

-----------------------------------------------------------------------------
(* FetchKeys: a few requests one after the other.  A request is named by the *)
(* resource it reads, and answering it yields the next request or a result.  *)

Requests == {"data", "meta", "pub", "priv"}
Results  == {"keys", "notFound", "deleted", "legacy", "corrupt"}

\* A deleted or destroyed last version is answered by a 404, which sends the
\* OpenBao client to the metadata, or by a 200 whose data is null or stamped.
DataOutcomes(v, alg) ==
  CASE v.state = "live"  -> {IF KeysValid(v.bundle, alg) THEN "keys" ELSE "corrupt"}
    [] v.state = "never" -> {IF v.kind = "openbao" THEN "meta" ELSE "pub"}
    [] OTHER             -> {"meta", "deleted"}

\* Faulty variant: any answer about the metadata counts as a deleted keypair.
MetaOutcomeStrict(v) == "deleted"

\* classifyMissing: the metadata tell a secret never written from one whose
\* last version is gone.
MetaOutcome(v) == IF v.state = "never" THEN "notFound" ELSE "deleted"

\* Faulty variants: the private half is never looked for; the loop starts over.
LegacyPubOnly(v, name) == IF name \in v.legacy THEN "legacy" ELSE "notFound"
LegacyRestarts(v, name) == IF name \in v.legacy THEN "legacy" ELSE "pub"

\* checkNoLegacyLayout: the two secrets of the historical layout, in order.
LegacyOutcome(v, name) ==
  CASE name \in v.legacy -> "legacy"
    [] name = "pub" /\ name \notin v.legacy -> "priv"
    [] OTHER -> "notFound"

FetchOutcomes(v, alg, req) ==
  CASE req = "data" -> DataOutcomes(v, alg)
    [] req = "meta" -> {MetaOutcome(v)}
    [] OTHER        -> {LegacyOutcome(v, req)}

-----------------------------------------------------------------------------
(* StoreKeys *)

\* Faulty variant: the write carries no check-and-set.
AcceptsAny(v) == TRUE

\* OpenBao compares cas=0 with the current version, which counts deleted and
\* destroyed versions; Infisical creates a secret and refuses an existing name.
Accepts(v) == v.state = "never"

Written(v, bundle) == [v EXCEPT !.bundle = bundle, !.state = "live"]

Write(v, bundle) == IF Accepts(v) THEN Written(v, bundle) ELSE v

-----------------------------------------------------------------------------
(* What the operator of the vault may do to the keypair: bao kv delete,       *)
(* undelete and destroy.                                                      *)

Operated(v) ==
  {[v EXCEPT !.state = s] : s \in
     CASE v.kind = "openbao" /\ v.state = "live"    -> {"deleted", "destroyed"}
       [] v.kind = "openbao" /\ v.state = "deleted" -> {"live", "destroyed"}
       [] OTHER                                     -> {}}

\* Deleting the secret in Infisical leaves no trace of it.
Forgotten(v) == [v EXCEPT !.bundle = NoBundle, !.state = "never"]
=============================================================================
