---------------------------- MODULE MCBootstrap ----------------------------
(* Small instances of Bootstrap for TLC. *)
EXTENDS Bootstrap

CONSTANTS p1, p2, a1, a2, k1

\* The instances run the same suite, a1; the vault may hold a keypair of another.
MCAlgo == [p \in Instances |-> a1]

\* Keypairs are interchangeable: a vault that already holds one holds k1.
MCInit == Init /\ (vault.bundle # NoBundle => vault.bundle.pair = k1)

MCSpec == MCInit /\ [][Next]_vars /\ Fairness

-----------------------------------------------------------------------------
\* Infisical keeps nothing of a deleted secret: Next plus its deletion.
Forget ==
  /\ Fault
  /\ vault.kind = "infisical"
  /\ vault' = Forgotten(vault)
  /\ UNCHANGED <<wire, ever, bootVars>>

ForgetSpec == MCInit /\ [][Next \/ Forget]_vars /\ Fairness
=============================================================================
