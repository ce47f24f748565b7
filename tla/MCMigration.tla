---------------------------- MODULE MCMigration ----------------------------
(* Small instances of Migration for TLC. *)
EXTENDS Migration

CONSTANTS p1, m1, m2, a1, a2, k1, k2

\* Everything is configured with a1; a vault may hold a keypair of another suite.
MCAlgo  == [p \in Instances |-> a1]
MCMAlgo == [m \in Migrators |-> a1]

\* The source holds k1, if anything; the target may hold the same or another.
MCInit ==
  /\ MInit
  /\ src.bundle # NoBundle => src.bundle.pair = k1
  /\ vault.bundle # NoBundle => vault.bundle.pair \in {k1, k2}

MCSpec == MCInit /\ [][MNext]_allVars /\ MFairness
=============================================================================
