---------------------------- MODULE MCVaultSession ----------------------------
(* VaultSession with enough exchanges for a bootstrap after a login that has   *)
(* expired once.                                                               *)
EXTENDS VaultSession

MCMaxCalls == 4
===============================================================================
