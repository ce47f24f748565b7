---------------------------- MODULE WriteOnceKey ----------------------------
(***************************************************************************)
(* What the gateway promises about its master keypair, whatever the vault: *)
(* the vault is given a keypair at most once, it is never given another,   *)
(* and an instance serves no other keypair than that one.                  *)
(* Bootstrap implements this specification.                                *)
(***************************************************************************)
CONSTANTS Instances, Pairs, NoPair

VARIABLES chosen,  \* the keypair of the vault, or NoPair
          serves   \* serves[i]: the keypair instance i serves, or NoPair

vars == <<chosen, serves>>

TypeOK ==
  /\ chosen \in Pairs \cup {NoPair}
  /\ serves \in [Instances -> Pairs \cup {NoPair}]

Init ==
  /\ chosen \in Pairs \cup {NoPair}
  /\ serves = [i \in Instances |-> NoPair]

Choose ==
  /\ chosen = NoPair
  /\ chosen' \in Pairs
  /\ UNCHANGED serves

Serve(i) ==
  /\ chosen # NoPair
  /\ serves[i] = NoPair
  /\ serves' = [serves EXCEPT ![i] = chosen]
  /\ UNCHANGED chosen

Stop(i) ==
  /\ serves[i] # NoPair
  /\ serves' = [serves EXCEPT ![i] = NoPair]
  /\ UNCHANGED chosen

Next == Choose \/ \E i \in Instances : Serve(i) \/ Stop(i)

Spec == Init /\ [][Next]_vars
=============================================================================
