----------------------------- MODULE DurableLog -----------------------------
(***************************************************************************)
(* What the ledger of the prover promises, whatever it is made of: a log   *)
(* that is only ever appended to, of which a prefix is stable; the stable  *)
(* prefix catches up with the log in steps, and a restart cuts the log     *)
(* back to the stable prefix and to nothing shorter.  This is the claim of *)
(* prover/cassandra_store.py about ledger_head.                            *)
(***************************************************************************)
EXTENDS Sequences

CONSTANT Entries

VARIABLES log, stable

Init ==
  /\ log = << >>
  /\ stable = << >>

Write == \E e \in Entries : log' = Append(log, e) /\ UNCHANGED stable

Stabilise == stable' = log /\ UNCHANGED log

Recover == log' = stable /\ UNCHANGED stable

Next == Write \/ Stabilise \/ Recover

Spec == Init /\ [][Next]_<<log, stable>>
=============================================================================
