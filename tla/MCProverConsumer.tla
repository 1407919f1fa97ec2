-------------------------- MODULE MCProverConsumer --------------------------
(* ProverConsumer on small instances.                                      *)
EXTENDS ProverConsumer

Spec == ProverSpec
FairSpec == ProverFairSpec
=============================================================================
