---------------------------- MODULE MCVerifierApi ----------------------------
(* VerifierApi on small instances.                                         *)
EXTENDS VerifierApi

Symmetry == Permutations(Txns)
=============================================================================
