------------------------- MODULE MCVerifierService -------------------------
(* VerifierService on small instances.                                     *)
EXTENDS VerifierService

Symmetry == Permutations(Txns)
=============================================================================
