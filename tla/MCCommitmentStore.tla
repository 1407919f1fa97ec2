------------------------- MODULE MCCommitmentStore -------------------------
(* CommitmentStore on small instances.                                     *)
EXTENDS CommitmentStore

Symmetry == Permutations(Txns)
=============================================================================
