---------------------------- MODULE MCDisclosure ----------------------------
(* Disclosure on small instances: a ring of degree 2 and rank 2, and hash  *)
(* functions that scatter their arguments.                                 *)
EXTENDS Disclosure

Weight(seed) ==
  IF seed[1] = "lattice" THEN 5 * seed[2] + 1
  ELSE 7 * seed[2] + 11 * seed[3] + 3

MCNibbles(seed, nonce, c) ==
  (Weight(seed) * (3 * nonce + 5 * c + 7) + nonce * nonce + 2 * c) % 16

MCCandidates(seed, i, j) ==
  [n \in 1 .. 3 |-> (Weight(seed) * (5 * i + 3 * j + 2 * n) + 9 * i * n + 4 * j) % 32]

(* The instance is one the theorems about accepted openings are about.     *)
ASSUME SeedsAssumption == SeedsDoNotCollide
=============================================================================
