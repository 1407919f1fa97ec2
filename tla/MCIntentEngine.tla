--------------------------- MODULE MCIntentEngine ---------------------------
(* IntentEngine on small instances: transactions that differ in what the   *)
(* rules and the rounding tell apart.                                      *)
EXTENDS IntentEngine, TLC

Plain == [digit |-> 1, size |-> 0, near |-> FALSE, offhours |-> FALSE,
          distance |-> SafeHops, novelty |-> 0]

MCTxnKinds ==
  {Plain,
   [Plain EXCEPT !.distance = 2],
   [Plain EXCEPT !.distance = 3, !.novelty = 14999],
   [Plain EXCEPT !.novelty = 14999],
   [Plain EXCEPT !.novelty = 19000, !.digit = 0],
   [Plain EXCEPT !.digit = 9, !.size = 2, !.offhours = TRUE],
   [Plain EXCEPT !.near = TRUE, !.digit = 9, !.distance = 1]}

Symmetry == Permutations(Accounts)

Spec == IntentSpec
=============================================================================
