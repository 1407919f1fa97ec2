-------------------------- MODULE ExternalVerifier --------------------------
(***************************************************************************)
(* The stateful verifier of verifier/verify.py: one instance in the        *)
(* verifier process, fed by the consumer thread, its key installed by the  *)
(* key-fetch thread, its counters read by the API.                         *)
(*                                                                         *)
(* The records are those an honest prover published: the signature is the  *)
(* prover's, the binding hash recomputes, the parameters are the agreed    *)
(* ones and no amount is in the envelope.  Of the five checks only two can *)
(* then depend on the verifier's own state, and only they are modelled:    *)
(* SIGNATURE, which needs the key, and CHAIN_LINK, which needs the head.   *)
(***************************************************************************)
EXTENDS HashChain

VARIABLES hasKey,        \* _pubkey is set
          expectedPrev,  \* _expected_prev: {} (None) or {chain hash}
          stats          \* the counters of _stats that can move

verifierVars == <<hasKey, expectedPrev, stats>>

Counters == {"records", "verified", "failed", "signature_ok",
             "signature_unchecked", "chain_ok", "chain_broken"}

VerifierTypeOK ==
  /\ hasKey \in BOOLEAN
  /\ expectedPrev \in SUBSET Hashes
  /\ stats \in [Counters -> Nat]

NoStats == [c \in Counters |-> 0]

VerifierInit ==
  /\ hasKey = FALSE
  /\ expectedPrev = {}
  /\ stats = NoStats

-----------------------------------------------------------------------------
SetPublicKey ==
  /\ hasKey' = TRUE
  /\ UNCHANGED <<expectedPrev, stats>>

(* Before the first accepted record any predecessor will do.               *)
Follows(rec) == expectedPrev = {} \/ rec.prev \in expectedPrev

(* mutant: the hash recomputes, and the predecessor is not looked at       *)
ChainOkAlone(rec) == ~FailsRecompute(rec)

ChainOk(rec) == ~FailsRecompute(rec) /\ Follows(rec)

(* A missing key is a SKIP, and a SKIP does not fail the record.           *)
Bumped(rec) ==
  {"records",
   IF hasKey THEN "signature_ok" ELSE "signature_unchecked",
   IF ChainOk(rec) THEN "chain_ok" ELSE "chain_broken",
   IF ChainOk(rec) THEN "verified" ELSE "failed"}

(* The tracked head moves only past a record that is accepted.             *)
VerifyEnvelope(rec) ==
  /\ expectedPrev' = IF ChainOk(rec) THEN {rec.chain} ELSE expectedPrev
  /\ stats' = [c \in Counters |-> IF c \in Bumped(rec) THEN stats[c] + 1 ELSE stats[c]]
  /\ UNCHANGED hasKey
=============================================================================
