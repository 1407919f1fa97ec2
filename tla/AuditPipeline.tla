---------------------------- MODULE AuditPipeline ----------------------------
(***************************************************************************)
(* The whole way of a transaction: raw topic, prover, committed topic,     *)
(* external verifier (tests/test_integration.py runs it without Kafka).    *)
(* The prover and the network are ProverConsumer's, with their crashes,    *)
(* shutdowns and faults; the verifier is ExternalVerifier's, reading the   *)
(* committed topic record by record.  What the verifier's own process adds *)
(* (redelivery, restarts, buffers) is VerifierService's.                   *)
(***************************************************************************)
EXTENDS ProverConsumer, ExternalVerifier

VARIABLE seen   \* how many records of the committed topic were verified

vars == <<proverVars, verifierVars, seen>>

Stream == topic["committed"]

(* CommitmentRecord.to_export_dict(), of the record with this chain hash.  *)
Envelope(chain) ==
  [txn |-> Last(chain).txn, ts |-> Last(chain).ts, seq |-> Len(chain),
   prev |-> Front(chain), chain |-> chain,
   status |-> IF raw[Last(chain).txn] = "quarantine" THEN "QUARANTINED"
              ELSE "VERIFIED"]

Init ==
  /\ ProverInit /\ VerifierInit
  /\ seen = 0

Prover == ProverNext /\ UNCHANGED <<verifierVars, seen>>

InstallKey ==
  /\ ~hasKey
  /\ SetPublicKey
  /\ UNCHANGED <<proverVars, seen>>

Audit ==
  /\ seen < Len(Stream)
  /\ seen' = seen + 1
  /\ VerifyEnvelope(Envelope(Stream[seen + 1]))
  /\ UNCHANGED proverVars

Next == Prover \/ InstallKey \/ Audit

Spec == Init /\ [][Next]_vars

FairSpec ==
  /\ Spec
  /\ ProverFairness
  /\ WF_vars(InstallKey) /\ WF_vars(Audit)

-----------------------------------------------------------------------------
(* What a verdict is worth: whatever the prover and the network went       *)
(* through, chain_broken and failed are 0 exactly as long as the records   *)
(* received are a contiguous stretch of one ledger chain, each once and in *)
(* order.  A record lost, duplicated or out of order is noticed with the   *)
(* next record received (verify.py:19-21, README.md:228).                  *)
Contiguous == \A k \in 2 .. seen : Front(Stream[k]) = Stream[k - 1]

CleanMeansContiguous ==
  (stats["chain_broken"] = 0 /\ stats["failed"] = 0) <=> Contiguous

(* No false alarm: as long as no prover has crashed or been shut down and  *)
(* the network keeps its promise, no record fails, whatever was rejected   *)
(* at ingress, abandoned, not saved, or committed again after an eviction  *)
(* from the group (tests/test_integration.py:90-98).                       *)
Undisturbed == crashes = 0 /\ stops = 0 /\ faults = 0

NoAlarmWithoutFault ==
  Undisturbed => stats["failed"] = 0 /\ stats["chain_broken"] = 0

(* Every accepted message is verified in the end, or something outside of  *)
(* the two programs failed: the network, an operator, or whoever writes    *)
(* the raw topic, with a value that is not JSON, or one that is not an     *)
(* object and has the rest of its batch abandoned.                         *)
EventuallyVerified ==
  <>(\/ ~Undisturbed \/ rejoins > 0 \/ Poisoned
     \/ stats["verified"]
          = Cardinality({i \in 1 .. Raw : Accepted(i)} \ abandoned))
=============================================================================
