------------------------------ MODULE Disclosure ------------------------------
(***************************************************************************)
(* Selective disclosure: the prover commits to an amount and later hands   *)
(* over the opening of one commitment, which the verifier checks with the  *)
(* public keys it once fetched.  The keys of a prover come from the        *)
(* environment or are made up by each process, a verifier fetches them     *)
(* once in its life, and either process may be restarted in between.       *)
(*                                                                         *)
(* From prover/crypto/lwe.py (Lattice), the key loading of lwe.py and      *)
(* signature.py, the openings of prover/crypto/commitment.py, and the      *)
(* endpoints /keys, /audit/open, /verify and /verify/opening.  The records *)
(* travel on the committed topic; chain and delivery are the subject of    *)
(* AuditPipeline and VerifierService.                                      *)
(***************************************************************************)
EXTENDS Lattice, SequencesExt, Functions

CONSTANTS Txns,          \* the transaction identifiers
          Amounts,       \* the amounts that occur
          BufferSize,    \* RingBuffer maxlen (500)
          MaxPublished,  \* bound: commitments
          MaxRestarts    \* bound: restarts of the prover and the verifier

ASSUME AmountsAssumption == Amounts \subseteq Nat
ASSUME BufferAssumption == BufferSize \in Nat \ {0}
ASSUME BoundsAssumption == MaxPublished \in Nat /\ MaxRestarts \in Nat

VARIABLES amounts,    \* the amount of each transaction
          fromEnv,    \* which secrets the prover's environment provides
          durable,    \* does the prover have a ledger that outlives it?
          hasNumpy,      \* which of the two processes have NumPy
          life,       \* which prover process this is
          published,  \* the committed topic
          received,   \* how many of its records this verifier has received
          reports,    \* the outcome of SIGNATURE for each of them
          keys,       \* _prover_keys: {} or {what /keys answered}
          restarts    \* restarts so far (bounds the runs)

setting == <<amounts, fromEnv, durable, hasNumpy>>
vars == <<setting, life, published, received, reports, keys, restarts>>

Secrets == {"LWE_SEED_HEX", "ZEROAUDIT_MASTER_KEY", "SGX_SIGNING_KEY_B64"}
Lives == 0 .. MaxRestarts

-----------------------------------------------------------------------------
(* get_keypair, get_master_key and get_signing_key: which value process n  *)
(* has of a secret.                                                        *)
Secret(name, n) == IF name \in fromEnv THEN 0 ELSE n

LatticeSeed(n) == <<"lattice", Secret("LWE_SEED_HEX", n)>>

(* derive_randomness(): HMAC of the master key and the transaction.        *)
BlindingSeed(n, txn) == <<"blinding", Secret("ZEROAUDIT_MASTER_KEY", n), txn>>

LatticeSeeds == {<<"lattice", n>> : n \in Lives}
BlindingSeeds == {<<"blinding", n, txn>> : n \in Lives, txn \in Txns}

(* What a hash function returns is of its type.                            *)
ASSUME HashAssumption ==
  /\ \A seed \in LatticeSeeds \cup BlindingSeeds, nonce \in 0 .. 2 * K, c \in Exponents :
       Nibbles(seed, nonce, c) \in 0 .. 15
  /\ \A seed \in LatticeSeeds, i \in Rank, j \in Rank : Candidates(seed, i, j) \in Seq(Nat)

Keys == {PublicKey(np, seed) : np \in BOOLEAN, seed \in LatticeSeeds}

Recommit(np, key, amount, seed) ==
  CommitCore(np, GenMatrixA(key.seed), key.t, amount, seed)

(* open_commitment(), and verify() after it has derived the blinding: the  *)
(* commitment is computed again and compared; an amount that cannot be     *)
(* encoded opens nothing.                                                  *)
Openings ==
  {<<amount, seed, np, key, Recommit(np, key, amount, seed)>> :
     amount \in Domain, seed \in BlindingSeeds, np \in BOOLEAN, key \in Keys}

Opens(np, key, commitment, amount, seed) ==
  <<amount, seed, np, key, commitment>> \in Openings

(* public_keys(), the answer to GET /keys.                                 *)
PublicKeys(n) ==
  [lattice |-> PublicKey("prover" \in hasNumpy, LatticeSeed(n)),
   signing |-> Secret("SGX_SIGNING_KEY_B64", n)]

(* commit() and sign_commitment(), as far as an opening can tell.  The     *)
(* life is history.                                                        *)
Commitment(n, txn) ==
  [txn |-> txn,
   commitment |-> Recommit("prover" \in hasNumpy, PublicKeys(n).lattice,
                           amounts[txn], BlindingSeed(n, txn)),
   signer |-> Secret("SGX_SIGNING_KEY_B64", n),
   life |-> n]

TypeOK ==
  /\ amounts \in [Txns -> Amounts]
  /\ fromEnv \subseteq Secrets /\ durable \in BOOLEAN
  /\ hasNumpy \subseteq {"prover", "verifier"}
  /\ life \in Lives
  /\ published \in Seq([txn : Txns, commitment : {o[5] : o \in Openings},
                        signer : Lives, life : Lives])
  /\ received \in 0 .. Len(published)
  /\ reports \in [1 .. received -> {"PASS", "FAIL", "SKIP"}]
  /\ keys \subseteq [lattice : Keys, signing : Lives]
  /\ restarts \in 0 .. MaxRestarts

Init ==
  /\ amounts \in [Txns -> Amounts]
  /\ fromEnv \in SUBSET Secrets
  /\ durable \in BOOLEAN
  /\ hasNumpy \in SUBSET {"prover", "verifier"}
  /\ life = 0
  /\ published = << >> /\ received = 0 /\ reports = << >>
  /\ keys = {}
  /\ restarts = 0

-----------------------------------------------------------------------------
(* The prover.  commit() raises for an amount that cannot be encoded; a    *)
(* transaction that is delivered again is committed again.                 *)
Commit(txn) ==
  /\ Len(published) < MaxPublished
  /\ amounts[txn] \in Domain
  /\ published' = Append(published, Commitment(life, txn))
  /\ UNCHANGED <<setting, life, received, reports, keys, restarts>>

ProverRestart ==
  /\ restarts < MaxRestarts
  /\ restarts' = restarts + 1
  /\ life' = life + 1
  /\ UNCHANGED <<setting, published, received, reports, keys>>

-----------------------------------------------------------------------------
(* The verifier.                                                           *)
FetchKeys ==
  /\ keys = {}
  /\ keys' = {PublicKeys(life)}
  /\ UNCHANGED <<setting, life, published, received, reports, restarts>>

(* mutant: without a key there is nothing to object                        *)
SignatureStatusLenient(rec) ==
  IF \A k \in keys : k.signing = rec.signer THEN "PASS" ELSE "FAIL"

(* The SIGNATURE check of verify_envelope().                               *)
SignatureStatus(rec) ==
  IF keys = {} THEN "SKIP"
  ELSE IF \E k \in keys : k.signing = rec.signer THEN "PASS"
  ELSE "FAIL"

Receive ==
  /\ received < Len(published)
  /\ received' = received + 1
  /\ reports' = Append(reports, SignatureStatus(published[received + 1]))
  /\ UNCHANGED <<setting, life, published, keys, restarts>>

(* mutant: the reports outlive the records they are about                  *)
VerifierRestartKeepingReports ==
  /\ restarts < MaxRestarts
  /\ restarts' = restarts + 1
  /\ received' = 0
  /\ keys' = {}
  /\ UNCHANGED <<setting, life, published, reports>>

(* A new verifier has no keys and reads the topic from the beginning.      *)
VerifierRestart ==
  /\ restarts < MaxRestarts
  /\ restarts' = restarts + 1
  /\ received' = 0 /\ reports' = << >>
  /\ keys' = {}
  /\ UNCHANGED <<setting, life, published>>

Next ==
  \/ \E txn \in Txns : Commit(txn)
  \/ ProverRestart
  \/ FetchKeys \/ Receive \/ VerifierRestart

Spec == Init /\ [][Next]_vars

-----------------------------------------------------------------------------
(***************************************************************************)
(* The requests, which only read.                                          *)
(***************************************************************************)
Newest(recs, txn) == SelectLastInSeq(recs, LAMBDA rec : rec.txn = txn)

(* CommitmentStore.get(): the ring of this process, then the ledger, whose *)
(* row is the latest of its transaction.                                   *)
Stored(txn) ==
  LET i == Newest(published, txn)
  IN  {published[k] : k \in {j \in {i} \ {0} : durable \/ published[j].life = life}}

(* mutant: the master key is not kept, each call makes one up              *)
OpeningUncached(n, txn, amount) ==
  [txn |-> txn, amount |-> amount, seed |-> BlindingSeed(life + 1, txn)]

(* opening_for(), POST /audit/open: whoever asks names the amount.  Process*)
(* n answered while it ran, and the answer keeps.                          *)
OpeningFor(n, txn, amount) ==
  [txn |-> txn, amount |-> amount, seed |-> BlindingSeed(n, txn)]

(* verify_txn(), POST /verify: the prover recomputes the commitment.       *)
VerifyTxn(rec, amount) ==
  Opens("prover" \in hasNumpy, PublicKeys(life).lattice, rec.commitment, amount,
        BlindingSeed(life, rec.txn))

(* _find() in the buffer of the verifier.                                  *)
Buffer == SubSeq(published, IF received > BufferSize THEN received - BufferSize + 1
                            ELSE 1, received)

Found(txn) ==
  LET i == Newest(Buffer, txn) IN {Buffer[k] : k \in {i} \ {0}}

(* verify_opening(), POST /verify/opening, for a request of three fields:  *)
(* no answer (404, 503) without a record or without a key.                 *)
VerifyOpening(o) ==
  {Opens("verifier" \in hasNumpy, k.lattice, rec.commitment, o.amount, o.seed) :
     k \in keys, rec \in Found(o.txn)}

-----------------------------------------------------------------------------
(* What the security of the scheme adds to its arithmetic: commitments     *)
(* under different keys or blindings differ.  It says nothing of amounts.  *)
SeedsDoNotCollide ==
  \A np \in BOOLEAN, key, other \in Keys, seed, another \in BlindingSeeds,
     amount, stated \in Domain :
    Recommit(np, key, amount, seed) = Recommit(np, other, stated, another)
      => seed = another /\ key.seed = other.seed

(***************************************************************************)
(* Properties.                                                             *)
(***************************************************************************)
(* An honest opening is accepted exactly when the verifier's key and the   *)
(* blinding are those the commitment was made with, whichever of the two   *)
(* multiplications either side uses; with secrets from the environment,    *)
(* that is across every restart (lwe.py:38-42, 445-450, dashboard.py:      *)
(* 337-362, README.md:95-113, 199).                                        *)
HonestOpeningAccepted ==
  \A txn \in Txns, n \in 0 .. life : \A rec \in Found(txn), k \in keys :
    VerifyOpening(OpeningFor(n, txn, amounts[txn]))
      = {/\ BlindingSeed(n, txn) = BlindingSeed(rec.life, txn)
         /\ k.lattice.seed = LatticeSeed(rec.life)}

(* "A bank that misstates the amount cannot produce a blinding factor that *)
(* makes the recomputation match" (dashboard.py:343-344, lwe.py:22-27): an *)
(* opening that is accepted, with whatever blinding, states the amount     *)
(* that was committed.                                                     *)
AcceptedIsCommitted ==
  \A txn \in Txns, amount \in Amounts, seed \in BlindingSeeds :
    TRUE \in VerifyOpening([txn |-> txn, amount |-> amount, seed |-> seed])
      => amount = amounts[txn]

(* The bank's own trace and the auditor's verdict agree on every amount,   *)
(* when they look at the same commitment and the auditor's key is that of  *)
(* the running prover (lwe.py:390-441, commitment.py:306-320).             *)
TraceAgrees ==
  \A txn \in Txns, amount \in Amounts :
    \A rec \in Stored(txn), found \in Found(txn) :
      keys = {PublicKeys(life)} /\ rec.commitment = found.commitment
        => VerifyOpening(OpeningFor(life, txn, amount)) = {VerifyTxn(rec, amount)}

(* A signature that passed vouches for the opening too, when a process     *)
(* makes up all of its secrets or none: the keys were fetched in one       *)
(* answer, so the prover that committed the record can still open it       *)
(* (dashboard.py:131-139, commitment.py:296-304).                          *)
PassedCanBeOpened ==
  fromEnv \in {{}, Secrets} =>
    \A i \in 1 .. received :
      reports[i] = "PASS" /\ published[i] \in Found(published[i].txn) =>
        VerifyOpening(OpeningFor(published[i].life, published[i].txn,
                                 amounts[published[i].txn])) = {TRUE}
=============================================================================
