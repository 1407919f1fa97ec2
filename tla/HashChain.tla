----------------------------- MODULE HashChain -----------------------------
(***************************************************************************)
(* The ledger hash chain of prover/crypto/commitment.py and the walk that  *)
(* checks it, which the prover (CommitmentStore.verify_chain) and the      *)
(* verifier's dashboard (chain_verify) both run.                           *)
(*                                                                         *)
(* SHA3-256 is taken to be collision free, so a chain hash IS the history  *)
(* it commits to: the sequence of the links hashed so far.  Two hashes are *)
(* equal exactly when they commit to the same history, and the length of a *)
(* hash is the number of links behind it.                                  *)
(*                                                                         *)
(* binding_hash is a function of the transaction and its amount, and a     *)
(* transaction has one amount, so a link names the transaction only.       *)
(***************************************************************************)
EXTENDS Integers, Sequences

CONSTANT Txns   \* the transaction identifiers

(* The values of CommitmentRecord.status.                                  *)
Statuses == {"VERIFIED", "QUARANTINED", "REJECTED", "PENDING"}

Links == [txn : Txns, ts : Nat]

Hashes == Seq(Links)

GenesisHash == << >>

ChainHash(prev, txn, ts) == Append(prev, [txn |-> txn, ts |-> ts])

(***************************************************************************)
(* The fields of a CommitmentRecord that the checks read: the commitment,  *)
(* the signature and the scores never change after the record is built and *)
(* stand or fall with its chain hash.                                      *)
(***************************************************************************)
Records == [txn : Txns, ts : Nat, seq : Nat, prev : Hashes, chain : Hashes,
            status : Statuses]

WellLinked(r) ==
  /\ r.chain = ChainHash(r.prev, r.txn, r.ts)
  /\ r.seq = Len(r.chain)

(***************************************************************************)
(* The walk over an export, a sequence of records in the order the store   *)
(* or the buffer returned them.  The code sorts by seq, and Python's sort  *)
(* is stable, so records of equal seq stay in the order of the export.     *)
(***************************************************************************)
WalkedBefore(recs, i, j) ==
  \/ recs[i].seq < recs[j].seq
  \/ recs[i].seq = recs[j].seq /\ i < j

IsPredecessor(recs, i, j) ==
  /\ WalkedBefore(recs, i, j)
  /\ \A k \in DOMAIN recs :
       WalkedBefore(recs, k, j) => k = i \/ WalkedBefore(recs, k, i)

FailsRecompute(r) == r.chain # ChainHash(r.prev, r.txn, r.ts)

(* The first record of the walk is its own reference: prev_hash and        *)
(* prev_seq are initialised from it.                                       *)
ChainBreaks(recs) ==
  {<<recs[j].seq, "CHAIN_HASH_RECOMPUTE_MISMATCH">> :
      j \in {n \in DOMAIN recs : FailsRecompute(recs[n])}}
  \cup
  {<<recs[j].seq, "PREV_HASH_MISMATCH">> :
      j \in {n \in DOMAIN recs : \E i \in DOMAIN recs :
               IsPredecessor(recs, i, n) /\ recs[n].prev # recs[i].chain}}
  \cup
  {<<recs[j].seq, "SEQUENCE_GAP">> :
      j \in {n \in DOMAIN recs : \E i \in DOMAIN recs :
               IsPredecessor(recs, i, n) /\ recs[n].seq # recs[i].seq + 1}}

Intact(recs) == ChainBreaks(recs) = {}
=============================================================================
