-------------------------- MODULE CassandraLedger --------------------------
(***************************************************************************)
(* The durable tier, prover/cassandra_store.py: two query tables with the  *)
(* same columns and the one-row ledger_head pointer.  Every operator below *)
(* is one CQL statement as it lands in the cluster; a statement that       *)
(* raises changes nothing and is an action of the caller.  The tables      *)
(* outlive the prover; `available` belongs to the process and is decided   *)
(* once, when connect() has run out of retries or succeeded.               *)
(*                                                                         *)
(* A row stands for all its columns.  `bucket` is left out: every row of a *)
(* modelled history falls in the two day-partitions the reads scan.        *)
(***************************************************************************)
EXTENDS HashChain, FiniteSets

VARIABLES byBucket,    \* commitments_by_bucket: a set of rows
          byTxn,       \* commitments_by_txn: a set of rows
          ledgerHead,  \* ledger_head: [seq, hash]; (0, genesis) if absent
          available    \* CassandraLedger.available of the running process

ledgerVars == <<byBucket, byTxn, ledgerHead, available>>

Heads == [seq : Nat, hash : Hashes]

(* What an UPDATE leaves in commitments_by_txn when the transaction has no *)
(* row yet: CQL upserts, so all the other columns are null.                *)
StatusOnlyRows == [txn : Txns, status : Statuses]

LedgerTypeOK ==
  /\ byBucket \subseteq Records
  /\ byTxn \subseteq (Records \cup StatusOnlyRows)
  /\ ledgerHead \in Heads
  /\ available \in BOOLEAN

LedgerInit ==
  /\ byBucket = {}
  /\ byTxn = {}
  /\ ledgerHead = [seq |-> 0, hash |-> GenesisHash]

-----------------------------------------------------------------------------
(* mutant: timestamp_ns is not part of the clustering key                  *)
InsertByBucketAndTxn(row) ==
  byBucket' = {r \in byBucket : r.txn # row.txn} \cup {row}

(* INSERT into commitments_by_bucket: PRIMARY KEY (bucket, timestamp_ns,   *)
(* txn_id).                                                                *)
InsertByBucket(row) ==
  byBucket' = {r \in byBucket : ~(r.ts = row.ts /\ r.txn = row.txn)} \cup {row}

(* INSERT into commitments_by_txn: PRIMARY KEY txn_id.                     *)
InsertByTxn(row) ==
  byTxn' = {r \in byTxn : r.txn # row.txn} \cup {row}

(* UPDATE commitments_by_txn SET status: no other table is touched.        *)
UpdateStatus(txn, status) ==
  byTxn' = IF \E r \in byTxn : r.txn = txn
           THEN {IF r.txn = txn THEN [r EXCEPT !.status = status] ELSE r :
                   r \in byTxn}
           ELSE byTxn \cup {[txn |-> txn, status |-> status]}

(* mutants: the sequence of the record before, or its hash                 *)
UpdateHeadSeqBefore(seq, hash) ==
  ledgerHead' = [seq |-> seq - 1, hash |-> hash]
UpdateHeadPrevHash(seq, hash) ==
  ledgerHead' = [seq |-> seq, hash |-> SubSeq(hash, 1, Len(hash) - 1)]

(* UPDATE ledger_head: seq and chain_hash are written by one statement.    *)
UpdateHead(seq, hash) ==
  ledgerHead' = [seq |-> seq, hash |-> hash]

-----------------------------------------------------------------------------
(* The reads.  NewestFirst is the order of recent(): timestamp_ns          *)
(* descending.  Timestamps are unique (see README, "Abstractions").        *)
NewerThan(rows, r) == {q \in rows : q.ts > r.ts}

NewestFirst(rows, limit) ==
  LET shown == IF limit < Cardinality(rows) THEN limit ELSE Cardinality(rows)
  IN  [i \in 1 .. shown |->
         CHOOSE r \in rows : Cardinality(NewerThan(rows, r)) = i - 1]

Recent(limit) == NewestFirst(byBucket, limit)
=============================================================================
