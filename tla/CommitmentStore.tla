-------------------------- MODULE CommitmentStore --------------------------
(***************************************************************************)
(* The prover's ledger: prover/crypto/commitment.py over the durable tier. *)
(*                                                                         *)
(* The ingest thread calls add() and is alone in doing so; other threads   *)
(* read, and may change a status.  add() holds the lock while it extends   *)
(* the chain in memory, then releases it and writes the two tables and the *)
(* head pointer one statement after the other, ignoring what they return.  *)
(* The process may die between any two of these steps; memory is lost and  *)
(* the next process resumes from ledger_head.                              *)
(***************************************************************************)
EXTENDS CassandraLedger, SequencesExt

CONSTANTS RingSize,        \* HOT_RING_SIZE
          LoadMayFail,     \* may load_head fail on a reachable cluster?
          ConnectMayFail,  \* may a process start without the cluster?
          MaxAdds,         \* bound: calls of add, over all lives
          MaxCrashes,      \* bound: deaths of the process
          MaxDecisions     \* bound: calls of _set_status, over all lives

ASSUME RingSizeAssumption == RingSize \in Nat \ {0}
ASSUME FailureAssumption == LoadMayFail \in BOOLEAN /\ ConnectMayFail \in BOOLEAN
ASSUME BoundsAssumption ==
  MaxAdds \in Nat /\ MaxCrashes \in Nat /\ MaxDecisions \in Nat

VARIABLES pc,         \* what the ingest thread does next, or "down"
          seq, head,  \* _seq, _head
          hot,        \* _hot, in the order of the OrderedDict
          total,      \* _total
          counts,     \* _counts
          pending,    \* {} or {the record add() is persisting}
          decision,   \* {} or {the _set_status call between lock and UPDATE}
          clock,      \* time.time_ns() of the latest commit
          crashes,    \* deaths so far (bounds the runs)
          decisions,  \* _set_status calls so far (bounds the runs)
          refused,    \* history: chain hashes whose by-bucket INSERT failed
          broken      \* history: some restart did not resume the head the
                      \*   previous process died with

memoryVars == <<seq, head, hot, total, counts>>
vars == <<ledgerVars, memoryVars, pc, pending, decision, clock, crashes,
          decisions, refused, broken>>

PCs == {"idle", "bucket", "txn", "head", "down"}

Decisions == [txn : Txns, status : Statuses]

TypeOK ==
  /\ LedgerTypeOK
  /\ pc \in PCs
  /\ seq \in Nat
  /\ head \in Hashes
  /\ hot \in Seq(Records) /\ Len(hot) <= RingSize
  /\ total \in Nat
  /\ counts \in [Statuses -> Nat]
  /\ pending \in SUBSET Records
  /\ decision \in SUBSET Decisions
  /\ clock \in Nat
  /\ crashes \in Nat
  /\ decisions \in Nat
  /\ refused \subseteq Hashes
  /\ broken \in BOOLEAN

-----------------------------------------------------------------------------
NoCounts == [s \in Statuses |-> 0]

Init ==
  /\ LedgerInit
  /\ available \in {TRUE} \cup {~ConnectMayFail}
  /\ pc = "idle"
  /\ seq = 0 /\ head = GenesisHash
  /\ hot = << >> /\ total = 0 /\ counts = NoCounts
  /\ pending = {} /\ decision = {}
  /\ clock = 0 /\ crashes = 0 /\ decisions = 0
  /\ refused = {} /\ broken = FALSE

-----------------------------------------------------------------------------
(* The hot ring: `_hot[txn_id] = record` keeps the position of a key that  *)
(* is already there; popitem(last=False) evicts the head of the order.     *)
HotPositions(txn) == {i \in DOMAIN hot : hot[i].txn = txn}

(* mutant: a key already in the ring is appended again                     *)
HotInsertTwice(record) == Append(hot, record)

HotInsert(record) ==
  IF HotPositions(record.txn) = {}
  THEN Append(hot, record)
  ELSE [i \in DOMAIN hot |-> IF hot[i].txn = record.txn THEN record ELSE hot[i]]

(* mutant: nothing is evicted                                              *)
EvictNothing(ring) == ring

Evict(ring) == IF Len(ring) > RingSize THEN Tail(ring) ELSE ring

NextRecord(txn, status) ==
  [txn |-> txn, ts |-> clock + 1, seq |-> seq + 1, prev |-> head,
   chain |-> ChainHash(head, txn, clock + 1), status |-> status]

(* add(), up to the release of the lock.                                   *)
Add(txn, status) ==
  /\ pc = "idle"
  /\ clock < MaxAdds
  /\ LET record == NextRecord(txn, status)
     IN  /\ head' = record.chain
         /\ seq' = record.seq
         /\ hot' = Evict(HotInsert(record))
         /\ pending' = {record}
  /\ total' = total + 1
  /\ counts' = [counts EXCEPT ![status] = @ + 1]
  /\ clock' = clock + 1
  /\ pc' = "bucket"
  /\ UNCHANGED <<ledgerVars, decision, crashes, decisions, refused, broken>>

-----------------------------------------------------------------------------
(* The rest of add(): write() and save_head().                             *)
WriteBucket ==
  /\ pc = "bucket" /\ available
  /\ \E row \in pending : InsertByBucket(row)
  /\ pc' = "txn"
  /\ UNCHANGED <<byTxn, ledgerHead, available, memoryVars, pending, decision,
                 clock, crashes, decisions, refused, broken>>

(* The first INSERT raises, after a timeout perhaps although it landed:    *)
(* the second is not tried, and write()'s False is ignored: save_head()    *)
(* follows all the same.                                                   *)
WriteBucketFails ==
  /\ pc = "bucket" /\ available
  /\ \/ \E row \in pending : InsertByBucket(row)
     \/ UNCHANGED byBucket
  /\ refused' = refused \cup {row.chain : row \in pending}
  /\ pc' = "head"
  /\ UNCHANGED <<byTxn, ledgerHead, available, memoryVars, pending, decision,
                 clock, crashes, decisions, broken>>

WriteTxn ==
  /\ pc = "txn"
  /\ \E row \in pending : InsertByTxn(row)
  /\ pc' = "head"
  /\ UNCHANGED <<byBucket, ledgerHead, available, memoryVars, pending, decision,
                 clock, crashes, decisions, refused, broken>>

WriteTxnFails ==
  /\ pc = "txn"
  /\ pc' = "head"
  /\ UNCHANGED <<ledgerVars, memoryVars, pending, decision, clock, crashes,
                 decisions, refused, broken>>

Returned ==
  /\ pc' = "idle"
  /\ pending' = {}

SaveHead ==
  /\ pc = "head"
  /\ \E row \in pending : UpdateHead(row.seq, row.chain)
  /\ Returned
  /\ UNCHANGED <<byBucket, byTxn, available, memoryVars, decision, clock,
                 crashes, decisions, refused, broken>>

SaveHeadFails ==
  /\ pc = "head"
  /\ Returned
  /\ UNCHANGED <<ledgerVars, memoryVars, decision, clock, crashes, decisions,
                 refused, broken>>

(* Memory-only mode: write() and save_head() return False at once.         *)
SkipPersistence ==
  /\ pc = "bucket" /\ ~available
  /\ Returned
  /\ UNCHANGED <<ledgerVars, memoryVars, decision, clock, crashes, decisions,
                 refused, broken>>

Persist ==
  \/ WriteBucket \/ WriteBucketFails \/ WriteTxn \/ WriteTxnFails
  \/ SaveHead \/ SaveHeadFails \/ SkipPersistence

-----------------------------------------------------------------------------
(* _set_status: the part under the lock, then the UPDATE outside it.  The  *)
(* record object is shared with add(), which exports it to a row only when *)
(* it calls write().                                                       *)
(* mutant: the old status is not counted down                              *)
NotDecremented(f, s) == f

Decremented(f, s) == [f EXCEPT ![s] = IF @ > 0 THEN @ - 1 ELSE 0]

SetStatus(txn, status) ==
  /\ pc # "down" /\ decision = {}
  /\ decisions < MaxDecisions
  /\ IF HotPositions(txn) # {}
     THEN \E i \in HotPositions(txn) :
            /\ hot' = [hot EXCEPT ![i].status = status]
            /\ counts' = [Decremented(counts, hot[i].status)
                            EXCEPT ![status] = @ + 1]
     ELSE UNCHANGED <<hot, counts>>
  /\ pending' = IF pc = "bucket"
                THEN {IF r.txn = txn THEN [r EXCEPT !.status = status] ELSE r :
                        r \in pending}
                ELSE pending
  /\ decision' = {[txn |-> txn, status |-> status]}
  /\ decisions' = decisions + 1
  /\ UNCHANGED <<ledgerVars, pc, seq, head, total, clock, crashes, refused,
                 broken>>

PersistStatus ==
  /\ pc # "down" /\ available
  /\ \E d \in decision : UpdateStatus(d.txn, d.status)
  /\ decision' = {}
  /\ UNCHANGED <<byBucket, ledgerHead, available, memoryVars, pc, pending, clock,
                 crashes, decisions, refused, broken>>

(* The UPDATE raises, or the tier is unavailable: set_status returns False.*)
PersistStatusFails ==
  /\ pc # "down" /\ decision # {}
  /\ decision' = {}
  /\ UNCHANGED <<ledgerVars, memoryVars, pc, pending, clock, crashes, decisions,
                 refused, broken>>

-----------------------------------------------------------------------------
(* The process dies.  What was in memory stays visible in the variables    *)
(* until Restart replaces it; nothing reads it meanwhile.                  *)
Crash ==
  /\ pc # "down"
  /\ crashes < MaxCrashes
  /\ pc' = "down"
  /\ crashes' = crashes + 1
  /\ pending' = {} /\ decision' = {}
  /\ UNCHANGED <<ledgerVars, memoryVars, clock, decisions, refused, broken>>

Fresh ==
  /\ pc = "down"
  /\ pc' = "idle"
  /\ hot' = << >> /\ total' = 0 /\ counts' = NoCounts
  /\ UNCHANGED <<pending, decision, byBucket, byTxn, ledgerHead, clock, crashes,
                 decisions, refused>>

(* mutant: the head row is read, and the chain starts at genesis anyway    *)
ResumeAtGenesis(point) ==
  /\ seq' = 0 /\ head' = GenesisHash
  /\ broken' = (broken \/ point.hash # head)

ResumeAt(point) ==
  /\ seq' = point.seq /\ head' = point.hash
  /\ broken' = (broken \/ point.hash # head)

Resume ==
  /\ Fresh
  /\ available' = TRUE
  /\ ResumeAt(ledgerHead)

(* load_head() catches its exception and returns None: genesis.            *)
ResumeForgets ==
  /\ LoadMayFail
  /\ Fresh
  /\ available' = TRUE
  /\ ResumeAt([seq |-> 0, hash |-> GenesisHash])

(* connect() gave up: memory-only for the whole life of the process.       *)
StartMemoryOnly ==
  /\ ConnectMayFail
  /\ Fresh
  /\ available' = FALSE
  /\ ResumeAt([seq |-> 0, hash |-> GenesisHash])

Restart == Resume \/ ResumeForgets \/ StartMemoryOnly

-----------------------------------------------------------------------------
(* The two sources of audit_export, and so of verify_chain: Recent when    *)
(* the tier answers with any row, else the ring by descending seq.         *)
HotRecords == {hot[i] : i \in DOMAIN hot}

HotExport(limit) ==
  LET shown == IF limit < Len(hot) THEN limit ELSE Len(hot)
  IN  [i \in 1 .. shown |->
         CHOOSE r \in HotRecords :
           Cardinality({q \in HotRecords : q.seq > r.seq}) = i - 1]

-----------------------------------------------------------------------------
Next ==
  \/ \E txn \in Txns, status \in {"VERIFIED", "QUARANTINED"} : Add(txn, status)
  \/ Persist
  \/ \E txn \in Txns, status \in Statuses \ {"PENDING"} : SetStatus(txn, status)
  \/ PersistStatus
  \/ PersistStatusFails
  \/ Crash
  \/ Restart

Spec == Init /\ [][Next]_vars

-----------------------------------------------------------------------------
(***************************************************************************)
(* Properties.                                                             *)
(***************************************************************************)

(* Every record the store ever keeps, in the ring, in a table or on its    *)
(* way there, is one whose chain hash recomputes from its own fields and   *)
(* whose seq counts the links behind it, whatever INSERT, save_head or     *)
(* load_head failed and however often the prover restarted: the seq and    *)
(* the hash that a restart resumes from belong together.                   *)
RecordsLinked ==
  /\ seq = Len(head)
  /\ ledgerHead.seq = Len(ledgerHead.hash)
  /\ \A r \in HotRecords \cup pending \cup byBucket \cup (byTxn \cap Records) :
       WellLinked(r)

(* save_head comes after write: whenever a process is started, each link   *)
(* of the head it resumes from has its row in commitments_by_bucket,       *)
(* unless the INSERT of that very row raised.                              *)
Stored == {r.chain : r \in byBucket} \cup refused

EveryLinkIn(hashes, hash) == \A n \in 1 .. Len(hash) : SubSeq(hash, 1, n) \in hashes

HeadNeverAheadOfLedger == EveryLinkIn(Stored, ledgerHead.hash)

(* Within one life the ring holds records of one chain, each at most once, *)
(* and the record that made the current head is among them.                *)
HotOnOneChain ==
  pc # "down" =>
    /\ \A r \in HotRecords : IsPrefix(r.chain, head)
    /\ \A i, j \in DOMAIN hot :
         i # j => hot[i].seq # hot[j].seq /\ hot[i].txn # hot[j].txn
    /\ total > 0 => \E r \in HotRecords : r.chain = head

(* The counters add up to the records committed in this life, through any  *)
(* sequence of commits, re-commits, evictions and status changes: the      *)
(* max(..., 0) of _set_status never has to hide a counter going negative.  *)
CountsConserved ==
  pc # "down" =>
    /\ counts["VERIFIED"] + counts["QUARANTINED"] + counts["REJECTED"]
         + counts["PENDING"] = total
    /\ \A s \in Statuses :
         counts[s] >= Cardinality({i \in DOMAIN hot : hot[i].status = s})

(* verify_chain raises no false alarm.  Over the durable tier, at any      *)
(* moment and for any limit, the chain is intact as long as no INSERT was  *)
(* refused and every restart resumed the head the process died with; over  *)
(* the ring, as long as no transaction was committed twice.                *)
NoRepeats(hash) ==
  \A i, j \in DOMAIN hash : i # j => hash[i].txn # hash[j].txn

NoFalseAlarm ==
  \A limit \in 1 .. MaxAdds :
    /\ ~broken /\ refused = {} => Intact(Recent(limit))
    /\ pc # "down" /\ NoRepeats(head) => Intact(HotExport(limit))

(* A head once saved is never forgotten: the durable head only moves       *)
(* forward along its own chain, across crashes and failed writes, as long  *)
(* as load_head succeeds.                                                  *)
DurableHeadOnlyExtends ==
  [][IsPrefix(ledgerHead.hash, ledgerHead.hash')]_vars

(* "a restarted prover resumes the chain instead of forking it"            *)
(* (cassandra_store.py:22-24): no two rows of the durable ledger are the   *)
(* same link of the chain.                                                 *)
NoFork ==
  \A r1, r2 \in byBucket : r1.seq = r2.seq => r1.chain = r2.chain

(* "re-delivering the same Kafka message rewrites identical column values  *)
(* rather than duplicating a row" (cassandra_store.py:26-28).              *)
RedeliveryRewrites ==
  \A r1, r2 \in byBucket : r1.txn = r2.txn => r1.ts = r2.ts

(* The chain of the store is a log with a stable prefix (DurableLog).      *)
Log == INSTANCE DurableLog WITH Entries <- [txn : Txns, ts : 1 .. MaxAdds],
                                log <- head, stable <- ledgerHead.hash

ImplementsDurableLog == Log!Spec
=============================================================================
