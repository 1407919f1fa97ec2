----------------------- MODULE CommitmentStore_proofs -----------------------
(***************************************************************************)
(* Proofs about CommitmentStore, for every set of transactions, ring size, *)
(* number of commits, crashes and status changes.                          *)
(***************************************************************************)
EXTENDS CommitmentStore, SequenceTheorems, FunctionTheorems, FiniteSetTheorems,
        TLAPS

-----------------------------------------------------------------------------
(* The inductive invariant.  Persisting ties the record add() is writing   *)
(* to the head it has just made.  Coverage says how far the rows reach:    *)
(* to the head itself, except between the lock and the first INSERT; that  *)
(* INSERT overwrites no row because its timestamp is new.                  *)
InAdd == pc \in {"bucket", "txn", "head"}

Persisting ==
  /\ ~InAdd => pending = {}
  /\ InAdd => \E r \in pending :
       /\ pending = {r}
       /\ r.chain = head /\ r.seq = seq /\ r.ts = clock
  /\ pc \in {"txn", "head"} => available

Coverage ==
  /\ \A r \in byBucket : r.ts <= clock /\ (pc = "bucket" => r.ts < clock)
  /\ HeadNeverAheadOfLedger
  /\ available /\ pc \in {"idle", "txn", "head"} => EveryLinkIn(Stored, head)
  /\ available /\ pc = "bucket" =>
       \A r \in pending : EveryLinkIn(Stored, r.prev)

-----------------------------------------------------------------------------
(* A record and a row that only an UPDATE made have different columns.     *)
LEMMA StatusOnlyIsNoRecord ==
  ASSUME NEW r \in StatusOnlyRows
  PROVE  r \notin Records /\ \A s : [r EXCEPT !.status = s] \notin Records
<1>1. DOMAIN r = {"txn", "status"}
  BY DEF StatusOnlyRows
<1>2. "chain" \notin DOMAIN r
  BY <1>1
<1>3. \A q \in Records : "chain" \in DOMAIN q
  BY DEF Records
<1>4. \A s : DOMAIN [r EXCEPT !.status = s] = DOMAIN r
  OBVIOUS
<1> QED BY <1>2, <1>3, <1>4

(* Changing the status of a record leaves the rest of it alone.            *)
LEMMA StatusChange ==
  ASSUME NEW r \in Records, NEW s \in Statuses
  PROVE  LET q == [r EXCEPT !.status = s]
         IN  /\ q \in Records
             /\ q.txn = r.txn /\ q.ts = r.ts /\ q.seq = r.seq
             /\ q.prev = r.prev /\ q.chain = r.chain
BY DEF Records

(* One more link: Append is the chain hash.                                *)
LEMMA ChainHashIsLonger ==
  ASSUME NEW h \in Hashes, NEW t \in Txns, NEW n \in Nat
  PROVE  /\ ChainHash(h, t, n) \in Hashes
         /\ Len(ChainHash(h, t, n)) = Len(h) + 1
BY DEF ChainHash, Hashes, Links

(* The record add() builds is a record and is well linked.                 *)
LEMMA NextRecordIsLinked ==
  ASSUME TypeOK, seq = Len(head), NEW t \in Txns, NEW s \in Statuses
  PROVE  NextRecord(t, s) \in Records /\ WellLinked(NextRecord(t, s))
<1>1. clock + 1 \in Nat /\ seq + 1 \in Nat /\ head \in Hashes
  BY DEF TypeOK
<1>2. ChainHash(head, t, clock + 1) \in Hashes
      /\ Len(ChainHash(head, t, clock + 1)) = Len(head) + 1
  BY <1>1, ChainHashIsLonger
<1> QED BY <1>1, <1>2 DEF NextRecord, Records, WellLinked

(* What enters the ring: the ring stays within RingSize, and everything in *)
(* it is the new record or was there before.                               *)
LEMMA HotStep ==
  ASSUME TypeOK, NEW rec \in Records
  PROVE  LET ring == Evict(HotInsert(rec))
         IN  /\ ring \in Seq(Records)
             /\ Len(ring) <= RingSize
             /\ \A i \in DOMAIN ring :
                  ring[i] = rec \/ \E j \in DOMAIN hot : ring[i] = hot[j]
<1> DEFINE ins == HotInsert(rec)
<1>1. hot \in Seq(Records) /\ Len(hot) \in Nat /\ Len(hot) <= RingSize
      /\ DOMAIN hot = 1 .. Len(hot)
  BY DEF TypeOK
<1>2. /\ ins \in Seq(Records)
      /\ Len(ins) <= RingSize + 1
      /\ \A i \in 1 .. Len(ins) :
           ins[i] = rec \/ \E j \in DOMAIN hot : ins[i] = hot[j]
  <2>1. CASE HotPositions(rec.txn) = {}
    <3>1. ins = Append(hot, rec)
      BY <2>1 DEF HotInsert
    <3> QED BY <1>1, <3>1, AppendProperties, RingSizeAssumption
  <2>2. CASE HotPositions(rec.txn) # {}
    <3>1. ins = [i \in 1 .. Len(hot) |->
                   IF hot[i].txn = rec.txn THEN rec ELSE hot[i]]
      BY <1>1, <2>2 DEF HotInsert
    <3>2. \A i \in 1 .. Len(hot) : hot[i] \in Records
      BY <1>1, ElementOfSeq
    <3>3. ins \in [1 .. Len(hot) -> Records]
      BY <3>1, <3>2
    <3>4. ins \in Seq(Records)
      BY <1>1, <3>3, SeqDef
    <3>5. Len(ins) = Len(hot)
      BY <1>1, <3>3, <3>4, LenProperties
    <3> QED BY <1>1, <3>1, <3>4, <3>5, RingSizeAssumption
  <2> QED BY <2>1, <2>2
<1>3. CASE Len(ins) > RingSize
  <2>1. Evict(ins) = Tail(ins)
    BY <1>3 DEF Evict
  <2>2. ins # << >>
    BY <1>2, <1>3, RingSizeAssumption
  <2>3. /\ Tail(ins) \in Seq(Records)
        /\ Len(Tail(ins)) = Len(ins) - 1
        /\ \A i \in 1 .. Len(Tail(ins)) : Tail(ins)[i] = ins[i + 1]
    BY <1>2, <2>2, HeadTailProperties
  <2>4. Len(ins) \in Nat /\ DOMAIN Tail(ins) = 1 .. Len(Tail(ins))
    BY <1>2, <2>3, LenProperties
  <2>5. \A i \in DOMAIN Tail(ins) : i + 1 \in 1 .. Len(ins)
    BY <2>3, <2>4
  <2>6. Len(Tail(ins)) <= RingSize
    BY <1>2, <2>3, <2>4, RingSizeAssumption
  <2> HIDE DEF ins
  <2>7. \A i \in DOMAIN Tail(ins) :
          Tail(ins)[i] = rec \/ \E j \in DOMAIN hot : Tail(ins)[i] = hot[j]
    BY <1>2, <2>3, <2>4, <2>5
  <2> QED BY <2>1, <2>3, <2>6, <2>7 DEF ins
<1>4. CASE ~(Len(ins) > RingSize)
  <2>1. Evict(ins) = ins
    BY <1>4 DEF Evict
  <2>2. Len(ins) \in Nat /\ DOMAIN ins = 1 .. Len(ins)
    BY <1>2, LenProperties
  <2> QED BY <1>2, <1>4, <2>1, <2>2, RingSizeAssumption
<1> QED BY <1>3, <1>4

-----------------------------------------------------------------------------
(* Type correctness, action by action.  Nothing has happened yet: the      *)
(* tables, the ring and the counters are empty.                            *)
LEMMA TypeInit == Init => TypeOK
<1> SUFFICES ASSUME Init PROVE TypeOK
  OBVIOUS
<1>1. << >> \in Hashes /\ << >> \in Seq(Records) /\ Len(<< >>) = 0
  BY EmptySeq DEF Hashes
<1>2. LedgerTypeOK
  BY <1>1, FailureAssumption DEF Init, LedgerInit, LedgerTypeOK, Heads, GenesisHash
<1>3. counts \in [Statuses -> Nat]
  BY DEF Init, NoCounts
<1>4. pc \in PCs /\ broken \in BOOLEAN
  BY DEF Init, PCs
<1>5. hot \in Seq(Records) /\ Len(hot) <= RingSize
  BY <1>1, RingSizeAssumption DEF Init
<1>6. /\ seq \in Nat /\ head \in Hashes /\ total \in Nat /\ clock \in Nat
      /\ crashes \in Nat /\ decisions \in Nat
  BY <1>1 DEF Init, GenesisHash
<1>7. pending \in SUBSET Records /\ decision \in SUBSET Decisions
      /\ refused \subseteq Hashes
  BY DEF Init
<1> QED BY <1>2, <1>3, <1>4, <1>5, <1>6, <1>7 DEF TypeOK

(* add() under the lock: a new record, and a ring no longer than RingSize. *)
LEMMA TypeAdd ==
  ASSUME TypeOK, seq = Len(head), NEW t \in Txns, NEW s \in Statuses, Add(t, s)
  PROVE  TypeOK'
<1> DEFINE rec == NextRecord(t, s)
<1>1. rec \in Records
  BY NextRecordIsLinked
<1>2. rec.chain \in Hashes /\ rec.seq \in Nat
  BY <1>1 DEF Records
<1>3. hot' \in Seq(Records) /\ Len(hot') <= RingSize
  BY <1>1, HotStep DEF Add
<1>4. counts' \in [Statuses -> Nat]
  BY DEF Add, TypeOK
<1>5. LedgerTypeOK'
  BY DEF Add, TypeOK, LedgerTypeOK, ledgerVars
<1> HIDE DEF rec
<1>6. head' = rec.chain /\ seq' = rec.seq /\ pending' = {rec}
  BY DEF Add, rec
<1>7. pc' \in PCs /\ total' \in Nat /\ clock' \in Nat
  BY DEF Add, TypeOK, PCs
<1>8. /\ decision' \in SUBSET Decisions /\ crashes' \in Nat /\ decisions' \in Nat
      /\ refused' \subseteq Hashes /\ broken' \in BOOLEAN
  BY DEF Add, TypeOK
<1> QED BY <1>1, <1>2, <1>3, <1>4, <1>5, <1>6, <1>7, <1>8 DEF TypeOK

(* write() and save_head(): rows keep their columns, landed or refused.    *)
LEMMA TypePersist ==
  ASSUME TypeOK, Persist
  PROVE  TypeOK'
<1>1. CASE WriteBucket
  BY <1>1 DEF WriteBucket, InsertByBucket, TypeOK, LedgerTypeOK, memoryVars, PCs
<1>2. CASE WriteBucketFails
  <2>1. \A r \in pending : r.chain \in Hashes
    BY DEF TypeOK, Records
  <2>2. refused' \subseteq Hashes
    BY <1>2, <2>1 DEF WriteBucketFails, TypeOK
  <2> QED BY <1>2, <2>2 DEF WriteBucketFails, InsertByBucket, TypeOK, LedgerTypeOK,
                            memoryVars, PCs
<1>3. CASE WriteTxn
  BY <1>3 DEF WriteTxn, InsertByTxn, TypeOK, LedgerTypeOK, memoryVars, PCs
<1>4. CASE WriteTxnFails
  BY <1>4 DEF WriteTxnFails, TypeOK, LedgerTypeOK, ledgerVars, memoryVars, PCs
<1>5. CASE SaveHead
  <2>1. \A r \in pending : r.chain \in Hashes /\ r.seq \in Nat
    BY DEF TypeOK, Records
  <2>2. ledgerHead' \in Heads
    BY <1>5, <2>1 DEF SaveHead, UpdateHead, Heads
  <2> QED BY <1>5, <2>2 DEF SaveHead, Returned, TypeOK, LedgerTypeOK, memoryVars, PCs
<1>6. CASE SaveHeadFails
  BY <1>6 DEF SaveHeadFails, Returned, TypeOK, LedgerTypeOK, ledgerVars, memoryVars, PCs
<1>7. CASE SkipPersistence
  BY <1>7 DEF SkipPersistence, Returned, TypeOK, LedgerTypeOK, ledgerVars, memoryVars, PCs
<1> QED BY <1>1, <1>2, <1>3, <1>4, <1>5, <1>6, <1>7 DEF Persist

(* max(count - 1, 0) is a natural number.                                  *)
LEMMA DecrementedType ==
  ASSUME NEW f \in [Statuses -> Nat], NEW s \in Statuses
  PROVE  Decremented(f, s) \in [Statuses -> Nat]
<1>1. (IF f[s] > 0 THEN f[s] - 1 ELSE 0) \in Nat
  OBVIOUS
<1> QED BY <1>1 DEF Decremented

(* A status change rewrites one field of one record of the ring.           *)
LEMMA HotStatus ==
  ASSUME TypeOK, NEW t \in Txns, NEW s \in Statuses, SetStatus(t, s)
  PROVE  /\ hot' \in Seq(Records) /\ Len(hot') = Len(hot)
         /\ DOMAIN hot' = DOMAIN hot
         /\ \A i \in DOMAIN hot :
              hot'[i] = hot[i] \/ hot'[i] = [hot[i] EXCEPT !.status = s]
         /\ counts' \in [Statuses -> Nat]
<1>1. hot \in Seq(Records) /\ counts \in [Statuses -> Nat]
      /\ DOMAIN hot = 1 .. Len(hot)
  BY DEF TypeOK
<1>2. CASE HotPositions(t) = {}
  BY <1>1, <1>2 DEF SetStatus
<1>3. CASE HotPositions(t) # {}
  <2>1. PICK i \in HotPositions(t) :
          /\ hot' = [hot EXCEPT ![i].status = s]
          /\ counts' = [Decremented(counts, hot[i].status) EXCEPT ![s] = @ + 1]
    BY <1>3 DEF SetStatus
  <2>2. i \in 1 .. Len(hot) /\ hot[i] \in Records
    BY <1>1, ElementOfSeq DEF HotPositions
  <2> DEFINE q == [hot[i] EXCEPT !.status = s]
  <2>3. q \in Records
    BY <2>2, StatusChange
  <2>4. hot' = [hot EXCEPT ![i] = q]
    BY <2>1
  <2> HIDE DEF q
  <2>5. /\ hot' \in Seq(Records) /\ Len(hot') = Len(hot)
        /\ \A j \in 1 .. Len(hot) : hot'[j] = IF j = i THEN q ELSE hot[j]
    BY <1>1, <2>2, <2>3, <2>4, ExceptSeq
  <2>6. DOMAIN hot' = 1 .. Len(hot)
    BY <2>5, LenProperties
  <2>7. counts' \in [Statuses -> Nat]
    <3>1. Decremented(counts, hot[i].status) \in [Statuses -> Nat]
      BY <1>1, <2>2, DecrementedType DEF Records
    <3> QED BY <2>1, <3>1
  <2> QED BY <1>1, <2>5, <2>6, <2>7 DEF q
<1> QED BY <1>2, <1>3

(* _set_status under the lock: the ring, the counters and the record that  *)
(* add() may be holding.                                                   *)
LEMMA TypeSetStatus ==
  ASSUME TypeOK, NEW t \in Txns, NEW s \in Statuses, SetStatus(t, s)
  PROVE  TypeOK'
<1>1. hot' \in Seq(Records) /\ Len(hot') = Len(hot) /\ counts' \in [Statuses -> Nat]
  BY HotStatus
<1>2. pending' \subseteq Records
  BY StatusChange DEF SetStatus, TypeOK
<1>3. decision' \subseteq Decisions
  BY DEF SetStatus, Decisions
<1> QED BY <1>1, <1>2, <1>3 DEF SetStatus, TypeOK, LedgerTypeOK, ledgerVars, PCs

(* The UPDATE of a status: on a row that exists, or creating one.          *)
LEMMA TypePersistStatus ==
  ASSUME TypeOK, PersistStatus \/ PersistStatusFails
  PROVE  TypeOK'
<1>1. CASE PersistStatus
  <2>1. PICK d \in decision : UpdateStatus(d.txn, d.status)
    BY <1>1 DEF PersistStatus
  <2>2. d.txn \in Txns /\ d.status \in Statuses
    BY DEF TypeOK, Decisions
  <2>3. \A r \in byTxn : [r EXCEPT !.status = d.status]
                          \in Records \cup StatusOnlyRows
    <3> TAKE r \in byTxn
    <3>1. CASE r \in Records
      BY <2>2, <3>1, StatusChange
    <3>2. CASE r \in StatusOnlyRows
      BY <2>2, <3>2 DEF StatusOnlyRows
    <3> QED BY <3>1, <3>2 DEF TypeOK, LedgerTypeOK
  <2>4. byTxn' \subseteq Records \cup StatusOnlyRows
    BY <2>1, <2>2, <2>3 DEF UpdateStatus, TypeOK, LedgerTypeOK, StatusOnlyRows
  <2> QED BY <1>1, <2>4 DEF PersistStatus, TypeOK, LedgerTypeOK, memoryVars
<1>2. CASE PersistStatusFails
  BY <1>2 DEF PersistStatusFails, TypeOK, LedgerTypeOK, ledgerVars, memoryVars
<1> QED BY <1>1, <1>2

(* A crash only forgets.                                                   *)
LEMMA TypeCrash ==
  ASSUME TypeOK, Crash
  PROVE  TypeOK'
BY DEF Crash, TypeOK, LedgerTypeOK, ledgerVars, memoryVars, PCs

(* A restart resumes a head of the right type, saved or genesis.           *)
LEMMA TypeRestart ==
  ASSUME TypeOK, Restart
  PROVE  TypeOK'
<1>1. << >> \in Hashes /\ << >> \in Seq(Records) /\ Len(<< >>) = 0
  BY EmptySeq DEF Hashes
<1>2. ledgerHead.seq \in Nat /\ ledgerHead.hash \in Hashes
  BY DEF TypeOK, LedgerTypeOK, Heads
<1>3. available' \in BOOLEAN /\ seq' \in Nat /\ head' \in Hashes
      /\ broken' \in BOOLEAN /\ Fresh
  <2>1. CASE Resume
    BY <1>2, <2>1 DEF Resume, ResumeAt, TypeOK
  <2>2. CASE ResumeForgets
    BY <1>1, <2>2 DEF ResumeForgets, ResumeAt, GenesisHash, TypeOK
  <2>3. CASE StartMemoryOnly
    BY <1>1, <2>3 DEF StartMemoryOnly, ResumeAt, GenesisHash, TypeOK
  <2> QED BY <2>1, <2>2, <2>3 DEF Restart
<1>4. counts' \in [Statuses -> Nat]
  BY <1>3 DEF Fresh, NoCounts
<1> QED BY <1>1, <1>3, <1>4, RingSizeAssumption DEF Fresh, TypeOK, LedgerTypeOK, PCs

(* All the actions together; Add relies on seq = Len(head).                *)
LEMMA TypeNext ==
  ASSUME TypeOK, seq = Len(head), [Next]_vars
  PROVE  TypeOK'
<1>1. CASE \E t \in Txns, s \in {"VERIFIED", "QUARANTINED"} : Add(t, s)
  BY <1>1, TypeAdd DEF Statuses
<1>2. CASE Persist
  BY <1>2, TypePersist
<1>3. CASE \E t \in Txns, s \in Statuses \ {"PENDING"} : SetStatus(t, s)
  BY <1>3, TypeSetStatus
<1>4. CASE PersistStatus \/ PersistStatusFails
  BY <1>4, TypePersistStatus
<1>5. CASE Crash
  BY <1>5, TypeCrash
<1>6. CASE Restart
  BY <1>6, TypeRestart
<1>7. CASE UNCHANGED vars
  BY <1>7 DEF vars, ledgerVars, memoryVars, TypeOK, LedgerTypeOK
<1> QED BY <1>1, <1>2, <1>3, <1>4, <1>5, <1>6, <1>7 DEF Next

-----------------------------------------------------------------------------
Inv == TypeOK /\ RecordsLinked /\ Persisting /\ Coverage

(* The chains of a set of rows may grow without losing a link.             *)
LEMMA LinksStayStored ==
  ASSUME NEW S, NEW T, S \subseteq T, NEW h, EveryLinkIn(S, h)
  PROVE  EveryLinkIn(T, h)
BY DEF EveryLinkIn

(* Storing the newest link completes the chain of its predecessor.         *)
LEMMA LinkAdded ==
  ASSUME NEW h \in Hashes, NEW t \in Txns, NEW n \in Nat, NEW S,
         EveryLinkIn(S, h), ChainHash(h, t, n) \in S
  PROVE  EveryLinkIn(S, ChainHash(h, t, n))
<1> DEFINE c == ChainHash(h, t, n)
<1>1. c \in Seq(Links) /\ Len(c) = Len(h) + 1 /\ h \in Seq(Links) /\ Len(h) \in Nat
  BY ChainHashIsLonger, LenProperties DEF Hashes
<1>2. SubSeq(c, 1, Len(c)) = c
  BY <1>1, SubSeqFull
<1>3. ASSUME NEW k \in 1 .. Len(h) PROVE SubSeq(c, 1, k) = SubSeq(h, 1, k)
  <2>1. \A i \in 1 .. Len(h) : c[i] = h[i]
    BY <1>1, AppendProperties DEF ChainHash, Links
  <2>2. /\ \A i \in 1 .. k : c[i] \in Links
        /\ \A i \in 1 .. k : h[i] \in Links
    BY <1>1, <1>3, ElementOfSeq
  <2> HIDE DEF c
  <2>3. /\ SubSeq(c, 1, k) \in Seq(Links) /\ Len(SubSeq(c, 1, k)) = k
        /\ \A i \in 1 .. k : SubSeq(c, 1, k)[i] = c[i]
    BY <1>1, <2>2, SubSeqProperties
  <2>4. /\ SubSeq(h, 1, k) \in Seq(Links) /\ Len(SubSeq(h, 1, k)) = k
        /\ \A i \in 1 .. k : SubSeq(h, 1, k)[i] = h[i]
    BY <1>1, <2>2, SubSeqProperties
  <2> QED BY <1>1, <2>1, <2>3, <2>4, SeqEqual
<1> HIDE DEF c
<1>4. ASSUME NEW k \in 1 .. Len(c) PROVE SubSeq(c, 1, k) \in S
  <2>1. CASE k = Len(c)
    BY <1>2, <2>1 DEF c
  <2>2. CASE k # Len(c)
    <3>1. k \in 1 .. Len(h)
      BY <1>1, <2>2
    <3>2. SubSeq(h, 1, k) \in S
      BY <3>1 DEF EveryLinkIn
    <3> QED BY <1>3, <3>1, <3>2
  <2> QED BY <2>1, <2>2
<1> QED BY <1>4 DEF EveryLinkIn, c

(* At first the head is genesis, which has no links to store.              *)
LEMMA InvInit == Init => Inv
<1> SUFFICES ASSUME Init PROVE Inv
  OBVIOUS
<1>1. TypeOK
  BY TypeInit
<1>2. Len(<< >>) = 0
  OBVIOUS
<1>3. RecordsLinked
  BY <1>2 DEF Init, LedgerInit, RecordsLinked, HotRecords, GenesisHash
<1>4. Persisting
  BY DEF Init, Persisting, InAdd
<1>5. Coverage
  BY <1>2 DEF Init, LedgerInit, Coverage, HeadNeverAheadOfLedger, EveryLinkIn, GenesisHash
<1> QED BY <1>1, <1>3, <1>4, <1>5 DEF Inv

(* add() under the lock: the links before the new one are stored already.  *)
LEMMA InvAdd ==
  ASSUME Inv, NEW t \in Txns, NEW s \in Statuses, Add(t, s)
  PROVE  RecordsLinked' /\ Persisting' /\ Coverage'
<1> DEFINE rec == NextRecord(t, s)
<1>1. TypeOK /\ seq = Len(head)
  BY DEF Inv, RecordsLinked
<1>2. rec \in Records /\ WellLinked(rec)
  BY <1>1, NextRecordIsLinked
<1>3. rec.prev = head /\ rec.ts = clock + 1
  BY DEF NextRecord
<1>4. \A i \in DOMAIN hot' : hot'[i] = rec \/ \E j \in DOMAIN hot : hot'[i] = hot[j]
  BY <1>1, <1>2, HotStep DEF Add
<1> HIDE DEF rec
<1>5. head' = rec.chain /\ seq' = rec.seq /\ pending' = {rec}
  BY DEF Add, rec
<1>6. clock' = clock + 1 /\ pc' = "bucket" /\ pc = "idle" /\ UNCHANGED <<ledgerVars, refused>>
  BY DEF Add
<1>7. RecordsLinked'
  <2>1. \A r \in HotRecords' : r = rec \/ r \in HotRecords
    BY <1>4 DEF HotRecords
  <2> QED BY <1>2, <1>5, <1>6, <2>1 DEF Inv, RecordsLinked, WellLinked, ledgerVars
<1>8. Persisting'
  BY <1>3, <1>5, <1>6 DEF Persisting, InAdd
<1>9. Coverage'
  <2>1. \A r \in byBucket : r.ts \in Nat /\ r.ts <= clock /\ clock \in Nat
    BY DEF Inv, Coverage, TypeOK, LedgerTypeOK, Records
  <2>2. Stored' = Stored
    BY <1>6 DEF Stored, ledgerVars
  <2>3. \A r \in byBucket' : r.ts <= clock' /\ r.ts < clock'
    BY <1>6, <2>1 DEF ledgerVars
  <2>4. available' => \A r \in pending' : EveryLinkIn(Stored', r.prev)
    BY <1>3, <1>5, <1>6, <2>2 DEF Inv, Coverage, ledgerVars
  <2>5. HeadNeverAheadOfLedger'
    BY <1>6, <2>2 DEF Inv, Coverage, HeadNeverAheadOfLedger, ledgerVars
  <2> QED BY <1>6, <2>3, <2>4, <2>5 DEF Coverage
<1> QED BY <1>7, <1>8, <1>9

(* The first INSERT, landed or refused: either way the row overwrites      *)
(* nothing, and the chain up to the new head is accounted for.             *)
LEMMA InvWriteBucket ==
  ASSUME Inv, WriteBucket \/ WriteBucketFails
  PROVE  RecordsLinked' /\ Persisting' /\ Coverage'
<1>1. PICK row \in pending : pending = {row}
  BY DEF Inv, Persisting, InAdd, WriteBucket, WriteBucketFails
<1>2. /\ row \in Records /\ WellLinked(row)
      /\ row.chain = head /\ row.seq = seq /\ row.ts = clock
      /\ available /\ pc = "bucket" /\ pc' \in {"txn", "head"}
      /\ EveryLinkIn(Stored, row.prev)
  BY <1>1 DEF Inv, TypeOK, RecordsLinked, Persisting, InAdd, Coverage, WriteBucket,
              WriteBucketFails
<1>3. /\ byBucket' = byBucket \/ InsertByBucket(row)
      /\ refused' = refused \/ refused' = refused \cup {row.chain}
      /\ InsertByBucket(row) \/ refused' = refused \cup {row.chain}
      /\ UNCHANGED <<byTxn, ledgerHead, available, memoryVars, pending, clock>>
  BY <1>1 DEF WriteBucket, WriteBucketFails
<1>4. \A r \in byBucket : r.ts # row.ts
  <2>1. \A r \in byBucket : r.ts \in Nat /\ r.ts < clock /\ clock \in Nat
    BY <1>2 DEF Inv, Coverage, TypeOK, LedgerTypeOK, Records
  <2> QED BY <1>2, <2>1
<1>5. byBucket \subseteq byBucket' /\ byBucket' \subseteq byBucket \cup {row}
      /\ (row \in byBucket' \/ row.chain \in refused')
  BY <1>3, <1>4 DEF InsertByBucket
<1>6. Stored \subseteq Stored' /\ row.chain \in Stored'
  BY <1>3, <1>5 DEF Stored
<1>7. RecordsLinked'
  BY <1>1, <1>2, <1>3, <1>5 DEF Inv, RecordsLinked, WellLinked, HotRecords, memoryVars
<1>8. Persisting'
  BY <1>1, <1>2, <1>3 DEF Inv, Persisting, InAdd, memoryVars
<1>9. Coverage'
  <2>1. \A r \in byBucket' : r.ts <= clock'
    <3>1. \A r \in byBucket : r.ts <= clock
      BY DEF Inv, Coverage
    <3>2. clock \in Nat
      BY DEF Inv, TypeOK
    <3> QED BY <1>2, <1>3, <1>5, <3>1, <3>2
  <2>2. EveryLinkIn(Stored', head')
    <3>1. row.prev \in Hashes /\ row.txn \in Txns /\ row.ts \in Nat
      BY <1>2 DEF Records
    <3>2. EveryLinkIn(Stored', row.prev)
      BY <1>2, <1>6, LinksStayStored
    <3>3. EveryLinkIn(Stored', row.chain)
      BY <1>2, <1>6, <3>1, <3>2, LinkAdded DEF WellLinked
    <3> QED BY <1>2, <1>3, <3>3 DEF memoryVars
  <2>3. HeadNeverAheadOfLedger'
    BY <1>3, <1>6, LinksStayStored DEF Inv, Coverage, HeadNeverAheadOfLedger
  <2> QED BY <1>2, <2>1, <2>2, <2>3 DEF Coverage
<1> QED BY <1>7, <1>8, <1>9

(* The second INSERT, landed or refused, leaves by-bucket and the head     *)
(* alone.                                                                  *)
LEMMA InvWriteTxn ==
  ASSUME Inv, WriteTxn \/ WriteTxnFails
  PROVE  RecordsLinked' /\ Persisting' /\ Coverage'
<1>1. /\ pc = "txn" /\ pc' = "head"
      /\ UNCHANGED <<byBucket, ledgerHead, available, memoryVars, pending, clock,
                     refused>>
  BY DEF WriteTxn, WriteTxnFails, ledgerVars
<1>2. byTxn' \subseteq byTxn \cup pending
  BY DEF WriteTxn, WriteTxnFails, InsertByTxn, ledgerVars
<1>3. RecordsLinked'
  BY <1>1, <1>2 DEF Inv, RecordsLinked, WellLinked, HotRecords, memoryVars
<1>4. Persisting'
  BY <1>1 DEF Inv, Persisting, InAdd, memoryVars
<1>5. Coverage'
  BY <1>1 DEF Inv, Coverage, HeadNeverAheadOfLedger, Stored, memoryVars
<1> QED BY <1>3, <1>4, <1>5

(* save_head(), landed or refused: the links of the head are stored.       *)
LEMMA InvSaveHead ==
  ASSUME Inv, SaveHead \/ SaveHeadFails
  PROVE  RecordsLinked' /\ Persisting' /\ Coverage'
<1>1. /\ pc = "head" /\ pc' = "idle" /\ pending' = {}
      /\ UNCHANGED <<byBucket, byTxn, available, memoryVars, clock, refused>>
  BY DEF SaveHead, SaveHeadFails, Returned, ledgerVars
<1>2. available
  BY <1>1 DEF Inv, Persisting
<1>3. ledgerHead' = ledgerHead \/ ledgerHead' = [seq |-> seq, hash |-> head]
  BY <1>1 DEF Inv, Persisting, InAdd, SaveHead, SaveHeadFails, UpdateHead, ledgerVars
<1>4. RecordsLinked'
  BY <1>1, <1>3 DEF Inv, RecordsLinked, WellLinked, HotRecords, memoryVars
<1>5. Persisting'
  BY <1>1 DEF Persisting, InAdd
<1>6. Coverage'
  <2>1. Stored' = Stored
    BY <1>1 DEF Stored
  <2>2. EveryLinkIn(Stored, head) /\ EveryLinkIn(Stored, ledgerHead.hash)
    BY <1>1, <1>2 DEF Inv, Coverage, HeadNeverAheadOfLedger
  <2>3. HeadNeverAheadOfLedger'
    BY <1>3, <2>1, <2>2 DEF HeadNeverAheadOfLedger
  <2>4. EveryLinkIn(Stored', head')
    BY <1>1, <2>1, <2>2 DEF memoryVars
  <2> QED BY <1>1, <2>3, <2>4 DEF Inv, Coverage
<1> QED BY <1>4, <1>5, <1>6

(* Without the ledger add() returns at once, and nothing is promised.      *)
LEMMA InvSkip ==
  ASSUME Inv, SkipPersistence
  PROVE  RecordsLinked' /\ Persisting' /\ Coverage'
<1>1. /\ pc' = "idle" /\ pending' = {} /\ ~available
      /\ UNCHANGED <<ledgerVars, memoryVars, clock, refused>>
  BY DEF SkipPersistence, Returned
<1>2. RecordsLinked'
  BY <1>1 DEF Inv, RecordsLinked, WellLinked, HotRecords, memoryVars, ledgerVars
<1>3. Persisting'
  BY <1>1 DEF Persisting, InAdd
<1>4. Coverage'
  BY <1>1 DEF Inv, Coverage, HeadNeverAheadOfLedger, Stored, ledgerVars
<1> QED BY <1>2, <1>3, <1>4

(* A status change touches neither the links nor the rows of by-bucket.    *)
LEMMA InvSetStatus ==
  ASSUME Inv, NEW t \in Txns, NEW s \in Statuses, SetStatus(t, s)
  PROVE  RecordsLinked' /\ Persisting' /\ Coverage'
<1>1. UNCHANGED <<ledgerVars, pc, seq, head, clock, refused>>
  BY DEF SetStatus
<1>2. TypeOK /\ RecordsLinked /\ Persisting /\ Coverage
  BY DEF Inv
<1>3. \A r \in Records :
        LET q == [r EXCEPT !.status = s]
        IN  /\ q.ts = r.ts /\ q.seq = r.seq /\ q.prev = r.prev
            /\ q.chain = r.chain /\ (WellLinked(r) => WellLinked(q))
  BY StatusChange DEF WellLinked
<1>4. ASSUME NEW r \in HotRecords' PROVE WellLinked(r)
  <2>1. PICK i \in DOMAIN hot : r = hot[i] \/ r = [hot[i] EXCEPT !.status = s]
    BY <1>2, <1>4, HotStatus DEF HotRecords
  <2>2. hot[i] \in Records /\ WellLinked(hot[i])
    <3>1. hot \in Seq(Records) /\ DOMAIN hot = 1 .. Len(hot)
      BY <1>2 DEF TypeOK
    <3> QED BY <1>2, <3>1, ElementOfSeq DEF RecordsLinked, HotRecords
  <2> QED BY <1>3, <2>1, <2>2
<1>5. \A r \in pending : r \in Records /\ WellLinked(r)
  BY <1>2 DEF TypeOK, RecordsLinked
<1>6. \A q \in pending' : \E r \in pending : q = r \/ q = [r EXCEPT !.status = s]
  BY DEF SetStatus
<1>7. RecordsLinked'
  <2>1. \A q \in pending' : WellLinked(q)
    BY <1>3, <1>5, <1>6
  <2>2. \A r \in byBucket \cup (byTxn \cap Records) : WellLinked(r)
    BY <1>2 DEF RecordsLinked
  <2>3. seq = Len(head) /\ ledgerHead.seq = Len(ledgerHead.hash)
    BY <1>2 DEF RecordsLinked
  <2> QED BY <1>1, <1>4, <2>1, <2>2, <2>3 DEF RecordsLinked, WellLinked, ledgerVars
<1>8. Persisting'
  <2>1. CASE ~InAdd
    <3>1. pending' = {}
      BY <1>2, <2>1 DEF SetStatus, Persisting, InAdd
    <3> QED BY <1>1, <1>2, <2>1, <3>1 DEF Persisting, InAdd, ledgerVars
  <2>2. CASE InAdd
    <3>1. PICK r \in pending : /\ pending = {r}
                              /\ r.chain = head /\ r.seq = seq /\ r.ts = clock
      BY <1>2, <2>2 DEF Persisting
    <3>2. pending' = {r} \/ pending' = {[r EXCEPT !.status = s]}
      BY <3>1 DEF SetStatus
    <3>3. \E q \in pending' : /\ pending' = {q}
                             /\ q.chain = head /\ q.seq = seq /\ q.ts = clock
      BY <1>3, <1>5, <3>1, <3>2
    <3> QED BY <1>1, <1>2, <2>2, <3>3 DEF Persisting, InAdd, ledgerVars
  <2> QED BY <2>1, <2>2
<1>9. Coverage'
  <2>1. Stored' = Stored
    BY <1>1 DEF Stored, ledgerVars
  <2>2. available /\ pc = "bucket" => \A q \in pending' : EveryLinkIn(Stored, q.prev)
    <3>1. available /\ pc = "bucket" => \A r \in pending : EveryLinkIn(Stored, r.prev)
      BY <1>2 DEF Coverage
    <3> QED BY <1>3, <1>5, <1>6, <3>1
  <2> QED BY <1>1, <1>2, <2>1, <2>2 DEF Coverage, HeadNeverAheadOfLedger, ledgerVars
<1> QED BY <1>7, <1>8, <1>9

(* The UPDATE of a status touches one column of commitments_by_txn.        *)
LEMMA InvPersistStatus ==
  ASSUME Inv, PersistStatus \/ PersistStatusFails
  PROVE  RecordsLinked' /\ Persisting' /\ Coverage'
<1>1. UNCHANGED <<byBucket, ledgerHead, available, memoryVars, pc, pending, clock,
                  refused>>
  BY DEF PersistStatus, PersistStatusFails, ledgerVars
<1>2. ASSUME NEW q \in byTxn' \cap Records PROVE WellLinked(q)
  <2>1. CASE q \in byTxn
    BY <1>2, <2>1 DEF Inv, RecordsLinked
  <2>2. CASE q \notin byTxn
    <3>1. PICK d \in decision : UpdateStatus(d.txn, d.status)
      BY <2>2, <1>2 DEF PersistStatus, PersistStatusFails, ledgerVars
    <3>2. d.txn \in Txns /\ d.status \in Statuses
      BY DEF Inv, TypeOK, Decisions
    <3>3. [txn |-> d.txn, status |-> d.status] \notin Records
      BY <3>2, StatusOnlyIsNoRecord DEF StatusOnlyRows
    <3>4. PICK r \in byTxn : q = [r EXCEPT !.status = d.status]
      BY <1>2, <2>2, <3>1, <3>3 DEF UpdateStatus
    <3>5. r \in Records
      BY <1>2, <3>4, StatusOnlyIsNoRecord DEF Inv, TypeOK, LedgerTypeOK
    <3>6. WellLinked(r)
      BY <3>5 DEF Inv, RecordsLinked
    <3> QED BY <3>2, <3>4, <3>5, <3>6, StatusChange DEF WellLinked
  <2> QED BY <2>1, <2>2
<1>3. RecordsLinked'
  BY <1>1, <1>2 DEF Inv, RecordsLinked, WellLinked, HotRecords, memoryVars
<1>4. Persisting'
  BY <1>1 DEF Inv, Persisting, InAdd, memoryVars
<1>5. Coverage'
  BY <1>1 DEF Inv, Coverage, HeadNeverAheadOfLedger, Stored, memoryVars
<1> QED BY <1>3, <1>4, <1>5

(* A crash loses the record at hand and nothing that was stored.           *)
LEMMA InvCrash ==
  ASSUME Inv, Crash
  PROVE  RecordsLinked' /\ Persisting' /\ Coverage'
<1>1. /\ pc' = "down" /\ pending' = {}
      /\ UNCHANGED <<ledgerVars, memoryVars, clock, refused>>
  BY DEF Crash
<1>2. RecordsLinked'
  BY <1>1 DEF Inv, RecordsLinked, WellLinked, HotRecords, memoryVars, ledgerVars
<1>3. Persisting'
  BY <1>1 DEF Persisting, InAdd
<1>4. Coverage'
  BY <1>1 DEF Inv, Coverage, HeadNeverAheadOfLedger, Stored, ledgerVars
<1> QED BY <1>2, <1>3, <1>4

(* A new process starts from a head whose links are stored: the saved one, *)
(* or genesis, which has none.                                             *)
LEMMA InvRestart ==
  ASSUME Inv, Restart
  PROVE  RecordsLinked' /\ Persisting' /\ Coverage'
<1>1. /\ pc = "down" /\ pc' = "idle" /\ hot' = << >>
      /\ UNCHANGED <<pending, byBucket, byTxn, ledgerHead, clock, refused>>
  BY DEF Restart, Resume, ResumeForgets, StartMemoryOnly, Fresh
<1>2. \/ seq' = ledgerHead.seq /\ head' = ledgerHead.hash
      \/ seq' = 0 /\ head' = << >>
  BY DEF Restart, Resume, ResumeForgets, StartMemoryOnly, ResumeAt, GenesisHash
<1>3. Len(<< >>) = 0 /\ HotRecords' = {}
  BY <1>1 DEF HotRecords
<1>4. RecordsLinked'
  BY <1>1, <1>2, <1>3 DEF Inv, RecordsLinked, WellLinked
<1>5. Persisting'
  BY <1>1 DEF Inv, Persisting, InAdd
<1>6. Coverage'
  <2>1. Stored' = Stored
    BY <1>1 DEF Stored
  <2>2. HeadNeverAheadOfLedger'
    BY <1>1, <2>1 DEF Inv, Coverage, HeadNeverAheadOfLedger
  <2>3. EveryLinkIn(Stored, ledgerHead.hash) /\ EveryLinkIn(Stored, << >>)
    BY <1>3 DEF Inv, Coverage, HeadNeverAheadOfLedger, EveryLinkIn
  <2>4. EveryLinkIn(Stored', head')
    BY <1>2, <2>1, <2>3
  <2> QED BY <1>1, <2>2, <2>4 DEF Inv, Coverage
<1> QED BY <1>4, <1>5, <1>6

(* All the actions together: Inv is inductive.                             *)
LEMMA InvNext == Inv /\ [Next]_vars => Inv'
<1> SUFFICES ASSUME Inv, [Next]_vars PROVE Inv'
  OBVIOUS
<1>1. TypeOK'
  BY TypeNext DEF Inv, RecordsLinked
<1>2. RecordsLinked' /\ Persisting' /\ Coverage'
  <2>1. CASE \E t \in Txns, s \in {"VERIFIED", "QUARANTINED"} : Add(t, s)
    BY <2>1, InvAdd DEF Statuses
  <2>2. CASE Persist
    BY <2>2, InvWriteBucket, InvWriteTxn, InvSaveHead, InvSkip DEF Persist
  <2>3. CASE \E t \in Txns, s \in Statuses \ {"PENDING"} : SetStatus(t, s)
    BY <2>3, InvSetStatus
  <2>4. CASE PersistStatus \/ PersistStatusFails
    BY <2>4, InvPersistStatus
  <2>5. CASE Crash
    BY <2>5, InvCrash
  <2>6. CASE Restart
    BY <2>6, InvRestart
  <2>7. CASE UNCHANGED vars
    <3>1. RecordsLinked'
      BY <2>7 DEF vars, ledgerVars, memoryVars, Inv, RecordsLinked, HotRecords
    <3>2. Persisting'
      BY <2>7 DEF vars, ledgerVars, memoryVars, Inv, Persisting, InAdd
    <3>3. Coverage'
      BY <2>7 DEF vars, ledgerVars, memoryVars, Inv, Coverage,
        HeadNeverAheadOfLedger, Stored, InAdd
    <3> QED BY <3>1, <3>2, <3>3
  <2> QED BY <2>1, <2>2, <2>3, <2>4, <2>5, <2>6, <2>7 DEF Next
<1> QED BY <1>1, <1>2 DEF Inv

(* The inductive invariant holds in every state of every behaviour of the  *)
(* store (commitment.py:134-228, cassandra_store.py:278-331).              *)
THEOREM Invariance == Spec => []Inv
BY InvInit, InvNext, PTL DEF Spec

(* Type correctness of the store and of its durable tier.                  *)
THEOREM TypeCorrect == Spec => []TypeOK
<1>1. Inv => TypeOK
  BY DEF Inv
<1> QED BY <1>1, Invariance, PTL

(* Every record the store keeps, in memory or in a table, recomputes and   *)
(* counts its links, through every failure of the ledger and every restart *)
(* (commitment.py:175-225, cassandra_store.py:278-331).                    *)
THEOREM RecordsAlwaysLinked == Spec => []RecordsLinked
<1>1. Inv => RecordsLinked
  BY DEF Inv
<1> QED BY <1>1, Invariance, PTL

(* The head a restart resumes from never names a link whose row was not    *)
(* written, unless the INSERT of that row raised (commitment.py:223-225).  *)
THEOREM HeadBehindLedger == Spec => []HeadNeverAheadOfLedger
<1>1. Inv => HeadNeverAheadOfLedger
  BY DEF Inv, Coverage
<1> QED BY <1>1, Invariance, PTL

-----------------------------------------------------------------------------
(* As long as load_head succeeds, a process with a ledger works on an      *)
(* extension of the saved head.                                            *)
Ancestry == pc # "down" /\ available => IsPrefix(ledgerHead.hash, head)

(* A chain extends itself.                                                 *)
LEMMA PrefixReflexive ==
  ASSUME NEW h \in Hashes
  PROVE  IsPrefix(h, h)
BY LenProperties DEF IsPrefix, Hashes

(* What a chain extends is extended by the chain with one more link.       *)
LEMMA PrefixOfLonger ==
  ASSUME NEW g \in Hashes, NEW h \in Hashes, NEW t \in Txns, NEW n \in Nat,
         IsPrefix(g, h)
  PROVE  IsPrefix(g, ChainHash(h, t, n))
<1> DEFINE c == ChainHash(h, t, n)
<1>1. /\ g \in Seq(Links) /\ h \in Seq(Links) /\ c \in Seq(Links)
      /\ Len(g) \in Nat /\ Len(h) \in Nat /\ Len(c) = Len(h) + 1 /\ Len(g) <= Len(h)
  BY ChainHashIsLonger, LenProperties DEF Hashes, IsPrefix
<1>2. \A i \in 1 .. Len(h) : c[i] = h[i]
  BY <1>1, AppendProperties DEF ChainHash, Links
<1> HIDE DEF c
<1>3. \A i \in 1 .. Len(g) : c[i] \in Links /\ h[i] \in Links
  BY <1>1, ElementOfSeq
<1>4. /\ SubSeq(c, 1, Len(g)) \in Seq(Links) /\ Len(SubSeq(c, 1, Len(g))) = Len(g)
      /\ \A i \in 1 .. Len(g) : SubSeq(c, 1, Len(g))[i] = c[i]
  BY <1>1, <1>3, SubSeqProperties
<1>5. /\ SubSeq(h, 1, Len(g)) \in Seq(Links) /\ Len(SubSeq(h, 1, Len(g))) = Len(g)
      /\ \A i \in 1 .. Len(g) : SubSeq(h, 1, Len(g))[i] = h[i]
  BY <1>1, <1>3, SubSeqProperties
<1>6. SubSeq(c, 1, Len(g)) = SubSeq(h, 1, Len(g))
  BY <1>1, <1>2, <1>4, <1>5, SeqEqual
<1> QED BY <1>1, <1>6 DEF IsPrefix, c

(* At first both heads are genesis.                                        *)
LEMMA AncestryInit == Init => Ancestry
<1> SUFFICES ASSUME Init PROVE Ancestry
  OBVIOUS
<1>1. << >> \in Hashes
  BY EmptySeq DEF Hashes
<1> QED BY <1>1, PrefixReflexive DEF Init, LedgerInit, Ancestry, GenesisHash

(* What save_head stores is the head of the chain in memory.               *)
LEMMA SavedHeadIsHead ==
  ASSUME Inv, SaveHead
  PROVE  ledgerHead' = [seq |-> seq, hash |-> head] /\ head' = head
BY DEF Inv, Persisting, InAdd, SaveHead, UpdateHead, memoryVars

(* Every step keeps the saved head behind the head in memory, and moves it *)
(* forward only.                                                           *)
LEMMA AncestryNext ==
  ASSUME Inv, Ancestry, [Next]_vars, ~LoadMayFail
  PROVE  Ancestry' /\ IsPrefix(ledgerHead.hash, ledgerHead.hash')
<1>1. head \in Hashes /\ ledgerHead.hash \in Hashes /\ clock \in Nat
  BY DEF Inv, TypeOK, LedgerTypeOK, Heads
<1>2. IsPrefix(head, head) /\ IsPrefix(ledgerHead.hash, ledgerHead.hash)
  BY <1>1, PrefixReflexive
<1>3. CASE \E t \in Txns, s \in {"VERIFIED", "QUARANTINED"} : Add(t, s)
  <2>1. PICK t \in Txns, s \in {"VERIFIED", "QUARANTINED"} : Add(t, s)
    BY <1>3
  <2>2. /\ head' = ChainHash(head, t, clock + 1) /\ pc = "idle"
        /\ UNCHANGED <<ledgerHead, available>>
    BY <2>1 DEF Add, NextRecord, ledgerVars
  <2>3. available => IsPrefix(ledgerHead.hash, head')
    BY <1>1, <2>2, PrefixOfLonger DEF Ancestry
  <2> QED BY <1>2, <2>2, <2>3 DEF Ancestry
<1>4. CASE SaveHead
  <2>1. ledgerHead' = [seq |-> seq, hash |-> head] /\ head' = head
    BY <1>4, SavedHeadIsHead
  <2>2. IsPrefix(ledgerHead.hash, head)
    BY <1>4 DEF Inv, Persisting, Ancestry, SaveHead
  <2> QED BY <1>2, <2>1, <2>2 DEF Ancestry
<1>5. CASE Persist /\ ~SaveHead
  BY <1>2, <1>5 DEF Persist, WriteBucket, WriteBucketFails, WriteTxn, WriteTxnFails,
       SaveHeadFails, SkipPersistence, Returned, Ancestry, ledgerVars, memoryVars
<1>6. CASE \E t \in Txns, s \in Statuses \ {"PENDING"} : SetStatus(t, s)
  BY <1>2, <1>6 DEF SetStatus, Ancestry, ledgerVars
<1>7. CASE PersistStatus \/ PersistStatusFails \/ Crash
  BY <1>2, <1>7 DEF PersistStatus, PersistStatusFails, Crash, Ancestry, ledgerVars,
       memoryVars
<1>8. CASE Restart
  BY <1>2, <1>8 DEF Restart, Resume, ResumeForgets, StartMemoryOnly, Fresh, ResumeAt,
       Ancestry
<1>9. CASE UNCHANGED vars
  BY <1>2, <1>9 DEF vars, ledgerVars, memoryVars, Ancestry
<1> QED BY <1>3, <1>4, <1>5, <1>6, <1>7, <1>8, <1>9 DEF Next

(* As long as load_head succeeds, a saved head is never forgotten and      *)
(* never replaced by a head of another chain (commitment.py:138-148,225).  *)
THEOREM DurableHeadExtends ==
  ASSUME ~LoadMayFail
  PROVE  Spec => DurableHeadOnlyExtends
<1>1. Inv /\ Ancestry /\ [Next]_vars =>
        Ancestry' /\ IsPrefix(ledgerHead.hash, ledgerHead.hash')
  BY AncestryNext
<1>2. Inv /\ Ancestry /\ [Next]_vars => [IsPrefix(ledgerHead.hash, ledgerHead.hash')]_vars
  BY <1>1
<1> QED BY <1>1, <1>2, AncestryInit, Invariance, PTL DEF Spec, DurableHeadOnlyExtends

(* With a reachable ledger the store implements the append-only log with a *)
(* stable prefix: add() appends, save_head() makes the whole log stable, a *)
(* restart cuts the log back to exactly the stable prefix, and every other *)
(* step is invisible.                                                      *)
LEMMA StepImplementsLog ==
  ASSUME Inv, [Next]_vars, ~LoadMayFail, ~ConnectMayFail
  PROVE  [Log!Next]_<<head, ledgerHead.hash>>
<1>1. CASE \E t \in Txns, s \in {"VERIFIED", "QUARANTINED"} : Add(t, s)
  <2>1. PICK t \in Txns, s \in {"VERIFIED", "QUARANTINED"} : Add(t, s)
    BY <1>1
  <2>2. /\ head' = Append(head, [txn |-> t, ts |-> clock + 1])
        /\ ledgerHead' = ledgerHead /\ clock < MaxAdds
    BY <2>1 DEF Add, NextRecord, ChainHash, ledgerVars
  <2>3. clock + 1 \in 1 .. MaxAdds
    BY <2>2, BoundsAssumption DEF Inv, TypeOK
  <2>4. [txn |-> t, ts |-> clock + 1] \in [txn : Txns, ts : 1 .. MaxAdds]
    BY <2>3
  <2>5. Log!Write
    BY <2>2, <2>4 DEF Log!Write
  <2> QED BY <2>5 DEF Log!Next
<1>2. CASE SaveHead
  <2>1. ledgerHead'.hash = head /\ head' = head
    BY <1>2, SavedHeadIsHead
  <2> QED BY <2>1 DEF Log!Next, Log!Stabilise
<1>3. CASE Restart
  <2>1. head' = ledgerHead.hash /\ ledgerHead' = ledgerHead
    BY <1>3 DEF Restart, Resume, ResumeForgets, StartMemoryOnly, Fresh, ResumeAt
  <2> QED BY <2>1 DEF Log!Next, Log!Recover
<1>4. CASE Persist /\ ~SaveHead
  BY <1>4 DEF Persist, WriteBucket, WriteBucketFails, WriteTxn, WriteTxnFails,
       SaveHeadFails, SkipPersistence, ledgerVars, memoryVars
<1>5. CASE \E t \in Txns, s \in Statuses \ {"PENDING"} : SetStatus(t, s)
  BY <1>5 DEF SetStatus, ledgerVars
<1>6. CASE PersistStatus \/ PersistStatusFails \/ Crash
  BY <1>6 DEF PersistStatus, PersistStatusFails, Crash, ledgerVars, memoryVars
<1>7. CASE UNCHANGED vars
  BY <1>7 DEF vars, ledgerVars, memoryVars
<1> QED BY <1>1, <1>2, <1>3, <1>4, <1>5, <1>6, <1>7 DEF Next

(* The store implements DurableLog for every ring size and every set of    *)
(* transactions, if load_head succeeds and the process has its ledger: the *)
(* refinement the other modules rely on (cassandra_store.py:22-24).        *)
THEOREM StoreImplementsLog ==
  ASSUME ~LoadMayFail, ~ConnectMayFail
  PROVE  Spec => ImplementsDurableLog
<1>1. Init => Log!Init
  BY DEF Init, LedgerInit, Log!Init, GenesisHash
<1>2. Inv /\ [Next]_vars => [Log!Next]_<<head, ledgerHead.hash>>
  BY StepImplementsLog
<1> QED BY <1>1, <1>2, Invariance, PTL DEF Spec, ImplementsDurableLog, Log!Spec

-----------------------------------------------------------------------------
(* The ring and the counters.  OnOneChain and Counted are what the two     *)
(* invariants say while a process is up; they hold of the memory a dead    *)
(* process leaves behind as well.  InARow: until a transaction comes back, *)
(* the ring is the newest stretch of the chain, in order.                  *)
OnOneChain ==
  /\ \A i \in DOMAIN hot : IsPrefix(hot[i].chain, head)
  /\ \A i, j \in DOMAIN hot :
       i # j => hot[i].seq # hot[j].seq /\ hot[i].txn # hot[j].txn
  /\ total > 0 => \E i \in DOMAIN hot : hot[i].chain = head

WithStatus(ring, s) == {i \in DOMAIN ring : ring[i].status = s}

Sum(f) == f["VERIFIED"] + f["QUARANTINED"] + f["REJECTED"] + f["PENDING"]

Counted ==
  /\ Sum(counts) = total
  /\ \A s \in Statuses : counts[s] >= Cardinality(WithStatus(hot, s))

InARow ==
  NoRepeats(head) => \A i \in DOMAIN hot : hot[i].seq = (seq - Len(hot)) + i

HotInv == OnOneChain /\ Counted /\ InARow

(* What add() makes of the ring: the new record at one position, and at    *)
(* the others what was in the ring before, each once, of another           *)
(* transaction.                                                            *)
RenewedBy(ring, rec, p, old) ==
  /\ p \in DOMAIN ring /\ ring[p] = rec
  /\ old \in [DOMAIN ring \ {p} -> DOMAIN hot]
  /\ \A i \in DOMAIN ring \ {p} :
       ring[i] = hot[old[i]] /\ hot[old[i]].txn # rec.txn
  /\ \A i, j \in DOMAIN ring \ {p} : old[i] = old[j] => i = j

(* Appended, and the oldest evicted when the ring was full.                *)
LEMMA AppendedToRing ==
  ASSUME TypeOK, NEW rec \in Records, HotPositions(rec.txn) = {},
         NEW ring, ring = Evict(HotInsert(rec))
  PROVE  /\ ring \in Seq(Records) /\ Len(ring) \in Nat \ {0}
         /\ Len(ring) <= Len(hot) + 1
         /\ ring[Len(ring)] = rec
         /\ \A i \in 1 .. Len(ring) - 1 :
              /\ i + ((Len(hot) + 1) - Len(ring)) \in DOMAIN hot
              /\ ring[i] = hot[i + ((Len(hot) + 1) - Len(ring))]
<1>1. /\ hot \in Seq(Records) /\ Len(hot) \in Nat /\ Len(hot) <= RingSize
      /\ DOMAIN hot = 1 .. Len(hot) /\ RingSize \in Nat \ {0}
  BY RingSizeAssumption DEF TypeOK
<1> DEFINE ins == Append(hot, rec)
<1>2. ring = Evict(ins)
  BY DEF HotInsert
<1>3. /\ ins \in Seq(Records) /\ Len(ins) = Len(hot) + 1
      /\ ins[Len(hot) + 1] = rec
      /\ \A i \in 1 .. Len(hot) : ins[i] = hot[i]
  BY <1>1, AppendProperties
<1> HIDE DEF ins
<1>4. CASE Len(ins) > RingSize
  <2>1. ring = Tail(ins)
    BY <1>2, <1>4 DEF Evict
  <2>2. ins # << >>
    BY <1>1, <1>3, EmptySeq
  <2>3. /\ ring \in Seq(Records) /\ Len(ring) = Len(ins) - 1
        /\ \A i \in 1 .. Len(ring) : ring[i] = ins[i + 1]
    BY <1>3, <2>1, <2>2, HeadTailProperties
  <2>4. Len(ring) = Len(hot) /\ Len(hot) >= 1
    BY <1>1, <1>3, <1>4, <2>3
  <2>5. ring[Len(ring)] = rec
    BY <1>1, <1>3, <2>3, <2>4
  <2>6. ASSUME NEW i \in 1 .. Len(ring) - 1
        PROVE  /\ i + ((Len(hot) + 1) - Len(ring)) \in 1 .. Len(hot)
               /\ ring[i] = hot[i + ((Len(hot) + 1) - Len(ring))]
    <3>1. i + ((Len(hot) + 1) - Len(ring)) = i + 1 /\ i + 1 \in 1 .. Len(hot)
          /\ i \in 1 .. Len(ring)
      BY <1>1, <2>4
    <3> QED BY <1>3, <2>3, <3>1
  <2> QED BY <1>1, <2>3, <2>4, <2>5, <2>6
<1>5. CASE ~(Len(ins) > RingSize)
  <2>1. ring = ins
    BY <1>2, <1>5 DEF Evict
  <2>2. ASSUME NEW i \in 1 .. Len(ring) - 1
        PROVE  /\ i + ((Len(hot) + 1) - Len(ring)) \in 1 .. Len(hot)
               /\ ring[i] = hot[i + ((Len(hot) + 1) - Len(ring))]
    <3>1. i + ((Len(hot) + 1) - Len(ring)) = i /\ i \in 1 .. Len(hot)
      BY <1>1, <1>3, <2>1
    <3> QED BY <1>3, <2>1, <3>1
  <2> QED BY <1>1, <1>3, <2>1, <2>2
<1> QED BY <1>4, <1>5

LEMMA RingAfterAdd ==
  ASSUME TypeOK, NEW rec \in Records, NEW ring, ring = Evict(HotInsert(rec)),
         \A i, j \in DOMAIN hot : i # j => hot[i].txn # hot[j].txn
  PROVE  \E p : \E old : RenewedBy(ring, rec, p, old)
<1>1. /\ hot \in Seq(Records) /\ Len(hot) \in Nat /\ Len(hot) <= RingSize
      /\ DOMAIN hot = 1 .. Len(hot) /\ RingSize \in Nat \ {0}
  BY RingSizeAssumption DEF TypeOK
<1>2. CASE HotPositions(rec.txn) = {}
  <2>1. /\ ring \in Seq(Records) /\ Len(ring) \in Nat \ {0}
        /\ ring[Len(ring)] = rec
        /\ \A i \in 1 .. Len(ring) - 1 :
             /\ i + ((Len(hot) + 1) - Len(ring)) \in DOMAIN hot
             /\ ring[i] = hot[i + ((Len(hot) + 1) - Len(ring))]
    BY <1>2, AppendedToRing
  <2>2. DOMAIN ring = 1 .. Len(ring)
    BY <2>1, LenProperties
  <2>3. DOMAIN ring \ {Len(ring)} = 1 .. Len(ring) - 1
    BY <2>1, <2>2
  <2> DEFINE old == [i \in 1 .. Len(ring) - 1 |-> i + ((Len(hot) + 1) - Len(ring))]
  <2>4. old \in [1 .. Len(ring) - 1 -> DOMAIN hot]
    BY <2>1
  <2>5. \A i \in DOMAIN hot : hot[i].txn # rec.txn
    BY <1>2 DEF HotPositions
  <2>6. \A i \in 1 .. Len(ring) - 1 : ring[i] = hot[old[i]] /\ hot[old[i]].txn # rec.txn
    BY <2>1, <2>4, <2>5
  <2>7. \A i, j \in 1 .. Len(ring) - 1 : old[i] = old[j] => i = j
    BY <1>1, <2>1
  <2> HIDE DEF old
  <2>8. RenewedBy(ring, rec, Len(ring), old)
    <3>1. Len(ring) \in DOMAIN ring
      BY <2>1, <2>2
    <3>2. PICK others : others = DOMAIN ring \ {Len(ring)}
      OBVIOUS
    <3>3. others = 1 .. Len(ring) - 1
      BY <2>3, <3>2
    <3>4. /\ old \in [others -> DOMAIN hot]
          /\ \A i \in others : ring[i] = hot[old[i]] /\ hot[old[i]].txn # rec.txn
          /\ \A i, j \in others : old[i] = old[j] => i = j
      BY <2>4, <2>6, <2>7, <3>3
    <3> QED BY <2>1, <3>1, <3>2, <3>4 DEF RenewedBy
  <2> QED BY <2>8
<1>3. CASE HotPositions(rec.txn) # {}
  <2>1. PICK p \in DOMAIN hot : hot[p].txn = rec.txn
    BY <1>3 DEF HotPositions
  <2> DEFINE ins == [i \in DOMAIN hot |-> IF hot[i].txn = rec.txn THEN rec ELSE hot[i]]
  <2>2. ring = Evict(ins)
    BY <1>3 DEF HotInsert
  <2>3. ins \in [1 .. Len(hot) -> Records]
    BY <1>1, ElementOfSeq
  <2>4. ins \in Seq(Records) /\ Len(ins) = Len(hot) /\ DOMAIN ins = DOMAIN hot
    BY <1>1, <2>3, SeqDef, LenProperties
  <2>5. ins[p] = rec /\ \A i \in DOMAIN hot \ {p} : ins[i] = hot[i] /\ hot[i].txn # rec.txn
    BY <2>1
  <2> HIDE DEF ins
  <2>6. ring = ins
    BY <1>1, <2>2, <2>4 DEF Evict
  <2> DEFINE old == [i \in DOMAIN hot \ {p} |-> i]
  <2>7. /\ old \in [DOMAIN hot \ {p} -> DOMAIN hot]
        /\ \A i \in DOMAIN hot \ {p} : old[i] = i
    OBVIOUS
  <2> HIDE DEF old
  <2>8. RenewedBy(ring, rec, p, old)
    BY <2>1, <2>4, <2>5, <2>6, <2>7 DEF RenewedBy
  <2> QED BY <2>8
<1> QED BY <1>2, <1>3

(* A chain is extended by what has the same links, and more.               *)
LEMMA PrefixLinks ==
  ASSUME NEW g \in Hashes, NEW h \in Hashes
  PROVE  IsPrefix(g, h) <=>
           Len(g) <= Len(h) /\ \A i \in 1 .. Len(g) : g[i] = h[i]
<1>1. g \in Seq(Links) /\ h \in Seq(Links) /\ Len(g) \in Nat /\ Len(h) \in Nat
  BY LenProperties DEF Hashes
<1>2. SubSeq(g, 1, Len(g)) = g
  BY <1>1, SubSeqFull
<1>3. CASE Len(g) <= Len(h)
  <2>1. \A i \in 1 .. Len(g) : h[i] \in Links
    BY <1>1, <1>3, ElementOfSeq
  <2>2. /\ SubSeq(h, 1, Len(g)) \in Seq(Links) /\ Len(SubSeq(h, 1, Len(g))) = Len(g)
        /\ \A i \in 1 .. Len(g) : SubSeq(h, 1, Len(g))[i] = h[i]
    BY <1>1, <2>1, SubSeqProperties
  <2>3. g = SubSeq(h, 1, Len(g)) <=> \A i \in 1 .. Len(g) : g[i] = h[i]
    BY <1>1, <2>2, SeqEqual
  <2> QED BY <1>2, <1>3, <2>3 DEF IsPrefix
<1>4. CASE ~(Len(g) <= Len(h))
  BY <1>4 DEF IsPrefix
<1> QED BY <1>3, <1>4

(* A linked record on a chain: its link is there at its seq.               *)
LEMMA LinkOnChain ==
  ASSUME NEW r \in Records, WellLinked(r), NEW h \in Hashes, IsPrefix(r.chain, h)
  PROVE  /\ r.seq \in 1 .. Len(h) /\ Len(h) \in Nat
         /\ h[r.seq] = [txn |-> r.txn, ts |-> r.ts]
         /\ Len(r.prev) = r.seq - 1 /\ Len(r.chain) = r.seq
         /\ \A i \in 1 .. r.seq - 1 : r.prev[i] = h[i]
<1>1. /\ r.prev \in Hashes /\ r.chain \in Hashes /\ r.txn \in Txns /\ r.ts \in Nat
      /\ r.prev \in Seq(Links) /\ Len(r.prev) \in Nat /\ Len(h) \in Nat
  BY LenProperties DEF Records, Hashes
<1>2. r.chain = Append(r.prev, [txn |-> r.txn, ts |-> r.ts]) /\ r.seq = Len(r.chain)
  BY DEF WellLinked, ChainHash
<1>3. /\ Len(r.chain) = Len(r.prev) + 1
      /\ r.chain[Len(r.prev) + 1] = [txn |-> r.txn, ts |-> r.ts]
      /\ \A i \in 1 .. Len(r.prev) : r.chain[i] = r.prev[i]
  BY <1>1, <1>2, AppendProperties DEF Links
<1>4. Len(r.chain) <= Len(h) /\ \A i \in 1 .. Len(r.chain) : r.chain[i] = h[i]
  BY <1>1, PrefixLinks
<1>5. r.seq = Len(r.prev) + 1 /\ r.seq \in 1 .. Len(h)
  BY <1>1, <1>2, <1>3, <1>4
<1>6. h[r.seq] = r.chain[r.seq]
  BY <1>1, <1>2, <1>4, <1>5
<1>7. \A i \in 1 .. r.seq - 1 : i \in 1 .. Len(r.prev) /\ i \in 1 .. Len(r.chain)
  BY <1>1, <1>2, <1>5
<1> QED BY <1>1, <1>2, <1>3, <1>4, <1>5, <1>6, <1>7

(* The records of the ring, as Inv and OnOneChain know them.               *)
LEMMA RingRecords ==
  ASSUME Inv, OnOneChain, NEW i \in DOMAIN hot
  PROVE  /\ hot[i] \in Records /\ WellLinked(hot[i]) /\ IsPrefix(hot[i].chain, head)
         /\ hot[i].chain \in Hashes
         /\ hot[i].seq \in 1 .. seq /\ head[hot[i].seq].txn = hot[i].txn
<1>1. hot \in Seq(Records) /\ DOMAIN hot = 1 .. Len(hot) /\ head \in Hashes
  BY DEF Inv, TypeOK
<1>2. hot[i] \in Records
  BY <1>1, ElementOfSeq
<1>3. WellLinked(hot[i]) /\ seq = Len(head)
  BY DEF Inv, RecordsLinked, HotRecords
<1>4. IsPrefix(hot[i].chain, head)
  BY DEF OnOneChain
<1>5. /\ hot[i].seq \in 1 .. Len(head)
      /\ head[hot[i].seq] = [txn |-> hot[i].txn, ts |-> hot[i].ts]
  BY <1>1, <1>2, <1>3, <1>4, LinkOnChain
<1>6. hot[i].chain \in Hashes
  BY <1>2 DEF Records
<1> QED BY <1>2, <1>3, <1>4, <1>5, <1>6

(* At first there is nothing in the ring and nothing to count.             *)
NoRecords == TypeOK /\ Len(hot) = 0 /\ total = 0 /\ counts = NoCounts

LEMMA HotNone == NoRecords => HotInv
<1> SUFFICES ASSUME TypeOK, Len(hot) = 0, total = 0, counts = NoCounts
             PROVE  HotInv
  BY DEF NoRecords
<1>1. DOMAIN hot = {}
  BY DEF TypeOK
<1>2. OnOneChain /\ InARow
  BY <1>1 DEF OnOneChain, InARow
<1>3. ASSUME NEW s \in Statuses
      PROVE  counts[s] = 0 /\ Cardinality(WithStatus(hot, s)) = 0
  <2>1. WithStatus(hot, s) = {}
    BY <1>1 DEF WithStatus
  <2> QED BY <2>1, FS_EmptySet DEF NoCounts
<1>4. Sum(counts) = 0
  BY DEF Sum, NoCounts, Statuses
<1> QED BY <1>2, <1>3, <1>4 DEF HotInv, Counted

LEMMA HotNoneNext == NoRecords' => HotInv'
BY HotNone, PTL

(* A counter per position of a finite ring.                                *)
LEMMA CountType ==
  ASSUME NEW ring \in Seq(Records), NEW s
  PROVE  IsFiniteSet(WithStatus(ring, s)) /\ Cardinality(WithStatus(ring, s)) \in Nat
<1>1. DOMAIN ring = 1 .. Len(ring) /\ Len(ring) \in Nat
  BY LenProperties
<1>2. IsFiniteSet(1 .. Len(ring))
  BY <1>1, FS_Interval
<1>3. WithStatus(ring, s) \subseteq 1 .. Len(ring)
  BY <1>1 DEF WithStatus
<1> DEFINE those == WithStatus(ring, s)
<1> HIDE DEF those
<1>4. those \subseteq 1 .. Len(ring)
  BY <1>3 DEF those
<1>5. IsFiniteSet(those)
  BY <1>2, <1>4, FS_Subset
<1>6. Cardinality(those) \in Nat
  BY <1>5, FS_CardinalityType
<1> QED BY <1>5, <1>6 DEF those

(* One more record of the new one's status at most, of others none.        *)
LEMMA RenewedCounts ==
  ASSUME NEW ring \in Seq(Records), NEW rec, NEW p, NEW old,
         RenewedBy(ring, rec, p, old), hot \in Seq(Records), NEW s
  PROVE  Cardinality(WithStatus(ring, s)) <=
           Cardinality(WithStatus(hot, s)) + (IF rec.status = s THEN 1 ELSE 0)
<1> DEFINE before == WithStatus(hot, s)
           after == WithStatus(ring, s)
           rest == after \ {p}
           moved == [i \in rest |-> old[i]]
<1>1. IsFiniteSet(before) /\ Cardinality(before) \in Nat
  BY CountType
<1>2. IsFiniteSet(after) /\ Cardinality(after) \in Nat
  BY CountType
<1>3. \A i \in rest : /\ i \in DOMAIN ring \ {p} /\ ring[i] = hot[old[i]]
                      /\ old[i] \in DOMAIN hot /\ ring[i].status = s
  BY DEF RenewedBy, WithStatus
<1>4. \A i \in rest : old[i] \in before
  BY <1>3 DEF WithStatus
<1>5. p \in after <=> rec.status = s
  BY DEF RenewedBy, WithStatus
<1>6. \A i, j \in rest : moved[i] = moved[j] => i = j
  BY <1>3 DEF RenewedBy
<1>7. moved \in [rest -> before]
  BY <1>4
<1> HIDE DEF before, after, moved
<1>8. IsFiniteSet(rest) /\ Cardinality(rest) = IF p \in after
                                               THEN Cardinality(after) - 1
                                               ELSE Cardinality(after)
  BY <1>2, FS_RemoveElement
<1> HIDE DEF rest
<1>9. moved \in Injection(rest, before)
  BY <1>6, <1>7, Fun_IsInj
<1>10. Cardinality(rest) <= Cardinality(before)
  BY <1>1, <1>9, FS_Injection
<1>11. Cardinality(after) <= Cardinality(before) + (IF rec.status = s THEN 1 ELSE 0)
  BY <1>1, <1>2, <1>5, <1>8, <1>10
<1> QED BY <1>11 DEF before, after

LEMMA HotAdd ==
  ASSUME Inv, HotInv, TypeOK', RecordsLinked', NEW t \in Txns,
         NEW s \in {"VERIFIED", "QUARANTINED"}, Add(t, s)
  PROVE  HotInv'
<1>1. TypeOK /\ seq = Len(head) /\ OnOneChain /\ Counted /\ InARow
  BY DEF Inv, RecordsLinked, HotInv
<1>2. PICK rec : rec = NextRecord(t, s)
  OBVIOUS
<1>3. rec \in Records /\ WellLinked(rec) /\ rec.txn = t /\ rec.status = s
  BY <1>1, <1>2, NextRecordIsLinked DEF NextRecord, Statuses
<1>4. PICK ring : ring = Evict(HotInsert(rec))
  OBVIOUS
<1>5. ring \in Seq(Records)
  BY <1>1, <1>3, <1>4, HotStep
<1>6. /\ hot' = ring /\ head' = rec.chain /\ seq' = rec.seq
      /\ head' = ChainHash(head, t, clock + 1) /\ seq' = seq + 1
      /\ total' = total + 1 /\ counts' = [counts EXCEPT ![s] = @ + 1]
  BY <1>2, <1>4 DEF Add, NextRecord
<1>7. /\ head \in Hashes /\ head' \in Hashes /\ clock + 1 \in Nat /\ seq \in Nat
      /\ total \in Nat /\ hot \in Seq(Records) /\ counts \in [Statuses -> Nat]
      /\ Len(hot) \in Nat /\ DOMAIN hot = 1 .. Len(hot)
  BY <1>1 DEF TypeOK
<1>8. \A i, j \in DOMAIN hot : i # j => hot[i].txn # hot[j].txn
  BY <1>1 DEF OnOneChain
<1>9. PICK p, old : RenewedBy(ring, rec, p, old)
  BY <1>1, <1>3, <1>4, <1>8, RingAfterAdd
<1>10. \A i \in DOMAIN ring \ {p} : old[i] \in DOMAIN hot /\ ring[i] = hot[old[i]]
  BY <1>9 DEF RenewedBy
<1>11. p \in DOMAIN ring /\ ring[p] = rec
  BY <1>9 DEF RenewedBy
<1>12. OnOneChain'
  <2>1. ASSUME NEW i \in DOMAIN ring
        PROVE  IsPrefix(ring[i].chain, head')
    <3>1. CASE i = p
      BY <1>6, <1>7, <1>11, <3>1, PrefixReflexive
    <3>2. CASE i # p
      <4>1. PICK j \in DOMAIN hot : ring[i] = hot[j]
        BY <1>10, <3>2
      <4>2. hot[j].chain \in Hashes /\ IsPrefix(hot[j].chain, head)
        BY <1>1, RingRecords
      <4> QED BY <1>6, <1>7, <4>1, <4>2, PrefixOfLonger
    <3> QED BY <3>1, <3>2
  <2>2. ASSUME NEW i \in DOMAIN ring \ {p}
        PROVE  ring[i].seq # rec.seq /\ ring[i].txn # rec.txn
    <3>1. old[i] \in DOMAIN hot /\ ring[i] = hot[old[i]] /\ hot[old[i]].txn # rec.txn
      BY <1>9 DEF RenewedBy
    <3>2. hot[old[i]].seq \in 1 .. seq
      BY <1>1, <3>1, RingRecords
    <3> QED BY <1>6, <1>7, <3>1, <3>2
  <2>3. ASSUME NEW i \in DOMAIN ring \ {p}, NEW j \in DOMAIN ring \ {p}, i # j
        PROVE  ring[i].seq # ring[j].seq /\ ring[i].txn # ring[j].txn
    <3>1. old[i] # old[j] /\ old[i] \in DOMAIN hot /\ old[j] \in DOMAIN hot
      BY <1>9, <2>3 DEF RenewedBy
    <3> QED BY <1>1, <1>10, <3>1 DEF OnOneChain
  <2>4. \A i, j \in DOMAIN ring :
          i # j => ring[i].seq # ring[j].seq /\ ring[i].txn # ring[j].txn
    BY <1>11, <2>2, <2>3
  <2>5. \E i \in DOMAIN ring : ring[i].chain = head'
    BY <1>6, <1>11
  <2> QED BY <1>6, <2>1, <2>4, <2>5 DEF OnOneChain
<1>13. Counted'
  <2>1. Sum(counts') = total'
    <3>1. Sum(counts) = total
      BY <1>1 DEF Counted
    <3>2. CASE s = "VERIFIED"
      BY <1>6, <1>7, <3>1, <3>2 DEF Sum, Statuses
    <3>3. CASE s = "QUARANTINED"
      BY <1>6, <1>7, <3>1, <3>3 DEF Sum, Statuses
    <3> QED BY <3>2, <3>3
  <2>2. ASSUME NEW u \in Statuses
        PROVE  counts'[u] >= Cardinality(WithStatus(ring, u))
    <3>1. counts[u] >= Cardinality(WithStatus(hot, u)) /\ counts[u] \in Nat
      BY <1>1, <1>7 DEF Counted
    <3>2. Cardinality(WithStatus(ring, u)) <=
            Cardinality(WithStatus(hot, u)) + (IF rec.status = u THEN 1 ELSE 0)
      BY <1>5, <1>7, <1>9, RenewedCounts
    <3>3. /\ Cardinality(WithStatus(hot, u)) \in Nat
          /\ Cardinality(WithStatus(ring, u)) \in Nat
      BY <1>5, <1>7, CountType
    <3>4. counts'[u] = counts[u] + (IF rec.status = u THEN 1 ELSE 0)
      BY <1>3, <1>6, <1>7
    <3> QED BY <3>1, <3>2, <3>3, <3>4
  <2> QED BY <1>6, <2>1, <2>2 DEF Counted
<1>14. InARow'
  <2> SUFFICES ASSUME NoRepeats(head'), NEW i \in DOMAIN ring
               PROVE  ring[i].seq = (seq' - Len(ring)) + i
    BY <1>6 DEF InARow
  <2>1. /\ Len(head) \in Nat /\ head' = Append(head, [txn |-> t, ts |-> clock + 1])
        /\ Len(head') = Len(head) + 1 /\ head'[Len(head) + 1].txn = t
        /\ \A k \in 1 .. Len(head) : head'[k] = head[k]
        /\ DOMAIN head = 1 .. Len(head) /\ DOMAIN head' = 1 .. Len(head) + 1
    <3>1. head \in Seq(Links) /\ [txn |-> t, ts |-> clock + 1] \in Links
      BY <1>7 DEF Hashes, Links
    <3>2. head' = Append(head, [txn |-> t, ts |-> clock + 1])
      BY <1>6 DEF ChainHash
    <3>3. [txn |-> t, ts |-> clock + 1].txn = t
      OBVIOUS
    <3> DEFINE link == [txn |-> t, ts |-> clock + 1]
    <3> HIDE DEF link
    <3>4. link \in Links /\ link.txn = t /\ head' = Append(head, link)
      BY <3>1, <3>2, <3>3 DEF link
    <3>5. /\ Len(head) \in Nat /\ Len(head') = Len(head) + 1
          /\ head'[Len(head) + 1] = link /\ DOMAIN head = 1 .. Len(head)
          /\ DOMAIN head' = 1 .. Len(head')
          /\ \A k \in 1 .. Len(head) : head'[k] = head[k]
      BY <3>1, <3>4, AppendProperties, LenProperties
    <3> QED BY <3>2, <3>4, <3>5
  <2>2. NoRepeats(head)
    BY <2>1 DEF NoRepeats
  <2>3. HotPositions(rec.txn) = {}
    <3> SUFFICES ASSUME NEW j \in DOMAIN hot, hot[j].txn = t PROVE FALSE
      BY <1>3 DEF HotPositions
    <3>1. hot[j].seq \in 1 .. Len(head) /\ head[hot[j].seq].txn = t
      BY <1>1, RingRecords
    <3>2. head'[hot[j].seq].txn = head'[Len(head) + 1].txn
      BY <2>1, <3>1
    <3>3. hot[j].seq \in DOMAIN head' /\ Len(head) + 1 \in DOMAIN head'
          /\ hot[j].seq # Len(head) + 1
      BY <2>1, <3>1
    <3> QED BY <3>2, <3>3 DEF NoRepeats
  <2>4. /\ Len(ring) \in Nat \ {0} /\ ring[Len(ring)] = rec
        /\ DOMAIN ring = 1 .. Len(ring)
        /\ \A k \in 1 .. Len(ring) - 1 :
             /\ k + ((Len(hot) + 1) - Len(ring)) \in DOMAIN hot
             /\ ring[k] = hot[k + ((Len(hot) + 1) - Len(ring))]
    BY <1>1, <1>3, <1>4, <2>3, AppendedToRing, LenProperties
  <2>5. CASE i = Len(ring)
    <3>1. ring[i].seq = seq' /\ seq' \in Nat
      <4>1. ring[i] = rec
        BY <2>4, <2>5
      <4>2. seq' = rec.seq
        BY <1>6
      <4>3. seq' = seq + 1 /\ seq \in Nat
        BY <1>6, <1>7
      <4> QED BY <4>1, <4>2, <4>3
    <3>2. (seq' - Len(ring)) + Len(ring) = seq'
      BY <2>4, <3>1
    <3> QED BY <2>5, <3>1, <3>2
  <2>6. CASE i # Len(ring)
    <3>1. i \in 1 .. Len(ring) - 1
      BY <2>4, <2>6
    <3>2. PICK j \in DOMAIN hot : j = i + ((Len(hot) + 1) - Len(ring)) /\ ring[i] = hot[j]
      BY <2>4, <3>1
    <3>3. ring[i].seq = (seq - Len(hot)) + j
      BY <1>1, <2>2, <3>2 DEF InARow
    <3> QED BY <1>6, <1>7, <2>4, <3>1, <3>2, <3>3
  <2> QED BY <2>5, <2>6
<1> QED BY <1>12, <1>13, <1>14 DEF HotInv

(* A status change moves one record from one counter to another.           *)
LEMMA HotSetStatus ==
  ASSUME Inv, HotInv, NEW t \in Txns, NEW s \in Statuses, SetStatus(t, s)
  PROVE  HotInv'
<1>1. TypeOK /\ OnOneChain /\ Counted /\ InARow
  BY DEF Inv, HotInv
<1>2. /\ hot \in Seq(Records) /\ Len(hot) \in Nat /\ DOMAIN hot = 1 .. Len(hot)
      /\ counts \in [Statuses -> Nat] /\ total \in Nat
  BY <1>1 DEF TypeOK
<1>3. UNCHANGED <<seq, head, total>>
  BY DEF SetStatus
<1>4. CASE HotPositions(t) = {}
  <2>1. UNCHANGED <<hot, counts>>
    BY <1>4 DEF SetStatus
  <2> QED BY <1>1, <1>3, <2>1 DEF HotInv, OnOneChain, Counted, InARow, WithStatus
<1>5. CASE HotPositions(t) # {}
  <2>1. PICK p \in HotPositions(t) :
          /\ hot' = [hot EXCEPT ![p].status = s]
          /\ counts' = [Decremented(counts, hot[p].status) EXCEPT ![s] = @ + 1]
    BY <1>5 DEF SetStatus
  <2>2. p \in DOMAIN hot /\ hot[p] \in Records
    BY <1>2, ElementOfSeq DEF HotPositions
  <2>3. PICK was \in Statuses : was = hot[p].status
    BY <2>2 DEF Records
  <2> DEFINE q == [hot[p] EXCEPT !.status = s]
  <2>4. /\ q \in Records /\ q.txn = hot[p].txn /\ q.seq = hot[p].seq
        /\ q.chain = hot[p].chain
    BY <2>2, StatusChange
  <2>5. q.status = s
    BY <2>2 DEF Records
  <2>6. hot' = [hot EXCEPT ![p] = q]
    BY <2>1
  <2> HIDE DEF q
  <2>7. /\ hot' \in Seq(Records) /\ Len(hot') = Len(hot) /\ DOMAIN hot' = DOMAIN hot
        /\ \A i \in DOMAIN hot : hot'[i] = IF i = p THEN q ELSE hot[i]
    BY <1>2, <2>2, <2>4, <2>6, ExceptSeq, LenProperties
  <2>8. \A i \in DOMAIN hot : /\ hot'[i].txn = hot[i].txn /\ hot'[i].seq = hot[i].seq
                              /\ hot'[i].chain = hot[i].chain
    BY <2>4, <2>7
  <2>9. OnOneChain' /\ InARow'
    BY <1>1, <1>3, <2>7, <2>8 DEF OnOneChain, InARow
  <2>10. counts[was] >= 1
    <3>1. p \in WithStatus(hot, was)
      BY <2>2, <2>3 DEF WithStatus
    <3>2. IsFiniteSet(WithStatus(hot, was)) /\ Cardinality(WithStatus(hot, was)) \in Nat
      BY <1>2, CountType
    <3>3. Cardinality(WithStatus(hot, was)) # 0
      BY <3>1, <3>2, FS_EmptySet
    <3>4. counts[was] >= Cardinality(WithStatus(hot, was)) /\ counts[was] \in Nat
      BY <1>1, <1>2 DEF Counted
    <3> QED BY <3>2, <3>3, <3>4
  <2>11. \A u \in Statuses :
           counts'[u] = (counts[u] - (IF u = was THEN 1 ELSE 0))
                          + (IF u = s THEN 1 ELSE 0)
    <3> SUFFICES ASSUME NEW u \in Statuses
                 PROVE  counts'[u] = (counts[u] - (IF u = was THEN 1 ELSE 0))
                                       + (IF u = s THEN 1 ELSE 0)
      OBVIOUS
    <3>1. PICK less : less = Decremented(counts, was)
      OBVIOUS
    <3>2. counts' = [less EXCEPT ![s] = @ + 1]
      BY <2>1, <2>3, <3>1
    <3>3. less \in [Statuses -> Nat]
      BY <1>2, <3>1, DecrementedType
    <3>4. less[u] = IF u = was THEN counts[was] - 1 ELSE counts[u]
      BY <1>2, <2>10, <3>1 DEF Decremented
    <3>5. counts'[u] = IF u = s THEN less[u] + 1 ELSE less[u]
      BY <3>2, <3>3
    <3> QED BY <1>2, <3>3, <3>4, <3>5
  <2>12. Sum(counts') = total
    <3>1. Sum(counts) = total
      BY <1>1 DEF Counted
    <3>2. /\ counts["VERIFIED"] \in Nat /\ counts["QUARANTINED"] \in Nat
          /\ counts["REJECTED"] \in Nat /\ counts["PENDING"] \in Nat
      BY <1>2 DEF Statuses
    <3>3. was \in {"VERIFIED", "QUARANTINED", "REJECTED", "PENDING"}
          /\ s \in {"VERIFIED", "QUARANTINED", "REJECTED", "PENDING"}
      BY DEF Statuses
    <3>4. ASSUME NEW u \in {"VERIFIED", "QUARANTINED", "REJECTED", "PENDING"}
          PROVE  counts'[u] = (counts[u] - (IF u = was THEN 1 ELSE 0))
                                + (IF u = s THEN 1 ELSE 0)
      BY <2>11 DEF Statuses
    <3> QED BY <3>1, <3>2, <3>3, <3>4 DEF Sum
  <2>13. ASSUME NEW u \in Statuses
         PROVE  counts'[u] >= Cardinality(WithStatus(hot', u))
    <3> DEFINE before == WithStatus(hot, u)
               after == WithStatus(hot', u)
    <3>1. IsFiniteSet(before) /\ Cardinality(before) \in Nat
      BY <1>2, CountType
    <3>2. Cardinality(before) <= counts[u] /\ counts[u] \in Nat
      BY <1>1, <1>2 DEF Counted
    <3>3. p \in before <=> u = was
      BY <2>2, <2>3 DEF WithStatus
    <3>4. after = IF u = s THEN (before \ {p}) \cup {p} ELSE before \ {p}
      BY <2>2, <2>5, <2>7 DEF WithStatus
    <3> HIDE DEF before, after
    <3> DEFINE rest == before \ {p}
    <3>5. IsFiniteSet(rest)
          /\ Cardinality(rest) = IF p \in before THEN Cardinality(before) - 1
                                 ELSE Cardinality(before)
      BY <3>1, FS_RemoveElement
    <3>6. p \notin rest /\ (after = IF u = s THEN rest \cup {p} ELSE rest)
      BY <3>4
    <3> HIDE DEF rest
    <3>7. Cardinality(rest \cup {p}) = Cardinality(rest) + 1
      BY <3>5, <3>6, FS_AddElement
    <3>8. Cardinality(rest) = Cardinality(before) - (IF u = was THEN 1 ELSE 0)
      BY <3>1, <3>3, <3>5
    <3>9. Cardinality(after) = Cardinality(rest) + (IF u = s THEN 1 ELSE 0)
      <4>1. CASE u = s
        BY <3>6, <3>7, <4>1
      <4>2. CASE u # s
        <5>1. after = rest
          BY <3>6, <4>2
        <5>2. Cardinality(rest) \in Nat
          BY <3>5, FS_CardinalityType
        <5> QED BY <4>2, <5>1, <5>2
      <4> QED BY <4>1, <4>2
    <3>10. Cardinality(after) <= counts'[u]
      BY <2>11, <3>1, <3>2, <3>8, <3>9
    <3>11. Cardinality(after) \in Nat
      BY <2>7, CountType DEF after
    <3>12. counts'[u] \in Int
      BY <2>11, <3>2
    <3> QED BY <3>10, <3>11, <3>12 DEF after
  <2> QED BY <1>3, <2>9, <2>12, <2>13 DEF HotInv, Counted
<1> QED BY <1>4, <1>5

LEMMA HotNext ==
  ASSUME Inv, HotInv, Inv', [Next]_vars
  PROVE  HotInv'
<1>1. CASE \E t \in Txns, s \in {"VERIFIED", "QUARANTINED"} : Add(t, s)
  BY <1>1, HotAdd DEF Inv
<1>2. CASE \E t \in Txns, s \in Statuses \ {"PENDING"} : SetStatus(t, s)
  BY <1>2, HotSetStatus
<1>3. CASE Persist \/ PersistStatus \/ PersistStatusFails \/ Crash \/ UNCHANGED vars
  <2>1. UNCHANGED memoryVars
    BY <1>3 DEF Persist, WriteBucket, WriteBucketFails, WriteTxn, WriteTxnFails,
         SaveHead, SaveHeadFails, SkipPersistence, PersistStatus, PersistStatusFails,
         Crash, vars
  <2> QED BY <2>1 DEF memoryVars, HotInv, OnOneChain, Counted, InARow, WithStatus
<1>4. CASE Restart
  <2>1. hot' = << >> /\ total' = 0 /\ counts' = NoCounts
    BY <1>4 DEF Restart, Resume, ResumeForgets, StartMemoryOnly, Fresh
  <2>2. Len(hot') = 0
    BY <2>1
  <2>3. TypeOK'
    BY DEF Inv
  <2> QED BY <2>1, <2>2, <2>3, HotNoneNext DEF NoRecords
<1> QED BY <1>1, <1>2, <1>3, <1>4 DEF Next

LEMMA HotAlways == Spec => [](Inv /\ HotInv)
<1>1. Init => HotInv
  <2> SUFFICES ASSUME Init PROVE HotInv
    OBVIOUS
  <2>1. Len(hot) = 0 /\ total = 0 /\ counts = NoCounts
    BY DEF Init
  <2> QED BY <2>1, TypeInit, HotNone DEF NoRecords
<1>2. Inv /\ HotInv /\ Inv' /\ [Next]_vars => HotInv'
  BY HotNext
<1> QED BY <1>1, <1>2, Invariance, PTL DEF Spec

(* The ring holds records of one chain, each link and each transaction     *)
(* once, and the newest of them is the head: a transaction that comes back *)
(* takes the place of its older record, and eviction never reaches the     *)
(* record just made (commitment.py:175-219).                               *)
THEOREM RingOnOneChain == Spec => []HotOnOneChain
<1>1. OnOneChain => HotOnOneChain
  BY DEF OnOneChain, HotOnOneChain, HotRecords
<1>2. Inv /\ HotInv => HotOnOneChain
  BY <1>1 DEF HotInv
<1> QED BY <1>2, HotAlways, PTL

(* The counters add up to what was committed, and none of them falls below *)
(* the records of its status in the ring: the max(..., 0) of _set_status   *)
(* never has anything to hide (commitment.py:213-219, 371-379).            *)
THEOREM CountersAddUp == Spec => []CountsConserved
<1>1. Counted => CountsConserved
  BY DEF Counted, CountsConserved, Sum, WithStatus
<1>2. Inv /\ HotInv => CountsConserved
  BY <1>1 DEF HotInv
<1> QED BY <1>2, HotAlways, PTL

-----------------------------------------------------------------------------
(* The exports that verify_chain walks.  A stretch is a set of linked      *)
(* records of one chain, one for each seq between two bounds.              *)
Stretch(S, h, lo, hi) ==
  /\ \A r \in S : WellLinked(r) /\ IsPrefix(r.chain, h) /\ r.seq \in lo .. hi
  /\ \A q, r \in S : q.seq = r.seq => q = r
  /\ \A n \in lo .. hi : \E r \in S : r.seq = n

After(S, k) == {q \in S : q.seq > k}

(* There are as many records after one of a stretch as the seqs say.       *)
LEMMA StretchCount ==
  ASSUME NEW S \in SUBSET Records, NEW h \in Hashes, NEW lo \in Nat, NEW hi \in Nat,
         Stretch(S, h, lo, hi), NEW k \in Int, lo <= k + 1, k <= hi
  PROVE  IsFiniteSet(After(S, k)) /\ Cardinality(After(S, k)) = hi - k
<1> DEFINE those == After(S, k)
           num == [q \in those |-> q.seq]
<1>1. \A q \in those : q \in S /\ q.seq \in (k + 1) .. hi
  BY DEF After, Stretch
<1>2. num \in [those -> (k + 1) .. hi]
  BY <1>1
<1>3. \A p, q \in those : num[p] = num[q] => p = q
  BY <1>1 DEF Stretch
<1>4. \A n \in (k + 1) .. hi : \E q \in those : num[q] = n
  <2> TAKE n \in (k + 1) .. hi
  <2>1. PICK r \in S : r.seq = n
    BY DEF Stretch
  <2>2. r \in those
    BY <2>1 DEF After
  <2> QED BY <2>1, <2>2
<1> HIDE DEF those, num
<1>5. num \in Bijection(those, (k + 1) .. hi)
  BY <1>2, <1>3, <1>4, Fun_IsBij, Fun_IsSurj
<1>6. ExistsBijection((k + 1) .. hi, those)
  BY <1>5, Fun_ExistsBij, Fun_ExistsBijSymmetric
<1>7. IsFiniteSet((k + 1) .. hi) /\ Cardinality((k + 1) .. hi) = hi - k
  <2>1. k + 1 \in Int /\ hi \in Int
    OBVIOUS
  <2>2. /\ IsFiniteSet((k + 1) .. hi)
        /\ Cardinality((k + 1) .. hi) = IF k + 1 > hi THEN 0 ELSE hi - (k + 1) + 1
    BY <2>1, FS_Interval
  <2> QED BY <2>2
<1>8. IsFiniteSet(those) /\ Cardinality(those) = hi - k
  BY <1>6, <1>7, FS_Bijection
<1> QED BY <1>8 DEF those

LEMMA StretchSize ==
  ASSUME NEW S \in SUBSET Records, NEW h \in Hashes, NEW lo \in Nat, NEW hi \in Nat,
         lo <= hi + 1, Stretch(S, h, lo, hi)
  PROVE  IsFiniteSet(S) /\ Cardinality(S) = (hi + 1) - lo
<1>1. After(S, lo - 1) = S
  BY DEF After, Stretch
<1>2. IsFiniteSet(After(S, lo - 1)) /\ Cardinality(After(S, lo - 1)) = hi - (lo - 1)
  BY StretchCount
<1> QED BY <1>1, <1>2

(* The newest records of a stretch, newest first, are an intact chain.     *)
LEMMA StretchIntact ==
  ASSUME NEW S \in SUBSET Records, NEW h \in Hashes, NEW lo \in Nat, NEW hi \in Nat,
         Stretch(S, h, lo, hi), NEW shown \in Nat, NEW recs, DOMAIN recs = 1 .. shown,
         \A i \in 1 .. shown : recs[i] \in S /\ recs[i].seq = (hi + 1) - i
  PROVE  Intact(recs)
<1>1. ASSUME NEW n \in 1 .. shown
      PROVE  ~FailsRecompute(recs[n])
  BY DEF Stretch, WellLinked, FailsRecompute
<1>2. ASSUME NEW i \in 1 .. shown, NEW j \in 1 .. shown
      PROVE  WalkedBefore(recs, i, j) <=> i > j
  <2>1. recs[i].seq = (hi + 1) - i /\ recs[j].seq = (hi + 1) - j
    OBVIOUS
  <2> QED BY <2>1 DEF WalkedBefore
<1>3. ASSUME NEW i \in 1 .. shown, NEW j \in 1 .. shown, IsPredecessor(recs, i, j)
      PROVE  i = j + 1
  <2>1. i > j
    BY <1>2, <1>3 DEF IsPredecessor
  <2>2. j + 1 \in 1 .. shown
    BY <2>1
  <2>3. WalkedBefore(recs, j + 1, j) => j + 1 = i \/ WalkedBefore(recs, j + 1, i)
    BY <1>3, <2>2 DEF IsPredecessor
  <2>4. WalkedBefore(recs, j + 1, j) /\ (WalkedBefore(recs, j + 1, i) <=> j + 1 > i)
    BY <1>2, <2>2
  <2> QED BY <2>1, <2>3, <2>4
<1>4. ASSUME NEW i \in 1 .. shown, NEW j \in 1 .. shown, IsPredecessor(recs, i, j)
      PROVE  recs[j].prev = recs[i].chain /\ recs[j].seq = recs[i].seq + 1
  <2>1. i = j + 1
    BY <1>3, <1>4
  <2>2. PICK q \in Records : q = recs[i]
    OBVIOUS
  <2>3. PICK r \in Records : r = recs[j]
    OBVIOUS
  <2>4. r.seq = q.seq + 1
    BY <2>1, <2>2, <2>3
  <2>5. WellLinked(q) /\ IsPrefix(q.chain, h) /\ WellLinked(r) /\ IsPrefix(r.chain, h)
    BY <2>2, <2>3 DEF Stretch
  <2>6. /\ q.seq \in 1 .. Len(h) /\ Len(h) \in Nat /\ Len(q.chain) = q.seq
        /\ Len(r.prev) = r.seq - 1 /\ \A k \in 1 .. r.seq - 1 : r.prev[k] = h[k]
    BY <2>5, LinkOnChain
  <2>7. r.prev \in Seq(Links) /\ q.chain \in Seq(Links) /\ q.chain \in Hashes
    BY DEF Records, Hashes
  <2>8. \A k \in 1 .. Len(q.chain) : q.chain[k] = h[k]
    BY <2>5, <2>7, PrefixLinks
  <2>9. Len(r.prev) = Len(q.chain)
    BY <2>4, <2>6
  <2>10. \A k \in 1 .. Len(r.prev) : r.prev[k] = q.chain[k]
    BY <2>6, <2>8, <2>9
  <2>11. r.prev = q.chain
    BY <2>7, <2>9, <2>10, SeqEqual
  <2> QED BY <2>2, <2>3, <2>4, <2>11
<1>5. {n \in DOMAIN recs : FailsRecompute(recs[n])} = {}
  BY <1>1
<1>6. {n \in DOMAIN recs : \E i \in DOMAIN recs :
         IsPredecessor(recs, i, n) /\ recs[n].prev # recs[i].chain} = {}
  BY <1>4
<1>7. {n \in DOMAIN recs : \E i \in DOMAIN recs :
         IsPredecessor(recs, i, n) /\ recs[n].seq # recs[i].seq + 1} = {}
  BY <1>4
<1> QED BY <1>5, <1>6, <1>7 DEF Intact, ChainBreaks

(* Over the ring, until a transaction comes back.                          *)
LEMMA RingIntact ==
  ASSUME Inv, HotInv, NoRepeats(head), NEW limit \in Nat
  PROVE  Intact(HotExport(limit))
<1>1. /\ hot \in Seq(Records) /\ Len(hot) \in Nat /\ DOMAIN hot = 1 .. Len(hot)
      /\ seq \in Nat /\ head \in Hashes
  BY DEF Inv, TypeOK
<1>2. OnOneChain
  BY DEF HotInv
<1>3. \A i \in 1 .. Len(hot) : hot[i].seq = (seq - Len(hot)) + i
  BY <1>1 DEF HotInv, InARow
<1>4. \A i \in 1 .. Len(hot) : /\ hot[i] \in Records /\ WellLinked(hot[i])
                               /\ IsPrefix(hot[i].chain, head) /\ hot[i].seq \in 1 .. seq
  BY <1>1, <1>2, RingRecords
<1> DEFINE S == HotRecords
           lo == (seq + 1) - Len(hot)
<1>5. lo \in Nat /\ lo <= seq + 1
  <2>1. CASE Len(hot) = 0
    BY <1>1, <2>1
  <2>2. CASE Len(hot) # 0
    <3>1. 1 \in 1 .. Len(hot)
      BY <1>1, <2>2
    <3>2. hot[1].seq = (seq - Len(hot)) + 1 /\ hot[1].seq \in 1 .. seq
      BY <1>3, <1>4, <3>1
    <3> QED BY <1>1, <3>2
  <2> QED BY <2>1, <2>2
<1>6. \A r \in S : \E i \in 1 .. Len(hot) : r = hot[i]
  BY <1>1 DEF HotRecords
<1>7. S \in SUBSET Records /\ \A i \in 1 .. Len(hot) : hot[i] \in S
  BY <1>1, <1>4, <1>6 DEF HotRecords
<1>8. Stretch(S, head, lo, seq)
  <2>1. ASSUME NEW r \in S
        PROVE  WellLinked(r) /\ IsPrefix(r.chain, head) /\ r.seq \in lo .. seq
    <3>1. PICK i \in 1 .. Len(hot) : r = hot[i]
      BY <1>6
    <3>2. r.seq = (seq - Len(hot)) + i
      BY <1>3, <3>1
    <3> QED BY <1>1, <1>4, <3>1, <3>2
  <2>2. ASSUME NEW q \in S, NEW r \in S, q.seq = r.seq
        PROVE  q = r
    <3>1. PICK i \in 1 .. Len(hot) : q = hot[i]
      BY <1>6
    <3>2. PICK j \in 1 .. Len(hot) : r = hot[j]
      BY <1>6
    <3>3. (seq - Len(hot)) + i = (seq - Len(hot)) + j
      BY <1>3, <2>2, <3>1, <3>2
    <3> QED BY <1>1, <3>1, <3>2, <3>3
  <2>3. ASSUME NEW n \in lo .. seq
        PROVE  \E r \in S : r.seq = n
    <3>1. n - (seq - Len(hot)) \in 1 .. Len(hot)
          /\ (seq - Len(hot)) + (n - (seq - Len(hot))) = n
      BY <1>1, <1>5
    <3> QED BY <1>3, <1>7, <3>1
  <2> QED BY <2>1, <2>2, <2>3 DEF Stretch
<1> HIDE DEF S, lo
<1>9. \A n \in lo .. seq : \E r \in S : r.seq = n
  BY <1>8 DEF Stretch
<1> DEFINE shown == IF limit < Len(hot) THEN limit ELSE Len(hot)
<1>10. shown \in Nat /\ shown <= Len(hot)
  BY <1>1
<1>11. HotExport(limit) = [i \in 1 .. shown |->
                             CHOOSE r \in S : Cardinality({q \in S : q.seq > r.seq}) = i - 1]
  BY DEF HotExport, S
<1> HIDE DEF shown
<1>12. ASSUME NEW i \in 1 .. shown
       PROVE  HotExport(limit)[i] \in S /\ HotExport(limit)[i].seq = (seq + 1) - i
  <2>1. (seq + 1) - i \in lo .. seq
    BY <1>1, <1>10 DEF lo
  <2>2. ASSUME NEW r \in S
        PROVE  r.seq \in Nat /\ Cardinality({q \in S : q.seq > r.seq}) = seq - r.seq
    <3>1. r.seq \in lo .. seq
      BY <1>8 DEF Stretch
    <3>2. r.seq \in Int /\ lo <= r.seq + 1 /\ r.seq <= seq
      BY <1>1, <1>5, <3>1
    <3>3. Cardinality(After(S, r.seq)) = seq - r.seq
      BY <1>1, <1>5, <1>7, <1>8, <3>2, StretchCount
    <3> QED BY <1>5, <3>1, <3>3 DEF After
  <2>3. PICK r \in S : r.seq = (seq + 1) - i
    BY <1>9, <2>1
  <2>4. Cardinality({q \in S : q.seq > r.seq}) = i - 1
    BY <1>1, <2>2, <2>3
  <2> DEFINE c == CHOOSE x \in S : Cardinality({q \in S : q.seq > x.seq}) = i - 1
  <2>5. c \in S /\ Cardinality({q \in S : q.seq > c.seq}) = i - 1
    BY <2>4
  <2>6. HotExport(limit)[i] = c
    BY <1>11
  <2> HIDE DEF c
  <2>7. c.seq \in Nat /\ seq - c.seq = i - 1
    BY <2>2, <2>5
  <2> QED BY <1>1, <2>5, <2>6, <2>7
<1>13. DOMAIN HotExport(limit) = 1 .. shown
  BY <1>11
<1>14. PICK recs : recs = HotExport(limit)
  OBVIOUS
<1>15. DOMAIN recs = 1 .. shown
       /\ \A i \in 1 .. shown : recs[i] \in S /\ recs[i].seq = (seq + 1) - i
  BY <1>12, <1>13, <1>14
<1>16. Intact(recs)
  BY <1>1, <1>5, <1>7, <1>8, <1>10, <1>15, StretchIntact
<1> QED BY <1>14, <1>16

(* The rows of by-bucket.  Timed: along a chain the timestamps go up.      *)
(* OneLedger: a link has one row; and as long as no INSERT was refused and *)
(* every restart resumed the head, the rows are those of the chain in      *)
(* memory, from its first link on without a gap.                           *)
Timed(h) ==
  /\ \A i, j \in 1 .. Len(h) : i < j => h[i].ts < h[j].ts
  /\ \A i \in 1 .. Len(h) : h[i].ts <= clock

RowsUpTo(m) ==
  /\ \A r \in byBucket : r.seq \in 1 .. m
  /\ \A n \in 1 .. m : \E r \in byBucket : r.seq = n

RowsOnHead ==
  /\ \A r \in byBucket : IsPrefix(r.chain, head)
  /\ \E m \in Nat : RowsUpTo(m)

OneLedger ==
  /\ Timed(head) /\ Timed(ledgerHead.hash)
  /\ \A q, r \in byBucket : q.chain = r.chain => q = r
  /\ ~broken /\ refused = {} => RowsOnHead

(* Two linked records with one chain hash were made at one time.           *)
LEMMA SameChainSameTime ==
  ASSUME NEW q \in Records, NEW r \in Records, WellLinked(q), WellLinked(r),
         q.chain = r.chain
  PROVE  q.ts = r.ts /\ q.seq = r.seq
<1>1. q.chain \in Hashes /\ IsPrefix(q.chain, q.chain) /\ IsPrefix(r.chain, q.chain)
  BY PrefixReflexive DEF Records
<1>2. q.seq = Len(q.chain) /\ r.seq = Len(q.chain)
  BY DEF WellLinked
<1>3. q.chain[q.seq] = [txn |-> q.txn, ts |-> q.ts]
  BY <1>1, LinkOnChain
<1>4. q.chain[r.seq] = [txn |-> r.txn, ts |-> r.ts]
  BY <1>1, LinkOnChain
<1>5. [txn |-> q.txn, ts |-> q.ts] = [txn |-> r.txn, ts |-> r.ts]
  BY <1>2, <1>3, <1>4
<1> QED BY <1>2, <1>5

LEMMA LinkTimes ==
  ASSUME NEW h \in Hashes
  PROVE  \A i \in 1 .. Len(h) : h[i].ts \in Nat
<1>1. h \in Seq(Links)
  BY DEF Hashes
<1>2. \A i \in 1 .. Len(h) : h[i] \in Links
  BY <1>1, ElementOfSeq
<1>3. \A link \in Links : link.ts \in Nat
  BY DEF Links
<1> QED BY <1>2, <1>3

(* A chain stays timed while the clock goes on.                            *)
LEMMA ClockGoesOn ==
  ASSUME NEW h \in Hashes, Timed(h), clock \in Nat, clock' \in Nat, clock' >= clock,
         NEW g, g = h
  PROVE  /\ \A i, j \in 1 .. Len(g) : i < j => g[i].ts < g[j].ts
         /\ \A i \in 1 .. Len(g) : g[i].ts <= clock'
<1>1. \A i \in 1 .. Len(h) : h[i].ts \in Nat
  BY LinkTimes
<1> QED BY <1>1 DEF Timed

LEMMA LedgerAdd ==
  ASSUME Inv, OneLedger, Inv', NEW t \in Txns, NEW s \in Statuses, Add(t, s)
  PROVE  OneLedger'
<1>1. /\ head \in Hashes /\ clock \in Nat /\ ledgerHead.hash \in Hashes
      /\ head \in Seq(Links) /\ Len(head) \in Nat
  BY LenProperties DEF Inv, TypeOK, LedgerTypeOK, Heads, Hashes
<1>2. /\ head' = ChainHash(head, t, clock + 1) /\ clock' = clock + 1
      /\ UNCHANGED <<byBucket, ledgerHead, refused, broken>>
  BY DEF Add, NextRecord, ledgerVars
<1>3. PICK link \in Links : link = [txn |-> t, ts |-> clock + 1]
  <2>1. clock + 1 \in Nat
    BY <1>1
  <2>2. [txn |-> t, ts |-> clock + 1] \in Links
    BY <2>1 DEF Links
  <2> QED BY <2>2
<1>4. /\ Len(head') = Len(head) + 1 /\ head'[Len(head) + 1] = link
      /\ \A i \in 1 .. Len(head) : head'[i] = head[i]
  <2>1. head' = Append(head, link)
    BY <1>2, <1>3 DEF ChainHash
  <2> QED BY <1>1, <2>1, AppendProperties
<1>5. link.ts = clock + 1
  BY <1>3
<1>6. Timed(head)'
  <2>1. \A i \in 1 .. Len(head) : head[i].ts \in Nat /\ head[i].ts <= clock
    BY <1>1, LinkTimes DEF OneLedger, Timed
  <2>2. \A i, j \in 1 .. Len(head) : i < j => head[i].ts < head[j].ts
    BY DEF OneLedger, Timed
  <2>3. ASSUME NEW i \in 1 .. Len(head'), NEW j \in 1 .. Len(head'), i < j
        PROVE  head'[i].ts < head'[j].ts
    <3>1. i \in 1 .. Len(head) /\ head'[i] = head[i]
      BY <1>1, <1>4, <2>3
    <3>2. CASE j = Len(head) + 1
      BY <1>1, <1>4, <1>5, <2>1, <3>1, <3>2
    <3>3. CASE j # Len(head) + 1
      <4>1. j \in 1 .. Len(head) /\ head'[j] = head[j]
        BY <1>1, <1>4, <3>3
      <4> QED BY <2>2, <2>3, <3>1, <4>1
    <3> QED BY <3>2, <3>3
  <2>4. ASSUME NEW i \in 1 .. Len(head')
        PROVE  head'[i].ts <= clock'
    <3>1. CASE i = Len(head) + 1
      BY <1>1, <1>2, <1>4, <1>5, <3>1
    <3>2. CASE i # Len(head) + 1
      <4>1. i \in 1 .. Len(head) /\ head'[i] = head[i]
        BY <1>1, <1>4, <3>2
      <4> QED BY <1>1, <1>2, <2>1, <4>1
    <3> QED BY <3>1, <3>2
  <2> QED BY <2>3, <2>4 DEF Timed
<1>7. Timed(ledgerHead.hash)'
  <2>1. clock' \in Nat /\ clock' >= clock
    BY <1>1, <1>2
  <2>2. PICK h \in Hashes : h = ledgerHead.hash
    BY <1>1
  <2>3. Timed(h)
    BY <2>2 DEF OneLedger
  <2>4. PICK g : g = ledgerHead'.hash
    OBVIOUS
  <2>5. g = h
    BY <1>2, <2>2, <2>4
  <2>6. /\ \A i, j \in 1 .. Len(g) : i < j => g[i].ts < g[j].ts
        /\ \A i \in 1 .. Len(g) : g[i].ts <= clock'
    BY <1>1, <2>1, <2>3, <2>5, ClockGoesOn
  <2> QED BY <2>4, <2>6 DEF Timed
<1>8. RowsOnHead => RowsOnHead'
  <2> SUFFICES ASSUME RowsOnHead PROVE RowsOnHead'
    OBVIOUS
  <2>1. ASSUME NEW r \in byBucket PROVE IsPrefix(r.chain, head')
    <3>1. r.chain \in Hashes
      BY DEF Inv, TypeOK, LedgerTypeOK, Records
    <3>2. IsPrefix(r.chain, head)
      BY DEF RowsOnHead
    <3> QED BY <1>1, <1>2, <3>1, <3>2, PrefixOfLonger
  <2> QED BY <1>2, <2>1 DEF RowsOnHead, RowsUpTo
<1> QED BY <1>2, <1>6, <1>7, <1>8 DEF OneLedger

LEMMA LedgerWriteBucket ==
  ASSUME Inv, OneLedger, WriteBucket \/ WriteBucketFails
  PROVE  OneLedger'
<1>1. PICK row \in pending : pending = {row}
  BY DEF Inv, Persisting, InAdd, WriteBucket, WriteBucketFails
<1>2. /\ row \in Records /\ WellLinked(row)
      /\ row.chain = head /\ row.seq = seq /\ row.ts = clock
      /\ available /\ pc = "bucket"
  BY <1>1 DEF Inv, TypeOK, RecordsLinked, Persisting, InAdd, WriteBucket,
              WriteBucketFails
<1>3. /\ byBucket' = byBucket \/ InsertByBucket(row)
      /\ UNCHANGED <<ledgerHead, head, clock, broken>>
  BY <1>1 DEF WriteBucket, WriteBucketFails, memoryVars
<1>4. \A r \in byBucket : r \in Records /\ WellLinked(r) /\ r.ts # row.ts
  <2>1. \A r \in byBucket : r.ts \in Nat /\ r.ts < clock /\ clock \in Nat
    BY <1>2 DEF Inv, Coverage, TypeOK, LedgerTypeOK, Records
  <2>2. \A r \in byBucket : r \in Records /\ WellLinked(r)
    BY DEF Inv, TypeOK, LedgerTypeOK, RecordsLinked
  <2> QED BY <1>2, <2>1, <2>2
<1>5. byBucket' = byBucket \/ byBucket' = byBucket \cup {row}
  BY <1>3, <1>4 DEF InsertByBucket
<1>6. \A q, r \in byBucket' : q.chain = r.chain => q = r
  <2>1. \A q, r \in byBucket : q.chain = r.chain => q = r
    BY DEF OneLedger
  <2>2. \A r \in byBucket : r.chain # row.chain
    BY <1>2, <1>4, SameChainSameTime
  <2> QED BY <1>5, <2>1, <2>2
<1>7. ASSUME ~broken', refused' = {}
      PROVE  RowsOnHead'
  <2>1. /\ ~broken /\ refused = {} /\ byBucket' = byBucket \cup {row}
    <3>1. CASE WriteBucket
      <4>1. InsertByBucket(row) /\ refused' = refused
        BY <1>1, <3>1 DEF WriteBucket
      <4>2. byBucket' = byBucket \cup {row}
        BY <1>4, <4>1 DEF InsertByBucket
      <4> QED BY <1>3, <1>7, <4>1, <4>2
    <3>2. CASE WriteBucketFails
      BY <1>1, <1>7, <3>2 DEF WriteBucketFails
    <3> QED BY <3>1, <3>2
  <2>2. RowsOnHead
    BY <2>1 DEF OneLedger
  <2>3. head \in Hashes /\ IsPrefix(head, head) /\ seq = Len(head)
    BY PrefixReflexive DEF Inv, TypeOK, RecordsLinked
  <2>4. \A r \in byBucket' : r \in Records /\ WellLinked(r) /\ IsPrefix(r.chain, head)
    BY <1>2, <1>4, <2>1, <2>2, <2>3 DEF RowsOnHead
  <2>5. \A r \in byBucket' : r.seq \in 1 .. seq
    BY <2>3, <2>4, LinkOnChain
  <2>6. row.prev \in Hashes /\ Len(row.prev) \in Nat /\ Len(row.prev) = seq - 1
    BY <1>2, <2>3, LinkOnChain, LenProperties DEF Records, Hashes
  <2>7. EveryLinkIn(Stored, row.prev)
    BY <1>1, <1>2 DEF Inv, Coverage
  <2>8. ASSUME NEW n \in 1 .. seq
        PROVE  \E r \in byBucket' : r.seq = n
    <3>1. CASE n = seq
      BY <1>2, <2>1, <3>1
    <3>2. CASE n # seq
      <4>1. n \in 1 .. Len(row.prev) /\ n \in Nat /\ seq \in Nat
        BY <2>6, <3>2 DEF Inv, TypeOK
      <4>2. SubSeq(row.prev, 1, n) \in Stored
        BY <2>7, <4>1 DEF EveryLinkIn
      <4>3. PICK r \in byBucket : r.chain = SubSeq(row.prev, 1, n)
        BY <2>1, <4>2 DEF Stored
      <4>4. Len(SubSeq(row.prev, 1, n)) = n
        <5>1. row.prev \in Seq(Links)
          BY <2>6 DEF Hashes
        <5>2. \A i \in 1 .. n : row.prev[i] \in Links
          BY <2>6, <4>1, <5>1, ElementOfSeq
        <5> QED BY <4>1, <5>2, SubSeqProperties
      <4>5. r.seq = n
        BY <1>4, <4>3, <4>4 DEF WellLinked
      <4> QED BY <2>1, <4>5
    <3> QED BY <3>1, <3>2
  <2>9. seq \in Nat
    BY DEF Inv, TypeOK
  <2> QED BY <1>3, <2>4, <2>5, <2>8, <2>9 DEF RowsOnHead, RowsUpTo
<1> QED BY <1>3, <1>6, <1>7 DEF OneLedger, Timed

LEMMA LedgerRestart ==
  ASSUME Inv, OneLedger, Restart
  PROVE  OneLedger'
<1>1. UNCHANGED <<byBucket, ledgerHead, clock, refused>>
  BY DEF Restart, Resume, ResumeForgets, StartMemoryOnly, Fresh
<1>2. /\ head' = ledgerHead.hash \/ head' = << >>
      /\ ~broken' => ~broken /\ head' = head
  BY DEF Restart, Resume, ResumeForgets, StartMemoryOnly, ResumeAt, GenesisHash
<1>3. Timed(head)'
  <2>1. CASE head' = ledgerHead.hash
    BY <1>1, <2>1 DEF OneLedger, Timed
  <2>2. CASE head' = << >>
    <3>1. Len(head') = 0
      BY <2>2
    <3> QED BY <3>1 DEF Timed
  <2> QED BY <1>2, <2>1, <2>2
<1>4. ~broken' /\ refused' = {} => RowsOnHead'
  BY <1>1, <1>2 DEF OneLedger, RowsOnHead, RowsUpTo
<1> QED BY <1>1, <1>3, <1>4 DEF OneLedger, Timed

LEMMA LedgerNext ==
  ASSUME Inv, OneLedger, Inv', [Next]_vars
  PROVE  OneLedger'
<1>1. CASE \E t \in Txns, s \in {"VERIFIED", "QUARANTINED"} : Add(t, s)
  BY <1>1, LedgerAdd DEF Statuses
<1>2. CASE WriteBucket \/ WriteBucketFails
  BY <1>2, LedgerWriteBucket
<1>3. CASE SaveHead
  <2>1. ledgerHead'.hash = head /\ head' = head
    BY <1>3, SavedHeadIsHead
  <2>2. UNCHANGED <<byBucket, clock, refused, broken>>
    BY <1>3 DEF SaveHead
  <2> QED BY <2>1, <2>2 DEF OneLedger, Timed, RowsOnHead, RowsUpTo
<1>4. CASE WriteTxn \/ WriteTxnFails \/ SaveHeadFails \/ SkipPersistence
           \/ PersistStatus \/ PersistStatusFails \/ Crash \/ UNCHANGED vars
           \/ \E t \in Txns, s \in Statuses \ {"PENDING"} : SetStatus(t, s)
  <2>1. UNCHANGED <<byBucket, ledgerHead, head, clock, refused, broken>>
    BY <1>4 DEF WriteTxn, WriteTxnFails, SaveHeadFails, SkipPersistence,
         PersistStatus, PersistStatusFails, Crash, SetStatus, vars, ledgerVars,
         memoryVars
  <2> QED BY <2>1 DEF OneLedger, Timed, RowsOnHead, RowsUpTo
<1>5. CASE Restart
  BY <1>5, LedgerRestart
<1> QED BY <1>1, <1>2, <1>3, <1>4, <1>5 DEF Next, Persist

LEMMA LedgerAlways == Spec => [](Inv /\ OneLedger)
<1>1. Init => OneLedger
  <2> SUFFICES ASSUME Init PROVE OneLedger
    OBVIOUS
  <2>1. head = << >> /\ ledgerHead.hash = << >> /\ byBucket = {}
    BY DEF Init, LedgerInit, GenesisHash
  <2>2. Timed(head) /\ Timed(ledgerHead.hash)
    BY <2>1 DEF Timed
  <2>3. RowsUpTo(0) /\ 0 \in Nat
    BY <2>1 DEF RowsUpTo
  <2> QED BY <2>1, <2>2, <2>3 DEF OneLedger, RowsOnHead
<1>2. Inv /\ OneLedger /\ Inv' /\ [Next]_vars => OneLedger'
  BY LedgerNext
<1> QED BY <1>1, <1>2, Invariance, PTL DEF Spec

(* Over the durable tier: the newest rows by time are the newest by seq.   *)
LEMMA LedgerIntact ==
  ASSUME Inv, OneLedger, ~broken, refused = {}, NEW limit \in Nat
  PROVE  Intact(Recent(limit))
<1>1. head \in Hashes /\ byBucket \in SUBSET Records
  BY DEF Inv, TypeOK, LedgerTypeOK
<1>2. RowsOnHead
  BY DEF OneLedger
<1>3. PICK m \in Nat : RowsUpTo(m)
  BY <1>2 DEF RowsOnHead
<1>4. ASSUME NEW r \in byBucket
      PROVE  /\ r \in Records /\ WellLinked(r) /\ IsPrefix(r.chain, head)
             /\ r.seq \in 1 .. m /\ r.seq \in 1 .. Len(head)
             /\ r.ts \in Nat /\ head[r.seq].ts = r.ts
  <2>1. r \in Records /\ WellLinked(r)
    BY DEF Inv, TypeOK, LedgerTypeOK, RecordsLinked
  <2>2. IsPrefix(r.chain, head) /\ r.seq \in 1 .. m
    BY <1>2, <1>3 DEF RowsOnHead, RowsUpTo
  <2>3. r.seq \in 1 .. Len(head) /\ head[r.seq] = [txn |-> r.txn, ts |-> r.ts]
    BY <1>1, <2>1, <2>2, LinkOnChain
  <2> QED BY <2>1, <2>2, <2>3 DEF Records
<1>5. ASSUME NEW q \in byBucket, NEW r \in byBucket, q.seq = r.seq
      PROVE  q = r
  <2>1. Len(q.chain) = Len(r.chain)
    BY <1>4, <1>5 DEF WellLinked
  <2>2. q.chain \in Hashes /\ r.chain \in Hashes
        /\ q.chain \in Seq(Links) /\ r.chain \in Seq(Links)
    BY <1>4 DEF Records, Hashes
  <2>3. /\ \A i \in 1 .. Len(q.chain) : q.chain[i] = head[i]
        /\ \A i \in 1 .. Len(r.chain) : r.chain[i] = head[i]
    BY <1>1, <1>4, <2>2, PrefixLinks
  <2>4. \A i \in 1 .. Len(q.chain) : q.chain[i] = r.chain[i]
    BY <2>1, <2>3
  <2>5. q.chain = r.chain
    BY <2>1, <2>2, <2>4, SeqEqual
  <2> QED BY <2>5 DEF OneLedger
<1>6. Stretch(byBucket, head, 1, m)
  BY <1>3, <1>4, <1>5 DEF Stretch, RowsUpTo
<1>7. IsFiniteSet(byBucket) /\ Cardinality(byBucket) = m
  <2>1. Cardinality(byBucket) = (m + 1) - 1 /\ IsFiniteSet(byBucket)
    BY <1>1, <1>6, StretchSize
  <2> QED BY <2>1
<1>8. ASSUME NEW q \in byBucket, NEW r \in byBucket
      PROVE  q.ts > r.ts <=> q.seq > r.seq
  <2>1. \A i, j \in 1 .. Len(head) : i < j => head[i].ts < head[j].ts
    BY DEF OneLedger, Timed
  <2>2. /\ q.seq \in 1 .. Len(head) /\ r.seq \in 1 .. Len(head)
        /\ head[q.seq].ts = q.ts /\ head[r.seq].ts = r.ts
        /\ q.ts \in Nat /\ r.ts \in Nat
    BY <1>4
  <2>3. q.seq > r.seq => q.ts > r.ts
    BY <2>1, <2>2
  <2>4. q.seq < r.seq => q.ts < r.ts
    BY <2>1, <2>2
  <2>5. q.seq = r.seq => q.ts = r.ts
    BY <2>2
  <2> QED BY <2>2, <2>3, <2>4, <2>5
<1>9. ASSUME NEW r \in byBucket
      PROVE  r.seq \in Nat /\ Cardinality(NewerThan(byBucket, r)) = m - r.seq
  <2>1. r.seq \in 1 .. m
    BY <1>4
  <2>2. r.seq \in Int /\ 1 <= r.seq + 1 /\ r.seq <= m /\ 1 \in Nat
    BY <2>1
  <2>3. Cardinality(After(byBucket, r.seq)) = m - r.seq
    BY <1>1, <1>6, <2>2, StretchCount
  <2>4. NewerThan(byBucket, r) = After(byBucket, r.seq)
    BY <1>8 DEF NewerThan, After
  <2> QED BY <2>1, <2>3, <2>4
<1> DEFINE shown == IF limit < m THEN limit ELSE m
<1>10. shown \in Nat /\ shown <= m
  OBVIOUS
<1>11. Recent(limit) = [i \in 1 .. shown |->
                          CHOOSE r \in byBucket : Cardinality(NewerThan(byBucket, r)) = i - 1]
  BY <1>7 DEF Recent, NewestFirst
<1> HIDE DEF shown
<1>12. ASSUME NEW i \in 1 .. shown
       PROVE  Recent(limit)[i] \in byBucket /\ Recent(limit)[i].seq = (m + 1) - i
  <2>1. (m + 1) - i \in 1 .. m
    BY <1>10
  <2>2. PICK r \in byBucket : r.seq = (m + 1) - i
    BY <1>3, <2>1 DEF RowsUpTo
  <2>3. Cardinality(NewerThan(byBucket, r)) = i - 1
    BY <1>9, <2>2
  <2> DEFINE c == CHOOSE x \in byBucket : Cardinality(NewerThan(byBucket, x)) = i - 1
  <2>4. c \in byBucket /\ Cardinality(NewerThan(byBucket, c)) = i - 1
    BY <2>3
  <2>5. Recent(limit)[i] = c
    BY <1>11
  <2> HIDE DEF c
  <2>6. c.seq \in Nat /\ m - c.seq = i - 1
    BY <1>9, <2>4
  <2> QED BY <2>4, <2>5, <2>6
<1>13. DOMAIN Recent(limit) = 1 .. shown
  BY <1>11
<1>14. PICK recs : recs = Recent(limit)
  OBVIOUS
<1>15. DOMAIN recs = 1 .. shown
       /\ \A i \in 1 .. shown : recs[i] \in byBucket /\ recs[i].seq = (m + 1) - i
  BY <1>12, <1>13, <1>14
<1>16. Intact(recs)
  BY <1>1, <1>6, <1>10, <1>15, StretchIntact
<1> QED BY <1>14, <1>16

(* verify_chain raises no false alarm, for any limit and at any moment:    *)
(* over the durable tier unless an INSERT was refused or a restart did not *)
(* resume the head, over the ring until a transaction is committed twice   *)
(* (commitment.py:321-366, cassandra_store.py:355-371).                    *)
THEOREM ExportsAlwaysIntact == Spec => []NoFalseAlarm
<1>1. Inv /\ HotInv /\ OneLedger => NoFalseAlarm
  <2> SUFFICES ASSUME Inv, HotInv, OneLedger, NEW limit \in 1 .. MaxAdds
               PROVE  /\ ~broken /\ refused = {} => Intact(Recent(limit))
                      /\ pc # "down" /\ NoRepeats(head) => Intact(HotExport(limit))
    BY DEF NoFalseAlarm
  <2>1. limit \in Nat
    BY BoundsAssumption
  <2> QED BY <2>1, LedgerIntact, RingIntact
<1> QED BY <1>1, HotAlways, LedgerAlways, PTL
=============================================================================
