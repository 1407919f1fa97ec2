----------------------- MODULE VerifierService_proofs -----------------------
(***************************************************************************)
(* Proofs about VerifierService, for every set of transactions, sizes of   *)
(* the buffers, and number of records, errors and restarts.                *)
(***************************************************************************)
EXTENDS VerifierService, SequenceTheorems, FiniteSetTheorems, TLAPS

-----------------------------------------------------------------------------
(* The inductive invariant.  Chained: the topic holds one chain, record by *)
(* record.  Tracked: the verifier has accepted a stretch of it from the    *)
(* first record on, the head it tracks is the last record of that stretch, *)
(* and the consumer is nowhere past it but for the record at hand.         *)
Accepted == stats["chain_ok"]

Chained ==
  \A i \in 1 .. Len(topic) :
    /\ WellLinked(topic[i]) /\ Len(topic[i].chain) = i
    /\ topic[i].prev = IF i = 1 THEN << >> ELSE topic[i - 1].chain

Tracked ==
  /\ Accepted \in 0 .. Len(topic)
  /\ expectedPrev = IF Accepted = 0 THEN {} ELSE {topic[Accepted].chain}
  /\ verifying = {} => position <= Accepted
  /\ verifying # {} =>
       /\ connected /\ position >= 1 /\ position <= Accepted + 1
       /\ verifying = {topic[position]}

Inv == TypeOK /\ Chained /\ Tracked

-----------------------------------------------------------------------------
(* A ring stays a ring.                                                    *)
LEMMA PushType ==
  ASSUME NEW ring \in Seq(Records), Len(ring) <= BufferSize, NEW rec \in Records
  PROVE  Push(ring, rec) \in Seq(Records) /\ Len(Push(ring, rec)) <= BufferSize
<1>1. Len(ring) \in Nat /\ BufferSize \in Nat \ {0}
  BY LenProperties, BufferAssumption
<1>2. CASE Len(ring) < BufferSize
  <2>1. Push(ring, rec) = Append(ring, rec)
    BY <1>2 DEF Push
  <2>2. Append(ring, rec) \in Seq(Records) /\ Len(Append(ring, rec)) = Len(ring) + 1
    BY AppendProperties
  <2> QED BY <1>1, <1>2, <2>1, <2>2
<1>3. CASE ~(Len(ring) < BufferSize)
  <2>1. Push(ring, rec) = Append(Tail(ring), rec)
    BY <1>3 DEF Push
  <2>2. ring # << >>
    BY <1>1, <1>3, EmptySeq
  <2>3. Tail(ring) \in Seq(Records) /\ Len(Tail(ring)) = Len(ring) - 1
    BY <2>2, HeadTailProperties
  <2>4. /\ Append(Tail(ring), rec) \in Seq(Records)
        /\ Len(Append(Tail(ring), rec)) = Len(Tail(ring)) + 1
    BY <2>3, AppendProperties
  <2> QED BY <1>1, <2>1, <2>3, <2>4
<1> QED BY <1>2, <1>3

(* Pruning makes room for a report, and a report takes the place of one of *)
(* the same transaction or a new one.                                      *)
LEMMA PrunedType ==
  ASSUME NEW entries \in Seq(Reports), Len(entries) <= MaxReports + 1
  PROVE  Pruned(entries) \in Seq(Reports) /\ Len(Pruned(entries)) <= MaxReports
<1>1. Len(entries) \in Nat /\ PruneCount \in Nat \ {0} /\ MaxReports \in Nat
  BY LenProperties, BufferAssumption
<1>2. CASE Len(entries) > MaxReports
  <2> DEFINE kept == SubSeq(entries, PruneCount + 1, Len(entries))
  <2>1. \A i \in PruneCount + 1 .. Len(entries) : entries[i] \in Reports
    BY <1>1, ElementOfSeq
  <2>2. /\ kept \in Seq(Reports)
        /\ Len(kept) = IF PruneCount + 1 <= Len(entries)
                       THEN Len(entries) - (PruneCount + 1) + 1 ELSE 0
    <3>1. PruneCount + 1 \in Int /\ Len(entries) \in Int
      BY <1>1
    <3> QED BY <2>1, <3>1, SubSeqProperties
  <2> HIDE DEF kept
  <2>3. Len(kept) <= MaxReports
    BY <1>1, <2>2
  <2> QED BY <1>2, <2>2, <2>3 DEF Pruned, kept
<1>3. CASE ~(Len(entries) > MaxReports)
  BY <1>1, <1>3 DEF Pruned
<1> QED BY <1>2, <1>3

LEMMA ReportedType ==
  ASSUME NEW entries \in Seq(Reports), Len(entries) <= MaxReports,
         NEW report \in Reports
  PROVE  /\ Reported(entries, report) \in Seq(Reports)
         /\ Len(Reported(entries, report)) <= MaxReports + 1
<1>1. Len(entries) \in Nat /\ DOMAIN entries = 1 .. Len(entries) /\ MaxReports \in Nat
  BY LenProperties, BufferAssumption
<1>2. CASE \E i \in DOMAIN entries : entries[i].txn = report.txn
  <2> DEFINE e == Reported(entries, report)
  <2>1. e = [i \in 1 .. Len(entries) |->
               IF entries[i].txn = report.txn THEN report ELSE entries[i]]
    BY <1>1, <1>2 DEF Reported
  <2>2. \A i \in 1 .. Len(entries) : entries[i] \in Reports
    BY ElementOfSeq
  <2>3. e \in [1 .. Len(entries) -> Reports]
    BY <2>1, <2>2
  <2> HIDE DEF e
  <2>4. e \in Seq(Reports)
    BY <1>1, <2>3, SeqDef
  <2>5. Len(e) = Len(entries)
    BY <1>1, <2>3, <2>4, LenProperties
  <2> QED BY <1>1, <2>4, <2>5 DEF e
<1>3. CASE ~\E i \in DOMAIN entries : entries[i].txn = report.txn
  <2>1. Reported(entries, report) = Append(entries, report)
    BY <1>3 DEF Reported
  <2>2. /\ Append(entries, report) \in Seq(Reports)
        /\ Len(Append(entries, report)) = Len(entries) + 1
    BY AppendProperties
  <2> QED BY <1>1, <2>1, <2>2
<1> QED BY <1>2, <1>3

LEMMA StatsType ==
  ASSUME VerifierTypeOK, NEW rec, rec.chain \in Hashes, VerifyEnvelope(rec)
  PROVE  VerifierTypeOK'
BY DEF VerifierTypeOK, VerifyEnvelope

LEMMA EmptyRings ==
  /\ << >> \in Seq(Records) /\ Len(<< >>) <= BufferSize
  /\ << >> \in Seq(Reports) /\ Len(<< >>) <= MaxReports + 1
<1>1. BufferSize \in Nat /\ MaxReports \in Nat
  BY BufferAssumption
<1>2. << >> \in Seq(Records) /\ Len(<< >>) = 0
  BY EmptySeq
<1>3. << >> \in Seq(Reports)
  BY EmptySeq
<1> QED BY <1>1, <1>2, <1>3

LEMMA TypeInit == Init => TypeOK
<1> SUFFICES ASSUME Init PROVE TypeOK
  OBVIOUS
<1>1. << >> \in Seq(Records) /\ Len(<< >>) = 0
  BY EmptySeq
<1>2. FetchRetries \in Nat
  BY FetchAssumption
<1>3. VerifierTypeOK
  BY DEF Init, ServiceInit, VerifierInit, NoStats, VerifierTypeOK
<1>4. Len(topic) = 0 /\ offset \in 0 .. position /\ position \in 0 .. Len(topic)
  BY <1>1 DEF Init, ServiceInit
<1>5. fetchesLeft \in 0 .. FetchRetries
  BY <1>2 DEF Init, ServiceInit
<1>6. /\ buffer \in Seq(Records) /\ Len(buffer) <= BufferSize
      /\ reports \in Seq(Reports) /\ Len(reports) <= MaxReports + 1
  BY EmptyRings DEF Init, ServiceInit
<1>7. /\ topic \in Seq(Records) /\ connected \in BOOLEAN
      /\ verifying \in SUBSET Records /\ failures \in Nat
  BY <1>1 DEF Init, ServiceInit
<1> QED BY <1>3, <1>4, <1>5, <1>6, <1>7 DEF TypeOK

LEMMA HeadOfTopic ==
  ASSUME TypeOK, Chained
  PROVE  NextHead \in Hashes /\ Len(NextHead) = Len(topic)
<1>1. Len(topic) \in Nat /\ \A i \in 1 .. Len(topic) : topic[i] \in Records
  BY LenProperties, ElementOfSeq DEF TypeOK
<1>2. CASE topic = << >>
  BY <1>2, EmptySeq DEF NextHead, GenesisHash, Hashes
<1>3. CASE topic # << >>
  <2>1. Len(topic) \in 1 .. Len(topic)
    BY <1>1, <1>3, EmptySeq DEF TypeOK
  <2>2. NextHead = topic[Len(topic)].chain
    BY <1>3 DEF NextHead, Last
  <2>3. topic[Len(topic)].chain \in Hashes
    BY <1>1, <2>1 DEF Records
  <2> QED BY <2>1, <2>2, <2>3 DEF Chained
<1> QED BY <1>2, <1>3

-----------------------------------------------------------------------------
LEMMA InvInit == Init => Inv
<1> SUFFICES ASSUME Init PROVE Inv
  OBVIOUS
<1>1. TypeOK
  BY TypeInit
<1>2. Len(topic) = 0
  BY EmptySeq DEF Init
<1>3. Chained /\ Tracked
  BY <1>2 DEF Init, ServiceInit, VerifierInit, NoStats, Counters, Chained, Tracked,
    Accepted
<1> QED BY <1>1, <1>3 DEF Inv

LEMMA InvFetch ==
  ASSUME Inv, FetchKey \/ FetchFails
  PROVE  Inv'
<1>1. TypeOK'
  <2>1. CASE FetchKey
    BY <2>1 DEF Inv, TypeOK, VerifierTypeOK, FetchKey, SetPublicKey, serviceVars
  <2>2. CASE FetchFails
    <3>1. fetchesLeft' \in 0 .. FetchRetries
      BY <2>2, FetchAssumption DEF Inv, TypeOK, FetchFails
    <3> QED BY <2>2, <3>1 DEF Inv, TypeOK, VerifierTypeOK, FetchFails, verifierVars
  <2> QED BY <2>1, <2>2
<1>2. Chained' /\ Tracked'
  BY DEF Inv, Chained, Tracked, Accepted, FetchKey, FetchFails, SetPublicKey,
    verifierVars, serviceVars
<1> QED BY <1>1, <1>2 DEF Inv

(* A group's committed offset is behind its position.                      *)
LEMMA InvConnect ==
  ASSUME Inv, Connect
  PROVE  Inv'
<1>1. Len(topic) \in Nat /\ position \in 0 .. Len(topic) /\ offset \in 0 .. position
  BY LenProperties DEF Inv, TypeOK
<1>2. TypeOK'
  BY <1>1 DEF Inv, TypeOK, VerifierTypeOK, Connect, verifierVars
<1>3. verifying = {} /\ position <= Accepted
  BY DEF Inv, Tracked, Connect
<1>4. Accepted \in Nat
  BY <1>1 DEF Inv, Tracked
<1>5. Chained' /\ Tracked'
  BY <1>1, <1>3, <1>4 DEF Inv, Chained, Tracked, Accepted, Connect, verifierVars
<1> QED BY <1>2, <1>5 DEF Inv

LEMMA InvReceive ==
  ASSUME Inv, Receive
  PROVE  Inv'
<1>1. Len(topic) \in Nat /\ position \in 0 .. Len(topic) /\ offset \in 0 .. position
      /\ position < Len(topic) /\ verifying = {}
  BY LenProperties DEF Inv, TypeOK, Receive
<1>2. position + 1 \in 1 .. Len(topic) /\ topic[position + 1] \in Records
  BY <1>1, ElementOfSeq DEF Inv, TypeOK
<1>3. /\ Push(buffer, topic[position + 1]) \in Seq(Records)
      /\ Len(Push(buffer, topic[position + 1])) <= BufferSize
  BY <1>2, PushType DEF Inv, TypeOK
<1>4. /\ position' = position + 1 /\ offset' \in {offset, position}
      /\ buffer' = Push(buffer, topic[position + 1])
      /\ verifying' = {topic[position + 1]} /\ connected
      /\ UNCHANGED <<verifierVars, topic, connected, reports, fetchesLeft, failures>>
  BY DEF Receive
<1>5. offset' \in 0 .. position' /\ position' \in 0 .. Len(topic')
  BY <1>1, <1>2, <1>4
<1>6. TypeOK'
  BY <1>2, <1>3, <1>4, <1>5 DEF Inv, TypeOK, VerifierTypeOK, verifierVars
<1>7. position <= Accepted
  BY <1>1 DEF Inv, Tracked
<1>8. UNCHANGED <<topic, stats, expectedPrev>>
  BY <1>4 DEF verifierVars
<1>9. Chained'
  BY <1>8 DEF Inv, Chained
<1>10. Tracked'
  <2>1. Accepted' = Accepted /\ connected' = TRUE
    BY <1>4, <1>8 DEF Accepted
  <2>2. /\ Accepted \in 0 .. Len(topic)
        /\ expectedPrev = IF Accepted = 0 THEN {} ELSE {topic[Accepted].chain}
    BY DEF Inv, Tracked
  <2>3. /\ position' >= 1 /\ position' <= Accepted' + 1
        /\ verifying' = {topic'[position']} /\ verifying' # {}
    BY <1>1, <1>4, <1>7, <1>8, <2>1, <2>2
  <2> HIDE DEF Accepted
  <2> QED BY <1>8, <2>1, <2>2, <2>3 DEF Tracked
<1> QED BY <1>6, <1>9, <1>10 DEF Inv

(* The record at hand is accepted exactly if it is the next one.           *)
LEMMA NextOrRejected ==
  ASSUME Inv, NEW rec \in verifying
  PROVE  /\ rec = topic[position] /\ position \in 1 .. Len(topic)
         /\ position <= Accepted + 1
         /\ ChainOk(rec) <=> position = Accepted + 1
<1>1. /\ Len(topic) \in Nat /\ position \in 0 .. Len(topic)
      /\ \A i \in 1 .. Len(topic) : topic[i] \in Records
  BY LenProperties, ElementOfSeq DEF Inv, TypeOK
<1>2. /\ rec = topic[position] /\ position \in 1 .. Len(topic)
      /\ position <= Accepted + 1 /\ Accepted \in 0 .. Len(topic)
  BY <1>1 DEF Inv, Tracked
<1>3. ~FailsRecompute(rec)
  BY <1>2 DEF Inv, Chained, WellLinked, FailsRecompute
<1>4. Len(rec.prev) = position - 1
  <2>1. CASE position = 1
    BY <1>2, <2>1, EmptySeq DEF Inv, Chained
  <2>2. CASE position # 1
    <3>1. position - 1 \in 1 .. Len(topic)
      BY <1>1, <1>2, <2>2
    <3>2. rec.prev = topic[position - 1].chain
      BY <1>2, <2>2 DEF Inv, Chained
    <3> QED BY <3>1, <3>2 DEF Inv, Chained
  <2> QED BY <2>1, <2>2
<1>5. CASE Accepted = 0
  <2>1. position = Accepted + 1 /\ expectedPrev = {}
    BY <1>1, <1>2, <1>5 DEF Inv, Tracked
  <2> QED BY <1>2, <1>3, <2>1 DEF ChainOk, Follows
<1>6. CASE Accepted # 0
  <2>1. /\ Accepted \in 1 .. Len(topic)
        /\ expectedPrev = {topic[Accepted].chain}
        /\ Len(topic[Accepted].chain) = Accepted
    BY <1>1, <1>2, <1>6 DEF Inv, Tracked, Chained
  <2>2. ChainOk(rec) <=> rec.prev = topic[Accepted].chain
    BY <1>3, <2>1 DEF ChainOk, Follows
  <2>3. rec.prev = topic[Accepted].chain => position - 1 = Accepted
    BY <1>4, <2>1
  <2>4. position = Accepted + 1 => rec.prev = topic[Accepted].chain
    <3> SUFFICES ASSUME position = Accepted + 1
                 PROVE  rec.prev = topic[Accepted].chain
      OBVIOUS
    <3>1. position # 1 /\ position - 1 = Accepted
      BY <1>1, <2>1
    <3> QED BY <1>2, <3>1 DEF Inv, Chained
  <2> QED BY <1>1, <1>2, <2>1, <2>2, <2>3, <2>4
<1> QED BY <1>5, <1>6

LEMMA InvVerify ==
  ASSUME Inv, Verify
  PROVE  Inv'
<1>1. PICK rec \in verifying :
        /\ VerifyEnvelope(rec)
        /\ reports' = Reported(Pruned(reports),
                               [txn |-> rec.txn, verified |-> ChainOk(rec)])
  BY DEF Verify
<1>2. /\ verifying' = {}
      /\ UNCHANGED <<topic, position, offset, connected, buffer, fetchesLeft, failures>>
  BY DEF Verify
<1>3. /\ rec = topic[position] /\ position \in 1 .. Len(topic)
      /\ position <= Accepted + 1
      /\ ChainOk(rec) <=> position = Accepted + 1
  BY NextOrRejected
<1>4. rec \in Records /\ Len(topic) \in Nat
  BY <1>3, ElementOfSeq, LenProperties DEF Inv, TypeOK
<1>5. VerifierTypeOK'
  BY <1>1, <1>4, StatsType DEF Inv, TypeOK, Records
<1>6. ChainOk(rec) \in BOOLEAN
  BY DEF ChainOk, FailsRecompute, Follows
<1>7. [txn |-> rec.txn, verified |-> ChainOk(rec)] \in Reports
  BY <1>4, <1>6 DEF Reports, Records
<1>8. reports' \in Seq(Reports) /\ Len(reports') <= MaxReports + 1
  <2>1. Pruned(reports) \in Seq(Reports) /\ Len(Pruned(reports)) <= MaxReports
    BY PrunedType DEF Inv, TypeOK
  <2> QED BY <1>1, <1>7, <2>1, ReportedType
<1>9. TypeOK'
  BY <1>2, <1>5, <1>8 DEF Inv, TypeOK
<1>10. stats \in [Counters -> Nat] /\ Accepted \in Nat
  BY <1>4 DEF Inv, TypeOK, VerifierTypeOK, Tracked
<1>11. Chained'
  BY <1>2 DEF Inv, Chained
<1>12. CASE ChainOk(rec)
  <2>1. "chain_ok" \in Bumped(rec) /\ "chain_ok" \in Counters
    BY <1>12 DEF Bumped, Counters
  <2>2. Accepted' = Accepted + 1 /\ expectedPrev' = {rec.chain}
    BY <1>1, <1>12, <2>1 DEF VerifyEnvelope, Accepted
  <2>3. Accepted' = position' /\ Accepted' \in 1 .. Len(topic')
    BY <1>2, <1>3, <1>12, <2>2
  <2>4. expectedPrev' = {topic'[Accepted'].chain}
    BY <1>2, <1>3, <2>2, <2>3
  <2>5. Accepted' # 0 /\ Accepted' \in 0 .. Len(topic') /\ position' <= Accepted'
    BY <1>2, <1>4, <2>3
  <2>6. Tracked'
    BY <1>2, <2>4, <2>5 DEF Tracked
  <2> QED BY <1>9, <1>11, <2>6 DEF Inv
<1>13. CASE ~ChainOk(rec)
  <2>1. "chain_ok" \notin Bumped(rec) /\ "chain_ok" \in Counters
    BY <1>13 DEF Bumped, Counters
  <2>2. Accepted' = Accepted /\ expectedPrev' = expectedPrev
    BY <1>1, <1>13, <2>1 DEF VerifyEnvelope, Accepted
  <2>3. position <= Accepted
    BY <1>3, <1>4, <1>10, <1>13
  <2>4. Tracked'
    BY <1>2, <2>2, <2>3 DEF Inv, Tracked
  <2> QED BY <1>9, <1>11, <2>4 DEF Inv
<1> QED BY <1>12, <1>13

LEMMA InvLoopError ==
  ASSUME Inv, LoopError
  PROVE  Inv'
<1>1. position \in Nat /\ offset' \in {offset, position}
  BY LenProperties DEF Inv, TypeOK, LoopError
<1>2. offset' \in 0 .. position
  BY <1>1 DEF Inv, TypeOK
<1>3. TypeOK'
  <2>1. failures' \in Nat
    BY DEF Inv, TypeOK, LoopError
  <2>2. VerifierTypeOK'
    BY DEF Inv, TypeOK, VerifierTypeOK, LoopError, verifierVars
  <2> QED BY <1>2, <2>1, <2>2 DEF Inv, TypeOK, LoopError
<1>4. Chained' /\ Tracked'
  BY DEF Inv, Chained, Tracked, Accepted, LoopError, verifierVars
<1> QED BY <1>3, <1>4 DEF Inv

LEMMA InvRestart ==
  ASSUME Inv, ProcessRestart
  PROVE  Inv'
<1>1. /\ buffer' \in Seq(Records) /\ Len(buffer') <= BufferSize
      /\ reports' \in Seq(Reports) /\ Len(reports') <= MaxReports + 1
  BY EmptyRings DEF ProcessRestart
<1>2. FetchRetries \in Nat /\ Len(topic) \in Nat
  BY FetchAssumption, LenProperties DEF Inv, TypeOK
<1>3. TypeOK'
  <2>1. failures' \in Nat /\ fetchesLeft' \in 0 .. FetchRetries
    BY <1>2 DEF Inv, TypeOK, ProcessRestart
  <2>2. VerifierTypeOK'
    BY DEF VerifierTypeOK, ProcessRestart, NoStats
  <2>3. offset' \in 0 .. position' /\ position' \in 0 .. Len(topic')
    BY <1>2 DEF ProcessRestart
  <2>4. topic' \in Seq(Records) /\ connected' \in BOOLEAN /\ verifying' \in SUBSET Records
    BY DEF Inv, TypeOK, ProcessRestart
  <2> QED BY <1>1, <2>1, <2>2, <2>3, <2>4 DEF TypeOK
<1>4. Chained' /\ Tracked'
  BY <1>2 DEF Inv, Chained, Tracked, Accepted, ProcessRestart, NoStats, Counters
<1> QED BY <1>3, <1>4 DEF Inv

(* A record more: the chain of the topic goes on at its head.              *)
LEMMA InvAppend ==
  ASSUME Inv, NEW txn \in Txns, NEW status \in Statuses,
         topic' = Append(topic, NextRecord(txn, status)),
         UNCHANGED <<verifierVars, serviceVars>>
  PROVE  Inv' /\ NextRecord(txn, status) \in Records
<1> DEFINE n == Len(topic) + 1
           rec == NextRecord(txn, status)
<1>1. Len(topic) \in Nat /\ NextHead \in Hashes /\ Len(NextHead) = Len(topic)
  BY HeadOfTopic, LenProperties DEF Inv, TypeOK
<1>2. /\ rec.txn = txn /\ rec.ts = n /\ rec.seq = n /\ rec.prev = NextHead
      /\ rec.chain = ChainHash(NextHead, txn, n) /\ rec.status = status
      /\ rec = [txn |-> txn, ts |-> n, seq |-> n, prev |-> NextHead,
                chain |-> ChainHash(NextHead, txn, n), status |-> status]
  BY DEF NextRecord
<1>3. ChainHash(NextHead, txn, n) \in Hashes /\ Len(ChainHash(NextHead, txn, n)) = n
  <2>1. [txn |-> txn, ts |-> n] \in Links
    BY <1>1 DEF Links
  <2> QED BY <1>1, <2>1, AppendProperties DEF ChainHash, Hashes
<1>4. rec \in Records /\ WellLinked(rec) /\ Len(rec.chain) = n
  BY <1>1, <1>2, <1>3 DEF Records, WellLinked
<1> HIDE DEF rec
<1>5. /\ topic' = Append(topic, rec)
      /\ UNCHANGED <<verifierVars, serviceVars>>
  BY DEF rec
<1>6. /\ topic' \in Seq(Records) /\ Len(topic') = n /\ topic'[n] = rec
      /\ \A i \in 1 .. Len(topic) : topic'[i] = topic[i]
  BY <1>4, <1>5, AppendProperties DEF Inv, TypeOK
<1>7. position \in 0 .. Len(topic')
  BY <1>1, <1>6 DEF Inv, TypeOK
<1>8. TypeOK'
  BY <1>5, <1>6, <1>7 DEF Inv, TypeOK, VerifierTypeOK, verifierVars, serviceVars
<1>9. rec.prev = IF n = 1 THEN << >> ELSE topic[n - 1].chain
  BY <1>1, <1>2, EmptySeq DEF NextHead, GenesisHash, Last, Inv, TypeOK
<1>10. Chained'
  <2> SUFFICES ASSUME NEW i \in 1 .. n
               PROVE  /\ WellLinked(topic'[i]) /\ Len(topic'[i].chain) = i
                      /\ topic'[i].prev = IF i = 1 THEN << >> ELSE topic'[i - 1].chain
    BY <1>6 DEF Chained, WellLinked
  <2>1. CASE i = n
    <3>1. n # 1 => topic'[n - 1] = topic[n - 1]
      BY <1>1, <1>6
    <3> QED BY <1>4, <1>6, <1>9, <2>1, <3>1
  <2>2. CASE i # n
    <3>1. i \in 1 .. Len(topic) /\ (i # 1 => i - 1 \in 1 .. Len(topic))
      BY <1>1, <2>2
    <3>2. topic'[i] = topic[i] /\ (i # 1 => topic'[i - 1] = topic[i - 1])
      BY <1>6, <3>1
    <3> QED BY <3>1, <3>2 DEF Inv, Chained
  <2> QED BY <2>1, <2>2
<1>11. Tracked'
  <2>1. Accepted' = Accepted /\ Accepted \in 0 .. Len(topic) /\ position \in 0 .. Len(topic)
    BY <1>5 DEF Accepted, Inv, Tracked, TypeOK, verifierVars
  <2>2. Accepted \in 0 .. Len(topic')
    BY <1>1, <1>6, <2>1
  <2>3. Accepted # 0 => topic'[Accepted] = topic[Accepted]
    BY <1>1, <1>6, <2>1
  <2>4. position >= 1 => topic'[position] = topic[position]
    BY <1>1, <1>6, <2>1
  <2>5. UNCHANGED <<verifying, expectedPrev, connected, position>>
    BY <1>5 DEF verifierVars, serviceVars
  <2>6. Tracked
    BY DEF Inv
  <2> HIDE DEF Accepted
  <2>7. expectedPrev' = IF Accepted' = 0 THEN {} ELSE {topic'[Accepted'].chain}
    BY <2>1, <2>3, <2>5, <2>6 DEF Tracked
  <2>8. verifying' # {} => verifying' = {topic'[position']}
    BY <2>4, <2>5, <2>6 DEF Tracked
  <2> QED BY <2>1, <2>2, <2>5, <2>6, <2>7, <2>8 DEF Tracked
<1> QED BY <1>4, <1>8, <1>10, <1>11 DEF Inv, rec

LEMMA InvPublish ==
  ASSUME Inv, NEW txn \in Txns, Publish(txn)
  PROVE  Inv'
BY InvAppend DEF Publish, Statuses

LEMMA InvNext == Inv /\ [Next]_vars => Inv'
<1> SUFFICES ASSUME Inv, [Next]_vars PROVE Inv'
  OBVIOUS
<1>1. CASE ServiceNext
  BY <1>1, InvFetch, InvConnect, InvReceive, InvVerify, InvLoopError, InvRestart
    DEF ServiceNext
<1>2. CASE \E txn \in Txns : Publish(txn)
  BY <1>2, InvPublish
<1>3. CASE UNCHANGED vars
  BY <1>3 DEF Inv, TypeOK, VerifierTypeOK, Chained, Tracked, Accepted, vars,
    verifierVars, serviceVars
<1> QED BY <1>1, <1>2, <1>3 DEF Next

-----------------------------------------------------------------------------
(* The invariant holds in every reachable state of the verifier service.   *)
THEOREM ServiceInvariance == Spec => []Inv
<1> QED BY InvInit, InvNext, PTL DEF Spec

(* Buffer and reports stay within their sizes, and the group's offset      *)
(* never passes its position.                                              *)
THEOREM ServiceTypeCorrect == Spec => []TypeOK
<1>1. Inv => TypeOK
  BY DEF Inv
<1> QED BY <1>1, ServiceInvariance, PTL

(* The head it tracks is the last link that it accepted, and everything    *)
(* received but the record at hand is behind it.                           *)
LEMMA LinksOnce ==
  ASSUME Inv
  PROVE  EachLinkAcceptedOnce
<1>1. /\ Len(topic) \in Nat /\ position \in 0 .. Len(topic)
      /\ Accepted \in 0 .. Len(topic)
  BY LenProperties DEF Inv, TypeOK, Tracked
<1>2. /\ \A h \in expectedPrev : stats["chain_ok"] = Len(h)
      /\ expectedPrev = {} => stats["chain_ok"] = 0
  <2>1. CASE Accepted = 0
    BY <2>1 DEF Inv, Tracked, Accepted
  <2>2. CASE Accepted # 0
    <3>1. Accepted \in 1 .. Len(topic) /\ expectedPrev = {topic[Accepted].chain}
      BY <1>1, <2>2 DEF Inv, Tracked
    <3> QED BY <3>1 DEF Inv, Chained, Accepted
  <2> QED BY <2>1, <2>2
<1>3. ASSUME NEW i \in 1 .. position
      PROVE  topic[i] \in verifying \/ \E h \in expectedPrev : i <= Len(h)
  <2>1. CASE i <= Accepted
    <3>1. Accepted # 0
      BY <1>1, <2>1
    <3> QED BY <1>2, <2>1, <3>1 DEF Inv, Tracked, Accepted
  <2>2. CASE ~(i <= Accepted)
    <3>1. verifying # {} /\ i = position
      BY <1>1, <2>2 DEF Inv, Tracked
    <3> QED BY <3>1 DEF Inv, Tracked
  <2> QED BY <2>1, <2>2
<1> QED BY <1>2, <1>3 DEF EachLinkAcceptedOnce

(* Whatever was redelivered, the verifier has accepted each link of the    *)
(* published chain once, in order, as far as it has received it            *)
(* (verify.py:173-183).                                                    *)
THEOREM LinksAcceptedOnce == Spec => []EachLinkAcceptedOnce
<1>1. Inv => EachLinkAcceptedOnce
  BY LinksOnce
<1> QED BY <1>1, ServiceInvariance, PTL

-----------------------------------------------------------------------------
(* As long as nothing was redelivered in this life.  InWindow: the buffer  *)
(* is the newest stretch of what was received.  Kept: so are the reports,  *)
(* of what was verified, and there are enough of them for the buffer, as   *)
(* long as no transaction came twice.                                      *)
Held == IF verifying = {} THEN 0 ELSE 1

Verified == position - Held

InOrder == stats["records"] = Verified

Distinct == \A i, j \in 1 .. position : topic[i].txn = topic[j].txn => i = j

IsWindow(ring, p, source) ==
  /\ Len(ring) <= p
  /\ \A k \in 1 .. Len(ring) : ring[k] = source[(p - Len(ring)) + k]

InWindow == IsWindow(buffer, position, topic)

AllGood ==
  stats["failed"] = 0 /\ stats["chain_broken"] = 0 /\ Accepted = Verified

Kept ==
  /\ Len(reports) <= Verified
  /\ Len(reports) >= BufferSize \/ Len(reports) = Verified
  /\ \A k \in 1 .. Len(reports) :
       reports[k].txn = topic[(Verified - Len(reports)) + k].txn

Straight ==
  /\ stats["records"] >= Verified
  /\ InOrder => InWindow /\ AllGood
  /\ InOrder /\ Distinct => Kept

LEMMA Numbers ==
  ASSUME Inv
  PROVE  /\ Len(topic) \in Nat /\ position \in 0 .. Len(topic)
         /\ Len(buffer) \in Nat /\ Len(buffer) <= BufferSize
         /\ Len(reports) \in Nat /\ Len(reports) <= MaxReports + 1
         /\ stats["records"] \in Nat /\ stats["failed"] \in Nat
         /\ stats["chain_broken"] \in Nat /\ Accepted \in Nat
         /\ Held \in {0, 1} /\ Verified \in Nat
<1>1. /\ Len(topic) \in Nat /\ Len(buffer) \in Nat /\ Len(reports) \in Nat
  BY LenProperties DEF Inv, TypeOK
<1>2. /\ position \in 0 .. Len(topic) /\ Len(buffer) <= BufferSize
      /\ Len(reports) <= MaxReports + 1
  BY DEF Inv, TypeOK
<1>3. /\ stats["records"] \in Nat /\ stats["failed"] \in Nat
      /\ stats["chain_broken"] \in Nat /\ stats["chain_ok"] \in Nat
  BY DEF Inv, TypeOK, VerifierTypeOK, Counters
<1>4. Held \in {0, 1}
  BY DEF Held
<1>5. Verified \in Nat
  <2>1. verifying # {} => position >= 1
    BY DEF Inv, Tracked
  <2> QED BY <1>1, <1>2, <2>1 DEF Verified, Held
<1> QED BY <1>1, <1>2, <1>3, <1>4, <1>5 DEF Accepted

(* The ring over a sequence is a window that moves along with it.          *)
LEMMA WindowMoves ==
  ASSUME NEW ring \in Seq(Records), Len(ring) <= BufferSize,
         NEW p \in Nat, NEW source, IsWindow(ring, p, source),
         NEW rec \in Records, rec = source[p + 1],
         NEW moved, moved = Push(ring, rec)
  PROVE  IsWindow(moved, p + 1, source)
<1>0. /\ Len(ring) <= p
      /\ \A k \in 1 .. Len(ring) : ring[k] = source[(p - Len(ring)) + k]
  BY DEF IsWindow
<1>1. Len(ring) \in Nat /\ BufferSize \in Nat \ {0}
  BY LenProperties, BufferAssumption
<1>2. CASE Len(ring) < BufferSize
  <2>1. moved = Append(ring, rec)
    BY <1>2 DEF Push
  <2>2. /\ Len(moved) = Len(ring) + 1 /\ moved[Len(ring) + 1] = rec
        /\ \A k \in 1 .. Len(ring) : moved[k] = ring[k]
    BY <2>1, AppendProperties
  <2>3. ASSUME NEW k \in 1 .. Len(moved)
        PROVE  moved[k] = source[((p + 1) - Len(moved)) + k]
    <3>1. CASE k = Len(ring) + 1
      <4>1. ((p + 1) - Len(moved)) + k = p + 1
        BY <1>1, <2>2, <3>1
      <4> QED BY <2>2, <3>1, <4>1
    <3>2. CASE k # Len(ring) + 1
      <4>1. /\ k \in 1 .. Len(ring)
            /\ ((p + 1) - Len(moved)) + k = (p - Len(ring)) + k
        BY <1>1, <2>2, <3>2
      <4> QED BY <1>0, <2>2, <4>1
    <3> QED BY <3>1, <3>2
  <2> QED BY <1>0, <1>1, <2>2, <2>3 DEF IsWindow
<1>3. CASE ~(Len(ring) < BufferSize)
  <2> DEFINE tl == Tail(ring)
  <2>1. moved = Append(tl, rec)
    BY <1>3 DEF Push
  <2>2. ring # << >>
    BY <1>1, <1>3, EmptySeq
  <2>3. /\ tl \in Seq(Records) /\ Len(tl) = Len(ring) - 1
        /\ \A k \in 1 .. Len(tl) : tl[k] = ring[k + 1]
    BY <2>2, HeadTailProperties
  <2> HIDE DEF tl
  <2>4. /\ Len(moved) = Len(tl) + 1 /\ moved[Len(tl) + 1] = rec
        /\ \A k \in 1 .. Len(tl) : moved[k] = tl[k]
    BY <2>1, <2>3, AppendProperties
  <2>5. Len(moved) = Len(ring) /\ Len(ring) >= 1
    BY <1>1, <1>3, <2>3, <2>4
  <2>6. ASSUME NEW k \in 1 .. Len(moved)
        PROVE  moved[k] = source[((p + 1) - Len(moved)) + k]
    <3>1. CASE k = Len(ring)
      <4>1. ((p + 1) - Len(moved)) + k = p + 1 /\ k = Len(tl) + 1
        BY <1>1, <2>3, <2>5, <3>1
      <4> QED BY <2>4, <4>1
    <3>2. CASE k # Len(ring)
      <4>1. /\ k \in 1 .. Len(tl) /\ k + 1 \in 1 .. Len(ring)
            /\ ((p + 1) - Len(moved)) + k = (p - Len(ring)) + (k + 1)
        BY <1>1, <2>3, <2>5, <3>2
      <4> QED BY <1>0, <2>3, <2>4, <4>1
    <3> QED BY <3>1, <3>2
  <2> QED BY <1>0, <1>1, <2>5, <2>6 DEF IsWindow
<1> QED BY <1>2, <1>3

Shortened(entries, d, kept) ==
  /\ Len(kept) = Len(entries) - d
  /\ d = 0 \/ Len(kept) + 1 >= BufferSize
  /\ \A k \in 1 .. Len(kept) : kept[k] = entries[d + k]

(* Pruning takes off the oldest reports, and leaves enough that with one   *)
(* more there is one for each record of a full buffer.                     *)
LEMMA PrunedKeepsNewest ==
  ASSUME NEW entries \in Seq(Reports), Len(entries) <= MaxReports + 1,
         NEW kept, kept = Pruned(entries)
  PROVE  /\ kept \in Seq(Reports) /\ Len(kept) \in Nat
         /\ \E d \in Nat : Shortened(entries, d, kept)
<1>1. /\ Len(entries) \in Nat /\ PruneCount \in Nat \ {0} /\ MaxReports \in Nat
      /\ BufferSize \in Nat \ {0} /\ BufferSize + PruneCount <= MaxReports + 2
  BY LenProperties, BufferAssumption
<1>2. CASE Len(entries) > MaxReports
  <2> DEFINE from == PruneCount + 1
  <2>1. \A i \in from .. Len(entries) : entries[i] \in Reports
    BY <1>1, ElementOfSeq
  <2>2. kept = SubSeq(entries, from, Len(entries))
    BY <1>2 DEF Pruned
  <2>3. from \in Int /\ Len(entries) \in Int
    BY <1>1
  <2> HIDE DEF from
  <2>4. /\ kept \in Seq(Reports)
        /\ Len(kept) = IF from <= Len(entries) THEN Len(entries) - from + 1 ELSE 0
        /\ \A k \in 1 .. Len(entries) - from + 1 : kept[k] = entries[from + k - 1]
    BY <2>1, <2>2, <2>3, SubSeqProperties
  <2>5. Len(entries) = MaxReports + 1
    BY <1>1, <1>2
  <2>6. Len(kept) = Len(entries) - PruneCount
    <3>1. CASE from <= Len(entries)
      BY <1>1, <2>4, <3>1 DEF from
    <3>2. CASE ~(from <= Len(entries))
      <4>1. Len(kept) = 0
        BY <2>4, <3>2
      <4>2. PruneCount = Len(entries)
        BY <1>1, <2>5, <3>2 DEF from
      <4> QED BY <1>1, <4>1, <4>2
    <3> QED BY <3>1, <3>2
  <2>7. \A k \in 1 .. Len(kept) : kept[k] = entries[PruneCount + k]
    <3> SUFFICES ASSUME NEW k \in 1 .. Len(kept)
                 PROVE  kept[k] = entries[PruneCount + k]
      OBVIOUS
    <3>1. k \in 1 .. Len(entries) - from + 1 /\ from + k - 1 = PruneCount + k
      BY <1>1, <2>6 DEF from
    <3> QED BY <2>4, <3>1
  <2>8. Len(kept) \in Nat /\ Len(kept) + 1 >= BufferSize
    BY <1>1, <2>5, <2>6
  <2>9. Shortened(entries, PruneCount, kept)
    BY <2>6, <2>7, <2>8 DEF Shortened
  <2> QED BY <1>1, <2>4, <2>8, <2>9
<1>3. CASE ~(Len(entries) > MaxReports)
  <2>1. kept = entries
    BY <1>3 DEF Pruned
  <2>2. \A k \in 1 .. Len(kept) : kept[k] = entries[0 + k]
    BY <1>1, <2>1
  <2>3. Len(kept) = Len(entries) - 0 /\ 0 \in Nat
    BY <1>1, <2>1
  <2>4. Shortened(entries, 0, kept)
    BY <2>2, <2>3 DEF Shortened
  <2> QED BY <1>1, <2>1, <2>4
<1> QED BY <1>2, <1>3

LEMMA StraightSame ==
  ASSUME Straight, UNCHANGED <<stats, verifying, position, topic, buffer, reports>>
  PROVE  Straight'
BY DEF Straight, InOrder, Distinct, InWindow, IsWindow, AllGood, Kept, Verified, Held, Accepted

(* Reconnecting at an older offset is the end of good order for this life. *)
LEMMA StraightConnect ==
  ASSUME Inv, Straight, Connect
  PROVE  Straight'
<1>1. /\ position' = offset /\ offset <= position
      /\ UNCHANGED <<stats, verifying, topic, buffer, reports>>
      /\ offset \in Nat /\ position \in Nat
  BY Numbers DEF Connect, verifierVars, Inv, TypeOK
<1>2. Held = 0 /\ Held' = 0
  BY <1>1 DEF Inv, Tracked, Connect, Held
<1>3. stats["records"] >= position /\ stats["records"] \in Nat
  BY <1>1, <1>2, Numbers DEF Straight, Verified
<1>4. CASE offset = position
  BY <1>1, <1>4, StraightSame
<1>5. CASE offset # position
  <2>1. Verified' = offset
    BY <1>1, <1>2 DEF Verified
  <2>2. stats'["records"] > Verified'
    BY <1>1, <1>3, <1>5, <2>1
  <2>3. stats'["records"] >= Verified' /\ ~InOrder'
    BY <1>1, <1>3, <2>1, <2>2 DEF InOrder
  <2> QED BY <2>3 DEF Straight
<1> QED BY <1>4, <1>5

LEMMA StraightReceive ==
  ASSUME Inv, Straight, Receive
  PROVE  Straight'
<1>1. /\ position' = position + 1 /\ verifying = {} /\ verifying' # {}
      /\ buffer' = Push(buffer, topic[position + 1])
      /\ UNCHANGED <<stats, topic, reports>>
      /\ position < Len(topic)
  BY DEF Receive, verifierVars
<1>2. /\ position \in Nat /\ Len(topic) \in Nat /\ Len(reports) \in Nat
      /\ buffer \in Seq(Records) /\ Len(buffer) <= BufferSize
      /\ topic[position + 1] \in Records
  <2>1. position \in Nat /\ Len(topic) \in Nat /\ Len(reports) \in Nat
    BY Numbers
  <2>2. position + 1 \in 1 .. Len(topic)
    BY <1>1, <2>1
  <2> QED BY <2>1, <2>2, ElementOfSeq DEF Inv, TypeOK
<1>3. Verified' = Verified /\ Verified = position
  BY <1>1, <1>2 DEF Verified, Held
<1>4. InOrder' <=> InOrder
  BY <1>1, <1>3 DEF InOrder
<1>5. ASSUME InWindow
      PROVE  InWindow'
  <2>1. PICK moved : moved = Push(buffer, topic[position + 1])
    OBVIOUS
  <2>2. PICK ring \in Seq(Records) : ring = buffer
    BY <1>2
  <2>3. PICK rec \in Records : rec = topic[position + 1]
    BY <1>2
  <2>4. PICK source : source = topic
    OBVIOUS
  <2>5. PICK p \in Nat : p = position
    BY <1>2
  <2>6. /\ Len(ring) <= BufferSize /\ rec = source[p + 1]
        /\ IsWindow(ring, p, source) /\ moved = Push(ring, rec)
    BY <1>2, <1>5, <2>1, <2>2, <2>3, <2>4, <2>5 DEF InWindow
  <2>7. IsWindow(moved, p + 1, source)
    BY <2>6, WindowMoves
  <2> QED BY <1>1, <2>1, <2>4, <2>5, <2>7 DEF InWindow
<1>6. AllGood' <=> AllGood
  BY <1>1, <1>3 DEF AllGood, Accepted
<1>7. Distinct' => Distinct
  <2>1. \A i \in 1 .. position : i \in 1 .. position + 1
    BY <1>2
  <2> QED BY <1>1, <2>1 DEF Distinct
<1>8. Kept' <=> Kept
  BY <1>1, <1>3 DEF Kept
<1> QED BY <1>1, <1>3, <1>4, <1>5, <1>6, <1>7, <1>8 DEF Straight

(* The report of a record goes to the end, as its transaction has none.    *)
LEMMA KeptVerify ==
  ASSUME Inv, Verify, Kept, Distinct
  PROVE  Kept'
<1>1. PICK rec \in verifying :
        reports' = Reported(Pruned(reports),
                            [txn |-> rec.txn, verified |-> ChainOk(rec)])
  BY DEF Verify
<1>2. /\ rec = topic[position] /\ position \in 1 .. Len(topic)
      /\ UNCHANGED <<topic, position>> /\ verifying' = {}
      /\ position \in Nat /\ Len(topic) \in Nat
  BY NextOrRejected, Numbers DEF Verify
<1>3. Verified = position - 1 /\ Verified' = position
  BY <1>2 DEF Verified, Held
<1> DEFINE entry == [txn |-> rec.txn, verified |-> ChainOk(rec)]
<1>4. entry \in Reports /\ entry.txn = rec.txn
  <2>1. rec \in Records
    BY <1>2, ElementOfSeq DEF Inv, TypeOK
  <2>2. ChainOk(rec) \in BOOLEAN
    BY DEF ChainOk, FailsRecompute, Follows
  <2> QED BY <2>1, <2>2 DEF Reports, Records
<1>5. reports \in Seq(Reports) /\ Len(reports) \in Nat /\ Len(reports) <= MaxReports + 1
  BY Numbers DEF Inv, TypeOK
<1>6. PICK kept : kept = Pruned(reports)
  OBVIOUS
<1>7. /\ kept \in Seq(Reports) /\ Len(kept) \in Nat
      /\ \E d \in Nat : Shortened(reports, d, kept)
  <2>1. PICK entries \in Seq(Reports) : entries = reports
    BY <1>5
  <2>2. kept = Pruned(entries) /\ Len(entries) <= MaxReports + 1
    BY <1>5, <1>6, <2>1
  <2>3. /\ kept \in Seq(Reports) /\ Len(kept) \in Nat
        /\ \E d \in Nat : Shortened(entries, d, kept)
    BY <2>2, PrunedKeepsNewest
  <2> QED BY <2>1, <2>3
<1>8. PICK d \in Nat : /\ Len(kept) = Len(reports) - d
                       /\ d = 0 \/ Len(kept) + 1 >= BufferSize
                       /\ \A k \in 1 .. Len(kept) : kept[k] = reports[d + k]
  BY <1>7 DEF Shortened
<1>9. /\ Len(reports) <= position - 1
      /\ Len(reports) >= BufferSize \/ Len(reports) = position - 1
      /\ \A k \in 1 .. Len(reports) :
           reports[k].txn = topic[((position - 1) - Len(reports)) + k].txn
  BY <1>3 DEF Kept
<1>10. \A k \in 1 .. Len(kept) : kept[k].txn = topic[((position - 1) - Len(kept)) + k].txn
  <2> SUFFICES ASSUME NEW k \in 1 .. Len(kept)
               PROVE  kept[k].txn = topic[((position - 1) - Len(kept)) + k].txn
    OBVIOUS
  <2>1. /\ d + k \in 1 .. Len(reports)
        /\ ((position - 1) - Len(reports)) + (d + k) = ((position - 1) - Len(kept)) + k
    BY <1>2, <1>5, <1>7, <1>8
  <2> QED BY <1>8, <1>9, <2>1
<1> HIDE DEF entry
<1>11. reports' = Append(kept, entry)
  <2>1. DOMAIN kept = 1 .. Len(kept)
    BY <1>7, LenProperties
  <2>2. ~\E i \in DOMAIN kept : kept[i].txn = entry.txn
    <3> SUFFICES ASSUME NEW i \in 1 .. Len(kept), kept[i].txn = entry.txn
                 PROVE  FALSE
      BY <2>1
    <3>1. Len(kept) <= Len(reports) /\ Len(reports) <= position - 1
      BY <1>5, <1>7, <1>8, <1>9
    <3>2. i \in Nat /\ 1 <= i /\ i <= Len(kept) /\ position >= 1
      BY <1>2, <1>7
    <3>3. /\ ((position - 1) - Len(kept)) + i \in 1 .. position
          /\ ((position - 1) - Len(kept)) + i # position
          /\ position \in 1 .. position
      BY <1>2, <1>5, <1>7, <3>1, <3>2
    <3>4. topic[((position - 1) - Len(kept)) + i].txn = topic[position].txn
      BY <1>2, <1>4, <1>10
    <3> QED BY <3>3, <3>4 DEF Distinct
  <2> QED BY <1>1, <1>6, <2>2 DEF Reported, entry
<1>12. /\ Len(reports') = Len(kept) + 1 /\ reports'[Len(kept) + 1] = entry
       /\ \A k \in 1 .. Len(kept) : reports'[k] = kept[k]
  BY <1>4, <1>7, <1>11, AppendProperties
<1>13. /\ Len(reports') <= position
       /\ Len(reports') >= BufferSize \/ Len(reports') = position
  BY <1>2, <1>5, <1>7, <1>8, <1>9, <1>12, BufferAssumption
<1>14. ASSUME NEW k \in 1 .. Len(reports')
       PROVE  reports'[k].txn = topic[(position - Len(reports')) + k].txn
  <2>1. CASE k = Len(kept) + 1
    <3>1. (position - Len(reports')) + k = position
      BY <1>2, <1>7, <1>12, <2>1
    <3> QED BY <1>2, <1>4, <1>12, <2>1, <3>1
  <2>2. CASE k # Len(kept) + 1
    <3>1. /\ k \in 1 .. Len(kept)
          /\ (position - Len(reports')) + k = ((position - 1) - Len(kept)) + k
      BY <1>2, <1>7, <1>12, <2>2
    <3> QED BY <1>10, <1>12, <3>1
  <2> QED BY <2>1, <2>2
<1> QED BY <1>2, <1>3, <1>13, <1>14 DEF Kept

LEMMA StraightVerify ==
  ASSUME Inv, Straight, Verify
  PROVE  Straight'
<1>1. PICK rec \in verifying : VerifyEnvelope(rec)
  BY DEF Verify
<1>2. /\ verifying' = {} /\ UNCHANGED <<topic, position, buffer>>
  BY DEF Verify
<1>3. /\ position \in 1 .. Len(topic) /\ ChainOk(rec) <=> position = Accepted + 1
      /\ position \in Nat /\ Accepted \in Nat /\ stats["records"] \in Nat
  BY NextOrRejected, Numbers
<1>4. Verified = position - 1 /\ Verified' = position
  BY <1>2, <1>3 DEF Verified, Held
<1>5. stats \in [Counters -> Nat]
  BY DEF Inv, TypeOK, VerifierTypeOK
<1>6. stats'["records"] = stats["records"] + 1
  BY <1>1, <1>5 DEF VerifyEnvelope, Bumped, Counters
<1>7. stats'["records"] >= Verified' /\ (InOrder' <=> InOrder)
  BY <1>3, <1>4, <1>6 DEF Straight, InOrder
<1>8. ASSUME InOrder
      PROVE  InWindow' /\ AllGood'
  <2>1. InWindow /\ AllGood
    BY <1>8 DEF Straight
  <2>2. ChainOk(rec)
    BY <1>3, <1>4, <2>1 DEF AllGood
  <2>3. /\ "chain_ok" \in Bumped(rec)
        /\ "failed" \notin Bumped(rec) /\ "chain_broken" \notin Bumped(rec)
    BY <2>2 DEF Bumped
  <2>4. /\ stats'["failed"] = stats["failed"]
        /\ stats'["chain_broken"] = stats["chain_broken"]
        /\ stats'["chain_ok"] = stats["chain_ok"] + 1
    BY <1>1, <2>3 DEF VerifyEnvelope, Counters
  <2>5. AllGood'
    BY <1>3, <1>4, <2>1, <2>4 DEF AllGood, Accepted
  <2> QED BY <1>2, <2>1, <2>5 DEF InWindow
<1>9. Distinct' <=> Distinct
  BY <1>2 DEF Distinct
<1>10. InOrder' /\ Distinct' => Kept'
  BY <1>7, <1>9, KeptVerify DEF Straight
<1> QED BY <1>7, <1>8, <1>10 DEF Straight

LEMMA StraightRestart ==
  ASSUME Inv, ProcessRestart
  PROVE  Straight'
<1>1. /\ position' = 0 /\ verifying' = {} /\ stats' = NoStats
      /\ Len(buffer') = 0 /\ Len(reports') = 0
  BY EmptySeq DEF ProcessRestart
<1>2. /\ stats'["records"] = 0 /\ stats'["failed"] = 0
      /\ stats'["chain_broken"] = 0 /\ stats'["chain_ok"] = 0
  BY <1>1 DEF NoStats, Counters
<1>3. Verified' = 0
  BY <1>1 DEF Verified, Held
<1>4. InWindow' /\ AllGood' /\ Kept'
  BY <1>1, <1>2, <1>3 DEF InWindow, IsWindow, AllGood, Kept, Accepted
<1> QED BY <1>2, <1>3, <1>4 DEF Straight

(* A topic that grows at its end leaves what was received where it was.    *)
LEMMA StraightPublish ==
  ASSUME Inv, Straight, UNCHANGED <<stats, verifying, position, buffer, reports>>,
         \A i \in 1 .. Len(topic) : topic'[i] = topic[i]
  PROVE  Straight'
<1>1. /\ position \in Nat /\ position <= Len(topic) /\ Len(buffer) \in Nat
      /\ Len(reports) \in Nat /\ Verified \in Nat /\ Verified <= position
      /\ Len(topic) \in Nat
  <2>1. Held \in {0, 1} /\ position \in 0 .. Len(topic) /\ Len(topic) \in Nat
    BY Numbers
  <2>2. Verified <= position
    BY <2>1 DEF Verified
  <2> QED BY <2>1, <2>2, Numbers
<1>2. Verified' = Verified /\ (InOrder' <=> InOrder) /\ (AllGood' <=> AllGood)
  BY DEF Verified, Held, InOrder, AllGood, Accepted
<1>3. Distinct' <=> Distinct
  <2>1. \A i \in 1 .. position : topic'[i] = topic[i]
    BY <1>1
  <2> QED BY <2>1 DEF Distinct
<1>4. InWindow => InWindow'
  <2> SUFFICES ASSUME InWindow PROVE InWindow'
    OBVIOUS
  <2>1. Len(buffer) <= position
    BY DEF InWindow, IsWindow
  <2>2. \A k \in 1 .. Len(buffer) : (position - Len(buffer)) + k \in 1 .. Len(topic)
    BY <1>1, <2>1
  <2> QED BY <2>2 DEF InWindow, IsWindow
<1>5. Kept => Kept'
  <2> SUFFICES ASSUME Kept PROVE Kept'
    OBVIOUS
  <2>1. Len(reports) <= Verified
    BY DEF Kept
  <2>2. \A k \in 1 .. Len(reports) : (Verified - Len(reports)) + k \in 1 .. Len(topic)
    BY <1>1, <2>1
  <2> QED BY <1>2, <2>2 DEF Kept
<1> QED BY <1>2, <1>3, <1>4, <1>5 DEF Straight

LEMMA TopicGrows ==
  ASSUME Inv, NEW txn \in Txns, NEW status \in Statuses,
         topic' = Append(topic, NextRecord(txn, status)),
         UNCHANGED <<verifierVars, serviceVars>>
  PROVE  \A i \in 1 .. Len(topic) : topic'[i] = topic[i]
<1>1. NextRecord(txn, status) \in Records /\ topic \in Seq(Records)
  BY InvAppend DEF Inv, TypeOK
<1> QED BY <1>1, AppendProperties

LEMMA StraightAppend ==
  ASSUME Inv, Straight, NEW txn \in Txns, NEW status \in Statuses,
         topic' = Append(topic, NextRecord(txn, status)),
         UNCHANGED <<verifierVars, serviceVars>>
  PROVE  Straight'
<1>1. UNCHANGED <<stats, verifying, position, buffer, reports>>
  BY DEF verifierVars, serviceVars
<1> QED BY <1>1, TopicGrows, StraightPublish

LEMMA StraightInit == Init => Straight
<1> SUFFICES ASSUME Init PROVE Straight
  OBVIOUS
<1>1. /\ position = 0 /\ verifying = {} /\ stats = NoStats
      /\ Len(buffer) = 0 /\ Len(reports) = 0
  BY EmptySeq DEF Init, ServiceInit, VerifierInit
<1>2. /\ stats["records"] = 0 /\ stats["failed"] = 0
      /\ stats["chain_broken"] = 0 /\ stats["chain_ok"] = 0
  BY <1>1 DEF NoStats, Counters
<1>3. Verified = 0
  BY <1>1 DEF Verified, Held
<1>4. InWindow /\ AllGood /\ Kept
  BY <1>1, <1>2, <1>3 DEF InWindow, IsWindow, AllGood, Kept, Accepted
<1> QED BY <1>2, <1>3, <1>4 DEF Straight

LEMMA StraightService ==
  ASSUME Inv, Straight, ServiceNext
  PROVE  Straight'
<1>1. CASE FetchKey \/ FetchFails \/ LoopError
  BY <1>1, StraightSame DEF FetchKey, SetPublicKey, FetchFails, LoopError,
    verifierVars, serviceVars
<1> QED BY <1>1, StraightConnect, StraightReceive, StraightVerify, StraightRestart
      DEF ServiceNext

LEMMA StraightNext == Inv /\ Straight /\ [Next]_vars => Straight'
<1> SUFFICES ASSUME Inv, Straight, [Next]_vars PROVE Straight'
  OBVIOUS
<1>1. ASSUME NEW txn \in Txns, Publish(txn)
      PROVE  Straight'
  BY <1>1, StraightAppend DEF Publish, Statuses
<1>2. CASE UNCHANGED vars
  BY <1>2, StraightSame DEF vars, verifierVars, serviceVars
<1> QED BY <1>1, <1>2, StraightService DEF Next

(* A window over the topic is an intact chain.                             *)
LEMMA WindowIntact ==
  ASSUME TypeOK, Chained, NEW w \in Seq(Records), NEW d \in Nat,
         d + Len(w) <= Len(topic),
         \A k \in 1 .. Len(w) : w[k] = topic[d + k]
  PROVE  Intact(w)
<1>1. Len(w) \in Nat /\ Len(topic) \in Nat /\ DOMAIN w = 1 .. Len(w)
  BY LenProperties DEF TypeOK
<1>2. ASSUME NEW k \in 1 .. Len(w)
      PROVE  ~FailsRecompute(w[k]) /\ w[k].seq = d + k
  <2>1. d + k \in 1 .. Len(topic)
    BY <1>1
  <2>2. WellLinked(topic[d + k]) /\ Len(topic[d + k].chain) = d + k
    BY <2>1 DEF Chained
  <2> QED BY <2>2 DEF WellLinked, FailsRecompute
<1>3. ASSUME NEW i \in 1 .. Len(w), NEW j \in 1 .. Len(w)
      PROVE  WalkedBefore(w, i, j) <=> i < j
  <2>1. w[i].seq = d + i /\ w[j].seq = d + j
    BY <1>2
  <2> QED BY <2>1 DEF WalkedBefore
<1>4. ASSUME NEW i \in 1 .. Len(w), NEW j \in 1 .. Len(w), IsPredecessor(w, i, j)
      PROVE  j = i + 1
  <2>1. i < j
    BY <1>3, <1>4 DEF IsPredecessor
  <2>2. i + 1 \in 1 .. Len(w)
    BY <1>1, <2>1
  <2>3. ~(i + 1 < j)
    <3>1. WalkedBefore(w, i + 1, j) => i + 1 = i \/ WalkedBefore(w, i + 1, i)
      BY <1>1, <1>4, <2>2 DEF IsPredecessor
    <3>2. WalkedBefore(w, i + 1, j) <=> i + 1 < j
      BY <1>3, <2>2
    <3>3. WalkedBefore(w, i + 1, i) <=> i + 1 < i
      BY <1>3, <2>2
    <3> QED BY <3>1, <3>2, <3>3
  <2> QED BY <2>1, <2>3
<1>5. ASSUME NEW i \in 1 .. Len(w), NEW j \in 1 .. Len(w), IsPredecessor(w, i, j)
      PROVE  w[j].prev = w[i].chain /\ w[j].seq = w[i].seq + 1
  <2>1. j = i + 1
    BY <1>4, <1>5
  <2>2. d + j \in 1 .. Len(topic) /\ d + j # 1 /\ (d + j) - 1 = d + i
    BY <1>1, <2>1
  <2>3. topic[d + j].prev = topic[d + i].chain
    BY <2>2 DEF Chained
  <2>4. w[i].seq = d + i /\ w[j].seq = d + j
    BY <1>2
  <2> QED BY <2>1, <2>3, <2>4
<1>6. {n \in DOMAIN w : FailsRecompute(w[n])} = {}
  BY <1>1, <1>2
<1>7. {n \in DOMAIN w : \E i \in DOMAIN w :
         IsPredecessor(w, i, n) /\ w[n].prev # w[i].chain} = {}
  BY <1>1, <1>5
<1>8. {n \in DOMAIN w : \E i \in DOMAIN w :
         IsPredecessor(w, i, n) /\ w[n].seq # w[i].seq + 1} = {}
  BY <1>1, <1>5
<1> QED BY <1>6, <1>7, <1>8 DEF Intact, ChainBreaks

LEMMA HeldIsCardinality ==
  ASSUME Inv
  PROVE  Cardinality(verifying) = Held
<1>1. verifying = {} \/ verifying = {topic[position]}
  BY DEF Inv, Tracked
<1> QED BY <1>1, FS_EmptySet, FS_Singleton DEF Held

LEMMA NothingRedelivered ==
  ASSUME Inv, stats["records"] + Cardinality(verifying) = position
  PROVE  InOrder
<1>1. stats["records"] + Held = position /\ Held \in {0, 1} /\ stats["records"] \in Nat
  BY HeldIsCardinality, Numbers
<1> QED BY <1>1 DEF InOrder, Verified

LEMMA DashboardHolds ==
  ASSUME Inv, Straight
  PROVE  DashboardIntact
<1> SUFFICES ASSUME stats["records"] + Cardinality(verifying) = position
             PROVE  /\ \A n \in 1 .. BufferSize : Intact(Newest(n))
                    /\ stats["chain_broken"] = 0 /\ stats["failed"] = 0
  BY DEF DashboardIntact
<1>1. InWindow /\ AllGood
  BY NothingRedelivered DEF Straight
<1>2. /\ Len(buffer) \in Nat /\ position \in 0 .. Len(topic) /\ Len(topic) \in Nat
      /\ BufferSize \in Nat /\ buffer \in Seq(Records)
  BY Numbers, BufferAssumption DEF Inv, TypeOK
<1>3. ASSUME NEW n \in 1 .. BufferSize
      PROVE  Intact(Newest(n))
  <2>1. PICK from \in Nat : from = IF n < Len(buffer) THEN Len(buffer) - n + 1 ELSE 1
    <3>1. n < Len(buffer) => Len(buffer) - n + 1 \in Nat
      BY <1>2
    <3> QED BY <3>1
  <2>2. from >= 1 /\ from <= Len(buffer) + 1
    BY <1>2, <2>1
  <2>3. PICK w : w = SubSeq(buffer, from, Len(buffer))
    OBVIOUS
  <2>4. Newest(n) = w
    BY <2>1, <2>3 DEF Newest
  <2>5. \A i \in from .. Len(buffer) : buffer[i] \in Records
    BY <1>2, <2>2, ElementOfSeq
  <2>6. /\ w \in Seq(Records)
        /\ Len(w) = IF from <= Len(buffer) THEN Len(buffer) - from + 1 ELSE 0
        /\ \A k \in 1 .. Len(buffer) - from + 1 : w[k] = buffer[from + k - 1]
    BY <1>2, <2>3, <2>5, SubSeqProperties
  <2>7. Len(w) = (Len(buffer) - from) + 1
    BY <1>2, <2>2, <2>6
  <2> DEFINE d == (position - Len(buffer)) + (from - 1)
  <2>8. d \in Nat /\ d + Len(w) <= Len(topic)
    BY <1>1, <1>2, <2>2, <2>7 DEF InWindow, IsWindow
  <2>9. \A k \in 1 .. Len(w) : w[k] = topic[d + k]
    <3> SUFFICES ASSUME NEW k \in 1 .. Len(w)
                 PROVE  w[k] = topic[d + k]
      OBVIOUS
    <3>1. /\ k \in 1 .. Len(buffer) - from + 1
          /\ (from - 1) + k \in 1 .. Len(buffer) /\ from + k - 1 = (from - 1) + k
          /\ (position - Len(buffer)) + ((from - 1) + k) = d + k
      BY <1>2, <2>2, <2>7
    <3> HIDE DEF d
    <3> QED BY <1>1, <2>6, <3>1 DEF InWindow, IsWindow
  <2> HIDE DEF d
  <2> QED BY <2>4, <2>6, <2>8, <2>9, WindowIntact DEF Inv
<1> QED BY <1>1, <1>3 DEF AllGood

LEMMA ReportsHold ==
  ASSUME Inv, Straight
  PROVE  BufferedHasReport
<1> SUFFICES ASSUME ReceivedOnce, NEW i \in DOMAIN buffer
             PROVE  \/ buffer[i] \in verifying
                    \/ \E k \in DOMAIN reports : reports[k].txn = buffer[i].txn
  BY DEF BufferedHasReport
<1>1. InOrder /\ Distinct
  BY NothingRedelivered DEF ReceivedOnce, Distinct
<1>2. InWindow /\ Kept
  BY <1>1 DEF Straight
<1>3. /\ Len(buffer) \in Nat /\ Len(buffer) <= BufferSize /\ position \in Nat
      /\ Len(reports) \in Nat /\ Held \in {0, 1} /\ BufferSize \in Nat
      /\ DOMAIN buffer = 1 .. Len(buffer) /\ DOMAIN reports = 1 .. Len(reports)
  BY Numbers, LenProperties, BufferAssumption DEF Inv, TypeOK
<1>4. i \in 1 .. Len(buffer) /\ buffer[i] = topic[(position - Len(buffer)) + i]
  BY <1>2, <1>3 DEF InWindow, IsWindow
<1>5. CASE Held = 1 /\ i = Len(buffer)
  <2>1. (position - Len(buffer)) + i = position
    BY <1>3, <1>5
  <2>2. verifying = {topic[position]}
    BY <1>5 DEF Held, Inv, Tracked
  <2> QED BY <1>4, <2>1, <2>2
<1>6. CASE ~(Held = 1 /\ i = Len(buffer))
  <2> DEFINE k == ((position - Len(buffer)) + i) - (Verified - Len(reports))
  <2>1. /\ Len(reports) <= Verified /\ Len(buffer) <= position
        /\ Len(reports) >= BufferSize \/ Len(reports) = Verified
    BY <1>2 DEF Kept, InWindow, IsWindow
  <2>2. Verified = position - Held
    BY DEF Verified
  <2>3. k \in 1 .. Len(reports)
    BY <1>3, <1>4, <1>6, <2>1, <2>2
  <2>4. (Verified - Len(reports)) + k = (position - Len(buffer)) + i
    BY <1>3, <1>4, <2>2
  <2> HIDE DEF k
  <2>5. reports[k].txn = topic[(position - Len(buffer)) + i].txn
    BY <1>2, <2>3, <2>4 DEF Kept
  <2> QED BY <1>3, <1>4, <2>3, <2>5
<1> QED BY <1>5, <1>6

LEMMA StraightAlways == Spec => [](Inv /\ Straight)
<1>1. Init => Inv /\ Straight
  BY InvInit, StraightInit
<1>2. Inv /\ Straight /\ [Next]_vars => (Inv /\ Straight)'
  BY InvNext, StraightNext
<1> QED BY <1>1, <1>2, PTL DEF Spec

(* As long as nothing was redelivered, the dashboard's walk over any part  *)
(* of the buffer and the verifier's counters find the unbroken chain       *)
(* unbroken (dashboard.py:300-334).                                        *)
THEOREM DashboardAgrees == Spec => []DashboardIntact
<1>1. Inv /\ Straight => DashboardIntact
  BY DashboardHolds
<1> QED BY <1>1, StraightAlways, PTL

(* Pruning the reports never outruns the buffer: every buffered record     *)
(* that is not at hand has its verdict (dashboard.py:86-94 and 252-259).   *)
THEOREM VerdictForEveryBuffered == Spec => []BufferedHasReport
<1>1. Inv /\ Straight => BufferedHasReport
  BY ReportsHold
<1> QED BY <1>1, StraightAlways, PTL
=============================================================================
