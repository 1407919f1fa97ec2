------------------------- MODULE VerifierApi_proofs -------------------------
(***************************************************************************)
(* Proofs about VerifierApi: what the API and the event stream show, for   *)
(* every set of transactions, all sizes of the buffers and of the stream's *)
(* memory, and any number of records, alerts, decisions and failures.      *)
(***************************************************************************)
EXTENDS VerifierApi, VerifierService_proofs

-----------------------------------------------------------------------------
(* The inductive invariant, beside the service's.  Received: the buffer is *)
(* the newest stretch of what this process received, the record at hand is *)
(* the last of it, and every link that was accepted is in it.              *)
Received ==
  /\ pushes \in Seq(1 .. Len(topic))
  /\ Len(buffer) <= Len(pushes)
  /\ Len(buffer) = Len(pushes) \/ Len(buffer) = BufferSize
  /\ \A i \in 1 .. Len(buffer) :
       buffer[i] = topic[pushes[(Len(pushes) - Len(buffer)) + i]]
  /\ verifying # {} => Len(pushes) >= 1 /\ pushes[Len(pushes)] = position
  /\ \A n \in 1 .. Accepted : \E k \in 1 .. Len(pushes) - Held : pushes[k] = n

(* Queued: an anomaly is a record of the committed topic as well.          *)
OnTopic(source, rec) ==
  rec.seq \in 1 .. Len(source) /\ rec = source[rec.seq]

Queued ==
  /\ alerts \in Seq(Records) /\ alertPosition \in 0 .. Len(alerts)
  /\ queue \in Seq(Records) /\ Len(queue) <= BufferSize
  /\ \A i \in 1 .. Len(alerts) : OnTopic(topic, alerts[i])
  /\ \A i \in 1 .. Len(queue) : OnTopic(topic, queue[i])

(* Marked: a failure, in a report or as a mark, is a record handed over    *)
(* twice.                                                                  *)
Reread(source, ps, txn) ==
  \E j, k \in 1 .. Len(ps) : j # k /\ ps[j] = ps[k] /\ source[ps[j]].txn = txn

MarkValues == {"none", "passed", "failed"}

Marked ==
  /\ marks \in Seq(MarkValues) /\ Len(marks) = Len(buffer)
  /\ \A i \in 1 .. Len(marks) : marks[i] = "failed" => Reread(topic, pushes, buffer[i].txn)
  /\ \A i \in 1 .. Len(reports) : ~reports[i].verified => Reread(topic, pushes, reports[i].txn)

Decided ==
  /\ resolutions \in [Txns -> Actions \cup {"none"}]
  /\ decisions \in 0 .. MaxDecisions

(* Streamed: what the subscriber was sent, what the generator remembers of *)
(* it, and what is left of the round.                                      *)
Places(source, txn) == {n \in 1 .. Len(source) : source[n].txn = txn}

Hits(entries, S) == {i \in 1 .. Len(entries) : entries[i] \in S}

Times(entries, S) == Cardinality(Hits(entries, S))

WasSent(source, entries, txn) ==
  \E i \in 1 .. Len(entries) : entries[i] \in Places(source, txn)

Waiting(rounds, txn) ==
  \E rest \in rounds : \E i \in 1 .. Len(rest) : rest[i].txn = txn

RoundOk ==
  /\ batch = {} \/ \E rest \in batch : batch = {rest}
  /\ \A rest \in batch :
       /\ rest \in Seq(Records) /\ Len(rest) <= Window
       /\ \A i \in 1 .. Len(rest) : OnTopic(topic, rest[i])

Remembered ==
  /\ seen \subseteq Txns /\ IsFiniteSet(seen)
  /\ batch = {} => Cardinality(seen) <= MaxSeen
  /\ \A rest \in batch : Cardinality(seen) + Len(rest) <= MaxSeen + Window
  /\ \A txn \in seen : WasSent(topic, feed, txn)

FeedOk ==
  /\ feed \in Seq(0 .. Len(topic))
  /\ covered \in 0 .. Len(pushes) /\ overrun \in BOOLEAN
  /\ ~overrun => \A k \in 1 .. covered :
       \/ WasSent(topic, feed, topic[pushes[k]].txn)
       \/ Waiting(batch, topic[pushes[k]].txn)
  /\ \A txn \in Txns :
       /\ Times(feed, Places(topic, txn)) <= Times(feed, {0}) + 1
       /\ txn \notin seen => Times(feed, Places(topic, txn)) <= Times(feed, {0})

Streamed == RoundOk /\ Remembered /\ FeedOk

ApiInv == Inv /\ Received /\ Queued /\ Marked /\ Decided /\ Streamed

-----------------------------------------------------------------------------
(* Of the operators.                                                       *)
LEMMA ApiSizes ==
  /\ BufferSize \in Nat \ {0} /\ Window \in 1 .. BufferSize
  /\ MaxSeen \in Nat /\ KeepSeen \in Nat /\ KeepSeen + Window <= MaxSeen
  /\ MaxDecisions \in Nat
BY BufferAssumption, WindowAssumption, SeenAssumption, ApiBoundsAssumption

(* A push puts the entry last, and moves the others up by one place (d = 1) *)
(* exactly when the ring was full.                                         *)
Pushed(ring, x, d, moved) ==
  /\ Len(moved) = (Len(ring) - d) + 1
  /\ IF d = 0 THEN Len(ring) < BufferSize ELSE d = 1 /\ Len(ring) = BufferSize
  /\ moved[Len(moved)] = x
  /\ \A k \in 1 .. Len(ring) - d : moved[k] = ring[k + d]

LEMMA PushMoves ==
  ASSUME NEW S, NEW ring \in Seq(S), Len(ring) <= BufferSize, NEW x \in S,
         NEW moved, moved = Push(ring, x)
  PROVE  /\ moved \in Seq(S) /\ Len(moved) \in Nat /\ Len(moved) <= BufferSize
         /\ \E d \in {0, 1} : Pushed(ring, x, d, moved)
<1>1. Len(ring) \in Nat /\ BufferSize \in Nat \ {0}
  BY LenProperties, ApiSizes
<1>2. CASE Len(ring) < BufferSize
  <2>1. moved = Append(ring, x)
    BY <1>2 DEF Push
  <2>2. /\ moved \in Seq(S) /\ Len(moved) = Len(ring) + 1
        /\ moved[Len(ring) + 1] = x
        /\ \A k \in 1 .. Len(ring) : moved[k] = ring[k]
    BY <2>1, AppendProperties
  <2>3. PICK d \in {0, 1} : d = 0
    OBVIOUS
  <2>4. /\ Len(moved) = (Len(ring) - d) + 1 /\ Len(moved) \in Nat
        /\ Len(moved) <= BufferSize /\ moved[Len(moved)] = x
    BY <1>1, <1>2, <2>2, <2>3
  <2>5. \A k \in 1 .. Len(ring) - d : moved[k] = ring[k + d]
    BY <1>1, <2>2, <2>3
  <2>6. Pushed(ring, x, d, moved)
    BY <1>2, <2>3, <2>4, <2>5 DEF Pushed
  <2> QED BY <2>2, <2>4, <2>6
<1>3. CASE ~(Len(ring) < BufferSize)
  <2> DEFINE tl == Tail(ring)
  <2>1. moved = Append(tl, x)
    BY <1>3 DEF Push
  <2>2. ring # << >>
    BY <1>1, <1>3, EmptySeq
  <2>3. /\ tl \in Seq(S) /\ Len(tl) = Len(ring) - 1
        /\ \A k \in 1 .. Len(tl) : tl[k] = ring[k + 1]
    BY <2>2, HeadTailProperties
  <2> HIDE DEF tl
  <2>4. /\ moved \in Seq(S) /\ Len(moved) = Len(tl) + 1 /\ moved[Len(tl) + 1] = x
        /\ \A k \in 1 .. Len(tl) : moved[k] = tl[k]
    BY <2>1, <2>3, AppendProperties
  <2>5. /\ Len(moved) = (Len(ring) - 1) + 1 /\ Len(moved) \in Nat
        /\ Len(moved) <= BufferSize /\ moved[Len(moved)] = x
        /\ Len(ring) = BufferSize
    BY <1>1, <1>3, <2>3, <2>4
  <2>6. \A k \in 1 .. Len(ring) - 1 : moved[k] = ring[k + 1]
    BY <2>3, <2>4
  <2>7. Pushed(ring, x, 1, moved)
    BY <2>5, <2>6 DEF Pushed
  <2> QED BY <2>4, <2>5, <2>7
<1> QED BY <1>2, <1>3

(* An entry more is counted if it is one of those looked for.              *)
LEMMA HitsFinite ==
  ASSUME NEW A, NEW entries \in Seq(A), NEW S
  PROVE  IsFiniteSet(Hits(entries, S)) /\ Cardinality(Hits(entries, S)) \in Nat
<1>1. Len(entries) \in Nat
  BY LenProperties
<1>2. IsFiniteSet(1 .. Len(entries))
  BY <1>1, FS_Interval
<1>3. Hits(entries, S) \subseteq 1 .. Len(entries)
  BY DEF Hits
<1>4. IsFiniteSet(Hits(entries, S))
  BY <1>2, <1>3, FS_Subset
<1> QED BY <1>4, FS_CardinalityType

LEMMA HitsAppend ==
  ASSUME NEW A, NEW entries \in Seq(A), NEW x \in A, NEW S,
         NEW more, more = Append(entries, x)
  PROVE  Cardinality(Hits(more, S))
           = Cardinality(Hits(entries, S)) + (IF x \in S THEN 1 ELSE 0)
<1>1. /\ Len(entries) \in Nat /\ Len(more) = Len(entries) + 1
      /\ more[Len(entries) + 1] = x
      /\ \A k \in 1 .. Len(entries) : more[k] = entries[k]
  BY LenProperties, AppendProperties
<1>2. IsFiniteSet(Hits(entries, S)) /\ Cardinality(Hits(entries, S)) \in Nat
  BY HitsFinite
<1>3. Len(entries) + 1 \notin Hits(entries, S)
  BY <1>1 DEF Hits
<1>4. CASE x \in S
  <2>1. Hits(more, S) = Hits(entries, S) \cup {Len(entries) + 1}
    <3>1. ASSUME NEW i \in Hits(more, S)
          PROVE  i \in Hits(entries, S) \cup {Len(entries) + 1}
      BY <1>1, <3>1 DEF Hits
    <3>2. ASSUME NEW i \in Hits(entries, S) PROVE i \in Hits(more, S)
      BY <1>1, <3>2 DEF Hits
    <3>3. Len(entries) + 1 \in Hits(more, S)
      BY <1>1, <1>4 DEF Hits
    <3> QED BY <3>1, <3>2, <3>3
  <2>2. Cardinality(Hits(entries, S) \cup {Len(entries) + 1})
          = Cardinality(Hits(entries, S)) + 1
    BY <1>2, <1>3, FS_AddElement
  <2> QED BY <1>4, <2>1, <2>2
<1>5. CASE x \notin S
  <2>1. Hits(more, S) = Hits(entries, S)
    BY <1>1, <1>5 DEF Hits
  <2> QED BY <1>2, <1>5, <2>1
<1> QED BY <1>4, <1>5

-----------------------------------------------------------------------------
(* The topic only grows, and what was said of a record on it goes on to    *)
(* hold.                                                                   *)
Grows ==
  /\ Len(topic') \in Nat /\ Len(topic) \in Nat /\ Len(topic) <= Len(topic')
  /\ \A n \in 1 .. Len(topic) : topic'[n] = topic[n]

LEMMA SameGrows ==
  ASSUME Inv, UNCHANGED topic
  PROVE  Grows
BY Numbers DEF Grows

LEMMA AppendGrows ==
  ASSUME Inv, NEW rec \in Records, topic' = Append(topic, rec)
  PROVE  /\ Grows /\ Len(topic') = Len(topic) + 1 /\ topic'[Len(topic) + 1] = rec
<1>1. Len(topic) \in Nat /\ topic \in Seq(Records)
  BY Numbers DEF Inv, TypeOK
<1>2. /\ Len(topic') = Len(topic) + 1 /\ topic'[Len(topic) + 1] = rec
      /\ \A i \in 1 .. Len(topic) : topic'[i] = topic[i]
  BY <1>1, AppendProperties
<1> QED BY <1>1, <1>2 DEF Grows

LEMMA OnTopicGrows ==
  ASSUME Grows, NEW rec, OnTopic(topic, rec)
  PROVE  OnTopic(topic', rec)
BY DEF Grows, OnTopic

(* A record of the topic has its place as its number.                      *)
LEMMA PlaceIsSeq ==
  ASSUME Inv, NEW n \in 1 .. Len(topic)
  PROVE  /\ topic[n] \in Records /\ topic[n].seq = n /\ topic[n].txn \in Txns
         /\ OnTopic(topic, topic[n])
<1>1. topic[n] \in Records
  BY ElementOfSeq DEF Inv, TypeOK
<1>2. topic[n].seq = n
  BY DEF Inv, Chained, WellLinked
<1> QED BY <1>1, <1>2 DEF OnTopic, Records

(* Pushes are as before, with more behind them.                            *)
PushesGrow ==
  /\ Len(pushes') \in Nat /\ Len(pushes) \in Nat /\ Len(pushes) <= Len(pushes')
  /\ \A k \in 1 .. Len(pushes) : pushes'[k] = pushes[k]

LEMMA RereadGrows ==
  ASSUME Grows, PushesGrow, pushes \in Seq(1 .. Len(topic)), NEW txn,
         Reread(topic, pushes, txn)
  PROVE  Reread(topic', pushes', txn)
<1>1. PICK j, k \in 1 .. Len(pushes) :
        j # k /\ pushes[j] = pushes[k] /\ topic[pushes[j]].txn = txn
  BY DEF Reread
<1>2. /\ j \in 1 .. Len(pushes') /\ k \in 1 .. Len(pushes')
      /\ pushes'[j] = pushes[j] /\ pushes'[k] = pushes[k]
  BY DEF PushesGrow
<1>3. pushes[j] \in 1 .. Len(topic)
  BY ElementOfSeq
<1>4. topic'[pushes'[j]].txn = txn
  BY <1>1, <1>2, <1>3 DEF Grows
<1> QED BY <1>1, <1>2, <1>4 DEF Reread

-----------------------------------------------------------------------------
(* Received.                                                               *)
LEMMA PushesAre ==
  ASSUME Received
  PROVE  /\ Len(pushes) \in Nat /\ DOMAIN pushes = 1 .. Len(pushes)
         /\ \A k \in 1 .. Len(pushes) : pushes[k] \in 1 .. Len(topic)
BY LenProperties, ElementOfSeq DEF Received

(* What the buffer holds at i is the push with so many behind it.          *)
LEMMA BufferedAt ==
  ASSUME Inv, Received, NEW i \in 1 .. Len(buffer)
  PROVE  /\ (Len(pushes) - Len(buffer)) + i \in 1 .. Len(pushes)
         /\ pushes[(Len(pushes) - Len(buffer)) + i] \in 1 .. Len(topic)
         /\ buffer[i] = topic[pushes[(Len(pushes) - Len(buffer)) + i]]
         /\ OnTopic(topic, buffer[i]) /\ buffer[i] \in Records
<1>1. Len(pushes) \in Nat /\ Len(buffer) \in Nat /\ Len(buffer) <= Len(pushes)
  BY PushesAre, Numbers DEF Received
<1>2. (Len(pushes) - Len(buffer)) + i \in 1 .. Len(pushes)
  BY <1>1
<1>3. pushes[(Len(pushes) - Len(buffer)) + i] \in 1 .. Len(topic)
  BY <1>2, PushesAre
<1>4. buffer[i] = topic[pushes[(Len(pushes) - Len(buffer)) + i]]
  BY DEF Received
<1> QED BY <1>2, <1>3, <1>4, PlaceIsSeq

LEMMA ReceivedSame ==
  ASSUME Inv, Received, Grows, UNCHANGED <<pushes, buffer, stats, verifying>>,
         verifying = {} \/ position' = position
  PROVE  Received'
<1>1. /\ Len(pushes) \in Nat
      /\ \A k \in 1 .. Len(pushes) : pushes[k] \in 1 .. Len(topic)
  BY PushesAre
<1>2. pushes' \in Seq(1 .. Len(topic'))
  <2>1. Len(topic) \in Nat /\ Len(topic') \in Nat /\ Len(topic) <= Len(topic')
    BY DEF Grows
  <2>2. 1 .. Len(topic) \subseteq 1 .. Len(topic')
    BY <2>1
  <2>3. \A k \in 1 .. Len(pushes) : pushes[k] \in 1 .. Len(topic')
    BY <1>1, <2>2
  <2>4. pushes = [k \in 1 .. Len(pushes) |-> pushes[k]]
    BY SeqDef DEF Received
  <2> QED BY <1>1, <2>3, <2>4, IsASeq
<1>3. \A i \in 1 .. Len(buffer') :
        buffer'[i] = topic'[pushes'[(Len(pushes') - Len(buffer')) + i]]
  <2> SUFFICES ASSUME NEW i \in 1 .. Len(buffer)
               PROVE  buffer[i] = topic'[pushes[(Len(pushes) - Len(buffer)) + i]]
    OBVIOUS
  <2> QED BY BufferedAt DEF Grows
<1>4. /\ Len(buffer') <= Len(pushes')
      /\ Len(buffer') = Len(pushes') \/ Len(buffer') = BufferSize
      /\ verifying' # {} => Len(pushes') >= 1 /\ pushes'[Len(pushes')] = position'
  BY DEF Received
<1>5. Accepted' = Accepted /\ Held' = Held
  BY DEF Accepted, Held
<1>6. \A n \in 1 .. Accepted' : \E k \in 1 .. Len(pushes') - Held' : pushes'[k] = n
  BY <1>5 DEF Received
<1> HIDE DEF Held, Accepted
<1> QED BY <1>2, <1>3, <1>4, <1>6 DEF Received

(* A record that is accepted is the one received last.                     *)
LEMMA VerifyTells ==
  ASSUME Inv, Verify
  PROVE  \E rec \in verifying :
           /\ rec = topic[position] /\ position \in 1 .. Len(topic)
           /\ reports' = Reported(Pruned(reports),
                                  [txn |-> rec.txn, verified |-> ChainOk(rec)])
           /\ ChainOk(rec) => Accepted' = position
           /\ ~ChainOk(rec) => Accepted' = Accepted /\ position <= Accepted
           /\ position <= Accepted + 1
<1>1. PICK rec \in verifying :
        /\ VerifyEnvelope(rec)
        /\ reports' = Reported(Pruned(reports),
                               [txn |-> rec.txn, verified |-> ChainOk(rec)])
  BY DEF Verify
<1>2. /\ rec = topic[position] /\ position \in 1 .. Len(topic)
      /\ position <= Accepted + 1
      /\ ChainOk(rec) <=> position = Accepted + 1
  BY NextOrRejected
<1>3. /\ stats \in [Counters -> Nat] /\ Accepted \in Nat /\ Len(topic) \in Nat
      /\ "chain_ok" \in Counters
  BY Numbers DEF Inv, TypeOK, VerifierTypeOK, Counters
<1>4. ASSUME ChainOk(rec) PROVE Accepted' = position
  <2>1. "chain_ok" \in Bumped(rec)
    BY <1>4 DEF Bumped
  <2>2. Accepted' = Accepted + 1
    BY <1>1, <1>3, <2>1 DEF VerifyEnvelope, Accepted
  <2> QED BY <1>2, <1>4, <2>2
<1>5. ASSUME ~ChainOk(rec) PROVE Accepted' = Accepted /\ position <= Accepted
  <2>1. "chain_ok" \notin Bumped(rec)
    BY <1>5 DEF Bumped
  <2>2. Accepted' = Accepted
    BY <1>1, <1>3, <2>1 DEF VerifyEnvelope, Accepted
  <2> QED BY <1>2, <1>3, <1>5, <2>2
<1> QED BY <1>1, <1>2, <1>4, <1>5

LEMMA ReceivedVerify ==
  ASSUME Inv, Received, Verify, UNCHANGED pushes
  PROVE  Received'
<1>1. PICK rec \in verifying :
        /\ rec = topic[position] /\ position \in 1 .. Len(topic)
        /\ ChainOk(rec) => Accepted' = position
        /\ ~ChainOk(rec) => Accepted' = Accepted /\ position <= Accepted
        /\ position <= Accepted + 1
  BY VerifyTells
<1>2. UNCHANGED <<topic, buffer, position, pushes>> /\ verifying' = {}
  BY DEF Verify
<1>3. /\ Len(pushes) \in Nat /\ Len(pushes) >= 1 /\ pushes[Len(pushes)] = position
      /\ Accepted \in Nat /\ position \in Nat /\ Len(topic) \in Nat
  BY <1>1, PushesAre, Numbers DEF Received
<1>4. Held = 1 /\ Held' = 0
  BY <1>1, <1>2 DEF Held
<1>5. \A n \in 1 .. Accepted : \E k \in 1 .. Len(pushes) - 1 : pushes[k] = n
  BY <1>4 DEF Received
<1>6. ASSUME NEW n \in 1 .. Accepted'
      PROVE  \E k \in 1 .. Len(pushes') - Held' : pushes'[k] = n
  <2>1. CASE n = position
    BY <1>2, <1>3, <1>4, <2>1
  <2>2. CASE n # position
    <3>1. n \in 1 .. Accepted
      <4>1. CASE ChainOk(rec)
        BY <1>1, <1>3, <1>6, <2>2, <4>1
      <4>2. CASE ~ChainOk(rec)
        BY <1>1, <1>6, <4>2
      <4> QED BY <4>1, <4>2
    <3>2. PICK k \in 1 .. Len(pushes) - 1 : pushes[k] = n
      BY <1>5, <3>1
    <3>3. k \in 1 .. Len(pushes) - 0
      BY <1>3
    <3> QED BY <1>2, <1>4, <3>2, <3>3
  <2> QED BY <2>1, <2>2
<1> HIDE DEF Held, Accepted
<1> QED BY <1>2, <1>6 DEF Received

LEMMA ReceivedReceive ==
  ASSUME Inv, Received, Receive, pushes' = Append(pushes, position + 1)
  PROVE  /\ Received' /\ PushesGrow /\ Len(pushes') = Len(pushes) + 1
         /\ \E d \in {0, 1} : Pushed(buffer, topic[position + 1], d, buffer')
<1>1. /\ position \in Nat /\ Len(topic) \in Nat /\ position < Len(topic)
      /\ verifying = {} /\ position' = position + 1
      /\ verifying' = {topic[position + 1]}
      /\ buffer' = Push(buffer, topic[position + 1])
      /\ UNCHANGED <<topic, stats>>
  BY Numbers DEF Receive, verifierVars
<1>2. position + 1 \in 1 .. Len(topic)
  BY <1>1
<1>3. pushes \in Seq(1 .. Len(topic)) /\ Len(pushes) \in Nat
  BY PushesAre DEF Received
<1>4. /\ pushes' \in Seq(1 .. Len(topic)) /\ Len(pushes') = Len(pushes) + 1
      /\ pushes'[Len(pushes) + 1] = position + 1
      /\ \A k \in 1 .. Len(pushes) : pushes'[k] = pushes[k]
  BY <1>2, <1>3, AppendProperties
<1>5. buffer \in Seq(Records) /\ Len(buffer) <= BufferSize /\ Len(buffer) \in Nat
  BY Numbers DEF Inv, TypeOK
<1>6. PICK rec \in Records : rec = topic[position + 1]
  BY <1>2, PlaceIsSeq
<1>7. PICK moved : moved = buffer'
  OBVIOUS
<1>8. moved \in Seq(Records) /\ \E d \in {0, 1} : Pushed(buffer, rec, d, moved)
  BY <1>1, <1>5, <1>6, <1>7, PushMoves
<1>9. PICK d \in {0, 1} : Pushed(buffer, rec, d, moved)
  BY <1>8
<1>10. /\ Len(moved) = (Len(buffer) - d) + 1
       /\ IF d = 0 THEN Len(buffer) < BufferSize ELSE d = 1 /\ Len(buffer) = BufferSize
       /\ moved[Len(moved)] = rec
       /\ \A k \in 1 .. Len(buffer) - d : moved[k] = buffer[k + d]
  BY <1>9 DEF Pushed
<1>11. /\ Len(buffer) <= Len(pushes)
       /\ Len(buffer) = Len(pushes) \/ Len(buffer) = BufferSize
  BY DEF Received
<1>12. /\ Len(moved) <= Len(pushes')
       /\ Len(moved) = Len(pushes') \/ Len(moved) = BufferSize
  <2>1. PICK m \in Nat, n \in Nat, p \in Nat :
          m = Len(buffer) /\ n = Len(pushes) /\ p = BufferSize
    BY <1>3, <1>5, ApiSizes
  <2>2. m <= n /\ m <= p /\ (m = n \/ m = p)
    BY <1>5, <1>11, <2>1
  <2>3. Len(moved) = (m - d) + 1 /\ Len(pushes') = n + 1
    BY <1>4, <1>10, <2>1
  <2>4. IF d = 0 THEN m < p ELSE d = 1 /\ m = p
    BY <1>10, <2>1
  <2>5. CASE d = 0
    <3>1. Len(moved) = m + 1 /\ m = n
      BY <2>2, <2>3, <2>4, <2>5
    <3> QED BY <2>3, <3>1
  <2>6. CASE d # 0
    <3>1. Len(moved) = p /\ p <= n
      BY <2>2, <2>3, <2>4, <2>6
    <3> QED BY <2>1, <2>3, <3>1
  <2> QED BY <2>5, <2>6
<1>13. \A i \in 1 .. Len(moved) :
         moved[i] = topic[pushes'[(Len(pushes') - Len(moved)) + i]]
  <2> SUFFICES ASSUME NEW i \in 1 .. Len(moved)
               PROVE  moved[i] = topic[pushes'[(Len(pushes') - Len(moved)) + i]]
    OBVIOUS
  <2>1. CASE i = Len(moved)
    <3>1. (Len(pushes') - Len(moved)) + i = Len(pushes) + 1
      BY <1>3, <1>4, <1>5, <1>10, <2>1
    <3> QED BY <1>4, <1>6, <1>10, <2>1, <3>1
  <2>2. CASE i # Len(moved)
    <3>1. /\ i \in 1 .. Len(buffer) - d /\ i + d \in 1 .. Len(buffer)
          /\ (Len(pushes') - Len(moved)) + i = (Len(pushes) - Len(buffer)) + (i + d)
      <4>1. d \in Nat /\ d <= Len(buffer) /\ Len(moved) \in Nat
        BY <1>5, <1>10, ApiSizes
      <4>2. Len(moved) = (Len(buffer) - d) + 1 /\ Len(pushes') = Len(pushes) + 1
        BY <1>4, <1>10
      <4> QED BY <1>3, <1>5, <2>2, <4>1, <4>2
    <3>2. /\ (Len(pushes) - Len(buffer)) + (i + d) \in 1 .. Len(pushes)
          /\ buffer[i + d] = topic[pushes[(Len(pushes) - Len(buffer)) + (i + d)]]
      BY <3>1, BufferedAt
    <3> QED BY <1>4, <1>10, <3>1, <3>2
  <2> QED BY <2>1, <2>2
<1>14. Held = 0 /\ Held' = 1 /\ Accepted' = Accepted
  BY <1>1 DEF Held, Accepted
<1>15. ASSUME NEW n \in 1 .. Accepted'
       PROVE  \E k \in 1 .. Len(pushes') - Held' : pushes'[k] = n
  <2>1. PICK k \in 1 .. Len(pushes) - 0 : pushes[k] = n
    BY <1>14 DEF Received
  <2>2. k \in 1 .. Len(pushes') - 1 /\ k \in 1 .. Len(pushes)
    BY <1>3, <1>4
  <2> QED BY <1>4, <1>14, <2>1, <2>2
<1>16. Len(pushes') >= 1 /\ pushes'[Len(pushes')] = position'
  BY <1>1, <1>3, <1>4
<1>17. Received'
  <2> HIDE DEF Held, Accepted
  <2> QED BY <1>1, <1>4, <1>7, <1>12, <1>13, <1>15, <1>16 DEF Received
<1>18. PushesGrow
  BY <1>3, <1>4 DEF PushesGrow
<1> QED BY <1>4, <1>6, <1>7, <1>9, <1>17, <1>18

LEMMA ReceivedEmpty ==
  ASSUME Inv, buffer' = << >>, pushes' = << >>, verifying' = {}, Accepted' = 0
  PROVE  Received'
<1>1. pushes' \in Seq(1 .. Len(topic')) /\ Len(pushes') = 0 /\ Len(buffer') = 0
  BY EmptySeq
<1> HIDE DEF Held, Accepted
<1> QED BY <1>1 DEF Received

-----------------------------------------------------------------------------
(* Queued.                                                                 *)
LEMMA QueuedSame ==
  ASSUME Queued, Grows, alertPosition' \in 0 .. alertPosition,
         UNCHANGED <<alerts, queue>>
  PROVE  Queued'
<1>1. Len(alerts) \in Nat /\ alertPosition \in 0 .. Len(alerts)
  BY LenProperties DEF Queued
<1>2. alertPosition' \in 0 .. Len(alerts')
  BY <1>1
<1>3. /\ \A i \in 1 .. Len(alerts) : OnTopic(topic', alerts[i])
      /\ \A i \in 1 .. Len(queue) : OnTopic(topic', queue[i])
  BY OnTopicGrows DEF Queued
<1> QED BY <1>2, <1>3 DEF Queued

LEMMA QueuedQuarantine ==
  ASSUME Inv, Queued, NEW rec \in Records, topic' = Append(topic, rec),
         rec.seq = Len(topic) + 1, alerts' = Append(alerts, rec),
         UNCHANGED <<alertPosition, queue>>
  PROVE  Queued'
<1>1. /\ Grows /\ Len(topic') = Len(topic) + 1 /\ topic'[Len(topic) + 1] = rec
      /\ Len(topic) \in Nat
  BY AppendGrows, Numbers
<1>2. /\ alerts \in Seq(Records) /\ Len(alerts) \in Nat
      /\ alertPosition \in 0 .. Len(alerts)
  BY LenProperties DEF Queued
<1>3. /\ alerts' \in Seq(Records) /\ Len(alerts') = Len(alerts) + 1
      /\ alerts'[Len(alerts) + 1] = rec
      /\ \A i \in 1 .. Len(alerts) : alerts'[i] = alerts[i]
  BY <1>2, AppendProperties
<1>4. ASSUME NEW i \in 1 .. Len(alerts') PROVE OnTopic(topic', alerts'[i])
  <2>1. CASE i = Len(alerts) + 1
    BY <1>1, <1>3, <2>1 DEF OnTopic
  <2>2. CASE i # Len(alerts) + 1
    <3>1. i \in 1 .. Len(alerts)
      BY <1>2, <1>3, <2>2
    <3>2. OnTopic(topic, alerts[i])
      BY <3>1 DEF Queued
    <3> QED BY <1>1, <1>3, <3>1, <3>2, OnTopicGrows
  <2> QED BY <2>1, <2>2
<1>5. \A i \in 1 .. Len(queue) : OnTopic(topic', queue[i])
  BY <1>1, OnTopicGrows DEF Queued
<1>6. alertPosition' \in 0 .. Len(alerts')
  BY <1>2, <1>3
<1> QED BY <1>3, <1>4, <1>5, <1>6 DEF Queued

LEMMA QueuedReceive ==
  ASSUME Inv, Queued, ReceiveAnomaly
  PROVE  Queued'
<1>1. /\ alerts \in Seq(Records) /\ Len(alerts) \in Nat
      /\ alertPosition \in 0 .. Len(alerts)
      /\ queue \in Seq(Records) /\ Len(queue) <= BufferSize /\ Len(queue) \in Nat
  BY LenProperties DEF Queued
<1>2. /\ alertPosition < Len(alerts) /\ alertPosition' = alertPosition + 1
      /\ queue' = Push(queue, alerts[alertPosition + 1])
      /\ UNCHANGED <<topic, alerts>>
  BY DEF ReceiveAnomaly, vars
<1>3. alertPosition + 1 \in 1 .. Len(alerts)
  BY <1>1, <1>2
<1>4. PICK rec \in Records : rec = alerts[alertPosition + 1]
  BY <1>1, <1>3, ElementOfSeq
<1>5. OnTopic(topic, rec)
  BY <1>3, <1>4 DEF Queued
<1>6. PICK moved : moved = queue'
  OBVIOUS
<1>7. /\ moved \in Seq(Records) /\ Len(moved) \in Nat /\ Len(moved) <= BufferSize
      /\ \E d \in {0, 1} : Pushed(queue, rec, d, moved)
  <2>1. moved = Push(queue, rec) /\ queue \in Seq(Records) /\ Len(queue) <= BufferSize
    BY <1>1, <1>2, <1>4, <1>6
  <2> QED BY <2>1, PushMoves
<1>8. PICK d \in {0, 1} : Pushed(queue, rec, d, moved)
  BY <1>7
<1>9. \A i \in 1 .. Len(moved) : OnTopic(topic, moved[i])
  <2> SUFFICES ASSUME NEW i \in 1 .. Len(moved) PROVE OnTopic(topic, moved[i])
    OBVIOUS
  <2>1. CASE i = Len(moved)
    BY <1>5, <1>8, <2>1 DEF Pushed
  <2>2. CASE i # Len(moved)
    <3>1. i \in 1 .. Len(queue) - d /\ i + d \in 1 .. Len(queue)
      BY <1>1, <1>7, <1>8, <2>2 DEF Pushed
    <3> QED BY <1>8, <3>1 DEF Pushed, Queued
  <2> QED BY <2>1, <2>2
<1>10. alertPosition' \in 0 .. Len(alerts')
  BY <1>1, <1>2
<1> QED BY <1>2, <1>6, <1>7, <1>9, <1>10 DEF Queued

-----------------------------------------------------------------------------
(* Marked.                                                                 *)
LEMMA MarkedSame ==
  ASSUME Received, Marked, Grows, PushesGrow, pushes' \in Seq(1 .. Len(topic')),
         UNCHANGED <<marks, buffer, reports>>
  PROVE  Marked'
<1>1. pushes \in Seq(1 .. Len(topic))
  BY DEF Received
<1>2. /\ \A i \in 1 .. Len(marks) : marks[i] = "failed" =>
           Reread(topic', pushes', buffer[i].txn)
      /\ \A i \in 1 .. Len(reports) :
           ~reports[i].verified => Reread(topic', pushes', reports[i].txn)
  BY <1>1, RereadGrows DEF Marked
<1> QED BY <1>2 DEF Marked

(* Pruned and reported, an entry is the new report or was there before.    *)
LEMMA ReportedFrom ==
  ASSUME NEW entries \in Seq(Reports), Len(entries) <= MaxReports + 1,
         NEW report \in Reports, NEW new, new = Reported(Pruned(entries), report)
  PROVE  \A i \in 1 .. Len(new) :
           new[i] = report \/ \E k \in 1 .. Len(entries) : new[i] = entries[k]
<1>1. PICK kept \in Seq(Reports) : kept = Pruned(entries)
  BY PrunedType
<1>2. Len(kept) \in Nat /\ Len(entries) \in Nat /\ DOMAIN kept = 1 .. Len(kept)
  BY LenProperties
<1>3. PICK d \in Nat : Shortened(entries, d, kept)
  BY <1>1, PrunedKeepsNewest
<1>4. ASSUME NEW i \in 1 .. Len(kept)
      PROVE  \E k \in 1 .. Len(entries) : kept[i] = entries[k]
  <2>1. d + i \in 1 .. Len(entries) /\ kept[i] = entries[d + i]
    BY <1>2, <1>3 DEF Shortened
  <2> QED BY <2>1
<1>5. CASE \E i \in DOMAIN kept : kept[i].txn = report.txn
  <2>1. new = [i \in 1 .. Len(kept) |->
                 IF kept[i].txn = report.txn THEN report ELSE kept[i]]
    BY <1>1, <1>2, <1>5 DEF Reported
  <2>2. new \in Seq(Reports)
    <3>1. \A i \in 1 .. Len(kept) :
            (IF kept[i].txn = report.txn THEN report ELSE kept[i]) \in Reports
      BY ElementOfSeq
    <3> QED BY <1>2, <2>1, <3>1, IsASeq
  <2>3. Len(new) = Len(kept)
    BY <1>2, <2>1, <2>2, LenProperties
  <2> QED BY <1>4, <2>1, <2>3
<1>6. CASE ~\E i \in DOMAIN kept : kept[i].txn = report.txn
  <2>1. new = Append(kept, report)
    BY <1>1, <1>6 DEF Reported
  <2>2. /\ Len(new) = Len(kept) + 1 /\ new[Len(kept) + 1] = report
        /\ \A i \in 1 .. Len(kept) : new[i] = kept[i]
    BY <2>1, AppendProperties
  <2>3. ASSUME NEW i \in 1 .. Len(new)
        PROVE  i = Len(kept) + 1 \/ i \in 1 .. Len(kept)
    BY <1>2, <2>2
  <2> QED BY <1>4, <2>2, <2>3
<1> QED BY <1>5, <1>6

(* A record that fails is no longer the next one: its link was accepted    *)
(* from an earlier push.                                                   *)
LEMMA MarkedVerify ==
  ASSUME Inv, Received, Marked, Verify, UNCHANGED <<pushes, marks>>
  PROVE  Marked'
<1>1. PICK rec \in verifying :
        /\ rec = topic[position] /\ position \in 1 .. Len(topic)
        /\ reports' = Reported(Pruned(reports),
                               [txn |-> rec.txn, verified |-> ChainOk(rec)])
        /\ ~ChainOk(rec) => position <= Accepted
  BY VerifyTells
<1>2. UNCHANGED <<topic, buffer, pushes, marks>>
  BY DEF Verify
<1>3. /\ Len(pushes) \in Nat /\ DOMAIN pushes = 1 .. Len(pushes)
      /\ Len(pushes) >= 1 /\ pushes[Len(pushes)] = position
      /\ Accepted \in Nat /\ position \in Nat
  BY <1>1, PushesAre, Numbers DEF Received, Inv, TypeOK
<1>4. ASSUME ~ChainOk(rec) PROVE Reread(topic, pushes, rec.txn)
  <2>1. Held = 1
    BY <1>1 DEF Held
  <2>2. position \in 1 .. Accepted
    BY <1>1, <1>3, <1>4
  <2>3. PICK k \in 1 .. Len(pushes) - 1 : pushes[k] = position
    BY <2>1, <2>2 DEF Received
  <2>4. /\ k \in 1 .. Len(pushes) /\ Len(pushes) \in 1 .. Len(pushes)
        /\ k # Len(pushes) /\ pushes[k] = pushes[Len(pushes)]
    <3>1. PICK n \in Nat : n = Len(pushes)
      BY <1>3
    <3>2. n >= 1 /\ k \in 1 .. n - 1 /\ pushes[n] = position /\ pushes[k] = position
      BY <1>3, <2>3, <3>1
    <3>3. k \in 1 .. n /\ n \in 1 .. n /\ k # n
      BY <3>2
    <3> QED BY <3>1, <3>2, <3>3
  <2>5. topic[pushes[k]].txn = rec.txn
    BY <1>1, <2>3
  <2> QED BY <1>3, <2>3, <2>4, <2>5 DEF Reread
<1>5. PICK report : report = [txn |-> rec.txn, verified |-> ChainOk(rec)]
  OBVIOUS
<1>6. /\ report \in Reports /\ report.txn = rec.txn
      /\ ~report.verified => ~ChainOk(rec)
  <2>1. ChainOk(rec) \in BOOLEAN
    BY DEF ChainOk, FailsRecompute, Follows
  <2>2. rec.txn \in Txns
    BY <1>1, PlaceIsSeq
  <2>3. report.txn = rec.txn /\ report.verified = ChainOk(rec)
    BY <1>5
  <2> QED BY <1>5, <2>1, <2>2, <2>3, Zenon DEF Reports
<1>7. reports \in Seq(Reports) /\ Len(reports) <= MaxReports + 1
  BY DEF Inv, TypeOK
<1>8. PICK new : new = reports'
  OBVIOUS
<1>9. \A i \in 1 .. Len(new) :
        new[i] = report \/ \E k \in 1 .. Len(reports) : new[i] = reports[k]
  BY <1>1, <1>5, <1>6, <1>7, <1>8, ReportedFrom
<1>10. ASSUME NEW i \in 1 .. Len(new), ~new[i].verified
       PROVE  Reread(topic, pushes, new[i].txn)
  <2>1. CASE new[i] = report
    BY <1>4, <1>6, <1>10, <2>1
  <2>2. CASE \E k \in 1 .. Len(reports) : new[i] = reports[k]
    BY <1>10, <2>2 DEF Marked
  <2> QED BY <1>9, <2>1, <2>2
<1> QED BY <1>2, <1>8, <1>10 DEF Marked

LEMMA MarkedReceive ==
  ASSUME Inv, Received, Marked, Receive, pushes' = Append(pushes, position + 1),
         marks' = Push(marks, "none")
  PROVE  Marked'
<1>1. /\ UNCHANGED <<topic, reports>> /\ Grows /\ Received' /\ PushesGrow
  BY ReceivedReceive, SameGrows DEF Receive
<1>2. pushes \in Seq(1 .. Len(topic)) /\ pushes' \in Seq(1 .. Len(topic'))
  BY <1>1 DEF Received
<1>3. \A txn : Reread(topic, pushes, txn) => Reread(topic', pushes', txn)
  BY <1>1, <1>2, RereadGrows
<1>4. PICK rec, d : d \in {0, 1} /\ Pushed(buffer, rec, d, buffer')
  <2>1. \E d \in {0, 1} : Pushed(buffer, topic[position + 1], d, buffer')
    BY ReceivedReceive
  <2> QED BY <2>1
<1>5. /\ marks \in Seq(MarkValues) /\ Len(marks) = Len(buffer)
      /\ Len(buffer) \in Nat /\ Len(buffer) <= BufferSize
  BY Numbers DEF Marked
<1>6. PICK none \in MarkValues : none = "none"
  BY DEF MarkValues
<1>7. PICK moved : moved = marks'
  OBVIOUS
<1>8. /\ moved \in Seq(MarkValues) /\ Len(moved) \in Nat
      /\ \E e \in {0, 1} : Pushed(marks, none, e, moved)
  BY <1>5, <1>6, <1>7, PushMoves
<1>9. Pushed(marks, none, d, moved)
  <2>1. PICK e \in {0, 1} : Pushed(marks, none, e, moved)
    BY <1>8
  <2>2. e = d
    BY <1>4, <1>5, <2>1 DEF Pushed
  <2> QED BY <2>1, <2>2
<1>10. Len(moved) = Len(buffer')
  BY <1>4, <1>5, <1>9 DEF Pushed
<1>11. ASSUME NEW i \in 1 .. Len(moved), moved[i] = "failed"
       PROVE  Reread(topic', pushes', buffer'[i].txn)
  <2>1. i # Len(moved)
    BY <1>6, <1>9, <1>11 DEF Pushed
  <2>2. /\ i \in 1 .. Len(buffer) - d /\ i + d \in 1 .. Len(marks)
    BY <1>5, <1>8, <1>9, <2>1 DEF Pushed
  <2>3. moved[i] = marks[i + d] /\ buffer'[i] = buffer[i + d]
    BY <1>4, <1>5, <1>9, <2>2 DEF Pushed
  <2>4. Reread(topic, pushes, buffer[i + d].txn)
    BY <1>11, <2>2, <2>3 DEF Marked
  <2> QED BY <1>3, <2>3, <2>4
<1>12. ASSUME NEW i \in 1 .. Len(reports), ~reports[i].verified
       PROVE  Reread(topic', pushes', reports[i].txn)
  <2>1. Reread(topic, pushes, reports[i].txn)
    BY <1>12 DEF Marked
  <2> QED BY <1>3, <2>1
<1> QED BY <1>1, <1>7, <1>8, <1>10, <1>11, <1>12 DEF Marked

LEMMA MarkedTransactions ==
  ASSUME Inv, Marked, NEW n \in 1 .. BufferSize, Transactions(n)
  PROVE  Marked'
<1>1. /\ marks' = [i \in DOMAIN buffer |->
                     IF i > Len(buffer) - n THEN Verdict(buffer[i].txn) ELSE marks[i]]
      /\ UNCHANGED <<topic, buffer, reports, pushes>>
  BY DEF Transactions, vars, serviceVars
<1>2. DOMAIN buffer = 1 .. Len(buffer) /\ Len(buffer) \in Nat
      /\ DOMAIN reports = 1 .. Len(reports)
  BY LenProperties DEF Inv, TypeOK
<1>3. \A txn : Verdict(txn) \in MarkValues
  BY DEF Verdict, MarkValues
<1>4. marks \in Seq(MarkValues) /\ Len(marks) = Len(buffer)
  BY DEF Marked
<1>5. \A i \in 1 .. Len(buffer) :
        (IF i > Len(buffer) - n THEN Verdict(buffer[i].txn) ELSE marks[i]) \in MarkValues
  BY <1>3, <1>4, ElementOfSeq
<1>6. marks' \in Seq(MarkValues)
  BY <1>1, <1>2, <1>5, IsASeq
<1>7. Len(marks') = Len(buffer)
  BY <1>1, <1>2, <1>6, LenProperties
<1>8. ASSUME NEW txn, Verdict(txn) = "failed" PROVE Reread(topic, pushes, txn)
  <2>1. /\ ~\E i \in DOMAIN reports : reports[i] = [txn |-> txn, verified |-> TRUE]
        /\ \E i \in DOMAIN reports : reports[i].txn = txn
    BY <1>8 DEF Verdict
  <2>2. PICK i \in 1 .. Len(reports) : reports[i].txn = txn
    BY <1>2, <2>1
  <2>3. reports[i] \in Reports
    BY ElementOfSeq DEF Inv, TypeOK
  <2>4. ~reports[i].verified
    <3> SUFFICES ASSUME reports[i].verified PROVE FALSE
      OBVIOUS
    <3>1. PICK a \in Txns, b \in BOOLEAN : reports[i] = [txn |-> a, verified |-> b]
      BY <2>3 DEF Reports
    <3>2. a = txn /\ b = TRUE
      BY <2>2, <3>1
    <3> QED BY <1>2, <2>1, <3>1, <3>2
  <2> QED BY <2>2, <2>4 DEF Marked
<1>9. ASSUME NEW i \in 1 .. Len(marks'), marks'[i] = "failed"
      PROVE  Reread(topic, pushes, buffer[i].txn)
  <2>1. CASE i > Len(buffer) - n
    BY <1>1, <1>2, <1>7, <1>8, <1>9, <2>1
  <2>2. CASE ~(i > Len(buffer) - n)
    BY <1>1, <1>2, <1>4, <1>7, <1>9, <2>2 DEF Marked
  <2> QED BY <2>1, <2>2
<1> QED BY <1>1, <1>6, <1>7, <1>9 DEF Marked

-----------------------------------------------------------------------------
(* Streamed.                                                               *)
LEMMA PlacesGrow ==
  ASSUME Grows, NEW entries \in Seq(0 .. Len(topic)), NEW txn
  PROVE  /\ Times(entries, Places(topic', txn)) = Times(entries, Places(topic, txn))
         /\ WasSent(topic, entries, txn) => WasSent(topic', entries, txn)
<1>1. ASSUME NEW i \in 1 .. Len(entries)
      PROVE  entries[i] \in Places(topic', txn) <=> entries[i] \in Places(topic, txn)
  <2>1. entries[i] \in 0 .. Len(topic)
    BY ElementOfSeq
  <2> QED BY <2>1 DEF Grows, Places
<1>2. Hits(entries, Places(topic', txn)) = Hits(entries, Places(topic, txn))
  BY <1>1 DEF Hits
<1> QED BY <1>1, <1>2 DEF Times, WasSent

FeedGrew(source, entries, x, more) ==
  /\ \A S : Times(more, S) = Times(entries, S) + (IF x \in S THEN 1 ELSE 0)
  /\ \A S : Times(entries, S) \in Nat
  /\ \A txn : WasSent(source, entries, txn) => WasSent(source, more, txn)
  /\ \A txn : x \in Places(source, txn) => WasSent(source, more, txn)

LEMMA FeedAppend ==
  ASSUME NEW A, NEW x \in A, NEW entries \in Seq(A), NEW more,
         more = Append(entries, x), NEW source
  PROVE  FeedGrew(source, entries, x, more)
<1>1. /\ Len(entries) \in Nat /\ Len(more) = Len(entries) + 1
      /\ more[Len(entries) + 1] = x
      /\ \A k \in 1 .. Len(entries) : more[k] = entries[k]
  BY LenProperties, AppendProperties
<1>2. \A S : /\ Times(entries, S) \in Nat
             /\ Times(more, S) = Times(entries, S) + (IF x \in S THEN 1 ELSE 0)
  BY HitsFinite, HitsAppend DEF Times
<1>3. ASSUME NEW txn, WasSent(source, entries, txn) PROVE WasSent(source, more, txn)
  BY <1>1, <1>3 DEF WasSent
<1>4. ASSUME NEW txn, x \in Places(source, txn) PROVE WasSent(source, more, txn)
  <2>1. Len(entries) + 1 \in 1 .. Len(more)
    BY <1>1
  <2> QED BY <1>1, <1>4, <2>1 DEF WasSent
<1> QED BY <1>2, <1>3, <1>4 DEF FeedGrew

LEMMA RangeGrows ==
  ASSUME Grows, NEW entries \in Seq(0 .. Len(topic))
  PROVE  entries \in Seq(0 .. Len(topic'))
<1>1. 0 .. Len(topic) \subseteq 0 .. Len(topic')
  BY DEF Grows
<1>2. /\ Len(entries) \in Nat
      /\ \A i \in 1 .. Len(entries) : entries[i] \in 0 .. Len(topic')
  BY <1>1, LenProperties, ElementOfSeq
<1>3. entries = [i \in 1 .. Len(entries) |-> entries[i]]
  BY SeqDef
<1> QED BY <1>2, <1>3, IsASeq

LEMMA StreamedSame ==
  ASSUME Inv, Received, Streamed, Grows, PushesGrow, UNCHANGED streamVars
  PROVE  Streamed'
<1>1. UNCHANGED <<batch, seen, feed, covered, overrun>>
  BY DEF streamVars
<1>2. RoundOk'
  <2>1. \A rest \in batch : \A i \in 1 .. Len(rest) : OnTopic(topic', rest[i])
    BY OnTopicGrows DEF Streamed, RoundOk
  <2> QED BY <1>1, <2>1 DEF Streamed, RoundOk
<1>3. feed \in Seq(0 .. Len(topic)) /\ feed \in Seq(0 .. Len(topic'))
  BY RangeGrows DEF Streamed, FeedOk
<1>4. Remembered'
  <2>1. \A txn \in seen : WasSent(topic', feed, txn)
    BY <1>3, PlacesGrow DEF Streamed, Remembered
  <2> QED BY <1>1, <2>1 DEF Streamed, Remembered
<1>5. covered \in 0 .. Len(pushes) /\ covered \in 0 .. Len(pushes')
  BY DEF PushesGrow, Streamed, FeedOk
<1>6. ASSUME ~overrun, NEW k \in 1 .. covered
      PROVE  \/ WasSent(topic', feed, topic'[pushes'[k]].txn)
             \/ Waiting(batch, topic'[pushes'[k]].txn)
  <2>1. k \in 1 .. Len(pushes) /\ pushes[k] \in 1 .. Len(topic)
    BY <1>5, PushesAre
  <2>2. topic'[pushes'[k]] = topic[pushes[k]]
    BY <2>1 DEF PushesGrow, Grows
  <2>3. PICK txn : txn = topic[pushes[k]].txn
    OBVIOUS
  <2>4. WasSent(topic, feed, txn) \/ Waiting(batch, txn)
    BY <1>6, <2>3 DEF Streamed, FeedOk
  <2> QED BY <1>3, <2>2, <2>3, <2>4, PlacesGrow
<1>7. \A txn \in Txns :
        Times(feed, Places(topic', txn)) = Times(feed, Places(topic, txn))
  BY <1>3, PlacesGrow
<1>8. FeedOk'
  BY <1>1, <1>3, <1>5, <1>6, <1>7 DEF Streamed, FeedOk
<1> QED BY <1>2, <1>4, <1>8 DEF Streamed

LEMMA StreamedNew ==
  ASSUME NewStream, Len(pushes') \in Nat
  PROVE  Streamed'
<1>1. /\ batch' = {} /\ seen' = {} /\ feed' = << >> /\ covered' = 0
      /\ overrun' = FALSE
  BY DEF NewStream
<1>2. feed' \in Seq(0 .. Len(topic')) /\ Len(feed') = 0
  BY <1>1, EmptySeq
<1>3. \A S : Times(feed', S) = 0
  <2>1. \A S : Hits(feed', S) = {}
    BY <1>2 DEF Hits
  <2> QED BY <2>1, FS_EmptySet DEF Times
<1>4. RoundOk' /\ Remembered'
  BY <1>1, FS_EmptySet, ApiSizes DEF RoundOk, Remembered
<1>5. /\ \A txn : Times(feed', Places(topic', txn)) = 0
      /\ Times(feed', {0}) = 0
  BY <1>3
<1>6. covered' \in 0 .. Len(pushes') /\ overrun' \in BOOLEAN
  <2>1. covered' \in 0 .. Len(pushes')
    <3>1. covered' = 0
      BY <1>1
    <3> QED BY <3>1
  <2>2. overrun' \in BOOLEAN
    BY <1>1, Zenon
  <2> QED BY <2>1, <2>2
<1>7. 1 .. covered' = {}
  <2>1. 1 .. 0 = {}
    OBVIOUS
  <2> QED BY <1>1, <2>1
<1>8. FeedOk'
  BY <1>2, <1>5, <1>6, <1>7 DEF FeedOk
<1> QED BY <1>4, <1>8 DEF Streamed

(* The newest n of the buffer.                                             *)
LEMMA NewestIs ==
  ASSUME Inv, NEW n \in Nat \ {0}, NEW rest, rest = Newest(n)
  PROVE  /\ rest \in Seq(Records) /\ Len(rest) \in Nat
         /\ Len(rest) = IF n < Len(buffer) THEN n ELSE Len(buffer)
         /\ \A i \in 1 .. Len(rest) : rest[i] = buffer[(Len(buffer) - Len(rest)) + i]
<1> DEFINE from == IF n < Len(buffer) THEN Len(buffer) - n + 1 ELSE 1
<1>1. Len(buffer) \in Nat /\ buffer \in Seq(Records)
  BY Numbers DEF Inv, TypeOK
<1>2. from \in 1 .. Len(buffer) + 1
  BY <1>1
<1>3. rest = SubSeq(buffer, from, Len(buffer))
  BY DEF Newest
<1>4. \A i \in from .. Len(buffer) : buffer[i] \in Records
  BY <1>1, <1>2, ElementOfSeq
<1>5. Len(buffer) - from + 1 = IF n < Len(buffer) THEN n ELSE Len(buffer)
  BY <1>1
<1> HIDE DEF from
<1>6. /\ rest \in Seq(Records)
      /\ Len(rest) = IF from <= Len(buffer) THEN Len(buffer) - from + 1 ELSE 0
      /\ \A i \in 1 .. Len(buffer) - from + 1 : rest[i] = buffer[from + i - 1]
  BY <1>1, <1>2, <1>3, <1>4, SubSeqProperties
<1>7. Len(rest) = Len(buffer) - from + 1 /\ Len(rest) \in Nat
  BY <1>1, <1>2, <1>6
<1>8. ASSUME NEW i \in 1 .. Len(rest)
      PROVE  rest[i] = buffer[(Len(buffer) - Len(rest)) + i]
  <2>1. from + i - 1 = (Len(buffer) - Len(rest)) + i /\ i \in 1 .. Len(buffer) - from + 1
    BY <1>1, <1>2, <1>7
  <2> QED BY <1>6, <2>1
<1> QED BY <1>5, <1>6, <1>7, <1>8

LEMMA StreamedBegin ==
  ASSUME Inv, Received, Streamed, BeginRound
  PROVE  Streamed'
<1>1. /\ batch = {} /\ batch' = {Newest(Window)} /\ covered' = Len(pushes)
      /\ overrun' = (overrun \/ Len(pushes) - covered > Window)
      /\ UNCHANGED <<topic, buffer, pushes, seen, feed>>
  BY DEF BeginRound, vars, serviceVars
<1>2. /\ Window \in Nat \ {0} /\ Window <= BufferSize /\ MaxSeen \in Nat
      /\ BufferSize \in Nat
  BY ApiSizes
<1>3. PICK rest : rest = Newest(Window)
  OBVIOUS
<1>4. /\ rest \in Seq(Records) /\ Len(rest) \in Nat
      /\ Len(rest) = IF Window < Len(buffer) THEN Window ELSE Len(buffer)
      /\ \A i \in 1 .. Len(rest) : rest[i] = buffer[(Len(buffer) - Len(rest)) + i]
  BY <1>2, <1>3, NewestIs
<1>5. /\ Len(buffer) \in Nat /\ Len(pushes) \in Nat /\ Len(buffer) <= Len(pushes)
      /\ Len(buffer) = Len(pushes) \/ Len(buffer) = BufferSize
  BY Numbers, PushesAre DEF Received
<1>6. Len(rest) <= Window /\ Len(rest) <= Len(buffer)
  BY <1>2, <1>4, <1>5
<1>7. ASSUME NEW i \in 1 .. Len(rest)
      PROVE  /\ OnTopic(topic, rest[i])
             /\ rest[i] = topic[pushes[(Len(pushes) - Len(rest)) + i]]
  <2>1. PICK j \in 1 .. Len(buffer) : j = (Len(buffer) - Len(rest)) + i
    BY <1>4, <1>5, <1>6
  <2>2. /\ buffer[j] = topic[pushes[(Len(pushes) - Len(buffer)) + j]]
        /\ OnTopic(topic, buffer[j])
    BY BufferedAt
  <2>3. (Len(pushes) - Len(buffer)) + j = (Len(pushes) - Len(rest)) + i
    BY <1>4, <1>5, <2>1
  <2> QED BY <1>4, <2>1, <2>2, <2>3
<1>8. RoundOk'
  BY <1>1, <1>3, <1>4, <1>6, <1>7 DEF RoundOk
<1>9. Remembered'
  <2>1. Cardinality(seen) \in Nat /\ Cardinality(seen) <= MaxSeen
    BY <1>1, FS_CardinalityType DEF Streamed, Remembered
  <2>2. Cardinality(seen) + Len(rest) <= MaxSeen + Window
    BY <1>2, <1>4, <1>6, <2>1
  <2> QED BY <1>1, <1>3, <2>2 DEF Streamed, Remembered
<1>10. ASSUME ~overrun', NEW k \in 1 .. Len(pushes)
       PROVE  \/ WasSent(topic, feed, topic[pushes[k]].txn)
              \/ Waiting({rest}, topic[pushes[k]].txn)
  <2>1. /\ ~overrun /\ covered \in 0 .. Len(pushes)
        /\ ~(Len(pushes) - covered > Window)
    BY <1>1, <1>10 DEF Streamed, FeedOk
  <2>2. CASE k <= covered
    <3>1. k \in 1 .. covered
      BY <2>1, <2>2
    <3>2. ~Waiting(batch, topic[pushes[k]].txn)
      BY <1>1 DEF Waiting
    <3> QED BY <2>1, <3>1, <3>2 DEF Streamed, FeedOk
  <2>3. CASE ~(k <= covered)
    <3>1. k > Len(pushes) - Window
      BY <1>2, <1>5, <2>1, <2>3
    <3>2. k > Len(pushes) - Len(rest)
      BY <1>2, <1>4, <1>5, <3>1
    <3>3. PICK m \in Nat, n \in Nat : m = Len(pushes) /\ n = Len(rest)
      BY <1>4, <1>5
    <3>4. k - (m - n) \in 1 .. n /\ (m - n) + (k - (m - n)) = k
      BY <3>2, <3>3
    <3>5. PICK i \in 1 .. Len(rest) : (Len(pushes) - Len(rest)) + i = k
      BY <3>3, <3>4
    <3>6. rest[i] = topic[pushes[k]]
      BY <1>7, <3>5
    <3> QED BY <3>6 DEF Waiting
  <2> QED BY <2>2, <2>3
<1>11. FeedOk'
  <2>1. overrun' \in BOOLEAN
    BY <1>1
  <2>2. covered' \in 0 .. Len(pushes')
    BY <1>1, <1>5
  <2> QED BY <1>1, <1>3, <1>10, <2>1, <2>2 DEF Streamed, FeedOk
<1> QED BY <1>8, <1>9, <1>11 DEF Streamed

LEMMA TailIs ==
  ASSUME NEW rest \in Seq(Records), rest # << >>, NEW tl, tl = Tail(rest)
  PROVE  /\ tl \in Seq(Records) /\ Len(tl) \in Nat /\ Len(tl) + 1 = Len(rest)
         /\ \A i \in 1 .. Len(tl) : i + 1 \in 1 .. Len(rest) /\ tl[i] = rest[i + 1]
         /\ 1 \in 1 .. Len(rest) /\ Head(rest) = rest[1] /\ rest[1] \in Records
<1>1. /\ tl \in Seq(Records) /\ Len(tl) = Len(rest) - 1
      /\ \A i \in 1 .. Len(tl) : tl[i] = rest[i + 1]
      /\ Head(rest) = rest[1]
  BY HeadTailProperties
<1>2. Len(rest) \in Nat /\ Len(rest) # 0
  BY LenProperties, EmptySeq
<1>3. 1 \in 1 .. Len(rest) /\ Len(tl) \in Nat /\ Len(tl) + 1 = Len(rest)
  BY <1>1, <1>2
<1>4. rest[1] \in Records
  BY <1>3, ElementOfSeq
<1>5. \A i \in 1 .. Len(tl) : i + 1 \in 1 .. Len(rest)
  BY <1>2, <1>3
<1> QED BY <1>1, <1>3, <1>4, <1>5

LEMMA StreamedSend ==
  ASSUME Inv, Received, Streamed, SendNext
  PROVE  Streamed'
<1>1. PICK rest \in batch :
        /\ rest # << >> /\ batch' = {Tail(rest)}
        /\ IF Head(rest).txn \in seen
           THEN UNCHANGED <<seen, feed>>
           ELSE /\ seen' = seen \cup {Head(rest).txn}
                /\ feed' = Append(feed, Head(rest).seq)
  BY DEF SendNext
<1>2. UNCHANGED <<topic, buffer, pushes, covered, overrun>>
  BY DEF SendNext, vars, serviceVars
<1>3. /\ batch = {rest} /\ rest \in Seq(Records) /\ Len(rest) <= Window
      /\ \A i \in 1 .. Len(rest) : OnTopic(topic, rest[i])
  BY DEF Streamed, RoundOk
<1>4. PICK tl : tl = Tail(rest)
  OBVIOUS
<1>5. /\ tl \in Seq(Records) /\ Len(tl) \in Nat /\ Len(tl) + 1 = Len(rest)
      /\ \A i \in 1 .. Len(tl) : i + 1 \in 1 .. Len(rest) /\ tl[i] = rest[i + 1]
      /\ 1 \in 1 .. Len(rest) /\ Head(rest) = rest[1] /\ rest[1] \in Records
  BY <1>1, <1>3, <1>4, TailIs
<1>6. PICK rec \in Records : rec = rest[1]
  BY <1>5
<1>7. /\ rec.seq \in 1 .. Len(topic) /\ rec = topic[rec.seq] /\ rec.txn \in Txns
  BY <1>3, <1>5, <1>6 DEF OnTopic, Records
<1>8. /\ Len(topic) \in Nat /\ Window \in Nat /\ MaxSeen \in Nat
  BY Numbers, ApiSizes
<1>9. RoundOk'
  <2>1. Len(tl) <= Window
    BY <1>3, <1>5, <1>8
  <2>2. \A i \in 1 .. Len(tl) : OnTopic(topic, tl[i])
    BY <1>3, <1>5
  <2> QED BY <1>1, <1>2, <1>4, <1>5, <2>1, <2>2 DEF RoundOk
<1>10. /\ seen \subseteq Txns /\ IsFiniteSet(seen) /\ Cardinality(seen) \in Nat
       /\ Cardinality(seen) + Len(rest) <= MaxSeen + Window
       /\ \A txn \in seen : WasSent(topic, feed, txn)
  BY <1>3, FS_CardinalityType DEF Streamed, Remembered
<1>11. /\ feed \in Seq(0 .. Len(topic)) /\ covered \in 0 .. Len(pushes)
       /\ overrun \in BOOLEAN
  BY DEF Streamed, FeedOk
<1>12. ASSUME ~overrun, NEW k \in 1 .. covered,
              NEW txn, txn = topic[pushes[k]].txn
       PROVE  WasSent(topic, feed, txn) \/ txn = rec.txn \/ Waiting({tl}, txn)
  <2>1. WasSent(topic, feed, txn) \/ Waiting({rest}, txn)
    BY <1>3, <1>12 DEF Streamed, FeedOk
  <2>2. ASSUME Waiting({rest}, txn), txn # rec.txn PROVE Waiting({tl}, txn)
    <3>1. PICK i \in 1 .. Len(rest) : rest[i].txn = txn
      BY <2>2 DEF Waiting
    <3>2. i # 1
      BY <1>6, <2>2, <3>1
    <3>3. PICK j \in 1 .. Len(tl) : i = j + 1
      <4>1. i - 1 \in 1 .. Len(tl) /\ i = (i - 1) + 1
        BY <1>5, <3>2
      <4> QED BY <4>1
    <3>4. tl[j].txn = txn
      BY <1>5, <3>1, <3>3
    <3> QED BY <3>4 DEF Waiting
  <2> QED BY <2>1, <2>2
<1>13. \A txn \in Txns :
         /\ Times(feed, Places(topic, txn)) <= Times(feed, {0}) + 1
         /\ txn \notin seen => Times(feed, Places(topic, txn)) <= Times(feed, {0})
  BY DEF Streamed, FeedOk
<1>14. CASE rec.txn \in seen
  <2>1. UNCHANGED <<seen, feed>> /\ batch' = {tl}
    BY <1>1, <1>4, <1>5, <1>6, <1>14
  <2>2. Cardinality(seen) + Len(tl) <= MaxSeen + Window
    BY <1>5, <1>8, <1>10
  <2>3. Remembered'
    BY <1>2, <1>10, <2>1, <2>2 DEF Remembered
  <2>4. ASSUME ~overrun, NEW k \in 1 .. covered
        PROVE  \/ WasSent(topic, feed, topic[pushes[k]].txn)
               \/ Waiting({tl}, topic[pushes[k]].txn)
    BY <1>10, <1>12, <1>14, <2>4
  <2>5. FeedOk'
    BY <1>2, <1>11, <1>13, <2>1, <2>4 DEF FeedOk
  <2> QED BY <1>9, <2>3, <2>5 DEF Streamed
<1>15. CASE rec.txn \notin seen
  <2>1. PICK more : more = feed'
    OBVIOUS
  <2>2. /\ seen' = seen \cup {rec.txn} /\ batch' = {tl}
        /\ more = Append(feed, rec.seq)
    BY <1>1, <1>4, <1>5, <1>6, <1>15, <2>1
  <2>3. PICK s \in 0 .. Len(topic) : s = rec.seq /\ s # 0 /\ s \in 1 .. Len(topic)
    BY <1>7, <1>8
  <2>4. /\ \A S : Times(more, S) = Times(feed, S) + (IF s \in S THEN 1 ELSE 0)
        /\ \A S : Times(feed, S) \in Nat
        /\ \A txn : WasSent(topic, feed, txn) => WasSent(topic, more, txn)
        /\ \A txn : s \in Places(topic, txn) => WasSent(topic, more, txn)
    <3>1. PICK A : A = 0 .. Len(topic)
      OBVIOUS
    <3>2. s \in A /\ feed \in Seq(A) /\ more = Append(feed, s)
      BY <1>11, <2>2, <2>3, <3>1
    <3>3. FeedGrew(topic, feed, s, more)
      BY <3>2, FeedAppend
    <3> QED BY <3>3 DEF FeedGrew
  <2>5. \A txn : s \in Places(topic, txn) <=> txn = rec.txn
    BY <1>7, <2>3 DEF Places
  <2>6. more \in Seq(0 .. Len(topic))
    BY <1>11, <2>2, <2>3, AppendProperties
  <2>7. /\ IsFiniteSet(seen \cup {rec.txn})
        /\ Cardinality(seen \cup {rec.txn}) = Cardinality(seen) + 1
    BY <1>10, <1>15, FS_AddElement
  <2>8. Cardinality(seen') + Len(tl) <= MaxSeen + Window
    BY <1>5, <1>8, <1>10, <2>2, <2>7
  <2>9. Remembered'
    <3>1. \A txn \in seen' : WasSent(topic, more, txn)
      BY <1>10, <2>2, <2>4, <2>5
    <3>2. seen' \subseteq Txns /\ IsFiniteSet(seen')
      BY <1>7, <1>10, <2>2, <2>7
    <3>3. batch' # {} /\ \A r \in batch' : Cardinality(seen') + Len(r) <= MaxSeen + Window
      BY <2>2, <2>8
    <3> QED BY <1>2, <2>1, <3>1, <3>2, <3>3 DEF Remembered
  <2>10. ASSUME ~overrun, NEW k \in 1 .. covered
         PROVE  \/ WasSent(topic, more, topic[pushes[k]].txn)
                \/ Waiting({tl}, topic[pushes[k]].txn)
    BY <1>12, <2>4, <2>5, <2>10
  <2>11. ASSUME NEW txn \in Txns
         PROVE  /\ Times(more, Places(topic, txn)) <= Times(more, {0}) + 1
                /\ txn \notin seen' =>
                     Times(more, Places(topic, txn)) <= Times(more, {0})
    <3>1. Times(more, {0}) = Times(feed, {0}) /\ Times(feed, {0}) \in Nat
      BY <2>3, <2>4
    <3>2. CASE txn = rec.txn
      <4>1. Times(more, Places(topic, txn)) = Times(feed, Places(topic, txn)) + 1
        BY <2>4, <2>5, <3>2
      <4>2. Times(feed, Places(topic, txn)) <= Times(feed, {0})
        BY <1>13, <1>15, <3>2
      <4> QED BY <2>2, <2>4, <3>1, <3>2, <4>1, <4>2
    <3>3. CASE txn # rec.txn
      <4>1. Times(more, Places(topic, txn)) = Times(feed, Places(topic, txn))
        BY <2>4, <2>5, <3>3
      <4> QED BY <1>13, <2>2, <3>1, <4>1
    <3> QED BY <3>2, <3>3
  <2>12. FeedOk'
    BY <1>2, <1>11, <2>1, <2>2, <2>6, <2>10, <2>11 DEF FeedOk
  <2> QED BY <1>9, <2>9, <2>12 DEF Streamed
<1> QED BY <1>14, <1>15

LEMMA StreamedEnd ==
  ASSUME Inv, Received, Streamed, EndRound
  PROVE  Streamed'
<1>1. /\ batch = {<< >>} /\ batch' = {}
      /\ UNCHANGED <<topic, pushes, covered, overrun>>
  BY DEF EndRound, vars
<1>2. /\ KeepSeen \in Nat /\ MaxSeen \in Nat /\ Window \in Nat /\ KeepSeen <= MaxSeen
      /\ Len(topic) \in Nat
  BY ApiSizes, Numbers
<1>3. /\ seen \subseteq Txns /\ IsFiniteSet(seen) /\ Cardinality(seen) \in Nat
      /\ \A txn \in seen : WasSent(topic, feed, txn)
  BY FS_CardinalityType DEF Streamed, Remembered
<1>4. /\ feed \in Seq(0 .. Len(topic)) /\ covered \in 0 .. Len(pushes)
      /\ overrun \in BOOLEAN
      /\ \A txn \in Txns :
           /\ Times(feed, Places(topic, txn)) <= Times(feed, {0}) + 1
           /\ txn \notin seen => Times(feed, Places(topic, txn)) <= Times(feed, {0})
  BY DEF Streamed, FeedOk
<1>5. ASSUME ~overrun, NEW k \in 1 .. covered
      PROVE  WasSent(topic, feed, topic[pushes[k]].txn)
  <2>1. ~Waiting(batch, topic[pushes[k]].txn)
    BY <1>1, EmptySeq DEF Waiting
  <2> QED BY <1>5, <2>1 DEF Streamed, FeedOk
<1>6. RoundOk'
  BY <1>1 DEF RoundOk
<1>7. CASE Cardinality(seen) > MaxSeen
  <2>1. PICK more : more = feed'
    OBVIOUS
  <2>2. /\ seen' \subseteq seen /\ Cardinality(seen') = KeepSeen
        /\ more = Append(feed, 0)
    BY <1>7, <2>1 DEF EndRound, kSubset
  <2>3. PICK s \in 0 .. Len(topic) : s = 0
    BY <1>2
  <2>4. /\ \A S : Times(more, S) = Times(feed, S) + (IF s \in S THEN 1 ELSE 0)
        /\ \A S : Times(feed, S) \in Nat
        /\ \A txn : WasSent(topic, feed, txn) => WasSent(topic, more, txn)
    <3>1. PICK A : A = 0 .. Len(topic)
      OBVIOUS
    <3>2. s \in A /\ feed \in Seq(A) /\ more = Append(feed, s)
      BY <1>4, <2>2, <2>3, <3>1
    <3>3. FeedGrew(topic, feed, s, more)
      BY <3>2, FeedAppend
    <3> QED BY <3>3 DEF FeedGrew
  <2>5. \A txn : s \notin Places(topic, txn)
    BY <2>3 DEF Places
  <2>6. more \in Seq(0 .. Len(topic))
    BY <1>4, <2>2, <2>3, AppendProperties
  <2>7. Remembered'
    <3>1. seen' \subseteq Txns /\ IsFiniteSet(seen') /\ Cardinality(seen') <= MaxSeen
      BY <1>2, <1>3, <2>2, FS_Subset
    <3>2. \A txn \in seen' : WasSent(topic, more, txn)
      BY <1>3, <2>2, <2>4
    <3> QED BY <1>1, <2>1, <3>1, <3>2 DEF Remembered
  <2>8. ASSUME NEW txn \in Txns
        PROVE  Times(more, Places(topic, txn)) <= Times(more, {0})
    <3>1. Times(more, {0}) = Times(feed, {0}) + 1
      BY <2>3, <2>4
    <3>2. Times(more, Places(topic, txn)) = Times(feed, Places(topic, txn))
      BY <2>4, <2>5
    <3> QED BY <1>4, <3>1, <3>2
  <2>9. \A S : Times(more, S) \in Nat
    BY <2>4
  <2>10. ASSUME NEW txn \in Txns
         PROVE  Times(more, Places(topic, txn)) <= Times(more, {0}) + 1
    <3>1. PICK a \in Nat, b \in Nat :
            a = Times(more, Places(topic, txn)) /\ b = Times(more, {0})
      BY <2>9
    <3>2. a <= b
      BY <2>8, <3>1
    <3> QED BY <3>1, <3>2
  <2>11. FeedOk'
    BY <1>1, <1>4, <1>5, <2>1, <2>4, <2>6, <2>8, <2>10 DEF FeedOk
  <2> QED BY <1>6, <2>7, <2>11 DEF Streamed
<1>8. CASE ~(Cardinality(seen) > MaxSeen)
  <2>1. UNCHANGED <<seen, feed>>
    BY <1>8 DEF EndRound
  <2>2. Remembered'
    BY <1>1, <1>2, <1>3, <1>8, <2>1 DEF Remembered
  <2>3. FeedOk'
    BY <1>1, <1>4, <1>5, <2>1 DEF FeedOk
  <2> QED BY <1>6, <2>2, <2>3 DEF Streamed
<1> QED BY <1>7, <1>8

-----------------------------------------------------------------------------
(* The invariant is inductive.                                             *)
LEMMA PushesStay ==
  ASSUME Received, UNCHANGED pushes
  PROVE  PushesGrow
BY PushesAre DEF PushesGrow

(* Of a step of the service that leaves the API alone.                     *)
LEMMA ApiRests ==
  ASSUME ApiInv, Inv', Received', Grows, UNCHANGED <<apiVars, buffer, reports>>
  PROVE  ApiInv'
<1>1. /\ Inv /\ Received /\ Queued /\ Marked /\ Decided /\ Streamed
      /\ UNCHANGED <<alerts, alertPosition, queue, marks, resolutions, decisions,
                     pushes, streamVars>>
  BY DEF ApiInv, apiVars
<1>2. PushesGrow /\ pushes' \in Seq(1 .. Len(topic'))
  BY <1>1, PushesStay DEF Received
<1>3. alertPosition' \in 0 .. alertPosition
  <2>1. alertPosition \in Nat
    BY <1>1, LenProperties DEF Queued
  <2> QED BY <1>1, <2>1
<1>4. Queued'
  BY <1>1, <1>3, QueuedSame
<1>5. Marked'
  BY <1>1, <1>2, MarkedSame
<1>6. Streamed'
  BY <1>1, <1>2, StreamedSame
<1>7. Decided'
  BY <1>1 DEF Decided
<1> QED BY <1>4, <1>5, <1>6, <1>7 DEF ApiInv

LEMMA ApiInvService ==
  ASSUME ApiInv, ServiceStep
  PROVE  ApiInv'
<1>1. Inv /\ Received /\ UNCHANGED apiVars /\ UNCHANGED pushes
  BY DEF ApiInv, ServiceStep, apiVars
<1>2. CASE Connect
  <2>1. UNCHANGED <<topic, stats, buffer, verifying, reports>>
    BY <1>2 DEF Connect, verifierVars
  <2>2. verifying = {}
    BY <1>1, <1>2 DEF Connect, Inv, Tracked
  <2>3. Inv' /\ Grows
    BY <1>1, <1>2, <2>1, InvConnect, SameGrows
  <2>4. Received'
    BY <1>1, <2>1, <2>2, <2>3, ReceivedSame
  <2> QED BY <1>1, <2>1, <2>3, <2>4, ApiRests
<1>3. CASE Verify
  <2>1. UNCHANGED <<topic, buffer>> /\ Grows /\ Inv'
    BY <1>1, <1>3, InvVerify, SameGrows DEF Verify
  <2>2. Received'
    BY <1>1, <1>3, ReceivedVerify
  <2>3. /\ Queued /\ Marked /\ Decided /\ Streamed
        /\ UNCHANGED <<alerts, alertPosition, queue, marks, resolutions, decisions,
                       pushes, streamVars>>
    BY <1>1 DEF ApiInv, apiVars
  <2>4. Marked'
    BY <1>1, <1>3, <2>3, MarkedVerify
  <2>5. alertPosition' \in 0 .. alertPosition
    BY <2>3, LenProperties DEF Queued
  <2>6. Queued'
    BY <2>1, <2>3, <2>5, QueuedSame
  <2>7. Streamed'
    BY <1>1, <2>1, <2>3, PushesStay, StreamedSame
  <2>8. Decided'
    BY <2>3 DEF Decided
  <2> QED BY <2>1, <2>2, <2>4, <2>6, <2>7, <2>8 DEF ApiInv
<1>4. ASSUME NEW txn \in Txns, Publish(txn) PROVE ApiInv'
  <2>1. /\ topic' = Append(topic, NextRecord(txn, "VERIFIED"))
        /\ UNCHANGED <<verifierVars, serviceVars>> /\ "VERIFIED" \in Statuses
    BY <1>4 DEF Publish, Statuses
  <2>2. Inv' /\ NextRecord(txn, "VERIFIED") \in Records
    BY <1>1, <2>1, InvAppend
  <2>3. Grows
    BY <1>1, <2>1, <2>2, AppendGrows
  <2>4. UNCHANGED <<stats, buffer, verifying, position, reports>>
    BY <2>1 DEF verifierVars, serviceVars
  <2>5. Received'
    BY <1>1, <2>3, <2>4, ReceivedSame
  <2> QED BY <1>1, <2>2, <2>3, <2>4, <2>5, ApiRests
<1> QED BY <1>2, <1>3, <1>4 DEF ServiceStep

LEMMA ApiInvQuarantine ==
  ASSUME ApiInv, NEW txn \in Txns, Quarantine(txn)
  PROVE  ApiInv'
<1>1. PICK rec : rec = NextRecord(txn, "QUARANTINED")
  OBVIOUS
<1>2. /\ topic' = Append(topic, rec) /\ alerts' = Append(alerts, rec)
      /\ UNCHANGED <<verifierVars, serviceVars, alertPosition, queue, marks,
                     resolutions, decisions, pushes, streamVars>>
      /\ "QUARANTINED" \in Statuses
  BY <1>1 DEF Quarantine, Statuses
<1>3. Inv /\ Received /\ Queued /\ Marked /\ Decided /\ Streamed
  BY DEF ApiInv
<1>4. Inv' /\ rec \in Records
  BY <1>1, <1>2, <1>3, InvAppend
<1>5. rec.seq = Len(topic) + 1
  BY <1>1 DEF NextRecord
<1>6. Grows
  BY <1>2, <1>3, <1>4, AppendGrows
<1>7. UNCHANGED <<stats, buffer, verifying, position, reports>>
  BY <1>2 DEF verifierVars, serviceVars
<1>8. Received' /\ PushesGrow
  BY <1>2, <1>3, <1>6, <1>7, ReceivedSame, PushesStay
<1>9. Queued'
  BY <1>2, <1>3, <1>4, <1>5, QueuedQuarantine
<1>10. pushes' \in Seq(1 .. Len(topic'))
  BY <1>8 DEF Received
<1>11. Marked' /\ Streamed'
  BY <1>2, <1>3, <1>6, <1>7, <1>8, <1>10, MarkedSame, StreamedSame
<1>12. Decided'
  BY <1>2, <1>3 DEF Decided
<1> QED BY <1>4, <1>8, <1>9, <1>11, <1>12 DEF ApiInv

LEMMA ApiInvReceive ==
  ASSUME ApiInv, ReceiveCommitted
  PROVE  ApiInv'
<1>1. /\ Inv /\ Received /\ Queued /\ Marked /\ Decided /\ Streamed
      /\ Receive /\ marks' = Push(marks, "none")
      /\ pushes' = Append(pushes, position + 1)
      /\ UNCHANGED <<alerts, alertPosition, queue, resolutions, decisions, streamVars>>
  BY DEF ApiInv, ReceiveCommitted
<1>2. Inv' /\ Grows
  BY <1>1, InvReceive, SameGrows DEF Receive
<1>3. Received' /\ PushesGrow
  BY <1>1, ReceivedReceive
<1>4. Marked'
  BY <1>1, MarkedReceive
<1>5. Streamed'
  BY <1>1, <1>2, <1>3, StreamedSame
<1>6. alertPosition' \in 0 .. alertPosition
  BY <1>1, LenProperties DEF Queued
<1>7. Queued'
  BY <1>1, <1>2, <1>6, QueuedSame
<1>8. Decided'
  BY <1>1 DEF Decided
<1> QED BY <1>2, <1>3, <1>4, <1>5, <1>7, <1>8 DEF ApiInv

(* Of a step that leaves the service alone.                                *)
LEMMA ServiceRests ==
  ASSUME Inv, Received, UNCHANGED <<vars, pushes>>
  PROVE  /\ Inv' /\ Received' /\ Grows /\ PushesGrow
         /\ UNCHANGED <<topic, buffer, reports>>
<1>1. UNCHANGED <<verifierVars, topic, serviceVars>>
      /\ UNCHANGED <<topic, stats, buffer, verifying, position, reports>>
  BY DEF vars, serviceVars, verifierVars
<1>2. Inv'
  BY InvNext DEF vars
<1>3. Grows /\ PushesGrow
  BY <1>1, SameGrows, PushesStay
<1>4. Received'
  BY <1>1, <1>3, ReceivedSame
<1> QED BY <1>1, <1>2, <1>3, <1>4

LEMMA ApiInvRequests ==
  ASSUME ApiInv,
         \/ ReceiveAnomaly
         \/ \E n \in 1 .. BufferSize : Transactions(n)
         \/ \E txn \in Txns, action \in Actions : Resolve(txn, action)
  PROVE  ApiInv'
<1>1. Inv /\ Received /\ Queued /\ Marked /\ Decided /\ Streamed
  BY DEF ApiInv
<1>2. UNCHANGED <<vars, pushes, streamVars>>
  BY DEF ReceiveAnomaly, Transactions, Resolve
<1>3. /\ Inv' /\ Received' /\ Grows /\ PushesGrow
      /\ UNCHANGED <<topic, buffer, reports>> /\ pushes' \in Seq(1 .. Len(topic'))
  BY <1>1, <1>2, ServiceRests DEF Received
<1>4. Streamed'
  BY <1>1, <1>2, <1>3, StreamedSame
<1>5. CASE ReceiveAnomaly
  <2>1. UNCHANGED <<marks, resolutions, decisions>>
    BY <1>5 DEF ReceiveAnomaly
  <2>2. Queued'
    BY <1>1, <1>5, QueuedReceive
  <2>3. Marked' /\ Decided'
    BY <1>1, <1>3, <2>1, MarkedSame DEF Decided
  <2> QED BY <1>3, <1>4, <2>2, <2>3 DEF ApiInv
<1>6. ASSUME ~ReceiveAnomaly PROVE Queued'
  <2>1. UNCHANGED <<alerts, alertPosition, queue>>
    BY <1>6 DEF Transactions, Resolve
  <2>2. alertPosition' \in 0 .. alertPosition
    BY <1>1, <2>1, LenProperties DEF Queued
  <2> QED BY <1>1, <1>3, <2>1, <2>2, QueuedSame
<1>7. CASE ~ReceiveAnomaly /\ \E n \in 1 .. BufferSize : Transactions(n)
  <2>1. Marked'
    BY <1>1, <1>7, MarkedTransactions
  <2>2. UNCHANGED <<resolutions, decisions>>
    BY <1>7 DEF Transactions
  <2>3. Decided'
    BY <1>1, <2>2 DEF Decided
  <2> QED BY <1>3, <1>4, <1>6, <1>7, <2>1, <2>3 DEF ApiInv
<1>8. CASE ~ReceiveAnomaly /\ \E txn \in Txns, action \in Actions : Resolve(txn, action)
  <2>1. PICK txn \in Txns, action \in Actions :
          /\ decisions < MaxDecisions /\ decisions' = decisions + 1
          /\ resolutions' = [resolutions EXCEPT ![txn] = action]
          /\ UNCHANGED marks
    BY <1>8 DEF Resolve
  <2>2. decisions' \in 0 .. MaxDecisions
    BY <1>1, <2>1, ApiSizes DEF Decided
  <2>3. resolutions' \in [Txns -> Actions \cup {"none"}]
    BY <1>1, <2>1 DEF Decided
  <2>4. Marked'
    BY <1>1, <1>3, <2>1, MarkedSame
  <2>5. Decided'
    BY <2>2, <2>3 DEF Decided
  <2> QED BY <1>3, <1>4, <1>6, <1>8, <2>4, <2>5 DEF ApiInv
<1> QED BY <1>5, <1>7, <1>8

LEMMA ApiInvError ==
  ASSUME ApiInv, LoopErrorOnBoth
  PROVE  ApiInv'
<1>1. /\ Inv /\ Received /\ Queued /\ Marked /\ Decided /\ Streamed /\ LoopError
      /\ alertPosition' \in 0 .. alertPosition
      /\ UNCHANGED <<alerts, queue, marks, resolutions, decisions, pushes, streamVars>>
  BY DEF ApiInv, LoopErrorOnBoth
<1>2. UNCHANGED <<topic, stats, buffer, verifying, position, reports>>
  BY <1>1 DEF LoopError, verifierVars
<1>3. Inv' /\ Grows /\ PushesGrow
  BY <1>1, <1>2, InvLoopError, SameGrows, PushesStay
<1>4. Received'
  BY <1>1, <1>2, <1>3, ReceivedSame
<1>5. pushes' \in Seq(1 .. Len(topic'))
  BY <1>4 DEF Received
<1>6. Queued' /\ Marked' /\ Streamed'
  BY <1>1, <1>2, <1>3, <1>5, QueuedSame, MarkedSame, StreamedSame
<1>7. Decided'
  BY <1>1 DEF Decided
<1> QED BY <1>3, <1>4, <1>6, <1>7 DEF ApiInv

LEMMA MarkedEmpty ==
  ASSUME buffer' = << >>, marks' = << >>, reports' = << >>
  PROVE  Marked'
<1>1. marks' \in Seq(MarkValues) /\ Len(marks') = 0 /\ Len(buffer') = 0
      /\ Len(reports') = 0
  BY EmptySeq
<1> QED BY <1>1 DEF Marked

LEMMA ApiInvRestart ==
  ASSUME ApiInv, ApiRestart
  PROVE  ApiInv'
<1>1. /\ Inv /\ Queued /\ Decided /\ ProcessRestart /\ NewStream
      /\ alertPosition' = 0 /\ queue' = << >> /\ marks' = << >> /\ pushes' = << >>
      /\ resolutions' = [txn \in Txns |-> "none"]
      /\ UNCHANGED <<alerts, decisions>>
  BY DEF ApiInv, ApiRestart
<1>2. /\ buffer' = << >> /\ verifying' = {} /\ reports' = << >>
      /\ stats' = NoStats /\ UNCHANGED topic
  BY <1>1 DEF ProcessRestart
<1>3. Inv'
  BY <1>1, InvRestart
<1>4. Accepted' = 0
  BY <1>2 DEF Accepted, NoStats, Counters
<1>5. Received'
  BY <1>1, <1>2, <1>4, ReceivedEmpty
<1>6. Marked'
  BY <1>1, <1>2, MarkedEmpty
<1>7. Len(pushes') = 0
  BY <1>1, EmptySeq
<1>8. Streamed'
  BY <1>1, <1>7, StreamedNew
<1>9. Queued'
  <2>1. queue' \in Seq(Records) /\ Len(queue') = 0
    BY <1>1, EmptySeq
  <2>2. Len(queue') <= BufferSize
    BY <2>1, ApiSizes
  <2>3. alertPosition' \in 0 .. Len(alerts')
    BY <1>1, LenProperties DEF Queued
  <2> QED BY <1>1, <1>2, <2>1, <2>2, <2>3 DEF Queued
<1>10. Decided'
  BY <1>1 DEF Decided
<1> QED BY <1>3, <1>5, <1>6, <1>8, <1>9, <1>10 DEF ApiInv

LEMMA ApiInvResubscribe ==
  ASSUME ApiInv, Resubscribe
  PROVE  ApiInv'
<1>1. /\ Inv /\ Received /\ Queued /\ Marked /\ Decided /\ NewStream
      /\ failures' = failures + 1
      /\ UNCHANGED <<verifierVars, topic, position, offset, connected, buffer,
                     verifying, reports, fetchesLeft, alerts, alertPosition, queue,
                     marks, resolutions, decisions, pushes>>
  BY DEF ApiInv, Resubscribe
<1>2. Inv'
  <2>1. failures' \in Nat
    BY <1>1 DEF Inv, TypeOK
  <2>2. TypeOK'
    BY <1>1, <2>1 DEF Inv, TypeOK, VerifierTypeOK, verifierVars
  <2>3. Chained' /\ Tracked'
    BY <1>1 DEF Inv, Chained, Tracked, Accepted, verifierVars
  <2> QED BY <2>2, <2>3 DEF Inv
<1>3. UNCHANGED stats /\ Grows /\ PushesGrow
  BY <1>1, SameGrows, PushesStay DEF verifierVars
<1>4. Received'
  BY <1>1, <1>3, ReceivedSame
<1>5. pushes' \in Seq(1 .. Len(topic')) /\ Len(pushes') \in Nat
  BY <1>1, <1>4, PushesAre DEF Received
<1>6. alertPosition' \in 0 .. alertPosition
  BY <1>1, LenProperties DEF Queued
<1>7. Queued' /\ Marked'
  BY <1>1, <1>3, <1>5, <1>6, QueuedSame, MarkedSame
<1>8. Streamed'
  BY <1>1, <1>5, StreamedNew
<1>9. Decided'
  BY <1>1 DEF Decided
<1> QED BY <1>2, <1>4, <1>7, <1>8, <1>9 DEF ApiInv

LEMMA ApiInvStream ==
  ASSUME ApiInv, BeginRound \/ SendNext \/ EndRound
  PROVE  ApiInv'
<1>1. Inv /\ Received /\ Queued /\ Marked /\ Decided /\ Streamed
  BY DEF ApiInv
<1>2. UNCHANGED <<vars, alerts, alertPosition, queue, marks, resolutions, decisions,
                  pushes>>
  BY DEF BeginRound, SendNext, EndRound
<1>3. /\ Inv' /\ Received' /\ Grows /\ PushesGrow
      /\ UNCHANGED <<topic, buffer, reports>> /\ pushes' \in Seq(1 .. Len(topic'))
  BY <1>1, <1>2, ServiceRests DEF Received
<1>4. alertPosition' \in 0 .. alertPosition
  BY <1>1, <1>2, LenProperties DEF Queued
<1>5. Queued' /\ Marked'
  BY <1>1, <1>2, <1>3, <1>4, QueuedSame, MarkedSame
<1>6. Streamed'
  BY <1>1, StreamedBegin, StreamedSend, StreamedEnd
<1>7. Decided'
  BY <1>1, <1>2 DEF Decided
<1> QED BY <1>3, <1>5, <1>6, <1>7 DEF ApiInv

LEMMA ApiInvInit == ApiInit => ApiInv
<1> SUFFICES ASSUME ApiInit PROVE ApiInv
  OBVIOUS
<1>1. Inv
  BY InvInit DEF ApiInit
<1>2. /\ Len(<< >>) = 0 /\ << >> \in Seq(1 .. Len(topic)) /\ << >> \in Seq(Records)
      /\ << >> \in Seq(MarkValues) /\ << >> \in Seq(0 .. Len(topic))
  <2>1. Len(<< >>) = 0 /\ << >> \in Seq(1 .. Len(topic))
    BY EmptySeq
  <2>2. << >> \in Seq(Records)
    BY EmptySeq
  <2>3. << >> \in Seq(MarkValues)
    BY EmptySeq
  <2>4. << >> \in Seq(0 .. Len(topic))
    BY EmptySeq
  <2> QED BY <2>1, <2>2, <2>3, <2>4
<1>3. /\ buffer = << >> /\ verifying = {} /\ reports = << >> /\ stats = NoStats
      /\ alerts = << >> /\ alertPosition = 0 /\ queue = << >>
      /\ marks = << >> /\ pushes = << >>
      /\ resolutions = [txn \in Txns |-> "none"] /\ decisions = 0
      /\ batch = {} /\ seen = {} /\ feed = << >> /\ covered = 0 /\ overrun = FALSE
  BY DEF ApiInit, Init, ServiceInit, VerifierInit
<1>4. Accepted = 0 /\ Held = 0
  BY <1>3 DEF Accepted, Held, NoStats, Counters
<1>5. Received
  <2> HIDE DEF Accepted, Held
  <2> QED BY <1>2, <1>3, <1>4 DEF Received
<1>6. Queued
  BY <1>2, <1>3, ApiSizes DEF Queued
<1>7. Marked
  BY <1>2, <1>3 DEF Marked
<1>8. Decided
  BY <1>3, ApiSizes DEF Decided
<1>9. Streamed
  <2>1. \A S : Times(feed, S) = 0
    <3>1. \A S : Hits(feed, S) = {}
      BY <1>2, <1>3 DEF Hits
    <3> QED BY <3>1, FS_EmptySet DEF Times
  <2>2. RoundOk /\ Remembered
    BY <1>3, FS_EmptySet, ApiSizes DEF RoundOk, Remembered
  <2>3. \A txn : Times(feed, Places(topic, txn)) = 0
    BY <2>1
  <2>4. Times(feed, {0}) = 0
    BY <2>1
  <2>5. overrun \in BOOLEAN
    BY <1>3, Zenon
  <2>6. covered \in 0 .. Len(pushes) /\ 1 .. covered = {}
    BY <1>2, <1>3
  <2>7. feed \in Seq(0 .. Len(topic))
    BY <1>2, <1>3
  <2>8. FeedOk
    BY <2>3, <2>4, <2>5, <2>6, <2>7 DEF FeedOk
  <2> QED BY <2>2, <2>8 DEF Streamed
<1> QED BY <1>1, <1>5, <1>6, <1>7, <1>8, <1>9 DEF ApiInv

LEMMA ApiInvNext == ApiInv /\ [ApiNext]_<<vars, apiVars>> => ApiInv'
<1> SUFFICES ASSUME ApiInv, [ApiNext]_<<vars, apiVars>> PROVE ApiInv'
  OBVIOUS
<1>1. CASE ServiceStep
  BY <1>1, ApiInvService
<1>2. CASE \E txn \in Txns : Quarantine(txn)
  BY <1>2, ApiInvQuarantine
<1>3. CASE ReceiveCommitted
  BY <1>3, ApiInvReceive
<1>4. CASE \/ ReceiveAnomaly
           \/ \E n \in 1 .. BufferSize : Transactions(n)
           \/ \E txn \in Txns, action \in Actions : Resolve(txn, action)
  BY <1>4, ApiInvRequests
<1>5. CASE LoopErrorOnBoth
  BY <1>5, ApiInvError
<1>6. CASE ApiRestart
  BY <1>6, ApiInvRestart
<1>7. CASE Resubscribe
  BY <1>7, ApiInvResubscribe
<1>8. CASE BeginRound \/ SendNext \/ EndRound
  BY <1>8, ApiInvStream
<1>9. CASE UNCHANGED <<vars, apiVars>>
  <2>1. UNCHANGED <<vars, apiVars, pushes>> /\ Inv /\ Received
    BY <1>9 DEF apiVars, ApiInv
  <2>2. Inv' /\ Received' /\ Grows /\ UNCHANGED <<topic, buffer, reports>>
    BY <2>1, ServiceRests
  <2> QED BY <2>1, <2>2, ApiRests
<1> QED BY <1>1, <1>2, <1>3, <1>4, <1>5, <1>6, <1>7, <1>8, <1>9 DEF ApiNext

-----------------------------------------------------------------------------
(* The invariant holds in every reachable state.                           *)
THEOREM ApiInvariance == ApiSpec => []ApiInv
<1> QED BY ApiInvInit, ApiInvNext, PTL DEF ApiSpec

(* The queue, the marks and the memory of a stream stay within their       *)
(* sizes: seen never holds more than MaxSeen identifiers and the records   *)
(* of one round (dashboard.py:484-497).                                    *)
THEOREM ApiTypeCorrect == ApiSpec => []ApiTypeOK
<1>1. ApiInv => ApiTypeOK
  <2> SUFFICES ASSUME ApiInv PROVE ApiTypeOK
    OBVIOUS
  <2>1. Inv /\ Received /\ Queued /\ Marked /\ Decided
        /\ RoundOk /\ Remembered /\ FeedOk
    BY DEF ApiInv, Streamed
  <2>2. DOMAIN buffer = 1 .. Len(buffer)
    BY <2>1, LenProperties DEF Inv, TypeOK
  <2>3. marks \in [DOMAIN buffer -> MarkValues]
    <3>1. /\ Len(marks) \in Nat /\ marks = [i \in 1 .. Len(marks) |-> marks[i]]
          /\ \A i \in 1 .. Len(marks) : marks[i] \in MarkValues
      BY <2>1, LenProperties, SeqDef, ElementOfSeq DEF Marked
    <3> QED BY <2>1, <2>2, <3>1 DEF Marked
  <2>4. Cardinality(batch) <= 1
    <3>1. CASE batch = {}
      BY <3>1, FS_EmptySet
    <3>2. CASE batch # {}
      <4>1. PICK rest : batch = {rest}
        BY <2>1, <3>2 DEF RoundOk
      <4> QED BY <4>1, FS_Singleton
    <3> QED BY <3>1, <3>2
  <2>5. Cardinality(seen) <= MaxSeen + Window
    <3>1. Cardinality(seen) \in Nat /\ MaxSeen \in Nat /\ Window \in Nat
      BY <2>1, FS_CardinalityType, ApiSizes DEF Remembered
    <3>2. CASE batch = {}
      BY <2>1, <3>1, <3>2 DEF Remembered
    <3>3. CASE batch # {}
      <4>1. PICK rest \in batch : TRUE
        BY <3>3
      <4>2. Len(rest) \in Nat /\ Cardinality(seen) + Len(rest) <= MaxSeen + Window
        BY <2>1, <4>1, LenProperties DEF RoundOk, Remembered
      <4> QED BY <3>1, <4>2
    <3> QED BY <3>2, <3>3
  <2>6. \A rest \in batch : rest \in Seq(Records) /\ Len(rest) <= Window
    BY <2>1 DEF RoundOk
  <2> QED BY <2>1, <2>3, <2>4, <2>5, <2>6
        DEF ApiTypeOK, Received, Queued, Decided, Remembered, FeedOk, MarkValues
<1> QED BY <1>1, ApiInvariance, PTL

(* An anomaly in the queue can be decided upon as long as fewer than       *)
(* BufferSize records were received after its own, in whatever order the   *)
(* topics are read and however often (dashboard.py:272-276, 382-387).      *)
THEOREM AlertsCanBeResolved == ApiSpec => []QueuedCanBeResolved
<1>1. ApiInv => QueuedCanBeResolved
  <2> SUFFICES ASSUME ApiInv, NEW i \in DOMAIN queue, ~Findable(queue[i].txn),
                      NEW k \in DOMAIN pushes, pushes[k] = queue[i].seq
               PROVE  Len(pushes) - k >= BufferSize
    BY DEF QueuedCanBeResolved
  <2>1. Inv /\ Received /\ Queued
    BY DEF ApiInv
  <2>2. /\ Len(pushes) \in Nat /\ Len(buffer) \in Nat /\ BufferSize \in Nat
        /\ k \in 1 .. Len(pushes) /\ i \in 1 .. Len(queue)
        /\ DOMAIN buffer = 1 .. Len(buffer)
    BY <2>1, Numbers, PushesAre, LenProperties, ApiSizes DEF Queued, Inv, TypeOK
  <2>3. queue[i] = topic[pushes[k]]
    BY <2>1, <2>2 DEF Queued, OnTopic
  <2>4. SUFFICES ASSUME Len(pushes) - k < BufferSize PROVE FALSE
    BY <2>2
  <2>5. Len(buffer) > Len(pushes) - k
    <3>1. Len(buffer) = Len(pushes) \/ Len(buffer) = BufferSize
      BY <2>1 DEF Received
    <3>2. PICK m \in Nat : m = Len(pushes) /\ k \in 1 .. m
      BY <2>2
    <3>3. m > m - k
      BY <3>2
    <3> QED BY <2>4, <3>1, <3>2, <3>3
  <2>6. PICK j \in 1 .. Len(buffer) : (Len(pushes) - Len(buffer)) + j = k
    <3>1. Len(buffer) <= Len(pushes)
      BY <2>1 DEF Received
    <3>2. PICK m \in Nat, n \in Nat : m = Len(pushes) /\ n = Len(buffer)
      BY <2>2
    <3>3. k - (m - n) \in 1 .. n /\ (m - n) + (k - (m - n)) = k
      BY <2>2, <2>5, <3>1, <3>2
    <3> QED BY <3>2, <3>3
  <2>7. buffer[j].txn = queue[i].txn
    BY <2>1, <2>3, <2>6 DEF Received
  <2> QED BY <2>2, <2>7 DEF Findable
<1> QED BY <1>1, ApiInvariance, PTL

(* What the API calls failed, on an unbroken chain, is a transaction of    *)
(* which this process was handed a record twice (dashboard.py:252-259).    *)
THEOREM FailureMeansReread == ApiSpec => []FailedWasReread
<1>1. ApiInv => FailedWasReread
  <2> SUFFICES ASSUME ApiInv, NEW i \in DOMAIN buffer, marks[i] = "failed"
               PROVE  \E j, k \in DOMAIN pushes :
                        /\ j # k /\ pushes[j] = pushes[k]
                        /\ Txn(pushes[j]) = buffer[i].txn
    BY DEF FailedWasReread
  <2>1. Inv /\ Received /\ Marked
    BY DEF ApiInv
  <2>2. DOMAIN buffer = 1 .. Len(buffer) /\ DOMAIN pushes = 1 .. Len(pushes)
    BY <2>1, PushesAre, LenProperties DEF Inv, TypeOK
  <2>3. Reread(topic, pushes, buffer[i].txn)
    BY <2>1, <2>2 DEF Marked
  <2> QED BY <2>2, <2>3 DEF Reread, Txn
<1> QED BY <1>1, ApiInvariance, PTL

(* The event stream leaves out no transaction that was received before its *)
(* latest round, unless the buffer overran it (dashboard.py:484-497).      *)
THEOREM StreamMissesNothing == ApiSpec => []StreamMissesOnlyOverrun
<1>1. ApiInv => StreamMissesOnlyOverrun
  <2> SUFFICES ASSUME ApiInv, ~overrun, NEW k \in 1 .. covered
               PROVE  \/ \E i \in DOMAIN feed :
                           feed[i] # 0 /\ Txn(feed[i]) = Txn(pushes[k])
                      \/ \E rest \in batch : \E rec \in ToSet(rest) :
                           rec.txn = Txn(pushes[k])
    BY DEF StreamMissesOnlyOverrun
  <2>1. PICK txn : txn = Txn(pushes[k])
    OBVIOUS
  <2>2. /\ WasSent(topic, feed, txn) \/ Waiting(batch, txn)
        /\ feed \in Seq(0 .. Len(topic))
        /\ \A rest \in batch : rest \in Seq(Records)
    BY <2>1 DEF ApiInv, Streamed, RoundOk, FeedOk, Txn
  <2>3. CASE WasSent(topic, feed, txn)
    <3>1. PICK i \in 1 .. Len(feed) : feed[i] \in Places(topic, txn)
      BY <2>3 DEF WasSent
    <3>2. i \in DOMAIN feed
      BY <2>2, LenProperties
    <3>3. feed[i] # 0 /\ Txn(feed[i]) = txn
      BY <3>1 DEF Places, Txn
    <3> QED BY <2>1, <3>2, <3>3
  <2>4. CASE Waiting(batch, txn)
    <3>1. PICK rest \in batch : \E i \in 1 .. Len(rest) : rest[i].txn = txn
      BY <2>4 DEF Waiting
    <3>2. PICK i \in 1 .. Len(rest) : rest[i].txn = txn
      BY <3>1
    <3>3. i \in DOMAIN rest
      BY <2>2, LenProperties
    <3>4. rest[i] \in ToSet(rest)
      BY <3>3 DEF ToSet
    <3> QED BY <2>1, <3>2, <3>4
  <2> QED BY <2>2, <2>3, <2>4
<1> QED BY <1>1, ApiInvariance, PTL

(* Of a transaction the subscriber gets one event, and at most one more    *)
(* for each pruning of what the stream remembers (dashboard.py:485-494).   *)
THEOREM SentOnceBetweenPrunings == ApiSpec => []SentOncePerPruning
<1>1. ApiInv => SentOncePerPruning
  <2> SUFFICES ASSUME ApiInv, NEW txn \in Txns
               PROVE  Cardinality({i \in DOMAIN feed :
                                     feed[i] # 0 /\ Txn(feed[i]) = txn})
                        <= 1 + Cardinality({i \in DOMAIN feed : feed[i] = 0})
    BY DEF SentOncePerPruning
  <2>1. /\ feed \in Seq(0 .. Len(topic))
        /\ Times(feed, Places(topic, txn)) <= Times(feed, {0}) + 1
    BY DEF ApiInv, Streamed, FeedOk
  <2>2. DOMAIN feed = 1 .. Len(feed) /\ \A i \in 1 .. Len(feed) : feed[i] \in 0 .. Len(topic)
    BY <2>1, LenProperties, ElementOfSeq
  <2>3. {i \in DOMAIN feed : feed[i] # 0 /\ Txn(feed[i]) = txn}
          = Hits(feed, Places(topic, txn))
    <3>1. \A i \in 1 .. Len(feed) :
            feed[i] \in Places(topic, txn) <=> feed[i] # 0 /\ Txn(feed[i]) = txn
      <4> SUFFICES ASSUME NEW i \in 1 .. Len(feed)
                   PROVE  feed[i] \in Places(topic, txn)
                            <=> feed[i] # 0 /\ Txn(feed[i]) = txn
        OBVIOUS
      <4>1. PICK n \in 0 .. Len(topic) : n = feed[i]
        BY <2>2
      <4>2. Len(topic) \in Nat
        BY Numbers DEF ApiInv
      <4>3. n # 0 <=> n \in 1 .. Len(topic)
        BY <4>2
      <4> QED BY <4>1, <4>3 DEF Places, Txn
    <3> QED BY <2>2, <3>1 DEF Hits
  <2>4. {i \in DOMAIN feed : feed[i] = 0} = Hits(feed, {0})
    BY <2>2 DEF Hits
  <2>5. PICK a \in Nat, b \in Nat :
          /\ a = Cardinality(Hits(feed, Places(topic, txn)))
          /\ b = Cardinality(Hits(feed, {0}))
    BY <2>1, HitsFinite
  <2>6. a <= b + 1
    BY <2>1, <2>5 DEF Times
  <2>7. a <= 1 + b
    BY <2>6
  <2> QED BY <2>3, <2>4, <2>5, <2>7
<1> QED BY <1>1, ApiInvariance, PTL

-----------------------------------------------------------------------------
(* The guarantees of the service, with everything that goes on around it:  *)
(* quarantined records on both topics, restarts that empty the views,      *)
(* requests and streams.  The steps of the API are not all steps of the    *)
(* service, so its theorems do not carry over; its invariants do.          *)
LEMMA ApiStraightNext == ApiInv /\ Straight /\ [ApiNext]_<<vars, apiVars>> => Straight'
<1> SUFFICES ASSUME ApiInv, Straight, [ApiNext]_<<vars, apiVars>>
             PROVE  Straight'
  OBVIOUS
<1>1. Inv
  BY DEF ApiInv
<1>2. CASE Connect \/ Receive \/ Verify \/ LoopError \/ ProcessRestart
  <2>1. ServiceNext
    BY <1>2 DEF ServiceNext
  <2> QED BY <1>1, <2>1, StraightService
<1>3. ASSUME NEW txn \in Txns, Publish(txn)
      PROVE  Straight'
  BY <1>1, <1>3, StraightAppend DEF Publish, Statuses
<1>4. ASSUME NEW txn \in Txns, Quarantine(txn)
      PROVE  Straight'
  BY <1>1, <1>4, StraightAppend DEF Quarantine, Statuses
<1>5. CASE UNCHANGED <<stats, verifying, position, topic, buffer, reports>>
  BY <1>5, StraightSame
<1>6. CASE \/ ReceiveAnomaly
           \/ \E n \in 1 .. BufferSize : Transactions(n)
           \/ \E txn \in Txns, action \in Actions : Resolve(txn, action)
           \/ BeginRound \/ SendNext \/ EndRound
           \/ UNCHANGED <<vars, apiVars>>
  <2>1. UNCHANGED vars
    BY <1>6 DEF ReceiveAnomaly, Transactions, Resolve, BeginRound, SendNext, EndRound
  <2> QED BY <1>5, <2>1 DEF vars, verifierVars, serviceVars
<1>7. CASE Resubscribe
  BY <1>5, <1>7 DEF Resubscribe, verifierVars
<1>8. CASE ServiceStep
  BY <1>2, <1>3, <1>8 DEF ServiceStep
<1>9. CASE ReceiveCommitted \/ LoopErrorOnBoth \/ ApiRestart
  BY <1>2, <1>9 DEF ReceiveCommitted, LoopErrorOnBoth, ApiRestart
<1> QED BY <1>4, <1>6, <1>7, <1>8, <1>9 DEF ApiNext

(* With quarantined records among the others, alerts, analysts and streams *)
(* beside the consumer thread, each link is still accepted once            *)
(* (verify.py:173-183), the walk of the dashboard finds the chain unbroken *)
(* (dashboard.py:300-334), and every buffered record has its verdict       *)
(* (dashboard.py:86-94 and 252-259).                                       *)
THEOREM ServiceGuaranteesHold ==
  ApiSpec => [](EachLinkAcceptedOnce /\ DashboardIntact /\ BufferedHasReport)
<1>1. ApiInit => ApiInv /\ Straight
  BY ApiInvInit, StraightInit DEF ApiInit
<1>2. /\ ApiInv /\ Straight
      /\ [ApiNext]_<<vars, apiVars>>
      => (ApiInv /\ Straight)'
  BY ApiInvNext, ApiStraightNext
<1>3. ApiInv /\ Straight => EachLinkAcceptedOnce /\ DashboardIntact /\ BufferedHasReport
  BY LinksOnce, DashboardHolds, ReportsHold DEF ApiInv
<1> QED BY <1>1, <1>2, <1>3, PTL DEF ApiSpec
=============================================================================
