------------------------ MODULE AuditPipeline_proofs ------------------------
(***************************************************************************)
(* Theorems about the pipeline, for every raw topic and every number of    *)
(* crashes, shutdowns and network faults: what a clean verdict of the      *)
(* external verifier is worth, and when there is no other.                 *)
(***************************************************************************)
EXTENDS AuditPipeline, ProverConsumer_proofs, WellFoundedInduction

-----------------------------------------------------------------------------
(* The inductive invariant, beside the prover's.  Formed: an envelope has  *)
(* a link to its name.  Judged: as long as the counters are clean, the     *)
(* tracked head is the record received last.                               *)
Formed ==
  /\ pc \in {"publish", "alert"} => log # << >>
  /\ \A t \in Topics : << >> \notin InFlight(t)

Clean == stats["chain_broken"] = 0 /\ stats["failed"] = 0

Judged ==
  /\ stats \in [Counters -> Nat]
  /\ seen \in 0 .. Len(Stream)
  /\ CleanMeansContiguous
  /\ Clean => expectedPrev = IF seen = 0 THEN {} ELSE {Stream[seen]}

-----------------------------------------------------------------------------
LEMMA FormedNext ==
  ASSUME Inv, Formed, ProverNext
  PROVE  Formed'
<1>1. TypedAndPlaced
  BY DEF Inv
<1>2. CASE FetchNothing \/ PollRaises \/ Rejoin \/ \E n \in 1 .. MaxPoll : Fetch(n)
  BY <1>2 DEF Formed, InFlight, FetchNothing, PollRaises, Rejoin, Fetch, LoopTest,
    ledgerVars, kafkaVars
<1>3. CASE Reject \/ Abandon
  BY <1>3 DEF Formed, InFlight, Reject, Abandon, Done, LoopTest, ledgerVars, kafkaVars
<1>4. CASE Add
  BY <1>4 DEF Formed, InFlight, Add, kafkaVars
<1>5. CASE Save \/ SaveFails
  BY <1>5 DEF Inv, AtHand, Formed, InFlight, Save, SaveFails, Log!Stabilise,
    ledgerVars, kafkaVars
<1>6. CASE Publish \/ Alert
  <2>1. /\ log # << >> /\ log' = log /\ topic' = topic
        /\ \E u \in Topics : Sent(u)
    BY <1>6 DEF Formed, Publish, Alert, ledgerVars, Topics
  <2>2. \A t \in Topics : InFlight(t)' \subseteq InFlight(t) \cup {log}
    BY <1>1, <2>1, SentIsLog
  <2> QED BY <2>1, <2>2 DEF Formed
<1>7. CASE Network
  <2>1. /\ \A t \in Topics : InFlight(t)' \subseteq InFlight(t)
        /\ pc' = pc /\ log' = log
    BY <1>1, <1>7, NetworkMoves DEF ledgerVars
  <2> QED BY <2>1 DEF Formed
<1>8. CASE Start \/ StartDeaf
  <2>1. pc' \notin {"publish", "alert"} /\ UNCHANGED kafkaVars
    BY <1>1, <1>8, TypedStart
  <2> QED BY <2>1 DEF Formed, InFlight, kafkaVars
<1>9. CASE BeginStop \/ CloseConsumer \/ CloseProducer
  BY <1>9 DEF Formed, InFlight, BeginStop, CloseConsumer, CloseProducer,
    ledgerVars, kafkaVars
<1>10. CASE Exit \/ Crash
  <2>1. pc' = "down" /\ \A t \in Topics : InFlight(t)' \subseteq InFlight(t)
    BY <1>1, <1>10, TypedEnd
  <2> QED BY <2>1 DEF Formed
<1> QED BY <1>2, <1>3, <1>4, <1>5, <1>6, <1>7, <1>8, <1>9, <1>10
      DEF ProverNext, Ingest, Lifecycle

(* The committed topic is only appended to.                                *)
LEMMA StreamGrows ==
  ASSUME Inv, ProverNext
  PROVE  /\ Len(Stream) \in Nat /\ Len(Stream)' \in Nat
         /\ Len(Stream) <= Len(Stream)'
         /\ \A k \in 1 .. Len(Stream) : Stream[k]' = Stream[k]
<1>1. /\ TypedAndPlaced /\ Stream \in Seq(Hashes)
      /\ outbox["committed"] \in Seq(Hashes)
  BY DEF Inv, TypedAndPlaced, ProverTypeOK, Topics, Stream
<1>2. CASE topic' = topic
  BY <1>1, <1>2, LenProperties DEF Stream
<1>3. CASE topic' # topic
  <2>1. Network
    BY <1>3 DEF ProverNext, Ingest, Lifecycle, FetchNothing, PollRaises, Rejoin,
      Fetch, Reject, Abandon, Add, Save, SaveFails, Publish, Alert, NewProcess,
      Start, StartDeaf, BeginStop, CloseConsumer, CloseProducer, Exit, Crash, Gone,
      kafkaVars
  <2>2. PICK t \in Topics : Deliver(t) \/ DeliverAgain(t) \/ DeliverSecond(t)
    BY <1>3, <2>1 DEF Network, Lose
  <2>3. /\ outbox \in [Topics -> Seq(Hashes)] /\ topic \in [Topics -> Seq(Hashes)]
        /\ outbox[t] \in Seq(Hashes)
    BY <1>1 DEF TypedAndPlaced, ProverTypeOK
  <2>4. \E e \in Hashes : topic' = [topic EXCEPT ![t] = Append(topic[t], e)]
    <3>1. CASE Deliver(t) \/ DeliverAgain(t)
      <4>1. /\ outbox[t] # << >>
            /\ topic' = [topic EXCEPT ![t] = Append(topic[t], Head(outbox[t]))]
        BY <3>1 DEF Deliver, DeliverAgain
      <4> QED BY <2>3, <4>1, HeadTaken
    <3>2. CASE DeliverSecond(t)
      <4>1. /\ Len(outbox[t]) > 1
            /\ topic' = [topic EXCEPT ![t] = Append(topic[t], outbox[t][2])]
        BY <3>2 DEF DeliverSecond
      <4> QED BY <2>3, <4>1, SecondTaken
    <3> QED BY <2>2, <3>1, <3>2
  <2>5. PICK e \in Hashes : topic' = [topic EXCEPT ![t] = Append(topic[t], e)]
    BY <2>4
  <2>6. Stream' = Stream \/ Stream' = Append(Stream, e)
    BY <2>3, <2>5 DEF Stream, Topics
  <2>7. /\ Len(Append(Stream, e)) = Len(Stream) + 1 /\ Len(Stream) \in Nat
        /\ \A k \in 1 .. Len(Stream) : Append(Stream, e)[k] = Stream[k]
    BY <1>1, AppendProperties, LenProperties
  <2>8. Len(Stream)' = Len(Stream') /\ \A k : Stream[k]' = Stream'[k]
    OBVIOUS
  <2> QED BY <2>6, <2>7, <2>8
<1> QED BY <1>2, <1>3

(* An envelope recomputes.                                                 *)
LEMMA EnvelopeRecomputes ==
  ASSUME NEW c \in Hashes, c # << >>
  PROVE  /\ ~FailsRecompute(Envelope(c))
         /\ Envelope(c).chain = c /\ Envelope(c).prev = Front(c)
<1> DEFINE front == SubSeq(c, 1, Len(c) - 1)
           link == [txn |-> Last(c).txn, ts |-> Last(c).ts]
           whole == Append(front, link)
<1>1. /\ c \in Seq(Links) /\ Len(c) \in Nat \ {0}
      /\ \A k \in 1 .. Len(c) : c[k] \in Links
  BY EmptySeq, ElementOfSeq DEF Hashes
<1>2. Last(c) = c[Len(c)] /\ Last(c) \in Links
  BY <1>1 DEF Last
<1>3. link = Last(c)
  BY <1>2 DEF Links
<1>4. /\ front \in Seq(Links) /\ Len(front) = Len(c) - 1
      /\ \A k \in 1 .. Len(c) - 1 : front[k] = c[k]
  <2>1. \A k \in 1 .. Len(c) - 1 : c[k] \in Links
    BY <1>1
  <2>2. 1 \in Int /\ Len(c) - 1 \in Int
    BY <1>1
  <2>3. /\ front \in Seq(Links)
        /\ Len(front) = IF 1 <= Len(c) - 1 THEN Len(c) - 1 - 1 + 1 ELSE 0
        /\ \A k \in 1 .. Len(c) - 1 - 1 + 1 : front[k] = c[1 + k - 1]
    BY <2>1, <2>2, SubSeqProperties
  <2> HIDE DEF front
  <2>4. Len(front) = Len(c) - 1
    <3> DEFINE n == Len(c)
    <3>1. Len(front) = IF 1 <= n - 1 THEN n - 1 - 1 + 1 ELSE 0
      BY <2>3
    <3>2. n \in Nat \ {0}
      BY <1>1
    <3> HIDE DEF n
    <3>3. Len(front) = n - 1
      BY <3>1, <3>2
    <3> QED BY <3>3 DEF n
  <2>5. \A k \in 1 .. Len(c) - 1 : front[k] = c[k]
    <3> SUFFICES ASSUME NEW k \in 1 .. Len(c) - 1
                 PROVE  front[k] = c[k]
      OBVIOUS
    <3>1. k \in 1 .. Len(c) - 1 - 1 + 1 /\ 1 + k - 1 = k
      BY <1>1
    <3> QED BY <2>3, <3>1
  <2> QED BY <2>3, <2>4, <2>5
<1> HIDE DEF front
<1>5. /\ whole \in Seq(Links) /\ Len(whole) = Len(front) + 1
      /\ whole[Len(front) + 1] = link
      /\ \A k \in 1 .. Len(front) : whole[k] = front[k]
  BY <1>2, <1>3, <1>4, AppendProperties
<1> HIDE DEF whole
<1>6. Len(whole) = Len(c) /\ \A k \in 1 .. Len(c) : whole[k] = c[k]
  BY <1>1, <1>2, <1>3, <1>4, <1>5
<1>7. whole = c
  BY <1>1, <1>5, <1>6, SeqEqual
<1>8. ChainHash(Front(c), Last(c).txn, Last(c).ts) = c
  BY <1>7 DEF whole, front, ChainHash, Front
<1> QED BY <1>8 DEF Envelope, FailsRecompute

LEMMA JudgedInit == Init => Inv /\ Formed /\ Judged
<1> SUFFICES ASSUME Init PROVE Inv /\ Formed /\ Judged
  OBVIOUS
<1>1. ProverInit /\ VerifierInit /\ seen = 0
  BY DEF Init
<1>2. Inv
  BY <1>1, InvInit
<1>3. Formed
  <2>1. ToSet(<< >>) = {}
    BY DEF ToSet
  <2> QED BY <1>1, <2>1 DEF ProverInit, Formed, InFlight
<1>4. Judged
  <2>1. Len(Stream) = 0
    BY <1>1, EmptySeq DEF ProverInit, Stream, Topics
  <2>2. stats \in [Counters -> Nat] /\ Clean /\ expectedPrev = {}
    BY <1>1 DEF VerifierInit, NoStats, Clean, Counters
  <2>3. CleanMeansContiguous
    BY <1>1, <2>2 DEF CleanMeansContiguous, Contiguous, Clean
  <2> QED BY <1>1, <2>1, <2>2, <2>3 DEF Judged
<1> QED BY <1>2, <1>3, <1>4

(* While the prover is at work, the verdict on what was received stands.   *)
LEMMA JudgedProver ==
  ASSUME Inv, Judged, Prover
  PROVE  Judged'
<1>1. ProverNext /\ UNCHANGED <<verifierVars, seen>>
  BY DEF Prover
<1>2. /\ Len(Stream) \in Nat /\ Len(Stream)' \in Nat
      /\ Len(Stream) <= Len(Stream)'
      /\ \A k \in 1 .. Len(Stream) : Stream[k]' = Stream[k]
  BY <1>1, StreamGrows
<1>3. seen \in 0 .. Len(Stream)
  BY DEF Judged
<1>4. Contiguous' <=> Contiguous
  <2>1. \A k \in 2 .. seen : Stream[k]' = Stream[k] /\ Stream[k - 1]' = Stream[k - 1]
    BY <1>2, <1>3
  <2>2. \A k \in 2 .. seen :
          (Front(Stream[k]) = Stream[k - 1])' <=> Front(Stream[k]) = Stream[k - 1]
    BY <2>1 DEF Front
  <2> QED BY <1>1, <2>2 DEF Contiguous
<1>5. (Clean' <=> Clean) /\ (CleanMeansContiguous)'
  BY <1>1, <1>4 DEF Judged, CleanMeansContiguous, Clean, verifierVars
<1>6. seen' \in 0 .. Len(Stream)'
  BY <1>1, <1>2, <1>3
<1>7. seen # 0 => Stream'[seen'] = Stream[seen]
  <2>1. seen # 0 => seen \in 1 .. Len(Stream)
    BY <1>2, <1>3
  <2> QED BY <1>1, <1>2, <2>1
<1>8. Clean' => expectedPrev' = IF seen' = 0 THEN {} ELSE {Stream'[seen']}
  BY <1>1, <1>5, <1>7 DEF Judged, verifierVars
<1> QED BY <1>1, <1>5, <1>6, <1>8 DEF Judged, verifierVars

(* One more verdict: it stays clean exactly if this record names the one   *)
(* before it as its predecessor.                                           *)
LEMMA JudgedAudit ==
  ASSUME Inv, Formed, Judged, Audit
  PROVE  Judged'
<1> DEFINE c == Stream[seen + 1]
           rec == Envelope(c)
<1>1. /\ Stream \in Seq(Hashes) /\ Len(Stream) \in Nat
      /\ DOMAIN Stream = 1 .. Len(Stream)
  <2>1. Stream \in Seq(Hashes)
    BY DEF Inv, TypedAndPlaced, ProverTypeOK, Topics, Stream
  <2> QED BY <2>1, LenProperties
<1>2. /\ seen \in 0 .. Len(Stream) /\ seen < Len(Stream) /\ seen' = seen + 1
      /\ VerifyEnvelope(rec) /\ UNCHANGED proverVars
  BY DEF Judged, Audit
<1>3. Stream' = Stream
  BY <1>2 DEF proverVars, kafkaVars, Stream
<1>4. c \in Hashes /\ c # << >>
  <2>1. seen + 1 \in 1 .. Len(Stream)
    BY <1>1, <1>2
  <2>2. c \in ToSet(Stream)
    BY <1>1, <2>1 DEF ToSet
  <2>3. c \in InFlight("committed")
    BY <2>2 DEF InFlight, Stream
  <2> QED BY <1>1, <2>1, <2>3, ElementOfSeq DEF Formed, Topics
<1>5. ~FailsRecompute(rec) /\ rec.chain = c /\ rec.prev = Front(c)
  BY <1>4, EnvelopeRecomputes
<1> HIDE DEF c, rec
<1>6. ChainOk(rec) <=> expectedPrev = {} \/ Front(c) \in expectedPrev
  BY <1>5 DEF ChainOk, Follows
<1>7. /\ stats \in [Counters -> Nat] /\ stats' \in [Counters -> Nat]
      /\ Clean' <=> Clean /\ ChainOk(rec)
  <2>1. /\ stats \in [Counters -> Nat]
        /\ "chain_broken" \in Counters /\ "failed" \in Counters
    BY DEF Judged, Counters
  <2>2. stats' = [n \in Counters |->
                    IF n \in Bumped(rec) THEN stats[n] + 1 ELSE stats[n]]
    BY <1>2 DEF VerifyEnvelope
  <2>3. stats' \in [Counters -> Nat]
    BY <2>1, <2>2
  <2>4. CASE ChainOk(rec)
    <3>1. "chain_broken" \notin Bumped(rec) /\ "failed" \notin Bumped(rec)
      BY <2>4 DEF Bumped
    <3> QED BY <2>1, <2>2, <2>3, <2>4, <3>1 DEF Clean
  <2>5. CASE ~ChainOk(rec)
    <3>1. "failed" \in Bumped(rec)
      BY <2>5 DEF Bumped
    <3>2. stats'["failed"] = stats["failed"] + 1 /\ stats["failed"] \in Nat
      BY <2>1, <2>2, <3>1
    <3> QED BY <2>1, <2>3, <2>5, <3>2 DEF Clean
  <2> QED BY <2>4, <2>5
<1>8. Contiguous' <=> (Contiguous /\ (seen # 0 => Front(c) = Stream[seen]))
  <2> DEFINE Linked(k) == Front(Stream[k]) = Stream[k - 1]
  <2>1. /\ Contiguous' <=> \A k \in 2 .. seen + 1 : Linked(k)
        /\ Contiguous <=> \A k \in 2 .. seen : Linked(k)
    BY <1>2, <1>3 DEF Contiguous
  <2>2. Linked(seen + 1) <=> Front(c) = Stream[seen]
    <3>1. (seen + 1) - 1 = seen
      BY <1>2
    <3> QED BY <3>1 DEF c
  <2> HIDE DEF Linked
  <2>3. 2 .. seen + 1 = 2 .. seen \cup (IF seen = 0 THEN {} ELSE {seen + 1})
    BY <1>1, <1>2
  <2> QED BY <2>1, <2>2, <2>3
<1>9. Clean => (ChainOk(rec) <=> (seen # 0 => Front(c) = Stream[seen]))
  <2> SUFFICES ASSUME Clean
               PROVE  ChainOk(rec) <=> (seen # 0 => Front(c) = Stream[seen])
    OBVIOUS
  <2>1. expectedPrev = IF seen = 0 THEN {} ELSE {Stream[seen]}
    BY DEF Judged
  <2> QED BY <1>6, <2>1
<1>10. Clean <=> Contiguous
  BY DEF Judged, CleanMeansContiguous, Clean
<1>11. CleanMeansContiguous'
  BY <1>7, <1>8, <1>9, <1>10 DEF CleanMeansContiguous, Clean
<1>12. Clean' => expectedPrev' = {c}
  BY <1>2, <1>5, <1>7 DEF VerifyEnvelope
<1>13. seen' \in 0 .. Len(Stream') /\ seen' # 0 /\ Stream'[seen'] = c
  BY <1>1, <1>2, <1>3 DEF c
<1> QED BY <1>7, <1>11, <1>12, <1>13 DEF Judged

LEMMA JudgedNext == Inv /\ Formed /\ Judged /\ [Next]_vars => (Inv /\ Formed /\ Judged)'
<1> SUFFICES ASSUME Inv, Formed, Judged, [Next]_vars
             PROVE  Inv' /\ Formed' /\ Judged'
  OBVIOUS
<1>1. CASE Prover
  <2>1. ProverNext
    BY <1>1 DEF Prover
  <2>2. Inv' /\ Formed'
    BY <2>1, InvNext, FormedNext
  <2> QED BY <1>1, <2>2, JudgedProver
<1>2. ASSUME UNCHANGED proverVars
      PROVE  Inv' /\ Formed' /\ Stream' = Stream
  <2>1. Inv'
    BY <1>2, InvNext
  <2> QED BY <1>2, <2>1 DEF proverVars, kafkaVars, ledgerVars, Formed, InFlight, Stream
<1>3. CASE InstallKey
  <2>1. UNCHANGED proverVars /\ UNCHANGED <<expectedPrev, stats, seen>>
    BY <1>3 DEF InstallKey, SetPublicKey
  <2>2. Inv' /\ Formed' /\ Stream' = Stream
    BY <1>2, <2>1
  <2> QED BY <2>1, <2>2 DEF Judged, CleanMeansContiguous, Contiguous, Clean
<1>4. CASE Audit
  <2>1. UNCHANGED proverVars
    BY <1>4 DEF Audit
  <2>2. Inv' /\ Formed'
    BY <1>2, <2>1
  <2> QED BY <1>4, <2>2, JudgedAudit
<1>5. CASE UNCHANGED vars
  <2>1. UNCHANGED proverVars /\ UNCHANGED <<expectedPrev, stats, seen>>
    BY <1>5 DEF vars, verifierVars
  <2>2. Inv' /\ Formed' /\ Stream' = Stream
    BY <1>2, <2>1
  <2> QED BY <2>1, <2>2 DEF Judged, CleanMeansContiguous, Contiguous, Clean
<1> QED BY <1>1, <1>3, <1>4, <1>5 DEF Next

-----------------------------------------------------------------------------
(* The verifier's counters are clean exactly as long as it received a      *)
(* contiguous stretch of one chain, whatever crashed, was lost, repeated   *)
(* or reordered (verify.py:19-21, README.md:228).                          *)
THEOREM CleanVerdict == Spec => []CleanMeansContiguous
<1>1. Judged => CleanMeansContiguous
  BY DEF Judged
<1>2. Spec => [](Inv /\ Formed /\ Judged)
  BY JudgedInit, JudgedNext, PTL DEF Spec
<1> QED BY <1>1, <1>2, PTL

-----------------------------------------------------------------------------
(* No false alarm.  As long as nothing has gone wrong there is one process *)
(* or none, it has both its clients, and what it sent, delivered or still  *)
(* in the accumulator, is one stretch of its chain that ends with the      *)
(* record it published last.                                               *)
AllSent == topic["committed"] \o outbox["committed"]

PublishedLast == IF pc \in {"persist", "publish"} THEN Front(log) ELSE log

InStep ==
  /\ pc = "down" => AllSent = << >>
  /\ pc # "down" => running /\ handles = {"consumer", "producer"}
  /\ \A k \in 2 .. Len(AllSent) : Front(AllSent[k]) = AllSent[k - 1]
  /\ AllSent # << >> => AllSent[Len(AllSent)] = PublishedLast

LEMMA Joined ==
  ASSUME NEW a \in Seq(Hashes), NEW b \in Seq(Hashes)
  PROVE  /\ a \o b \in Seq(Hashes) /\ Len(a) \in Nat /\ Len(b) \in Nat
         /\ Len(a \o b) = Len(a) + Len(b)
         /\ \A k \in 1 .. Len(a) : (a \o b)[k] = a[k]
         /\ \A k \in 1 .. Len(b) : (a \o b)[Len(a) + k] = b[k]
<1> DEFINE c == a \o b
<1>1. /\ c \in Seq(Hashes) /\ Len(c) = Len(a) + Len(b)
      /\ \A k \in 1 .. Len(a) + Len(b) :
           c[k] = IF k <= Len(a) THEN a[k] ELSE b[k - Len(a)]
  BY ConcatProperties
<1>2. Len(a) \in Nat /\ Len(b) \in Nat
  BY LenProperties
<1> HIDE DEF c
<1>3. \A k \in 1 .. Len(a) : c[k] = a[k]
  BY <1>1, <1>2
<1>4. \A k \in 1 .. Len(b) : c[Len(a) + k] = b[k]
  <2> SUFFICES ASSUME NEW k \in 1 .. Len(b)
               PROVE  c[Len(a) + k] = b[k]
    OBVIOUS
  <2>1. /\ Len(a) + k \in 1 .. Len(a) + Len(b)
        /\ ~(Len(a) + k <= Len(a)) /\ (Len(a) + k) - Len(a) = k
    BY <1>2
  <2> QED BY <1>1, <2>1
<1> QED BY <1>1, <1>2, <1>3, <1>4 DEF c

(* Delivering the first envelope of an accumulator leaves what was sent as *)
(* it is.                                                                  *)
LEMMA DeliveredInOrder ==
  ASSUME NEW a \in Seq(Hashes), NEW b \in Seq(Hashes), b # << >>
  PROVE  Append(a, Head(b)) \o Tail(b) = a \o b
<1> DEFINE x == Append(a, Head(b))
           y == Tail(b)
           before == a \o b
           after == x \o y
<1>1. Head(b) \in Hashes /\ y \in Seq(Hashes) /\ Head(b) = b[1]
  BY HeadTaken
<1>2. Len(b) \in Nat \ {0} /\ Len(a) \in Nat
  BY LenProperties, EmptySeq
<1>3. Len(y) = Len(b) - 1 /\ \A k \in 1 .. Len(b) - 1 : y[k] = b[k + 1]
  BY <1>2, HeadTailProperties
<1>4. /\ x \in Seq(Hashes) /\ Len(x) = Len(a) + 1 /\ x[Len(a) + 1] = b[1]
      /\ \A k \in 1 .. Len(a) : x[k] = a[k]
  BY <1>1, AppendProperties
<1> HIDE DEF x, y
<1>5. /\ before \in Seq(Hashes) /\ Len(before) = Len(a) + Len(b)
      /\ \A k \in 1 .. Len(a) : before[k] = a[k]
      /\ \A k \in 1 .. Len(b) : before[Len(a) + k] = b[k]
  BY Joined
<1>6. /\ after \in Seq(Hashes) /\ Len(after) = Len(x) + Len(y)
      /\ \A k \in 1 .. Len(x) : after[k] = x[k]
      /\ \A k \in 1 .. Len(y) : after[Len(x) + k] = y[k]
  BY <1>1, <1>4, Joined
<1> HIDE DEF before, after
<1>7. Len(after) = Len(before)
  BY <1>2, <1>3, <1>4, <1>5, <1>6
<1>8. \A k \in 1 .. Len(before) : after[k] = before[k]
  <2> SUFFICES ASSUME NEW k \in 1 .. Len(before)
               PROVE  after[k] = before[k]
    OBVIOUS
  <2>1. k \in Nat /\ 1 <= k /\ k <= Len(a) + Len(b)
    BY <1>2, <1>5
  <2>2. CASE k <= Len(a)
    <3>1. after[k] = x[k] /\ x[k] = a[k] /\ before[k] = a[k]
      BY <1>2, <1>4, <1>5, <1>6, <2>1, <2>2
    <3> QED BY <3>1
  <2>3. CASE k = Len(a) + 1
    <3>1. after[k] = x[k] /\ x[k] = b[1]
      BY <1>2, <1>4, <1>6, <2>1, <2>3
    <3>2. before[k] = b[1]
      BY <1>2, <1>5, <2>3
    <3> QED BY <3>1, <3>2
  <2>4. CASE k > Len(a) + 1
    <3> DEFINE j == (k - Len(a)) - 1
    <3>1. /\ j \in 1 .. Len(y) /\ j + 1 \in 1 .. Len(b)
          /\ k = Len(x) + j /\ k = Len(a) + (j + 1)
      BY <1>2, <1>3, <1>4, <2>1, <2>4
    <3> HIDE DEF j
    <3>2. after[k] = y[j] /\ y[j] = b[j + 1]
      BY <1>3, <1>6, <3>1
    <3>3. before[k] = b[j + 1]
      BY <1>5, <3>1
    <3> QED BY <3>2, <3>3
  <2> QED BY <1>2, <2>1, <2>2, <2>3, <2>4
<1>9. after = before
  BY <1>5, <1>6, <1>7, <1>8, SeqEqual
<1> QED BY <1>9 DEF after, before, x, y

(* Sending one more adds it at the end.                                    *)
LEMMA SentInOrder ==
  ASSUME NEW a \in Seq(Hashes), NEW b \in Seq(Hashes), NEW e \in Hashes,
         NEW s, s = a \o b, NEW more, more = a \o Append(b, e)
  PROVE  /\ Len(s) \in Nat /\ Len(more) = Len(s) + 1 /\ more[Len(s) + 1] = e
         /\ \A k \in 1 .. Len(s) : more[k] = s[k]
<1> DEFINE c == Append(b, e)
<1>1. /\ c \in Seq(Hashes) /\ Len(c) = Len(b) + 1 /\ c[Len(b) + 1] = e
      /\ \A k \in 1 .. Len(b) : c[k] = b[k]
  BY AppendProperties
<1>0. more = a \o c
  OBVIOUS
<1> HIDE DEF c
<1>2. /\ Len(a) \in Nat /\ Len(b) \in Nat /\ Len(s) = Len(a) + Len(b)
      /\ \A k \in 1 .. Len(a) : s[k] = a[k]
      /\ \A k \in 1 .. Len(b) : s[Len(a) + k] = b[k]
  BY Joined
<1>3. /\ Len(more) = Len(a) + Len(c)
      /\ \A k \in 1 .. Len(a) : more[k] = a[k]
      /\ \A k \in 1 .. Len(c) : more[Len(a) + k] = c[k]
  <2>1. /\ Len(a \o c) = Len(a) + Len(c)
        /\ \A k \in 1 .. Len(a) : (a \o c)[k] = a[k]
        /\ \A k \in 1 .. Len(c) : (a \o c)[Len(a) + k] = c[k]
    BY <1>1, Joined
  <2> QED BY <1>0, <2>1
<1>4. Len(s) \in Nat /\ Len(more) = Len(s) + 1
  BY <1>1, <1>2, <1>3
<1>5. more[Len(s) + 1] = e
  <2>1. Len(s) + 1 = Len(a) + (Len(b) + 1) /\ Len(b) + 1 \in 1 .. Len(c)
    BY <1>1, <1>2
  <2> QED BY <1>1, <1>3, <2>1
<1>6. \A k \in 1 .. Len(s) : more[k] = s[k]
  <2> SUFFICES ASSUME NEW k \in 1 .. Len(s)
               PROVE  more[k] = s[k]
    OBVIOUS
  <2>1. CASE k <= Len(a)
    <3>1. k \in 1 .. Len(a)
      BY <1>2, <2>1
    <3> QED BY <1>2, <1>3, <3>1
  <2>2. CASE k > Len(a)
    <3> DEFINE j == k - Len(a)
    <3>1. j \in 1 .. Len(b) /\ j \in 1 .. Len(c) /\ k = Len(a) + j
      BY <1>1, <1>2, <2>2
    <3> HIDE DEF j
    <3> QED BY <1>1, <1>2, <1>3, <3>1
  <2> QED BY <1>2, <2>1, <2>2
<1> QED BY <1>4, <1>5, <1>6

(* The link added last is the one Front takes off.                         *)
LEMMA FrontOfExtended ==
  ASSUME NEW h \in Hashes, NEW t \in Txns, NEW n \in Nat
  PROVE  Front(ChainHash(h, t, n)) = h
<1> DEFINE link == [txn |-> t, ts |-> n]
           c == ChainHash(h, t, n)
           f == SubSeq(c, 1, Len(c) - 1)
<1>1. link \in Links
  BY DEF Links
<1>2. /\ c \in Seq(Links) /\ Len(c) = Len(h) + 1
      /\ \A k \in 1 .. Len(h) : c[k] = h[k]
  BY <1>1, AppendProperties DEF ChainHash, Hashes
<1>3. Len(h) \in Nat /\ h \in Seq(Links)
  BY LenProperties DEF Hashes
<1> HIDE DEF c
<1>4. Len(c) - 1 = Len(h)
  BY <1>2, <1>3
<1>5. \A k \in 1 .. Len(h) : c[k] \in Links
  BY <1>2, <1>3, ElementOfSeq
<1> DEFINE g == SubSeq(c, 1, Len(h))
<1>6. /\ g \in Seq(Links)
      /\ Len(g) = IF 1 <= Len(h) THEN Len(h) - 1 + 1 ELSE 0
      /\ \A k \in 1 .. Len(h) - 1 + 1 : g[k] = c[1 + k - 1]
  BY <1>3, <1>5, SubSeqProperties
<1> HIDE DEF g
<1>7. Len(g) = Len(h)
  BY <1>3, <1>6
<1>8. \A k \in 1 .. Len(h) : g[k] = h[k]
  <2> SUFFICES ASSUME NEW k \in 1 .. Len(h)
               PROVE  g[k] = h[k]
    OBVIOUS
  <2>1. k \in 1 .. Len(h) - 1 + 1 /\ 1 + k - 1 = k
    BY <1>3
  <2> QED BY <1>2, <1>6, <2>1
<1>9. g = h
  BY <1>3, <1>6, <1>7, <1>8, SeqEqual
<1>10. Front(c) = g
  BY <1>4 DEF Front, g
<1> QED BY <1>9, <1>10 DEF c

LEMMA AllSentTyped ==
  ASSUME Inv
  PROVE  /\ topic["committed"] \in Seq(Hashes) /\ outbox["committed"] \in Seq(Hashes)
         /\ topic \in [Topics -> Seq(Hashes)] /\ outbox \in [Topics -> Seq(Hashes)]
         /\ log \in Hashes /\ AllSent \in Seq(Hashes)
<1>1. /\ topic["committed"] \in Seq(Hashes) /\ outbox["committed"] \in Seq(Hashes)
      /\ topic \in [Topics -> Seq(Hashes)] /\ outbox \in [Topics -> Seq(Hashes)]
      /\ log \in Hashes
  BY DEF Inv, TypedAndPlaced, ProverTypeOK, Topics
<1> QED BY <1>1, Joined DEF AllSent

(* While nothing goes wrong, only these steps are taken.                   *)
LEMMA UndisturbedSteps ==
  ASSUME Inv, Undisturbed => InStep, ProverNext, Undisturbed'
  PROVE  /\ Undisturbed /\ InStep
         /\ Ingest \/ (\E t \in Topics : Deliver(t)) \/ Start
<1>1. crashes \in Nat /\ stops \in Nat /\ faults \in Nat
  BY DEF Inv, TypedAndPlaced, Placed
<1>2. crashes' = 0 /\ stops' = 0 /\ faults' = 0
  BY DEF Undisturbed
<1>3. ~Fault /\ ~Crash /\ ~BeginStop
  BY <1>1, <1>2 DEF Fault, Crash, BeginStop
<1>4. Undisturbed
  <2>1. CASE Ingest
    BY <1>2, <2>1 DEF Ingest, Fetch, FetchNothing, PollRaises, Rejoin, Reject,
      Abandon, Add, Save, SaveFails, Publish, Alert, lifeVars, pastVars, Undisturbed
  <2>2. CASE Network
    <3>1. \E t \in Topics : Deliver(t)
      BY <1>3, <2>2 DEF Network, Lose, DeliverAgain, DeliverSecond
    <3> QED BY <1>2, <3>1 DEF Deliver, lifeVars, pastVars, Undisturbed
  <2>3. CASE Lifecycle
    <3>1. Start \/ CloseConsumer \/ CloseProducer \/ Exit
      BY <1>3, <2>3 DEF Lifecycle, StartDeaf
    <3> QED BY <1>2, <3>1 DEF Start, NewProcess, CloseConsumer, CloseProducer, Exit,
          Gone, lifeVars, pastVars, Undisturbed
  <2> QED BY <2>1, <2>2, <2>3 DEF ProverNext
<1>5. pc # "down" => running
  BY <1>4 DEF InStep
<1>6. ~CloseConsumer /\ ~CloseProducer /\ ~Exit
  BY <1>5 DEF CloseConsumer, CloseProducer, Exit
<1> QED BY <1>3, <1>4, <1>6 DEF ProverNext, Network, Lifecycle, StartDeaf, Lose,
      DeliverAgain, DeliverSecond

(* The step that sends: its envelope names the one published before it.    *)
LEMMA InStepPublish ==
  ASSUME Inv, InStep, Publish
  PROVE  InStep'
<1>1. /\ topic["committed"] \in Seq(Hashes) /\ outbox["committed"] \in Seq(Hashes)
      /\ outbox \in [Topics -> Seq(Hashes)] /\ log \in Hashes
  BY AllSentTyped
<1>2. /\ pc = "publish" /\ pc' \in {"alert", "process", "poll", "done"}
      /\ UNCHANGED <<log, topic, running, handles>> /\ Sent("committed")
  BY DEF Publish, Done, LoopTest, ledgerVars, lifeVars
<1>3. outbox' = [outbox EXCEPT !["committed"] = Append(@, log)]
  BY <1>2 DEF InStep, Sent
<1>4. outbox'["committed"] = Append(outbox["committed"], log)
  BY <1>1, <1>3 DEF Topics
<1>5. PICK a \in Seq(Hashes) : a = topic["committed"]
  BY <1>1
<1>6. PICK b \in Seq(Hashes) : b = outbox["committed"]
  BY <1>1
<1>7. PICK s : s = a \o b
  OBVIOUS
<1>8. PICK more : more = a \o Append(b, log)
  OBVIOUS
<1>9. AllSent = s /\ AllSent' = more
  BY <1>2, <1>4, <1>5, <1>6, <1>7, <1>8 DEF AllSent
<1>10. /\ Len(s) \in Nat /\ Len(more) = Len(s) + 1 /\ more[Len(s) + 1] = log
       /\ \A k \in 1 .. Len(s) : more[k] = s[k]
  BY <1>1, <1>7, <1>8, SentInOrder
<1>11. PublishedLast = Front(log) /\ PublishedLast' = log
  BY <1>2 DEF PublishedLast
<1>12. /\ \A k \in 2 .. Len(s) : Front(s[k]) = s[k - 1]
       /\ s # << >> => s[Len(s)] = Front(log)
  BY <1>9, <1>11 DEF InStep
<1>13. Len(s) > 0 => s[Len(s)] = Front(log)
  <2>1. Len(s) > 0 => s # << >>
    BY EmptySeq
  <2> QED BY <1>12, <2>1
<1>14. \A k \in 2 .. Len(more) : Front(more[k]) = more[k - 1]
  <2> SUFFICES ASSUME NEW k \in 2 .. Len(more)
               PROVE  Front(more[k]) = more[k - 1]
    OBVIOUS
  <2>1. CASE k <= Len(s)
    <3>1. k \in 2 .. Len(s) /\ k \in 1 .. Len(s) /\ k - 1 \in 1 .. Len(s)
      BY <1>10, <2>1
    <3> QED BY <1>10, <1>12, <3>1
  <2>2. CASE k = Len(s) + 1
    <3>1. k - 1 = Len(s) /\ Len(s) \in 1 .. Len(s) /\ Len(s) > 0
      BY <1>10, <2>2
    <3> QED BY <1>10, <1>13, <2>2, <3>1
  <2> QED BY <1>10, <2>1, <2>2
<1>15. more[Len(more)] = log
  BY <1>10
<1> QED BY <1>2, <1>9, <1>11, <1>14, <1>15 DEF InStep

LEMMA InStepNext ==
  ASSUME Inv, Undisturbed => InStep, ProverNext
  PROVE  (Undisturbed => InStep)'
<1> SUFFICES ASSUME Undisturbed' PROVE InStep'
  OBVIOUS
<1>1. InStep /\ (Ingest \/ (\E t \in Topics : Deliver(t)) \/ Start)
  BY UndisturbedSteps
<1>2. log \in Hashes
  BY AllSentTyped
<1>3. ASSUME AllSent' = AllSent, PublishedLast' = PublishedLast,
             UNCHANGED <<running, handles>>, pc # "down", pc' # "down"
      PROVE  InStep'
  BY <1>1, <1>3 DEF InStep
<1>4. CASE FetchNothing \/ PollRaises \/ Rejoin \/ (\E n \in 1 .. MaxPoll : Fetch(n))
           \/ Reject \/ Abandon
  <2>1. /\ UNCHANGED <<topic, outbox, log, running, handles>>
        /\ pc \in {"poll", "process"} /\ pc' \in {"poll", "process", "done"}
    BY <1>4 DEF FetchNothing, PollRaises, Rejoin, Fetch, Reject, Abandon, Done,
      LoopTest, ledgerVars, kafkaVars, lifeVars
  <2> QED BY <1>3, <2>1 DEF AllSent, PublishedLast
<1>5. CASE Add
  <2>1. /\ UNCHANGED <<topic, outbox, running, handles>>
        /\ pc = "process" /\ pc' = "persist"
        /\ log' = ChainHash(log, next + 1, clock + 1)
    BY <1>5 DEF Add, kafkaVars, lifeVars
  <2>2. next + 1 \in Txns
    BY <1>5, TypedAdd DEF Inv
  <2>3. clock + 1 \in Nat
    BY DEF Inv, TypedAndPlaced, Placed
  <2>4. Front(log') = log
    BY <1>2, <2>1, <2>2, <2>3, FrontOfExtended
  <2> QED BY <1>3, <2>1, <2>4 DEF AllSent, PublishedLast
<1>6. CASE Save \/ SaveFails
  <2>1. /\ UNCHANGED <<topic, outbox, log, running, handles>>
        /\ pc = "persist" /\ pc' = "publish"
    BY <1>6 DEF Save, SaveFails, Log!Stabilise, ledgerVars, kafkaVars, lifeVars
  <2> QED BY <1>3, <2>1 DEF AllSent, PublishedLast
<1>7. CASE Publish
  BY <1>1, <1>7, InStepPublish
<1>8. CASE Alert
  <2>1. /\ UNCHANGED <<topic, log, running, handles>> /\ Sent("anomalies")
        /\ pc = "alert" /\ pc' \in {"poll", "process", "done"}
    BY <1>8 DEF Alert, Done, LoopTest, ledgerVars, lifeVars
  <2>2. outbox'["committed"] = outbox["committed"]
    BY <2>1, AllSentTyped DEF Sent, Topics
  <2> QED BY <1>3, <2>1, <2>2 DEF AllSent, PublishedLast
<1>9. ASSUME NEW t \in Topics, Deliver(t)
      PROVE  InStep'
  <2>1. /\ UNCHANGED <<pc, log, running, handles>>
        /\ outbox[t] # << >>
        /\ outbox' = [outbox EXCEPT ![t] = Tail(outbox[t])]
        /\ topic' = [topic EXCEPT ![t] = Append(topic[t], Head(outbox[t]))]
    BY <1>9 DEF Deliver, ledgerVars, lifeVars
  <2>2. AllSent' = AllSent
    <3>1. CASE t = "committed"
      <4>1. /\ outbox'[t] = Tail(outbox[t])
            /\ topic'[t] = Append(topic[t], Head(outbox[t]))
        BY <2>1, AllSentTyped
      <4>2. Append(topic[t], Head(outbox[t])) \o Tail(outbox[t]) = topic[t] \o outbox[t]
        BY <2>1, <3>1, AllSentTyped, DeliveredInOrder
      <4> QED BY <3>1, <4>1, <4>2 DEF AllSent
    <3>2. CASE t # "committed"
      <4>1. /\ outbox'["committed"] = outbox["committed"]
            /\ topic'["committed"] = topic["committed"]
        BY <2>1, <3>2, AllSentTyped DEF Topics
      <4> QED BY <4>1 DEF AllSent
    <3> QED BY <3>1, <3>2
  <2> QED BY <1>1, <2>1, <2>2 DEF InStep, PublishedLast
<1>10. CASE Start
  <2>1. /\ pc = "down" /\ pc' # "down" /\ UNCHANGED <<topic, outbox>>
        /\ running' = TRUE /\ handles' = {"consumer", "producer"}
    BY <1>10 DEF Start, NewProcess, kafkaVars
  <2>2. AllSent' = << >> /\ Len(<< >>) = 0
    BY <1>1, <2>1 DEF InStep, AllSent
  <2> QED BY <2>1, <2>2 DEF InStep
<1> QED BY <1>1, <1>4, <1>5, <1>6, <1>7, <1>8, <1>9, <1>10 DEF Ingest

(* What has been received is the beginning of what was sent.               *)
LEMMA InStepIsContiguous ==
  ASSUME Inv, Judged, InStep
  PROVE  Contiguous
<1>1. /\ topic["committed"] \in Seq(Hashes) /\ outbox["committed"] \in Seq(Hashes)
      /\ seen \in 0 .. Len(Stream)
  BY AllSentTyped DEF Judged
<1>2. /\ Len(Stream) \in Nat /\ Len(Stream) <= Len(AllSent)
      /\ \A k \in 1 .. Len(Stream) : AllSent[k] = Stream[k]
      /\ Len(AllSent) \in Nat
  <2>1. /\ Len(topic["committed"]) \in Nat /\ Len(outbox["committed"]) \in Nat
        /\ Len(AllSent) = Len(topic["committed"]) + Len(outbox["committed"])
        /\ \A k \in 1 .. Len(topic["committed"]) : AllSent[k] = topic["committed"][k]
    BY <1>1, Joined DEF AllSent
  <2>2. Stream = topic["committed"]
    BY DEF Stream
  <2>3. /\ Len(Stream) \in Nat /\ Len(outbox["committed"]) \in Nat
        /\ Len(AllSent) = Len(Stream) + Len(outbox["committed"])
        /\ \A k \in 1 .. Len(Stream) : AllSent[k] = Stream[k]
    BY <2>1, <2>2
  <2> QED BY <2>3
<1>3. SUFFICES ASSUME NEW k \in 2 .. seen
               PROVE  Front(Stream[k]) = Stream[k - 1]
  BY DEF Contiguous
<1>4. k \in 2 .. Len(AllSent) /\ k \in 1 .. Len(Stream) /\ k - 1 \in 1 .. Len(Stream)
  BY <1>1, <1>2
<1>5. Front(AllSent[k]) = AllSent[k - 1]
  BY <1>4 DEF InStep
<1> QED BY <1>2, <1>4, <1>5

(* No false alarm: while no prover has crashed or been shut down and the   *)
(* network keeps its promise, every record the verifier receives passes,   *)
(* whatever was rejected at ingress, abandoned, not saved, or committed    *)
(* again after an eviction from the group                                  *)
(* (tests/test_integration.py:90-98).                                      *)
THEOREM NoFalseAlarmEndToEnd == Spec => []NoAlarmWithoutFault
<1> DEFINE All == Inv /\ Formed /\ Judged /\ (Undisturbed => InStep)
<1>1. Init => All
  <2> SUFFICES ASSUME Init PROVE Undisturbed => InStep
    BY JudgedInit
  <2>1. /\ topic["committed"] = << >> /\ outbox["committed"] = << >> /\ pc = "down"
    BY DEF Init, ProverInit, Topics
  <2>2. AllSent = << >> /\ Len(<< >>) = 0
    BY <2>1 DEF AllSent
  <2> QED BY <2>1, <2>2 DEF InStep
<1>2. All /\ [Next]_vars => All'
  <2> SUFFICES ASSUME All, [Next]_vars PROVE All'
    OBVIOUS
  <2>1. Inv' /\ Formed' /\ Judged'
    BY JudgedNext
  <2>2. CASE Prover
    BY <2>1, <2>2, InStepNext DEF Prover
  <2>3. CASE ~Prover
    <3>1. UNCHANGED proverVars
      BY <2>3 DEF Next, InstallKey, Audit, vars
    <3> QED BY <2>1, <3>1 DEF Undisturbed, InStep, AllSent, PublishedLast, proverVars,
          kafkaVars, ledgerVars, lifeVars, pastVars
  <2> QED BY <2>2, <2>3
<1>3. All => NoAlarmWithoutFault
  BY InStepIsContiguous DEF Judged, CleanMeansContiguous, NoAlarmWithoutFault
<1> QED BY <1>1, <1>2, <1>3, PTL DEF Spec

-----------------------------------------------------------------------------
(* Nothing left out.  In a contiguous stream each hash has one link more   *)
(* than the one before.  Induction: a set of naturals has a least element. *)
LEMMA LeastNat ==
  ASSUME NEW T, T \subseteq Nat, T # {}
  PROVE  \E x \in T : \A y \in T : x <= y
<1> DEFINE R == OpToRel(<, Nat)
<1>1. \A x, y \in Nat : <<x, y>> \in R <=> x < y
  BY DEF OpToRel
<1>2. IsWellFoundedOn(R, Nat)
  BY NatLessThanWellFounded
<1> HIDE DEF R
<1>3. PICK x \in T : \A y \in T : ~(<<y, x>> \in R)
  BY <1>2, WFMin
<1>4. ASSUME NEW y \in T PROVE x <= y
  <2>1. x \in Nat /\ y \in Nat
    OBVIOUS
  <2>2. ~(y < x)
    BY <1>1, <1>3, <2>1
  <2> QED BY <2>1, <2>2
<1> QED BY <1>4

LEMMA NatInduct ==
  ASSUME NEW S, 0 \in S, \A n \in Nat : n \in S => n + 1 \in S
  PROVE  Nat \subseteq S
<1> SUFFICES ASSUME Nat \ S # {} PROVE FALSE
  OBVIOUS
<1>1. PICK m \in Nat \ S : \A y \in Nat \ S : m <= y
  BY LeastNat
<1>2. m - 1 \in Nat /\ m - 1 \notin Nat \ S /\ m = (m - 1) + 1
  BY <1>1
<1> QED BY <1>1, <1>2

LEMMA FrontIsShorter ==
  ASSUME NEW c \in Hashes, c # << >>
  PROVE  Len(c) \in Nat /\ Len(Front(c)) = Len(c) - 1
<1>1. /\ c \in Seq(Links) /\ Len(c) \in Nat \ {0}
      /\ \A k \in 1 .. Len(c) : c[k] \in Links
  BY EmptySeq, ElementOfSeq DEF Hashes
<1>2. PICK n \in Nat \ {0} : n = Len(c)
  BY <1>1
<1>3. Front(c) = SubSeq(c, 1, n - 1)
  BY <1>2 DEF Front
<1>4. /\ 1 \in Int /\ n - 1 \in Int
      /\ \A k \in 1 .. n - 1 : c[k] \in Links
  BY <1>1, <1>2
<1>5. Len(SubSeq(c, 1, n - 1)) = IF 1 <= n - 1 THEN n - 1 - 1 + 1 ELSE 0
  BY <1>4, SubSeqProperties
<1>6. (IF 1 <= n - 1 THEN n - 1 - 1 + 1 ELSE 0) = n - 1
  BY <1>2
<1> QED BY <1>1, <1>2, <1>3, <1>5, <1>6

LEMMA ConsecutiveLengths ==
  ASSUME NEW s, NEW n \in Nat, \A k \in 1 .. n : s[k] \in Hashes /\ s[k] # << >>,
         \A k \in 2 .. n : Front(s[k]) = s[k - 1],
         NEW k \in 1 .. n
  PROVE  Len(s[k]) = Len(s[1]) + k - 1
<1> DEFINE S == {m \in Nat : \A i \in 1 .. n : i = m + 1 => Len(s[i]) = Len(s[1]) + m}
<1>1. \A i \in 1 .. n : Len(s[i]) \in Nat /\ Len(Front(s[i])) = Len(s[i]) - 1
  BY FrontIsShorter
<1>2. 0 \in S
  <2> SUFFICES ASSUME NEW i \in 1 .. n, i = 0 + 1 PROVE Len(s[i]) = Len(s[1]) + 0
    OBVIOUS
  <2>1. i = 1 /\ Len(s[1]) \in Nat
    BY <1>1
  <2> QED BY <2>1
<1>3. ASSUME NEW m \in Nat, m \in S PROVE m + 1 \in S
  <2> DEFINE q == m + 1
  <2>0. q \in Nat /\ m + 1 = q
    OBVIOUS
  <2> HIDE DEF q
  <2> SUFFICES ASSUME NEW i \in 1 .. n, i = q + 1
               PROVE  Len(s[i]) = Len(s[1]) + q
    BY <2>0
  <2>1. i - 1 \in 1 .. n /\ i \in 2 .. n /\ i - 1 = m + 1 /\ 1 \in 1 .. n
    BY <2>0
  <2>2. Len(s[i - 1]) = Len(s[1]) + m
    BY <1>3, <2>1
  <2>3. Front(s[i]) = s[i - 1]
    BY <2>1
  <2>4. Len(s[i - 1]) = Len(s[i]) - 1
    BY <1>1, <2>3
  <2>5. PICK a \in Nat, b \in Nat : a = Len(s[1]) /\ b = Len(s[i])
    BY <1>1, <2>1
  <2>6. a + m = b - 1
    BY <2>2, <2>4, <2>5
  <2>7. b = a + q
    BY <2>0, <2>6
  <2> QED BY <2>5, <2>7
<1> HIDE DEF S
<1>4. k - 1 \in S
  <2>1. k - 1 \in Nat
    OBVIOUS
  <2> QED BY <1>2, <1>3, <2>1, NatInduct
<1>5. k = (k - 1) + 1
  OBVIOUS
<1>6. Len(s[k]) = Len(s[1]) + (k - 1)
  BY <1>4, <1>5 DEF S
<1>7. Len(s[1]) \in Nat
  <2>1. 1 \in 1 .. n
    OBVIOUS
  <2> QED BY <1>1, <2>1
<1> QED BY <1>6, <1>7

(* As long as the counters are clean and the ledger saved what it was      *)
(* given, the records received are consecutive records of the durable      *)
(* chain: from the first one received to the last none is missing.         *)
NothingLeftOut ==
  Clean /\ unsaved = {} =>
    \A k \in 1 .. seen :
      /\ Len(Stream[1]) + k - 1 <= Len(stable)
      /\ Stream[k] = SubSeq(stable, 1, Len(Stream[1]) + k - 1)

LEMMA JudgedLeavesNothingOut == Inv /\ Formed /\ Judged => NothingLeftOut
<1> SUFFICES ASSUME Inv, Formed, Judged, Clean, unsaved = {}, NEW k \in 1 .. seen
             PROVE  /\ Len(Stream[1]) + k - 1 <= Len(stable)
                    /\ Stream[k] = SubSeq(stable, 1, Len(Stream[1]) + k - 1)
  BY DEF NothingLeftOut
<1>1. Stream \in Seq(Hashes) /\ Len(Stream) \in Nat /\ seen \in 0 .. Len(Stream)
  BY AllSentTyped, LenProperties DEF Judged, Stream
<1>2. \A i \in 1 .. seen : Stream[i] \in Hashes /\ Stream[i] \in InFlight("committed")
  <2> SUFFICES ASSUME NEW i \in 1 .. seen
               PROVE  Stream[i] \in Hashes /\ Stream[i] \in InFlight("committed")
    OBVIOUS
  <2>1. i \in 1 .. Len(Stream)
    BY <1>1
  <2>2. Stream[i] \in Hashes
    BY <1>1, <2>1, ElementOfSeq
  <2>3. Stream[i] \in ToSet(Stream)
    BY <1>1, <2>1, LenProperties DEF ToSet
  <2> QED BY <2>2, <2>3 DEF InFlight, Stream
<1>3. \A i \in 1 .. seen : Stream[i] # << >>
  BY <1>2 DEF Formed, Topics
<1>4. \A i \in 2 .. seen : Front(Stream[i]) = Stream[i - 1]
  BY DEF Judged, Clean, CleanMeansContiguous, Contiguous
<1>5. Len(Stream[k]) = Len(Stream[1]) + k - 1
  <2>1. seen \in Nat
    BY <1>1
  <2> QED BY <1>2, <1>3, <1>4, <2>1, ConsecutiveLengths
<1>6. IsPrefix(Stream[k], stable)
  BY <1>2 DEF Inv, PublishedIsDurable, Topics
<1>7. /\ Len(Stream[k]) <= Len(stable)
      /\ SubSeq(Stream[k], 1, Len(Stream[k])) = SubSeq(stable, 1, Len(Stream[k]))
  BY <1>6 DEF IsPrefix
<1>8. SubSeq(Stream[k], 1, Len(Stream[k])) = Stream[k]
  BY <1>2, SubSeqFull DEF Hashes
<1> QED BY <1>5, <1>7, <1>8

(* A clean verdict is worth the whole ledger from the first record on: no  *)
(* record was left out, repeated or put in another place, whatever the     *)
(* prover and the network went through (verify.py:19-21, README.md:228).   *)
THEOREM CleanLeavesNothingOut == Spec => []NothingLeftOut
<1>1. Spec => [](Inv /\ Formed /\ Judged)
  BY JudgedInit, JudgedNext, PTL DEF Spec
<1> QED BY <1>1, JudgedLeavesNothingOut, PTL

-----------------------------------------------------------------------------
(* What was accepted, clean verdict or not.                                *)
LEMMA FrontIsPrefix ==
  ASSUME NEW c \in Hashes, c # << >>, Front(c) \in Hashes
  PROVE  IsPrefix(Front(c), c)
<1>1. PICK n \in Nat \ {0} : n = Len(c)
  BY EmptySeq, LenProperties DEF Hashes
<1>2. Len(Front(c)) = n - 1
  BY <1>1, FrontIsShorter
<1>3. Front(c) = SubSeq(c, 1, n - 1)
  BY <1>1 DEF Front
<1>4. ASSUME NEW k \in 1 .. n - 1 PROVE Front(c)[k] = c[k]
  <2>1. \A i \in 1 .. n - 1 : c[i] \in Links
    BY <1>1, ElementOfSeq DEF Hashes
  <2>2. \A i \in 1 .. n - 1 - 1 + 1 : SubSeq(c, 1, n - 1)[i] = c[1 + i - 1]
    BY <1>1, <2>1, SubSeqProperties DEF Hashes
  <2>3. k \in 1 .. n - 1 - 1 + 1 /\ 1 + k - 1 = k
    OBVIOUS
  <2> QED BY <1>3, <2>2, <2>3
<1> QED BY <1>1, <1>2, <1>4, PrefixByPosition

(* The tracked head was received; it continues the record received first,  *)
(* and as many records were accepted as there are links from one to the    *)
(* other.                                                                  *)
Reached(stream, n, h, count) ==
  /\ \E k \in 1 .. n : stream[k] = h
  /\ IsPrefix(stream[1], h)
  /\ count = Len(h) - Len(stream[1]) + 1

Following ==
  /\ seen = 0 => expectedPrev = {} /\ stats["chain_ok"] = 0
  /\ seen # 0 => \E h \in Hashes : /\ expectedPrev = {h}
                                  /\ Reached(Stream, seen, h, stats["chain_ok"])

LEMMA FollowingProver ==
  ASSUME Inv, Judged, Following, Prover
  PROVE  Following'
<1>1. ProverNext /\ UNCHANGED <<stats, expectedPrev, seen>>
  BY DEF Prover, verifierVars
<1>2. \A k \in 1 .. seen : Stream'[k] = Stream[k]
  BY <1>1, StreamGrows DEF Judged
<1>3. CASE seen = 0
  BY <1>1, <1>3 DEF Following
<1>4. CASE seen # 0
  <2>1. PICK h \in Hashes : expectedPrev = {h} /\ Reached(Stream, seen, h, stats["chain_ok"])
    BY <1>4 DEF Following
  <2>2. 1 \in 1 .. seen
    BY <1>4, StreamGrows, <1>1 DEF Judged
  <2>3. Reached(Stream', seen, h, stats["chain_ok"])
    BY <1>2, <2>1, <2>2 DEF Reached
  <2> QED BY <1>1, <1>4, <2>1, <2>3 DEF Following
<1> QED BY <1>3, <1>4

LEMMA FollowingAudit ==
  ASSUME Inv, Formed, Judged, Following, Audit
  PROVE  Following'
<1> DEFINE c == Stream[seen + 1]
           rec == Envelope(c)
<1>1. Stream \in Seq(Hashes) /\ Len(Stream) \in Nat /\ seen \in 0 .. Len(Stream)
  BY AllSentTyped, LenProperties DEF Judged, Stream
<1>2. /\ seen < Len(Stream) /\ seen' = seen + 1
      /\ VerifyEnvelope(rec) /\ UNCHANGED proverVars
  BY DEF Audit
<1>3. Stream' = Stream
  BY <1>2 DEF proverVars, kafkaVars, Stream
<1>4. \A k \in 1 .. seen + 1 : Stream[k] \in Hashes /\ Stream[k] # << >>
  <2> SUFFICES ASSUME NEW k \in 1 .. seen + 1
               PROVE  Stream[k] \in Hashes /\ Stream[k] # << >>
    OBVIOUS
  <2>1. k \in 1 .. Len(Stream)
    BY <1>1, <1>2
  <2>2. Stream[k] \in ToSet(Stream)
    BY <1>1, <2>1, LenProperties DEF ToSet
  <2>3. Stream[k] \in InFlight("committed")
    BY <2>2 DEF InFlight, Stream
  <2> QED BY <1>1, <2>1, <2>3, ElementOfSeq DEF Formed, Topics
<1>5. c \in Hashes /\ c # << >> /\ Stream[1] \in Hashes
      /\ seen + 1 \in 1 .. seen + 1 /\ 1 \in 1 .. seen + 1
  BY <1>1, <1>4
<1>6. ~FailsRecompute(rec) /\ rec.chain = c /\ rec.prev = Front(c)
  BY <1>5, EnvelopeRecomputes
<1>7. stats \in [Counters -> Nat] /\ "chain_ok" \in Counters
  BY DEF Judged, Counters
<1>8. stats'["chain_ok"] = IF ChainOk(rec) THEN stats["chain_ok"] + 1 ELSE stats["chain_ok"]
  <2>1. "chain_ok" \in Bumped(rec) <=> ChainOk(rec)
    BY DEF Bumped
  <2>2. stats' = [n \in Counters |->
                    IF n \in Bumped(rec) THEN stats[n] + 1 ELSE stats[n]]
    BY <1>2 DEF VerifyEnvelope
  <2> QED BY <1>7, <2>1, <2>2
<1>9. expectedPrev' = IF ChainOk(rec) THEN {c} ELSE expectedPrev
  BY <1>2, <1>6 DEF VerifyEnvelope
<1>10. ChainOk(rec) <=> expectedPrev = {} \/ Front(c) \in expectedPrev
  BY <1>6 DEF ChainOk, Follows
<1>11. seen' # 0
  BY <1>1, <1>2
<1>12. CASE seen = 0
  <2>1. ChainOk(rec) /\ expectedPrev' = {c}
    BY <1>9, <1>10, <1>12 DEF Following
  <2>2. c = Stream[1] /\ stats'["chain_ok"] = 1
    BY <1>8, <1>12, <2>1 DEF Following
  <2>3. Len(c) \in Nat /\ IsPrefix(c, c)
    BY <1>5, PrefixReflexive, LenProperties DEF Hashes
  <2>4. 1 = Len(c) - Len(Stream[1]) + 1
    BY <2>2, <2>3
  <2> HIDE DEF c
  <2>5. 1 \in 1 .. seen' /\ Stream'[1] = c
    BY <1>2, <1>3, <1>12, <2>2
  <2>6. Reached(Stream', seen', c, stats'["chain_ok"])
    BY <1>3, <2>2, <2>3, <2>4, <2>5 DEF Reached
  <2> QED BY <1>5, <1>11, <2>1, <2>6 DEF Following
<1>13. CASE seen # 0
  <2>1. PICK h \in Hashes : expectedPrev = {h} /\ Reached(Stream, seen, h, stats["chain_ok"])
    BY <1>13 DEF Following
  <2>2. PICK k \in 1 .. seen : Stream[k] = h
    BY <2>1 DEF Reached
  <2>3. k \in 1 .. seen + 1
    BY <1>1
  <2>4. ChainOk(rec) <=> Front(c) = h
    BY <1>10, <2>1
  <2>5. CASE ChainOk(rec)
    <3>1. Front(c) = h /\ IsPrefix(h, c)
      BY <1>5, <2>4, <2>5, FrontIsPrefix
    <3>2. IsPrefix(Stream[1], c)
      BY <1>5, <2>1, <3>1, PrefixTransitive DEF Reached
    <3>3. Len(h) = Len(c) - 1 /\ Len(c) \in Nat
      BY <1>5, <3>1, FrontIsShorter
    <3>4. Len(Stream[1]) \in Nat
      BY <1>5, LenProperties DEF Hashes
    <3>5. stats'["chain_ok"] = Len(c) - Len(Stream[1]) + 1
      <4>1. PICK n \in Nat, m \in Nat : n = Len(c) /\ m = Len(Stream[1])
        BY <3>3, <3>4
      <4>2. stats["chain_ok"] = (n - 1) - m + 1
        BY <2>1, <3>3, <4>1 DEF Reached
      <4>3. stats'["chain_ok"] = ((n - 1) - m + 1) + 1
        BY <1>8, <2>5, <4>2
      <4> HIDE DEF c
      <4> QED BY <4>1, <4>3
    <3>6. \E i \in 1 .. seen' : Stream'[i] = c
      BY <1>2, <1>3, <1>5
    <3> HIDE DEF c
    <3>7. Reached(Stream', seen', c, stats'["chain_ok"])
      BY <1>3, <3>2, <3>5, <3>6 DEF Reached
    <3>8. expectedPrev' = {c}
      BY <1>9, <2>5
    <3> QED BY <1>5, <1>11, <3>7, <3>8 DEF Following
  <2>6. CASE ~ChainOk(rec)
    <3>1. expectedPrev' = {h} /\ stats'["chain_ok"] = stats["chain_ok"]
      BY <1>8, <1>9, <2>1, <2>6
    <3>2. Reached(Stream', seen', h, stats'["chain_ok"])
      BY <1>2, <1>3, <2>1, <2>2, <2>3, <3>1 DEF Reached
    <3> QED BY <1>11, <3>1, <3>2 DEF Following
  <2> QED BY <2>5, <2>6
<1> QED BY <1>12, <1>13

LEMMA FollowingNext ==
  Inv /\ Formed /\ Judged /\ Following /\ [Next]_vars
    => (Inv /\ Formed /\ Judged /\ Following)'
<1> SUFFICES ASSUME Inv, Formed, Judged, Following, [Next]_vars
             PROVE  Following'
  BY JudgedNext
<1>1. CASE Prover
  BY <1>1, FollowingProver
<1>2. CASE Audit
  BY <1>2, FollowingAudit
<1>3. CASE InstallKey \/ UNCHANGED vars
  <2>1. UNCHANGED <<Stream, seen, expectedPrev, stats>>
    BY <1>3 DEF InstallKey, SetPublicKey, vars, verifierVars, proverVars, kafkaVars, Stream
  <2> QED BY <2>1 DEF Following
<1> QED BY <1>1, <1>2, <1>3 DEF Next

(* Whatever was lost, repeated or reordered and however often the chain    *)
(* was forked, the records accepted are consecutive links of one chain,    *)
(* each counted once, from the record received first to the tracked head;  *)
(* and that chain is in the ledger to stay, unless a save failed.          *)
AcceptedIsOneChain ==
  \A h \in expectedPrev :
    /\ Reached(Stream, seen, h, stats["chain_ok"])
    /\ unsaved = {} => IsPrefix(h, stable)

(* A verifier that has met a break goes on where it was: it accepts        *)
(* nothing twice and nothing of another chain (verify.py:173-183).         *)
THEOREM AcceptedStaysOneChain == Spec => []AcceptedIsOneChain
<1>1. Init => Inv /\ Formed /\ Judged /\ Following
  <2> SUFFICES ASSUME Init PROVE Following
    BY JudgedInit
  <2>1. VerifierInit /\ seen = 0
    BY DEF Init
  <2> QED BY <2>1 DEF Following, VerifierInit, NoStats, Counters
<1>2. Inv /\ Judged /\ Following => AcceptedIsOneChain
  <2> SUFFICES ASSUME Inv, Judged, Following, NEW h \in expectedPrev
               PROVE  /\ Reached(Stream, seen, h, stats["chain_ok"])
                      /\ unsaved = {} => IsPrefix(h, stable)
    BY DEF AcceptedIsOneChain
  <2>1. Reached(Stream, seen, h, stats["chain_ok"])
    BY DEF Following
  <2>2. PICK k \in 1 .. seen : Stream[k] = h
    BY <2>1 DEF Reached
  <2>3. Stream \in Seq(Hashes) /\ Len(Stream) \in Nat /\ seen \in 0 .. Len(Stream)
    BY AllSentTyped, LenProperties DEF Judged, Stream
  <2>4. h \in ToSet(Stream)
    BY <2>2, <2>3, LenProperties DEF ToSet
  <2>5. h \in InFlight("committed")
    BY <2>4 DEF InFlight, Stream
  <2> QED BY <2>1, <2>5 DEF Inv, PublishedIsDurable, Topics
<1> QED BY <1>1, <1>2, FollowingNext, PTL DEF Spec
=============================================================================
