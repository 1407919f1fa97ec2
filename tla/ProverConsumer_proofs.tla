----------------------- MODULE ProverConsumer_proofs -----------------------
(***************************************************************************)
(* Proofs about ProverConsumer, for every raw topic, batch size and number *)
(* of crashes, shutdowns, evictions and network faults.                    *)
(***************************************************************************)
EXTENDS ProverConsumer, SequenceTheorems, FiniteSetTheorems, TLAPS

USE DEF lostVars

-----------------------------------------------------------------------------
(* The inductive invariant.  Placed says where in the polled batch the     *)
(* loop is; AtHand what became of the record between add() and the end of  *)
(* the message; Covered that whatever the loop or the group is past is     *)
(* accounted for.                                                          *)
Settled(i) == Accepted(i) => i \in LedgerTxns \cup Lost

Placed ==
  /\ crashes \in Nat /\ stops \in Nat /\ faults \in Nat /\ rejoins \in Nat
  /\ clock \in Nat
  /\ offset <= position
  /\ pc = "poll" => next = position
  /\ pc \in {"process", "persist", "publish", "alert"} => next < position

AtHand ==
  /\ IsPrefix(stable, log)
  /\ pc \in {"persist", "publish", "alert"} =>
       log # << >> /\ Last(log).txn = next + 1
  /\ pc \in {"publish", "alert"} =>
       /\ next + 1 \in LedgerTxns \cup unsaved
       /\ unsaved = {} => log = stable

Covered == \A i \in 1 .. Raw : i <= next \/ i <= offset => Settled(i)

TypedAndPlaced == ProverTypeOK /\ Placed

Inv == TypedAndPlaced /\ AtHand /\ Covered /\ PublishedIsDurable

-----------------------------------------------------------------------------
(* A prefix, position by position.                                         *)
LEMMA PrefixByPosition ==
  ASSUME NEW g \in Hashes, NEW h \in Hashes
  PROVE  IsPrefix(g, h) <=> Len(g) <= Len(h) /\ \A k \in 1 .. Len(g) : g[k] = h[k]
<1>1. /\ Len(g) \in Nat /\ Len(h) \in Nat
      /\ DOMAIN g = 1 .. Len(g) /\ DOMAIN h = 1 .. Len(h)
      /\ \A k \in 1 .. Len(g) : g[k] \in Links
      /\ \A k \in 1 .. Len(h) : h[k] \in Links
  BY LenProperties, ElementOfSeq DEF Hashes
<1>2. SubSeq(g, 1, Len(g)) = g
  BY SubSeqFull DEF Hashes
<1>3. CASE Len(g) <= Len(h)
  <2> DEFINE f == SubSeq(h, 1, Len(g))
  <2>1. \A k \in 1 .. Len(g) : h[k] \in Links
    BY <1>1, <1>3
  <2>2. /\ f \in Seq(Links) /\ Len(f) = Len(g)
        /\ \A k \in 1 .. Len(g) : f[k] = h[k]
    <3> HIDE DEF f
    <3>1. /\ f \in Seq(Links)
          /\ Len(f) = IF 1 <= Len(g) THEN Len(g) - 1 + 1 ELSE 0
          /\ \A k \in 1 .. Len(g) - 1 + 1 : f[k] = h[1 + k - 1]
      BY <1>1, <2>1, SubSeqProperties DEF f
    <3> QED BY <1>1, <3>1
  <2>3. f = g <=> \A k \in 1 .. Len(g) : g[k] = h[k]
    <3> HIDE DEF f
    <3>1. g \in Seq(Links)
      BY DEF Hashes
    <3> QED BY <1>1, <2>2, <3>1, SeqEqual
  <2> QED BY <1>2, <1>3, <2>3 DEF IsPrefix
<1>4. CASE ~(Len(g) <= Len(h))
  BY <1>4 DEF IsPrefix
<1> QED BY <1>3, <1>4

LEMMA PrefixReflexive ==
  ASSUME NEW h \in Hashes
  PROVE  IsPrefix(h, h)
BY PrefixByPosition, LenProperties DEF Hashes

LEMMA PrefixTransitive ==
  ASSUME NEW f \in Hashes, NEW g \in Hashes, NEW h \in Hashes,
         IsPrefix(f, g), IsPrefix(g, h)
  PROVE  IsPrefix(f, h)
<1>1. Len(f) \in Nat /\ Len(g) \in Nat /\ Len(h) \in Nat
  BY LenProperties DEF Hashes
<1>2. Len(f) <= Len(g) /\ \A k \in 1 .. Len(f) : f[k] = g[k]
  BY PrefixByPosition
<1>3. Len(g) <= Len(h) /\ \A k \in 1 .. Len(g) : g[k] = h[k]
  BY PrefixByPosition
<1>4. Len(f) <= Len(h) /\ \A k \in 1 .. Len(f) : f[k] = h[k]
  BY <1>1, <1>2, <1>3
<1> QED BY <1>4, PrefixByPosition

(* One more link: the chain grows, and its last link is the new one.       *)
LEMMA OneMoreLink ==
  ASSUME NEW h \in Hashes, NEW t \in Txns, NEW n \in Nat
  PROVE  LET c == ChainHash(h, t, n)
         IN  /\ c \in Hashes /\ c # << >>
             /\ Last(c).txn = t
             /\ \A g \in Hashes : IsPrefix(g, h) => IsPrefix(g, c)
<1> DEFINE link == [txn |-> t, ts |-> n]
           c == ChainHash(h, t, n)
<1>1. link \in Links /\ link.txn = t
  BY DEF Links
<1>2. /\ c \in Seq(Links) /\ Len(c) = Len(h) + 1 /\ c[Len(h) + 1] = link
      /\ \A k \in 1 .. Len(h) : c[k] = h[k]
  BY <1>1, AppendProperties DEF ChainHash, Hashes
<1>3. Len(h) \in Nat /\ c \in Hashes
  BY <1>2, LenProperties DEF Hashes
<1>4. c # << >> /\ Last(c) = link
  BY <1>2, <1>3 DEF Last
<1>5. ASSUME NEW g \in Hashes, IsPrefix(g, h)
      PROVE  IsPrefix(g, c)
  <2> HIDE DEF c
  <2>1. Len(g) \in Nat
    BY LenProperties DEF Hashes
  <2>2. Len(g) <= Len(h) /\ \A k \in 1 .. Len(g) : g[k] = h[k]
    BY <1>5, PrefixByPosition
  <2>3. Len(g) <= Len(c) /\ \A k \in 1 .. Len(g) : g[k] = c[k]
    BY <1>2, <1>3, <2>1, <2>2
  <2> QED BY <1>3, <2>3, PrefixByPosition
<1> QED BY <1>1, <1>3, <1>4, <1>5

(* The transactions of a prefix are transactions of the chain.             *)
LEMMA PrefixTxns ==
  ASSUME NEW g \in Hashes, NEW h \in Hashes, IsPrefix(g, h)
  PROVE  {g[k].txn : k \in DOMAIN g} \subseteq {h[k].txn : k \in DOMAIN h}
<1>1. /\ Len(g) \in Nat /\ Len(h) \in Nat
      /\ DOMAIN g = 1 .. Len(g) /\ DOMAIN h = 1 .. Len(h)
  BY LenProperties DEF Hashes
<1>2. Len(g) <= Len(h) /\ \A k \in 1 .. Len(g) : g[k] = h[k]
  BY PrefixByPosition
<1> QED BY <1>1, <1>2

LEMMA LastTxn ==
  ASSUME NEW h \in Hashes, h # << >>
  PROVE  Last(h).txn \in {h[k].txn : k \in DOMAIN h}
<1>1. Len(h) \in Nat \ {0} /\ DOMAIN h = 1 .. Len(h)
  BY LenProperties, EmptySeq DEF Hashes
<1> QED BY <1>1 DEF Last

-----------------------------------------------------------------------------
(* What the operations of the producer do to a queue of envelopes.         *)
LEMMA Appended ==
  ASSUME NEW s \in Seq(Hashes), NEW e \in Hashes
  PROVE  Append(s, e) \in Seq(Hashes) /\ ToSet(Append(s, e)) = ToSet(s) \cup {e}
<1> DEFINE a == Append(s, e)
<1>1. /\ a \in Seq(Hashes) /\ Len(a) = Len(s) + 1 /\ a[Len(s) + 1] = e
      /\ \A k \in 1 .. Len(s) : a[k] = s[k]
  BY AppendProperties
<1> HIDE DEF a
<1>2. Len(s) \in Nat /\ DOMAIN s = 1 .. Len(s) /\ DOMAIN a = 1 .. Len(a)
  BY <1>1, LenProperties
<1>3. ToSet(a) = ToSet(s) \cup {e}
  BY <1>1, <1>2 DEF ToSet
<1> QED BY <1>1, <1>3 DEF a

LEMMA HeadTaken ==
  ASSUME NEW s \in Seq(Hashes), s # << >>
  PROVE  /\ Head(s) \in Hashes /\ Tail(s) \in Seq(Hashes)
         /\ Head(s) \in ToSet(s) /\ ToSet(Tail(s)) \subseteq ToSet(s)
<1> DEFINE tl == Tail(s)
<1>1. /\ Head(s) \in Hashes /\ tl \in Seq(Hashes) /\ Len(tl) = Len(s) - 1
      /\ \A k \in 1 .. Len(tl) : tl[k] = s[k + 1]
  BY HeadTailProperties
<1>2. Head(s) = s[1]
  OBVIOUS
<1> HIDE DEF tl
<1>3. Len(s) \in Nat \ {0} /\ DOMAIN s = 1 .. Len(s) /\ DOMAIN tl = 1 .. Len(tl)
  BY <1>1, LenProperties, EmptySeq
<1>4. Head(s) \in ToSet(s)
  BY <1>2, <1>3 DEF ToSet
<1>5. ToSet(tl) \subseteq ToSet(s)
  BY <1>1, <1>3 DEF ToSet
<1> QED BY <1>1, <1>4, <1>5 DEF tl

LEMMA SecondTaken ==
  ASSUME NEW s \in Seq(Hashes), Len(s) > 1
  PROVE  /\ s[2] \in Hashes /\ RemoveAt(s, 2) \in Seq(Hashes)
         /\ s[2] \in ToSet(s) /\ ToSet(RemoveAt(s, 2)) \subseteq ToSet(s)
<1> DEFINE first == SubSeq(s, 1, 1)
           rest == SubSeq(s, 3, Len(s))
           r == first \o rest
<1>1. /\ Len(s) \in Nat /\ DOMAIN s = 1 .. Len(s)
      /\ \A k \in 1 .. Len(s) : s[k] \in Hashes
  BY LenProperties, ElementOfSeq
<1>2. first \in Seq(Hashes) /\ Len(first) = 1 /\ first[1] = s[1]
  <2>1. \A k \in 1 .. 1 : s[k] \in Hashes
    BY <1>1
  <2>2. /\ first \in Seq(Hashes) /\ Len(first) = (IF 1 <= 1 THEN 1 - 1 + 1 ELSE 0)
        /\ \A k \in 1 .. 1 - 1 + 1 : first[k] = s[1 + k - 1]
    BY <2>1, SubSeqProperties
  <2> QED BY <2>2
<1>3. /\ rest \in Seq(Hashes) /\ Len(rest) = Len(s) - 2
      /\ \A k \in 1 .. Len(rest) : rest[k] = s[k + 2]
  <2>1. \A k \in 3 .. Len(s) : s[k] \in Hashes
    BY <1>1
  <2>2. /\ rest \in Seq(Hashes)
        /\ Len(rest) = (IF 3 <= Len(s) THEN Len(s) - 3 + 1 ELSE 0)
        /\ \A k \in 1 .. Len(s) - 3 + 1 : rest[k] = s[3 + k - 1]
    BY <1>1, <2>1, SubSeqProperties
  <2> HIDE DEF rest
  <2>3. Len(rest) = Len(s) - 2
    <3>1. Len(rest) = IF 3 <= Len(s) THEN Len(s) - 3 + 1 ELSE 0
      BY <2>2
    <3>2. Len(s) = 2 \/ 3 <= Len(s)
      BY <1>1
    <3>3. Len(s) \in Nat
      BY <1>1
    <3> QED BY <3>1, <3>2, <3>3
  <2>4. \A k \in 1 .. Len(rest) : rest[k] = s[k + 2]
    <3> SUFFICES ASSUME NEW k \in 1 .. Len(rest)
                 PROVE  rest[k] = s[k + 2]
      OBVIOUS
    <3>1. k \in 1 .. Len(s) - 3 + 1 /\ 3 + k - 1 = k + 2
      BY <1>1, <2>3
    <3> QED BY <2>2, <3>1
  <2> QED BY <2>2, <2>3, <2>4
<1> HIDE DEF first, rest
<1>4. /\ r \in Seq(Hashes) /\ Len(r) = Len(first) + Len(rest)
      /\ \A k \in 1 .. Len(first) + Len(rest) :
           r[k] = IF k <= Len(first) THEN first[k] ELSE rest[k - Len(first)]
  BY <1>2, <1>3, ConcatProperties
<1>5. RemoveAt(s, 2) = r
  BY DEF RemoveAt, first, rest
<1> HIDE DEF r
<1>6. DOMAIN r = 1 .. Len(r)
  BY <1>4, LenProperties
<1>7. \A k \in DOMAIN r : \E j \in DOMAIN s : r[k] = s[j]
  <2> SUFFICES ASSUME NEW k \in DOMAIN r
               PROVE  \E j \in DOMAIN s : r[k] = s[j]
    OBVIOUS
  <2>1. CASE k = 1
    <3>1. r[k] = s[1]
      BY <1>2, <1>4, <1>6, <2>1
    <3>2. 1 \in DOMAIN s
      BY <1>1
    <3> QED BY <3>1, <3>2
  <2>2. CASE k > 1
    <3>1. k - 1 \in 1 .. Len(rest) /\ r[k] = rest[k - 1]
      BY <1>1, <1>2, <1>3, <1>4, <1>6, <2>2
    <3>2. r[k] = s[k + 1] /\ k + 1 \in DOMAIN s
      BY <1>1, <1>2, <1>3, <1>4, <1>6, <3>1
    <3> QED BY <3>2
  <2> QED BY <1>6, <2>1, <2>2
<1>8. ToSet(r) \subseteq ToSet(s) /\ s[2] \in ToSet(s)
  BY <1>1, <1>7 DEF ToSet
<1> QED BY <1>1, <1>4, <1>5, <1>8

-----------------------------------------------------------------------------
(* Types, and the place in the batch.                                      *)
LEMMA NoHashYet == << >> \in Hashes /\ << >> \in Seq(Hashes)
BY EmptySeq DEF Hashes

LEMMA TypedInit == ProverInit => TypedAndPlaced
<1> SUFFICES ASSUME ProverInit PROVE TypedAndPlaced
  OBVIOUS
<1>1. log = << >> /\ stable = << >>
  BY DEF ProverInit, Log!Init
<1>2. Raw \in Nat /\ RawKinds \subseteq Kinds /\ MaxTroubles \in Nat
  BY MessagesAssumption, BoundAssumption
<1>3. /\ raw \in [1 .. Raw -> Kinds]
      /\ log \in Hashes /\ stable \in Hashes
      /\ outbox \in [Topics -> Seq(Hashes)] /\ topic \in [Topics -> Seq(Hashes)]
      /\ tally \in [Tallies -> Nat] /\ since \in [Marks -> Nat]
  BY <1>1, <1>2, NoHashYet DEF ProverInit
<1>4. /\ offset \in 0 .. Raw /\ next \in 0 .. Raw /\ position \in next .. Raw
      /\ crashes + stops + faults + rejoins \in 0 .. MaxTroubles
  BY <1>2 DEF ProverInit
<1>5. ProverTypeOK
  BY <1>3, <1>4 DEF ProverInit, ProverTypeOK, PCs
<1>6. Placed
  BY DEF ProverInit, Placed
<1> QED BY <1>5, <1>6 DEF TypedAndPlaced

LEMMA TypedCount ==
  ASSUME TypedAndPlaced, NEW counters, Count(counters)
  PROVE  tally' \in [Tallies -> Nat]
BY DEF TypedAndPlaced, ProverTypeOK, Count

LEMMA TypedMarked ==
  ASSUME TypedAndPlaced, NEW mark \in Marks, NEW n \in Nat, Marked(mark, n)
  PROVE  since' \in [Marks -> Nat]
<1>1. since \in [Marks -> Nat]
  BY DEF TypedAndPlaced, ProverTypeOK
<1>2. since[mark] + n \in Nat
  BY <1>1
<1> QED BY <1>1, <1>2 DEF Marked

LEMMA TypedSent ==
  ASSUME TypedAndPlaced, NEW t \in Topics
  PROVE  Sent(t) => outbox' \in [Topics -> Seq(Hashes)]
<1>1. outbox[t] \in Seq(Hashes) /\ log \in Hashes
  BY DEF TypedAndPlaced, ProverTypeOK
<1>2. Append(outbox[t], log) \in Seq(Hashes)
  BY <1>1, Appended
<1> QED BY <1>2 DEF TypedAndPlaced, ProverTypeOK, Sent

(* The end of a message, or of the batch.                                  *)
LEMMA TypedDone ==
  ASSUME TypedAndPlaced, next < position, Done, UNCHANGED <<position, offset>>,
         UNCHANGED <<crashes, stops, faults, rejoins, clock>>
  PROVE  /\ next' \in 0 .. Raw /\ position' \in next' .. Raw
         /\ offset' \in 0 .. Raw
         /\ pc' \in PCs /\ Placed'
<1>1. /\ Raw \in Nat /\ offset \in 0 .. Raw /\ next \in 0 .. Raw
      /\ position \in next .. Raw
  BY MessagesAssumption DEF TypedAndPlaced, ProverTypeOK
<1>2. next' = next + 1 /\ position' = position /\ offset' = offset
  BY DEF Done
<1>3. next' \in 0 .. Raw /\ position' \in next' .. Raw
  BY <1>1, <1>2
<1>4. CASE next + 1 < position
  <2>1. pc' = "process"
    BY <1>4 DEF Done
  <2> QED BY <1>1, <1>2, <1>3, <1>4, <2>1 DEF PCs, Placed, TypedAndPlaced
<1>5. CASE ~(next + 1 < position)
  <2>1. pc' \in {"poll", "done"} /\ next' = position'
    BY <1>1, <1>2, <1>5 DEF Done, LoopTest
  <2> QED BY <1>1, <1>2, <1>3, <2>1 DEF PCs, Placed, TypedAndPlaced
<1> QED BY <1>4, <1>5

(* One more trouble stays within the bound.                                *)
LEMMA OneMoreTrouble ==
  ASSUME TypedAndPlaced, Trouble
  PROVE  crashes + stops + faults + rejoins + 1 \in 0 .. MaxTroubles
BY BoundAssumption DEF TypedAndPlaced, ProverTypeOK, Placed, Trouble

LEMMA TypedPoll ==
  ASSUME TypedAndPlaced,
         FetchNothing \/ PollRaises \/ \E n \in 1 .. MaxPoll : Fetch(n)
  PROVE  TypedAndPlaced'
<1> USE DEF TypedAndPlaced
<1>1. /\ Raw \in Nat /\ offset \in 0 .. Raw /\ next \in 0 .. Raw
      /\ position \in next .. Raw /\ offset <= position
  BY MessagesAssumption DEF ProverTypeOK, Placed
<1>2. CASE FetchNothing \/ PollRaises
  <2>1. /\ next = position /\ offset' \in {offset, position}
        /\ pc' \in {"poll", "done"} /\ UNCHANGED <<next, position>>
        /\ UNCHANGED <<raw, ledgerVars, kafkaVars, lifeVars, faults, rejoins, lostVars>>
    BY <1>2 DEF FetchNothing, PollRaises, LoopTest, Placed, pastVars
  <2>2. tally' \in [Tallies -> Nat] /\ since' \in [Marks -> Nat]
    <3>1. CASE FetchNothing
      BY <3>1 DEF FetchNothing, ProverTypeOK, pastVars
    <3>2. CASE PollRaises
      <4>1. Count({"errors"}) /\ Marked("raised", 1) /\ "raised" \in Marks /\ 1 \in Nat
        BY <3>2 DEF PollRaises, Marks
      <4> QED BY <4>1, TypedCount, TypedMarked
    <3> QED BY <1>2, <3>1, <3>2
  <2>3. offset' \in 0 .. Raw /\ offset' <= position
    BY <1>1, <2>1
  <2>4. ProverTypeOK'
    BY <1>1, <2>1, <2>2, <2>3 DEF ProverTypeOK, PCs, ledgerVars, kafkaVars, lifeVars
  <2>5. Placed'
    BY <1>1, <2>1, <2>3 DEF Placed, ledgerVars, lifeVars
  <2> QED BY <2>4, <2>5
<1>3. ASSUME NEW n \in 1 .. MaxPoll, Fetch(n)
      PROVE  TypedAndPlaced'
  <2>1. n \in Nat /\ n > 0
    BY PollAssumption
  <2>2. /\ next = position /\ offset' \in {offset, position}
        /\ position' = position + n /\ position + n <= Raw
        /\ pc' = "process" /\ UNCHANGED next
        /\ UNCHANGED <<raw, ledgerVars, kafkaVars, lifeVars, tally, faults, rejoins,
                       lostVars>>
    BY <1>3 DEF Fetch, Placed
  <2>3. since' \in [Marks -> Nat]
    <3>1. Marked("polled", n) /\ "polled" \in Marks
      BY <1>3 DEF Fetch, Marks
    <3> QED BY <2>1, <3>1, TypedMarked
  <2>4. ProverTypeOK'
    BY <1>1, <2>1, <2>2, <2>3 DEF ProverTypeOK, PCs, ledgerVars, kafkaVars, lifeVars
  <2>5. Placed'
    BY <1>1, <2>1, <2>2 DEF Placed, ledgerVars, lifeVars
  <2> QED BY <2>4, <2>5
<1> QED BY <1>2, <1>3

(* A consumer that joins again is where the group says.                    *)
LEMMA TypedRejoin ==
  ASSUME TypedAndPlaced, Rejoin
  PROVE  TypedAndPlaced'
<1> USE DEF TypedAndPlaced
<1>1. Raw \in Nat /\ offset \in 0 .. Raw
  BY MessagesAssumption DEF ProverTypeOK
<1>2. rejoins' \in Nat /\ crashes + stops + faults + rejoins' \in 0 .. MaxTroubles
  BY OneMoreTrouble DEF Rejoin, Placed
<1>3. /\ next' = offset /\ position' = offset /\ offset' = offset
      /\ pc = "poll" /\ pc' = pc
      /\ UNCHANGED <<raw, ledgerVars, kafkaVars, lifeVars, tally, faults, lostVars,
                     since>>
  BY DEF Rejoin
<1>4. ProverTypeOK'
  BY <1>1, <1>2, <1>3 DEF ProverTypeOK, ledgerVars, kafkaVars, lifeVars
<1>5. Placed'
  BY <1>1, <1>2, <1>3 DEF Placed, ledgerVars, lifeVars
<1> QED BY <1>4, <1>5

LEMMA TypedReject ==
  ASSUME TypedAndPlaced, Reject
  PROVE  TypedAndPlaced'
<1>1. next < position /\ Done /\ UNCHANGED <<position, offset>>
      /\ UNCHANGED <<crashes, stops, faults, rejoins, clock>>
  BY DEF Reject, TypedAndPlaced, Placed, lifeVars, pastVars, ledgerVars
<1>2. tally' \in [Tallies -> Nat]
  BY TypedCount DEF Reject
<1>3. /\ next' \in 0 .. Raw /\ position' \in next' .. Raw /\ offset' \in 0 .. Raw
      /\ pc' \in PCs /\ Placed'
  BY <1>1, TypedDone
<1>4. ProverTypeOK'
  BY <1>2, <1>3 DEF ProverTypeOK, TypedAndPlaced, Reject, ledgerVars, kafkaVars,
    lifeVars, pastVars
<1> QED BY <1>3, <1>4 DEF TypedAndPlaced

LEMMA TypedAbandon ==
  ASSUME TypedAndPlaced, Abandon
  PROVE  /\ TypedAndPlaced'
         /\ next' = position /\ next \in Nat /\ position \in Nat
         /\ position - (next + 1) \in Nat
<1> USE DEF TypedAndPlaced
<1>1. /\ Raw \in Nat /\ Txns = 1 .. Raw /\ next \in 0 .. Raw
      /\ position \in next .. Raw /\ next < position
  BY MessagesAssumption DEF ProverTypeOK, Placed, Abandon
<1>2. position - (next + 1) \in Nat /\ next + 2 .. position \subseteq Txns
  BY <1>1
<1>3. /\ next' = position /\ pc' \in {"poll", "done"}
      /\ abandoned' = abandoned \cup (next + 2 .. position)
      /\ UNCHANGED <<raw, offset, position, ledgerVars, kafkaVars, lifeVars, faults,
                     rejoins, unsaved, cut>>
  BY DEF Abandon, LoopTest
<1>4. tally' \in [Tallies -> Nat] /\ since' \in [Marks -> Nat]
  <2>1. /\ Count({"errors"}) /\ Marked("abandoned", position - (next + 1))
        /\ "abandoned" \in Marks
    BY DEF Abandon, Marks
  <2> QED BY <1>2, <2>1, TypedCount, TypedMarked
<1>5. /\ next' \in 0 .. Raw /\ position' \in next' .. Raw
      /\ abandoned' \subseteq Txns
  BY <1>1, <1>2, <1>3 DEF ProverTypeOK
<1>6. ProverTypeOK'
  BY <1>3, <1>4, <1>5 DEF ProverTypeOK, PCs, ledgerVars, kafkaVars, lifeVars
<1>7. Placed'
  BY <1>1, <1>3 DEF Placed, ledgerVars, lifeVars
<1> QED BY <1>1, <1>2, <1>3, <1>6, <1>7

LEMMA TypedAdd ==
  ASSUME TypedAndPlaced, Add
  PROVE  /\ TypedAndPlaced' /\ next + 1 \in Txns
         /\ log' # << >> /\ Last(log').txn = next + 1
         /\ \A g \in Hashes : IsPrefix(g, log) => IsPrefix(g, log')
<1>1. /\ Raw \in Nat /\ Txns = 1 .. Raw /\ next \in 0 .. Raw
      /\ position \in next .. Raw /\ next < position
      /\ clock \in Nat /\ log \in Hashes
  BY MessagesAssumption DEF TypedAndPlaced, ProverTypeOK, Placed, Add
<1>2. next + 1 \in Txns /\ clock + 1 \in Nat
  BY <1>1
<1>3. log' = ChainHash(log, next + 1, clock + 1)
  BY DEF Add
<1>4. /\ log' \in Hashes /\ log' # << >> /\ Last(log').txn = next + 1
      /\ \A g \in Hashes : IsPrefix(g, log) => IsPrefix(g, log')
  BY <1>1, <1>2, <1>3, OneMoreLink
<1>5. ProverTypeOK'
  BY <1>4 DEF ProverTypeOK, TypedAndPlaced, Add, PCs, feedVars, kafkaVars,
    lifeVars, pastVars
<1>6. Placed'
  BY <1>1 DEF Placed, TypedAndPlaced, Add, feedVars, lifeVars, pastVars
<1> QED BY <1>2, <1>4, <1>5, <1>6 DEF TypedAndPlaced

LEMMA TypedPersist ==
  ASSUME TypedAndPlaced, Save \/ SaveFails
  PROVE  TypedAndPlaced' /\ next + 1 \in Txns
<1>1. /\ Raw \in Nat /\ Txns = 1 .. Raw /\ next \in 0 .. Raw
      /\ position \in next .. Raw /\ next < position
  BY MessagesAssumption DEF TypedAndPlaced, ProverTypeOK, Placed, Save, SaveFails
<1>2. next + 1 \in Txns
  BY <1>1
<1>3. CASE Save
  BY <1>1, <1>2, <1>3 DEF TypedAndPlaced, ProverTypeOK, Placed, Save, PCs,
    Log!Stabilise, feedVars, kafkaVars, lifeVars, pastVars
<1>4. CASE SaveFails
  BY <1>1, <1>2, <1>4 DEF TypedAndPlaced, ProverTypeOK, Placed, SaveFails, PCs,
    feedVars, ledgerVars, kafkaVars, lifeVars
<1> QED BY <1>3, <1>4

LEMMA TypedPublish ==
  ASSUME TypedAndPlaced, Publish \/ Alert
  PROVE  TypedAndPlaced'
<1>1. /\ next < position /\ UNCHANGED <<position, offset, raw, topic, running,
         halted, handles, log, stable, clock, crashes, stops, faults,
         rejoins, lostVars, since>>
  BY DEF Publish, Alert, TypedAndPlaced, Placed, lifeVars, pastVars, ledgerVars
<1>2. outbox' \in [Topics -> Seq(Hashes)]
  BY TypedSent DEF Publish, Alert, Topics
<1>3. tally' \in [Tallies -> Nat]
  BY TypedCount DEF Publish, Alert
<1>4. /\ next' \in 0 .. Raw /\ position' \in next' .. Raw /\ offset' \in 0 .. Raw
      /\ pc' \in PCs /\ Placed'
  <2>1. CASE Done
    BY <1>1, <2>1, TypedDone
  <2>2. CASE pc' = "alert" /\ UNCHANGED next
    BY <1>1, <2>2 DEF TypedAndPlaced, ProverTypeOK, Placed, PCs
  <2> QED BY <2>1, <2>2 DEF Publish, Alert
<1>5. ProverTypeOK'
  BY <1>1, <1>2, <1>3, <1>4 DEF ProverTypeOK, TypedAndPlaced
<1> QED BY <1>4, <1>5 DEF TypedAndPlaced

(* A delivery only moves envelopes from an accumulator to its topic.       *)
LEMMA NetworkMoves ==
  ASSUME TypedAndPlaced, Network
  PROVE  /\ outbox' \in [Topics -> Seq(Hashes)]
         /\ topic' \in [Topics -> Seq(Hashes)]
         /\ \A t \in Topics : InFlight(t)' \subseteq InFlight(t)
         /\ UNCHANGED <<feedVars, ledgerVars, lifeVars, pc, tally, rejoins,
                        lostVars, since>>
         /\ faults' = faults \/ Fault
<1>1. PICK t \in Topics : Deliver(t) \/ Lose(t) \/ DeliverAgain(t) \/ DeliverSecond(t)
  BY DEF Network
<1>2. /\ outbox \in [Topics -> Seq(Hashes)] /\ topic \in [Topics -> Seq(Hashes)]
      /\ outbox[t] \in Seq(Hashes) /\ topic[t] \in Seq(Hashes)
  BY DEF TypedAndPlaced, ProverTypeOK
<1>3. /\ UNCHANGED <<feedVars, ledgerVars, lifeVars, pc, tally, rejoins,
                        lostVars, since>>
      /\ faults' = faults \/ Fault
  BY <1>1 DEF Deliver, Lose, DeliverAgain, DeliverSecond, Fault, pastVars
<1>4. ASSUME NEW kept \in Seq(Hashes), NEW held \in Seq(Hashes),
             ToSet(kept) \subseteq ToSet(outbox[t]),
             ToSet(held) \subseteq ToSet(topic[t]) \cup ToSet(outbox[t]),
             outbox' = [outbox EXCEPT ![t] = kept],
             topic' = [topic EXCEPT ![t] = held]
      PROVE  /\ outbox' \in [Topics -> Seq(Hashes)]
             /\ topic' \in [Topics -> Seq(Hashes)]
             /\ \A u \in Topics : InFlight(u)' \subseteq InFlight(u)
  <2>1. /\ outbox' \in [Topics -> Seq(Hashes)] /\ topic' \in [Topics -> Seq(Hashes)]
        /\ outbox'[t] = kept /\ topic'[t] = held
        /\ \A u \in Topics \ {t} : outbox'[u] = outbox[u] /\ topic'[u] = topic[u]
    BY <1>2, <1>4
  <2>2. \A u \in Topics : InFlight(u)' = ToSet(topic'[u]) \cup ToSet(outbox'[u])
    BY DEF InFlight
  <2> QED BY <1>4, <2>1, <2>2 DEF InFlight
<1>5. outbox = [outbox EXCEPT ![t] = outbox[t]] /\ topic = [topic EXCEPT ![t] = topic[t]]
  BY <1>2
<1>6. ASSUME outbox[t] # << >>
      PROVE  /\ Head(outbox[t]) \in Hashes /\ Tail(outbox[t]) \in Seq(Hashes)
             /\ ToSet(Tail(outbox[t])) \subseteq ToSet(outbox[t])
             /\ Append(topic[t], Head(outbox[t])) \in Seq(Hashes)
             /\ ToSet(Append(topic[t], Head(outbox[t])))
                  \subseteq ToSet(topic[t]) \cup ToSet(outbox[t])
  BY <1>2, <1>6, HeadTaken, Appended
<1>7. CASE Deliver(t)
  <2>1. /\ outbox[t] # << >> /\ outbox' = [outbox EXCEPT ![t] = Tail(outbox[t])]
        /\ topic' = [topic EXCEPT ![t] = Append(topic[t], Head(outbox[t]))]
    BY <1>7 DEF Deliver
  <2> QED BY <1>3, <1>4, <1>6, <2>1
<1>8. CASE Lose(t)
  <2>1. /\ outbox[t] # << >> /\ outbox' = [outbox EXCEPT ![t] = Tail(outbox[t])]
        /\ topic' = topic
    BY <1>8 DEF Lose
  <2> QED BY <1>2, <1>3, <1>4, <1>5, <1>6, <2>1
<1>9. CASE DeliverAgain(t)
  <2>1. /\ outbox[t] # << >> /\ outbox' = outbox
        /\ topic' = [topic EXCEPT ![t] = Append(topic[t], Head(outbox[t]))]
    BY <1>9 DEF DeliverAgain
  <2> QED BY <1>2, <1>3, <1>4, <1>5, <1>6, <2>1
<1>10. CASE DeliverSecond(t)
  <2>1. /\ Len(outbox[t]) > 1
        /\ outbox' = [outbox EXCEPT ![t] = RemoveAt(outbox[t], 2)]
        /\ topic' = [topic EXCEPT ![t] = Append(topic[t], outbox[t][2])]
    BY <1>10 DEF DeliverSecond
  <2>2. /\ outbox[t][2] \in Hashes /\ RemoveAt(outbox[t], 2) \in Seq(Hashes)
        /\ outbox[t][2] \in ToSet(outbox[t])
        /\ ToSet(RemoveAt(outbox[t], 2)) \subseteq ToSet(outbox[t])
    BY <1>2, <2>1, SecondTaken
  <2>3. /\ Append(topic[t], outbox[t][2]) \in Seq(Hashes)
        /\ ToSet(Append(topic[t], outbox[t][2]))
             \subseteq ToSet(topic[t]) \cup ToSet(outbox[t])
    BY <1>2, <2>2, Appended
  <2> QED BY <1>3, <1>4, <2>1, <2>2, <2>3
<1> QED BY <1>1, <1>7, <1>8, <1>9, <1>10

LEMMA TypedNetwork ==
  ASSUME TypedAndPlaced, Network
  PROVE  TypedAndPlaced'
<1>1. /\ outbox' \in [Topics -> Seq(Hashes)] /\ topic' \in [Topics -> Seq(Hashes)]
      /\ UNCHANGED <<feedVars, ledgerVars, lifeVars, pc, tally, rejoins,
                        lostVars, since>>
      /\ faults' = faults \/ Fault
  BY NetworkMoves
<1>2. faults' \in Nat /\ crashes + stops + faults' + rejoins \in 0 .. MaxTroubles
  <2>1. CASE faults' = faults
    BY <2>1 DEF TypedAndPlaced, ProverTypeOK, Placed
  <2>2. CASE Fault
    <3>1. Trouble /\ faults' = faults + 1
      BY <2>2 DEF Fault
    <3> QED BY <3>1, OneMoreTrouble DEF TypedAndPlaced, Placed
  <2> QED BY <1>1, <2>1, <2>2
<1>3. ProverTypeOK'
  BY <1>1, <1>2 DEF TypedAndPlaced, ProverTypeOK, feedVars, ledgerVars, lifeVars
<1>4. Placed'
  BY <1>1, <1>2 DEF TypedAndPlaced, Placed, feedVars, ledgerVars, lifeVars
<1> QED BY <1>3, <1>4 DEF TypedAndPlaced

LEMMA TypedStart ==
  ASSUME TypedAndPlaced, Start \/ StartDeaf
  PROVE  /\ TypedAndPlaced'
         /\ pc' \notin {"process", "persist", "publish", "alert"}
         /\ log' = stable /\ stable' = stable
         /\ next' = offset /\ offset' = offset
         /\ UNCHANGED <<raw, kafkaVars, lostVars>>
<1>1. /\ log' = stable /\ stable' = stable /\ clock' = clock
      /\ next' = offset /\ offset' = offset /\ position' = offset
      /\ UNCHANGED <<raw, kafkaVars, lostVars, crashes, stops, rejoins>>
      /\ pc' \in {"poll", "done"} /\ running' = TRUE /\ halted' = FALSE
      /\ handles' \in {{}, {"consumer", "producer"}}
      /\ tally' = [c \in Tallies |-> 0]
      /\ since' = [m \in Marks |-> IF m = "links" THEN Len(stable) ELSE 0]
      /\ faults' = faults \/ Fault
  BY DEF Start, StartDeaf, NewProcess, Log!Recover, Fault
<1>2. faults' \in Nat /\ crashes + stops + faults' + rejoins \in 0 .. MaxTroubles
  <2>1. CASE faults' = faults
    BY <2>1 DEF TypedAndPlaced, ProverTypeOK, Placed
  <2>2. CASE Fault
    <3>1. Trouble /\ faults' = faults + 1
      BY <2>2 DEF Fault
    <3> QED BY <3>1, OneMoreTrouble DEF TypedAndPlaced, Placed
  <2> QED BY <1>1, <2>1, <2>2
<1>3. Raw \in Nat /\ offset \in 0 .. Raw
  BY MessagesAssumption DEF TypedAndPlaced, ProverTypeOK
<1>4. position' \in next' .. Raw
  BY <1>1, <1>3
<1>5. tally' \in [Tallies -> Nat] /\ since' \in [Marks -> Nat]
  <2>1. Len(stable) \in Nat
    BY LenProperties DEF TypedAndPlaced, ProverTypeOK, Hashes
  <2> QED BY <1>1, <2>1
<1>6. ProverTypeOK'
  BY <1>1, <1>2, <1>3, <1>4, <1>5 DEF TypedAndPlaced, ProverTypeOK, PCs, kafkaVars
<1>7. Placed'
  BY <1>1, <1>2, <1>3 DEF TypedAndPlaced, Placed
<1> QED BY <1>1, <1>6, <1>7 DEF TypedAndPlaced

LEMMA TypedStop ==
  ASSUME TypedAndPlaced, BeginStop \/ CloseConsumer \/ CloseProducer
  PROVE  TypedAndPlaced'
<1>1. CASE BeginStop
  <2>1. stops' = stops + 1 /\ stops' \in Nat
        /\ crashes + stops' + faults + rejoins \in 0 .. MaxTroubles
    BY <1>1, OneMoreTrouble DEF BeginStop, TypedAndPlaced, Placed
  <2> QED BY <1>1, <2>1 DEF TypedAndPlaced, ProverTypeOK, Placed, BeginStop,
        feedVars, ledgerVars, kafkaVars, pastVars
<1>2. CASE CloseConsumer
  <2>1. /\ Raw \in Nat /\ Txns = 1 .. Raw /\ next \in 0 .. Raw
        /\ position \in next .. Raw
    BY MessagesAssumption DEF TypedAndPlaced, ProverTypeOK
  <2>2. next + 1 .. position \subseteq Txns /\ position \in 0 .. Raw
    BY <2>1
  <2>3. offset' \in {offset, position} /\ cut' \subseteq Txns
    BY <1>2, <2>2 DEF CloseConsumer, TypedAndPlaced, ProverTypeOK
  <2>4. offset' \in 0 .. Raw /\ offset' <= position
    BY <2>1, <2>2, <2>3 DEF TypedAndPlaced, ProverTypeOK, Placed
  <2>5. ProverTypeOK'
    BY <1>2, <2>3, <2>4 DEF TypedAndPlaced, ProverTypeOK, CloseConsumer,
      ledgerVars, kafkaVars
  <2>6. Placed'
    BY <1>2, <2>4 DEF TypedAndPlaced, Placed, CloseConsumer, ledgerVars
  <2> QED BY <2>5, <2>6 DEF TypedAndPlaced
<1>3. CASE CloseProducer
  BY <1>3 DEF TypedAndPlaced, ProverTypeOK, Placed, CloseProducer, feedVars,
    ledgerVars, kafkaVars, pastVars
<1> QED BY <1>1, <1>2, <1>3

LEMMA TypedEnd ==
  ASSUME TypedAndPlaced, Exit \/ Crash
  PROVE  /\ TypedAndPlaced' /\ pc' = "down"
         /\ \A t \in Topics : InFlight(t)' \subseteq InFlight(t)
         /\ UNCHANGED <<feedVars, ledgerVars, lostVars>>
<1>1. Gone
  BY DEF Exit, Crash
<1>2. /\ crashes' \in Nat /\ stops' = stops
      /\ crashes' + stops + faults + rejoins \in 0 .. MaxTroubles
  <2>1. /\ crashes \in Nat /\ stops \in Nat /\ faults \in Nat /\ rejoins \in Nat
        /\ crashes + stops + faults + rejoins \in 0 .. MaxTroubles
    BY DEF TypedAndPlaced, ProverTypeOK, Placed
  <2>2. CASE Exit
    BY <2>1, <2>2 DEF Exit
  <2>3. CASE Crash
    <3>1. Trouble /\ crashes' = crashes + 1 /\ stops' = stops
      BY <2>3 DEF Crash
    <3>2. crashes + stops + faults + rejoins + 1 \in 0 .. MaxTroubles
      BY <3>1, OneMoreTrouble
    <3> QED BY <2>1, <3>1, <3>2
  <2> QED BY <2>2, <2>3
<1>3. /\ pc' = "down" /\ running' = FALSE /\ handles' = {}
      /\ outbox' = [t \in Topics |-> << >>]
      /\ UNCHANGED <<halted, feedVars, ledgerVars, topic, tally, pastVars>>
  BY <1>1 DEF Gone
<1>4. outbox' \in [Topics -> Seq(Hashes)]
  BY <1>3, NoHashYet
<1>5. ProverTypeOK'
  BY <1>2, <1>3, <1>4 DEF TypedAndPlaced, ProverTypeOK, PCs, feedVars, ledgerVars,
    pastVars
<1>6. Placed'
  BY <1>2, <1>3 DEF TypedAndPlaced, Placed, feedVars, ledgerVars, pastVars
<1>7. ToSet(<< >>) = {}
  BY DEF ToSet
<1>8. \A t \in Topics : InFlight(t)' \subseteq InFlight(t)
  BY <1>3, <1>7 DEF InFlight
<1> QED BY <1>3, <1>5, <1>6, <1>8 DEF TypedAndPlaced, pastVars

-----------------------------------------------------------------------------
(* What is settled stays settled, and what is published stays durable, as  *)
(* long as the durable chain only grows.                                   *)
LEMMA StillCovered ==
  ASSUME TypedAndPlaced, TypedAndPlaced', Covered, raw' = raw,
         IsPrefix(stable, stable'), Lost \subseteq Lost',
         \A i \in 1 .. Raw : i <= next' \/ i <= offset' =>
           \/ i <= next \/ i <= offset
           \/ ~Accepted(i)
           \/ i \in LedgerTxns' \cup Lost'
  PROVE  Covered'
<1>1. LedgerTxns \subseteq LedgerTxns'
  BY PrefixTxns DEF TypedAndPlaced, ProverTypeOK, LedgerTxns
<1>2. \A i : Accepted(i)' <=> Accepted(i)
  BY DEF Accepted
<1> QED BY <1>1, <1>2 DEF Covered, Settled

LEMMA StillDurable ==
  ASSUME TypedAndPlaced, TypedAndPlaced', PublishedIsDurable,
         IsPrefix(stable, stable'), unsaved \subseteq unsaved',
         \A t \in Topics : \A e \in InFlight(t)' :
           e \in InFlight(t) \/ (unsaved = {} => IsPrefix(e, stable))
  PROVE  PublishedIsDurable'
<1>1. stable \in Hashes /\ stable' \in Hashes
  BY DEF TypedAndPlaced, ProverTypeOK
<1>2. SUFFICES ASSUME unsaved' = {}, NEW t \in Topics, NEW e \in InFlight(t)'
               PROVE  IsPrefix(e, stable')
  BY DEF PublishedIsDurable
<1>3. unsaved = {}
  BY <1>2
<1>4. IsPrefix(e, stable)
  BY <1>2, <1>3 DEF PublishedIsDurable
<1>5. e \in Hashes
  <2>1. topic'[t] \in Seq(Hashes) /\ outbox'[t] \in Seq(Hashes)
    BY DEF TypedAndPlaced, ProverTypeOK
  <2>2. PICK s \in {topic'[t], outbox'[t]} : e \in ToSet(s)
    BY <1>2 DEF InFlight
  <2> QED BY <2>1, <2>2, LenProperties, ElementOfSeq DEF ToSet
<1> QED BY <1>1, <1>4, <1>5, PrefixTransitive

LEMMA InvInit == ProverInit => Inv
<1> SUFFICES ASSUME ProverInit PROVE Inv
  OBVIOUS
<1>1. TypedAndPlaced
  BY TypedInit
<1>2. log = << >> /\ stable = << >> /\ pc = "down"
  BY DEF ProverInit, Log!Init
<1>3. IsPrefix(stable, log)
  BY <1>2, NoHashYet, PrefixReflexive
<1>4. AtHand
  BY <1>2, <1>3 DEF AtHand
<1>5. Covered
  BY DEF ProverInit, Covered
<1>6. ToSet(<< >>) = {}
  BY DEF ToSet
<1>7. PublishedIsDurable
  BY <1>6 DEF ProverInit, PublishedIsDurable, InFlight
<1> QED BY <1>1, <1>4, <1>5, <1>7 DEF Inv

(* A poll is only made at the end of a batch, so all it can acknowledge    *)
(* has been dealt with.                                                    *)
LEMMA InvPoll ==
  ASSUME Inv, FetchNothing \/ PollRaises \/ \E n \in 1 .. MaxPoll : Fetch(n)
  PROVE  Inv'
<1>1. TypedAndPlaced /\ TypedAndPlaced'
  BY TypedPoll DEF Inv
<1>2. /\ UNCHANGED <<raw, next, ledgerVars, kafkaVars, lostVars>>
      /\ next = position /\ offset' \in {offset, position}
      /\ pc' \in {"poll", "done", "process"}
  BY <1>1 DEF TypedAndPlaced, Placed, Fetch, FetchNothing, PollRaises, LoopTest,
    pastVars
<1>3. log' = log /\ stable' = stable /\ IsPrefix(stable, stable')
  BY <1>1, <1>2, PrefixReflexive DEF TypedAndPlaced, ProverTypeOK, ledgerVars
<1>4. AtHand'
  BY <1>2, <1>3 DEF Inv, AtHand
<1>5. Covered'
  BY <1>1, <1>2, <1>3, StillCovered DEF Inv, Lost
<1>6. PublishedIsDurable'
  BY <1>2, <1>3 DEF Inv, PublishedIsDurable, InFlight, kafkaVars
<1> QED BY <1>1, <1>4, <1>5, <1>6 DEF Inv

(* Joining again puts the loop back where everything before is settled.    *)
LEMMA InvRejoin ==
  ASSUME Inv, Rejoin
  PROVE  Inv'
<1>1. TypedAndPlaced /\ TypedAndPlaced'
  BY TypedRejoin DEF Inv
<1>2. /\ UNCHANGED <<raw, offset, pc, ledgerVars, kafkaVars, lostVars>>
      /\ next' = offset /\ pc = "poll"
  BY DEF Rejoin
<1>3. log' = log /\ stable' = stable /\ IsPrefix(stable, stable')
  BY <1>1, <1>2, PrefixReflexive DEF TypedAndPlaced, ProverTypeOK, ledgerVars
<1>4. AtHand'
  BY <1>2, <1>3 DEF Inv, AtHand
<1>5. Covered'
  BY <1>1, <1>2, <1>3, StillCovered DEF Inv, Lost
<1>6. PublishedIsDurable'
  BY <1>2, <1>3 DEF Inv, PublishedIsDurable, InFlight, kafkaVars
<1> QED BY <1>1, <1>4, <1>5, <1>6 DEF Inv

LEMMA InvReject ==
  ASSUME Inv, Reject
  PROVE  Inv'
<1>1. TypedAndPlaced /\ TypedAndPlaced'
  BY TypedReject DEF Inv
<1>2. /\ UNCHANGED <<raw, offset, ledgerVars, kafkaVars, lostVars>>
      /\ next' = next + 1 /\ ~Accepted(next + 1)
      /\ pc' \in {"poll", "done", "process"}
  BY DEF Reject, Done, LoopTest, Accepted, pastVars
<1>3. log' = log /\ stable' = stable /\ IsPrefix(stable, stable')
  BY <1>1, <1>2, PrefixReflexive DEF TypedAndPlaced, ProverTypeOK, ledgerVars
<1>4. AtHand'
  BY <1>2, <1>3 DEF Inv, AtHand
<1>5. \A i \in 1 .. Raw : i <= next' => i <= next \/ ~Accepted(i)
  <2>1. next \in Nat
    BY <1>1, MessagesAssumption DEF TypedAndPlaced, ProverTypeOK
  <2>2. \A i \in 1 .. Raw : i <= next' => i <= next \/ i = next + 1
    BY <1>2, <2>1, MessagesAssumption
  <2> QED BY <1>2, <2>2
<1>6. Covered'
  BY <1>1, <1>2, <1>3, <1>5, StillCovered DEF Inv, Lost
<1>7. PublishedIsDurable'
  BY <1>2, <1>3 DEF Inv, PublishedIsDurable, InFlight, kafkaVars
<1> QED BY <1>1, <1>4, <1>6, <1>7 DEF Inv

(* What a batch loses behind a value that is not an object is recorded.    *)
LEMMA InvAbandon ==
  ASSUME Inv, Abandon
  PROVE  Inv'
<1>1. /\ TypedAndPlaced /\ TypedAndPlaced'
      /\ next' = position /\ next \in Nat /\ position \in Nat
  BY TypedAbandon DEF Inv
<1>2. /\ UNCHANGED <<raw, offset, ledgerVars, kafkaVars, unsaved, cut>>
      /\ raw[next + 1] = "not_object" /\ pc' \in {"poll", "done"}
      /\ abandoned' = abandoned \cup (next + 2 .. position)
  BY DEF Abandon, LoopTest
<1>3. log' = log /\ stable' = stable /\ IsPrefix(stable, stable')
  BY <1>1, <1>2, PrefixReflexive DEF TypedAndPlaced, ProverTypeOK, ledgerVars
<1>4. AtHand'
  BY <1>2, <1>3 DEF Inv, AtHand
<1>5. Lost \subseteq Lost' /\ ~Accepted(next + 1)
  BY <1>2 DEF Lost, Accepted
<1>6. \A i \in 1 .. Raw : i <= next' => i <= next \/ ~Accepted(i) \/ i \in Lost'
  <2>1. \A i \in 1 .. Raw : i <= next' =>
          i <= next \/ i = next + 1 \/ i \in next + 2 .. position
    BY <1>1, MessagesAssumption
  <2> QED BY <1>2, <1>5, <2>1 DEF Lost
<1>7. Covered'
  BY <1>1, <1>2, <1>3, <1>5, <1>6, StillCovered DEF Inv, Lost
<1>8. PublishedIsDurable'
  BY <1>2, <1>3 DEF Inv, PublishedIsDurable, InFlight, kafkaVars
<1> QED BY <1>1, <1>4, <1>7, <1>8 DEF Inv

LEMMA InvAdd ==
  ASSUME Inv, Add
  PROVE  Inv'
<1>1. /\ TypedAndPlaced /\ TypedAndPlaced'
      /\ log' # << >> /\ Last(log').txn = next + 1
      /\ \A g \in Hashes : IsPrefix(g, log) => IsPrefix(g, log')
  BY TypedAdd DEF Inv
<1>2. /\ UNCHANGED <<raw, offset, next, stable, kafkaVars, lostVars>>
      /\ pc' = "persist"
  BY DEF Add, feedVars, pastVars
<1>3. stable \in Hashes
  BY <1>1 DEF TypedAndPlaced, ProverTypeOK
<1>4. IsPrefix(stable, log') /\ IsPrefix(stable, stable')
  BY <1>1, <1>2, <1>3, PrefixReflexive DEF Inv, AtHand
<1>5. AtHand'
  BY <1>1, <1>2, <1>4 DEF AtHand
<1>6. Covered'
  BY <1>1, <1>2, <1>4, StillCovered DEF Inv, Lost
<1>7. PublishedIsDurable'
  BY <1>2 DEF Inv, PublishedIsDurable, InFlight, kafkaVars
<1> QED BY <1>1, <1>5, <1>6, <1>7 DEF Inv

(* Once the head is saved, the record at hand is in the durable chain.     *)
LEMMA InvPersist ==
  ASSUME Inv, Save \/ SaveFails
  PROVE  Inv'
<1>1. TypedAndPlaced /\ TypedAndPlaced' /\ next + 1 \in Txns
  BY TypedPersist DEF Inv
<1>2. /\ UNCHANGED <<raw, offset, next, log, kafkaVars, cut, abandoned>>
      /\ pc = "persist" /\ pc' = "publish"
      /\ \/ stable' = log /\ unsaved' = unsaved
         \/ stable' = stable /\ unsaved' = unsaved \cup {next + 1}
  BY DEF Save, SaveFails, Log!Stabilise, feedVars, ledgerVars, pastVars
<1>3. /\ log \in Hashes /\ stable \in Hashes
      /\ IsPrefix(stable, log) /\ log # << >> /\ Last(log).txn = next + 1
  BY <1>1, <1>2 DEF Inv, AtHand, TypedAndPlaced, ProverTypeOK
<1>4. IsPrefix(stable, stable') /\ IsPrefix(stable', log')
  BY <1>2, <1>3, PrefixReflexive
<1>5. next' + 1 \in LedgerTxns' \cup unsaved' /\ (unsaved' = {} => log' = stable')
  <2>1. CASE stable' = log /\ unsaved' = unsaved
    <3>1. LedgerTxns' = {log[k].txn : k \in DOMAIN log}
      BY <2>1 DEF LedgerTxns
    <3> QED BY <1>2, <1>3, <2>1, <3>1, LastTxn
  <2>2. CASE stable' = stable /\ unsaved' = unsaved \cup {next + 1}
    BY <1>2, <2>2
  <2> QED BY <1>2, <2>1, <2>2
<1>6. AtHand'
  BY <1>2, <1>3, <1>4, <1>5 DEF AtHand
<1>7. unsaved \subseteq unsaved'
  BY <1>2
<1>8. Covered'
  BY <1>1, <1>2, <1>4, <1>7, StillCovered DEF Inv, Lost
<1>9. \A t \in Topics : InFlight(t)' = InFlight(t)
  BY <1>2 DEF InFlight, kafkaVars
<1>10. PublishedIsDurable'
  BY <1>1, <1>4, <1>7, <1>9, StillDurable DEF Inv
<1> QED BY <1>1, <1>6, <1>8, <1>10 DEF Inv

LEMMA SentIsLog ==
  ASSUME TypedAndPlaced, NEW u \in Topics, Sent(u), topic' = topic
  PROVE  \A t \in Topics : InFlight(t)' \subseteq InFlight(t) \cup {log}
<1>1. /\ outbox \in [Topics -> Seq(Hashes)] /\ log \in Hashes
      /\ outbox[u] \in Seq(Hashes)
  BY DEF TypedAndPlaced, ProverTypeOK
<1>2. ToSet(Append(outbox[u], log)) = ToSet(outbox[u]) \cup {log}
  BY <1>1, Appended
<1>3. \A t \in Topics :
        outbox'[t] = outbox[t] \/ (t = u /\ outbox'[t] = Append(outbox[u], log))
  BY <1>1 DEF Sent
<1> QED BY <1>2, <1>3 DEF InFlight

(* The envelope sent is the durable head, if all was saved.                *)
LEMMA InvPublish ==
  ASSUME Inv, Publish \/ Alert
  PROVE  Inv'
<1>1. TypedAndPlaced /\ TypedAndPlaced'
  BY TypedPublish DEF Inv
<1>2. /\ UNCHANGED <<raw, offset, log, stable, topic, lostVars>>
      /\ pc \in {"publish", "alert"} /\ \E u \in Topics : Sent(u)
      /\ \/ next' = next + 1 /\ pc' \in {"poll", "done", "process"}
         \/ next' = next /\ pc' = "alert"
  BY DEF Publish, Alert, Done, LoopTest, ledgerVars, pastVars, Topics
<1>3. stable \in Hashes /\ IsPrefix(stable, stable')
  BY <1>1, <1>2, PrefixReflexive DEF TypedAndPlaced, ProverTypeOK
<1>4. next + 1 \in LedgerTxns \cup unsaved /\ (unsaved = {} => log = stable)
  BY <1>2 DEF Inv, AtHand
<1>5. AtHand'
  BY <1>2, <1>4 DEF Inv, AtHand, LedgerTxns
<1>6. \A i \in 1 .. Raw :
        i <= next' => i <= next \/ i \in LedgerTxns' \cup Lost'
  <2>1. next \in Nat
    BY <1>1, MessagesAssumption DEF TypedAndPlaced, ProverTypeOK
  <2>2. \A i \in 1 .. Raw : i <= next' => i <= next \/ i = next + 1
    BY <1>2, <2>1, MessagesAssumption
  <2> QED BY <1>2, <1>4, <2>2 DEF LedgerTxns, Lost
<1>7. Covered'
  BY <1>1, <1>2, <1>3, <1>6, StillCovered DEF Inv, Lost
<1>8. \A t \in Topics : InFlight(t)' \subseteq InFlight(t) \cup {log}
  BY <1>1, <1>2, SentIsLog
<1>9. unsaved = {} => IsPrefix(log, stable)
  BY <1>3, <1>4, PrefixReflexive
<1>10. PublishedIsDurable'
  BY <1>1, <1>2, <1>3, <1>8, <1>9, StillDurable DEF Inv
<1> QED BY <1>1, <1>5, <1>7, <1>10 DEF Inv

LEMMA InvNetwork ==
  ASSUME Inv, Network
  PROVE  Inv'
<1>1. TypedAndPlaced /\ TypedAndPlaced'
  BY TypedNetwork DEF Inv
<1>2. /\ \A t \in Topics : InFlight(t)' \subseteq InFlight(t)
      /\ UNCHANGED <<feedVars, ledgerVars, lifeVars, pc, tally, rejoins,
                        lostVars, since>>
  BY NetworkMoves DEF Inv
<1>3. AtHand' /\ Covered'
  BY <1>2 DEF Inv, AtHand, Covered, Settled, Accepted, LedgerTxns, Lost, feedVars,
    ledgerVars
<1>4. stable' = stable /\ IsPrefix(stable, stable')
  BY <1>1, <1>2, PrefixReflexive DEF TypedAndPlaced, ProverTypeOK, ledgerVars
<1>5. PublishedIsDurable'
  BY <1>1, <1>2, <1>4, StillDurable DEF Inv
<1> QED BY <1>1, <1>3, <1>5 DEF Inv

LEMMA InvStart ==
  ASSUME Inv, Start \/ StartDeaf
  PROVE  Inv'
<1>1. /\ TypedAndPlaced /\ TypedAndPlaced'
      /\ pc' \notin {"process", "persist", "publish", "alert"}
      /\ log' = stable /\ stable' = stable
      /\ next' = offset /\ offset' = offset
      /\ UNCHANGED <<raw, kafkaVars, lostVars>>
  BY TypedStart DEF Inv
<1>2. IsPrefix(stable, stable')
  BY <1>1, PrefixReflexive DEF TypedAndPlaced, ProverTypeOK
<1>3. AtHand'
  BY <1>1, <1>2 DEF AtHand
<1>4. Covered'
  BY <1>1, <1>2, StillCovered DEF Inv, Lost
<1>5. PublishedIsDurable'
  BY <1>1 DEF Inv, PublishedIsDurable, InFlight, kafkaVars
<1> QED BY <1>1, <1>3, <1>4, <1>5 DEF Inv

(* close() acknowledges the batch; what it cuts off is recorded in cut.    *)
LEMMA InvStop ==
  ASSUME Inv, BeginStop \/ CloseConsumer \/ CloseProducer
  PROVE  Inv'
<1>1. TypedAndPlaced /\ TypedAndPlaced'
  BY TypedStop DEF Inv
<1>2. /\ UNCHANGED <<raw, position, next, ledgerVars, kafkaVars, pc, unsaved,
                     abandoned>>
      /\ \/ UNCHANGED <<offset, cut>>
         \/ offset' = position /\ cut' = cut \cup (next + 1 .. position)
  BY DEF BeginStop, CloseConsumer, CloseProducer, feedVars, pastVars
<1>3. log' = log /\ stable' = stable /\ IsPrefix(stable, stable')
  BY <1>1, <1>2, PrefixReflexive DEF TypedAndPlaced, ProverTypeOK, ledgerVars
<1>4. AtHand'
  BY <1>2, <1>3 DEF Inv, AtHand, LedgerTxns
<1>5. \A i \in 1 .. Raw : i <= offset' => i <= next \/ i <= offset \/ i \in Lost'
  <2>1. next \in Nat /\ position \in Nat
    BY <1>1, MessagesAssumption DEF TypedAndPlaced, ProverTypeOK
  <2>2. \A i \in 1 .. Raw : i <= position => i <= next \/ i \in next + 1 .. position
    BY <2>1, MessagesAssumption
  <2> QED BY <1>2, <2>2 DEF Lost
<1>6. Covered'
  BY <1>1, <1>2, <1>3, <1>5, StillCovered DEF Inv, Lost
<1>7. PublishedIsDurable'
  BY <1>2, <1>3 DEF Inv, PublishedIsDurable, InFlight, kafkaVars
<1> QED BY <1>1, <1>4, <1>6, <1>7 DEF Inv

LEMMA InvEnd ==
  ASSUME Inv, Exit \/ Crash
  PROVE  Inv'
<1>1. /\ TypedAndPlaced /\ TypedAndPlaced' /\ pc' = "down"
      /\ \A t \in Topics : InFlight(t)' \subseteq InFlight(t)
      /\ UNCHANGED <<feedVars, ledgerVars, lostVars>>
  BY TypedEnd DEF Inv
<1>2. AtHand' /\ Covered'
  BY <1>1 DEF Inv, AtHand, Covered, Settled, Accepted, LedgerTxns, Lost, feedVars,
    ledgerVars
<1>3. stable' = stable /\ IsPrefix(stable, stable')
  BY <1>1, PrefixReflexive DEF TypedAndPlaced, ProverTypeOK, ledgerVars
<1>4. PublishedIsDurable'
  BY <1>1, <1>3, StillDurable DEF Inv
<1> QED BY <1>1, <1>2, <1>4 DEF Inv

LEMMA InvNext == Inv /\ [ProverNext]_proverVars => Inv'
<1> SUFFICES ASSUME Inv, [ProverNext]_proverVars PROVE Inv'
  OBVIOUS
<1>1. CASE Ingest
  BY <1>1, InvPoll, InvRejoin, InvReject, InvAbandon, InvAdd, InvPersist, InvPublish
    DEF Ingest
<1>2. CASE Network
  BY <1>2, InvNetwork
<1>3. CASE Lifecycle
  BY <1>3, InvStart, InvStop, InvEnd DEF Lifecycle
<1>4. CASE UNCHANGED proverVars
  BY <1>4 DEF Inv, TypedAndPlaced, ProverTypeOK, Placed, AtHand, Covered, Settled,
    Accepted, LedgerTxns, Lost, PublishedIsDurable, InFlight, proverVars, feedVars,
    ledgerVars, kafkaVars, lifeVars, pastVars
<1> QED BY <1>1, <1>2, <1>3, <1>4 DEF ProverNext

-----------------------------------------------------------------------------
(* The invariant holds in every reachable state of the prover process.     *)
THEOREM ProverInvariance == ProverSpec => []Inv
<1> QED BY InvInit, InvNext, PTL DEF ProverSpec

(* Positions, counters, accumulators and topics keep their types, and the  *)
(* loop never works on a message that poll() has not returned.             *)
THEOREM ProverTypeCorrect == ProverSpec => []ProverTypeOK
<1>1. Inv => ProverTypeOK
  BY DEF Inv, TypedAndPlaced
<1> QED BY <1>1, ProverInvariance, PTL

(* Whatever the group has acknowledged is in the durable ledger, or was    *)
(* unfit, refused by the ledger, cut off by an orderly stop(), or          *)
(* abandoned behind a value that is not an object in the batch it was      *)
(* polled in (consumer.py:86-95, 117, 220-228, 233-240).                   *)
THEOREM AcknowledgedIsCommitted == ProverSpec => []AckedIsCommitted
<1>1. Inv => AckedIsCommitted
  <2> SUFFICES ASSUME Inv PROVE AckedIsCommitted
    OBVIOUS
  <2>1. offset \in 0 .. Raw /\ Raw \in Nat
    BY MessagesAssumption DEF Inv, TypedAndPlaced, ProverTypeOK
  <2>2. \A i \in 1 .. offset : i \in 1 .. Raw /\ i <= offset
    BY <2>1
  <2> QED BY <2>2 DEF Inv, Covered, Settled, AckedIsCommitted
<1> QED BY <1>1, ProverInvariance, PTL

(* As long as the ledger saved what it was given, no restart takes back an *)
(* envelope that was sent (consumer.py:156-174).                           *)
THEOREM PublishedStaysDurable == ProverSpec => []PublishedIsDurable
<1>1. Inv => PublishedIsDurable
  BY DEF Inv
<1> QED BY <1>1, ProverInvariance, PTL

-----------------------------------------------------------------------------
(* Once for each joining.  Every process so far, the running one included, *)
(* has put at most one link for a message into the chain each time it      *)
(* joined the group, and the present process none yet, since it joined     *)
(* last, for a message it has not reached.  Known is what the loop knows   *)
(* about the message it is working on.                                     *)
Times(hash, i) == Cardinality({k \in DOMAIN hash : hash[k].txn = i})

Lives == crashes + stops + rejoins + IF running THEN 1 ELSE 0

InHand(i) ==
  \/ i <= next
  \/ i = next + 1 /\ pc \in {"persist", "publish", "alert"}

CommittedOnce ==
  \A i \in 1 .. Raw :
    Times(log, i) <= Lives - IF pc # "down" /\ ~InHand(i) THEN 1 ELSE 0

Known ==
  /\ pc = "down" => ~running
  /\ pc \in {"persist", "publish", "alert"} => Accepted(next + 1)
  /\ pc = "alert" => raw[next + 1] = "quarantine"

OnceInv == Inv /\ Known /\ CommittedOnce

(* How often a message occurs in a chain, in a prefix of it and in its     *)
(* extension by one link.                                                  *)
LEMMA TimesFinite ==
  ASSUME NEW h \in Hashes, NEW i
  PROVE  /\ IsFiniteSet({k \in DOMAIN h : h[k].txn = i})
         /\ Times(h, i) \in Nat
<1>1. Len(h) \in Nat /\ DOMAIN h = 1 .. Len(h)
  BY LenProperties DEF Hashes
<1>2. IsFiniteSet(1 .. Len(h))
  BY <1>1, FS_Interval
<1>3. {k \in DOMAIN h : h[k].txn = i} \in SUBSET (1 .. Len(h))
  BY <1>1
<1>4. IsFiniteSet({k \in DOMAIN h : h[k].txn = i})
  BY <1>2, <1>3, FS_Subset
<1> QED BY <1>4, FS_CardinalityType DEF Times

LEMMA TimesInPrefix ==
  ASSUME NEW g \in Hashes, NEW h \in Hashes, IsPrefix(g, h), NEW i
  PROVE  Times(g, i) <= Times(h, i)
<1>1. /\ Len(g) \in Nat /\ Len(h) \in Nat
      /\ DOMAIN g = 1 .. Len(g) /\ DOMAIN h = 1 .. Len(h)
  BY LenProperties DEF Hashes
<1>2. Len(g) <= Len(h) /\ \A k \in 1 .. Len(g) : g[k] = h[k]
  BY PrefixByPosition
<1> DEFINE inG == {k \in DOMAIN g : g[k].txn = i}
           inH == {k \in DOMAIN h : h[k].txn = i}
<1>3. inG \in SUBSET inH
  BY <1>1, <1>2
<1>4. IsFiniteSet(inH)
  BY TimesFinite
<1>5. Cardinality(inG) <= Cardinality(inH)
  <2> HIDE DEF inG, inH
  <2> QED BY <1>3, <1>4, FS_Subset
<1> QED BY <1>5 DEF Times

LEMMA TimesOneMore ==
  ASSUME NEW h \in Hashes, NEW t \in Txns, NEW n \in Nat, NEW i
  PROVE  Times(ChainHash(h, t, n), i)
           = IF i = t THEN Times(h, i) + 1 ELSE Times(h, i)
<1> DEFINE link == [txn |-> t, ts |-> n]
           c == ChainHash(h, t, n)
           old == {k \in DOMAIN h : h[k].txn = i}
           new == {k \in DOMAIN c : c[k].txn = i}
<1>1. link \in Links /\ link.txn = t
  BY DEF Links
<1>2. /\ c \in Seq(Links) /\ Len(c) = Len(h) + 1 /\ c[Len(h) + 1] = link
      /\ \A k \in 1 .. Len(h) : c[k] = h[k]
  BY <1>1, AppendProperties DEF ChainHash, Hashes
<1> HIDE DEF c, link
<1>3. /\ Len(h) \in Nat /\ DOMAIN h = 1 .. Len(h)
      /\ DOMAIN c = 1 .. Len(h) + 1
  BY <1>2, LenProperties DEF Hashes
<1>4. CASE i = t
  <2>1. new = old \cup {Len(h) + 1}
    BY <1>1, <1>2, <1>3, <1>4
  <2>2. IsFiniteSet(old)
    BY TimesFinite
  <2>3. Len(h) + 1 \notin old
    BY <1>3
  <2>4. Cardinality(new) = Cardinality(old) + 1
    <3> HIDE DEF old, new
    <3> QED BY <2>1, <2>2, <2>3, FS_AddElement
  <2> QED BY <1>4, <2>4 DEF Times, c
<1>5. CASE i # t
  <2>1. new = old
    BY <1>1, <1>2, <1>3, <1>5
  <2> QED BY <1>5, <2>1 DEF Times, c
<1> QED BY <1>4, <1>5

LEMMA LivesTyped ==
  /\ TypedAndPlaced => Lives \in Nat
  /\ TypedAndPlaced' => Lives' \in Nat
<1>1. TypedAndPlaced => crashes \in Nat /\ stops \in Nat /\ rejoins \in Nat
  BY DEF TypedAndPlaced, Placed
<1>2. TypedAndPlaced' => crashes' \in Nat /\ stops' \in Nat /\ rejoins' \in Nat
  BY DEF TypedAndPlaced, Placed
<1>3. Lives \in {crashes + stops + rejoins + 1, crashes + stops + rejoins + 0}
  BY DEF Lives
<1>4. Lives' \in {crashes' + stops' + rejoins' + 1, crashes' + stops' + rejoins' + 0}
  BY DEF Lives
<1>5. TypedAndPlaced => Lives \in Nat
  BY <1>1, <1>3
<1>6. TypedAndPlaced' => Lives' \in Nat
  BY <1>2, <1>4
<1> QED BY <1>5, <1>6

(* The bound carries over a step that neither extends the chain nor takes  *)
(* a message out of the hand of the process that holds it.                 *)
LEMMA StillOnce ==
  ASSUME Inv, Inv', CommittedOnce, log' = log, Lives' >= Lives,
         pc' # "down" => \A i \in 1 .. Raw : InHand(i) => InHand(i)',
         pc' # "down" => pc # "down"
  PROVE  CommittedOnce'
<1>1. log \in Hashes /\ log' \in Hashes
  BY DEF Inv, TypedAndPlaced, ProverTypeOK
<1>2. Lives \in Nat /\ Lives' \in Nat
  BY LivesTyped DEF Inv
<1>3. SUFFICES ASSUME NEW i \in 1 .. Raw
               PROVE  Times(log, i)
                        <= Lives' - IF pc' # "down" /\ ~InHand(i)' THEN 1 ELSE 0
  BY DEF CommittedOnce
<1>4. Times(log, i) \in Nat
  BY <1>1, TimesFinite
<1>5. Times(log, i) <= Lives - IF pc # "down" /\ ~InHand(i) THEN 1 ELSE 0
  BY DEF CommittedOnce
<1>6. CASE pc' = "down"
  BY <1>2, <1>4, <1>5, <1>6
<1>7. CASE pc' # "down"
  <2>1. pc # "down" /\ (InHand(i) => InHand(i)')
    BY <1>7
  <2>2. CASE InHand(i)'
    BY <1>2, <1>4, <1>5, <1>7, <2>1, <2>2
  <2>3. CASE ~InHand(i)'
    BY <1>2, <1>4, <1>5, <1>7, <2>1, <2>3
  <2> QED BY <2>2, <2>3
<1> QED BY <1>6, <1>7

(* The steps of the loop that leave the chain alone.                       *)
LEMMA OncePoll ==
  ASSUME OnceInv, FetchNothing \/ PollRaises \/ \E n \in 1 .. MaxPoll : Fetch(n)
  PROVE  Known' /\ CommittedOnce'
<1>1. Inv /\ Inv' /\ Known /\ CommittedOnce
  BY InvPoll DEF OnceInv
<1>2. /\ UNCHANGED <<next, raw, ledgerVars, lifeVars, rejoins>>
      /\ pc = "poll" /\ pc' \in {"poll", "done", "process"}
  BY DEF Fetch, FetchNothing, PollRaises, LoopTest, pastVars
<1>3. log' = log /\ Lives' = Lives /\ running' = running /\ next' = next
  BY <1>2 DEF ledgerVars, lifeVars, Lives
<1>4. \A i \in 1 .. Raw : InHand(i) => InHand(i)'
  BY <1>2, <1>3 DEF InHand
<1>5. Known'
  BY <1>2 DEF Known
<1>6. Lives \in Nat
  BY <1>1, LivesTyped DEF Inv
<1>7. CommittedOnce'
  BY <1>1, <1>2, <1>3, <1>4, <1>6, StillOnce
<1> QED BY <1>5, <1>7

LEMMA OnceReject ==
  ASSUME OnceInv, Reject
  PROVE  Known' /\ CommittedOnce'
<1>1. Inv /\ Inv' /\ Known /\ CommittedOnce
  BY InvReject DEF OnceInv
<1>2. /\ UNCHANGED <<ledgerVars, lifeVars, rejoins>> /\ next' = next + 1
      /\ pc = "process" /\ pc' \in {"poll", "done", "process"}
  BY DEF Reject, Done, LoopTest, pastVars
<1>3. log' = log /\ Lives' = Lives /\ running' = running
  BY <1>2 DEF ledgerVars, lifeVars, Lives
<1>4. next \in Nat
  BY <1>1, MessagesAssumption DEF Inv, TypedAndPlaced, ProverTypeOK
<1>5. \A i \in 1 .. Raw : InHand(i) => InHand(i)'
  BY <1>2, <1>4, MessagesAssumption DEF InHand
<1>6. Known'
  BY <1>2 DEF Known
<1>7. Lives \in Nat
  BY <1>1, LivesTyped DEF Inv
<1>8. CommittedOnce'
  BY <1>1, <1>2, <1>3, <1>5, <1>7, StillOnce
<1> QED BY <1>6, <1>8

LEMMA OnceAbandon ==
  ASSUME OnceInv, Abandon
  PROVE  Known' /\ CommittedOnce'
<1>1. Inv /\ Inv' /\ Known /\ CommittedOnce
  BY InvAbandon DEF OnceInv
<1>2. /\ UNCHANGED <<ledgerVars, lifeVars, rejoins>> /\ next' = position
      /\ pc = "process" /\ pc' \in {"poll", "done"}
  BY DEF Abandon, LoopTest
<1>3. log' = log /\ Lives' = Lives /\ running' = running
  BY <1>2 DEF ledgerVars, lifeVars, Lives
<1>4. /\ next \in Nat /\ position \in Nat /\ next < position
  BY <1>1, <1>2, TypedAbandon DEF Inv, TypedAndPlaced, Placed
<1>5. \A i \in 1 .. Raw : InHand(i) => InHand(i)'
  BY <1>2, <1>4, MessagesAssumption DEF InHand
<1>6. Known'
  BY <1>2 DEF Known
<1>7. Lives \in Nat
  BY <1>1, LivesTyped DEF Inv
<1>8. CommittedOnce'
  BY <1>1, <1>2, <1>3, <1>5, <1>7, StillOnce
<1> QED BY <1>6, <1>8

(* A consumer that joins again has a life more and nothing in its hands.   *)
LEMMA OnceRejoin ==
  ASSUME OnceInv, Rejoin
  PROVE  Known' /\ CommittedOnce'
<1>1. Inv /\ Known /\ CommittedOnce
  BY DEF OnceInv
<1>2. /\ UNCHANGED <<raw, log, running, crashes, stops, pc>>
      /\ rejoins' = rejoins + 1 /\ pc = "poll"
  BY DEF Rejoin, ledgerVars, lifeVars
<1>3. Known'
  BY <1>2 DEF Known
<1>4. Lives \in Nat /\ Lives' = Lives + 1
  <2>1. crashes \in Nat /\ stops \in Nat /\ rejoins \in Nat
    BY <1>1 DEF Inv, TypedAndPlaced, Placed
  <2>2. CASE running
    BY <1>2, <2>1, <2>2 DEF Lives
  <2>3. CASE ~running
    BY <1>2, <2>1, <2>3 DEF Lives
  <2> QED BY <2>2, <2>3
<1>5. SUFFICES ASSUME NEW i \in 1 .. Raw
               PROVE  Times(log', i)
                        <= Lives' - IF pc' # "down" /\ ~InHand(i)' THEN 1 ELSE 0
  BY <1>3 DEF CommittedOnce
<1>6. /\ Times(log, i) \in Nat /\ Times(log', i) = Times(log, i)
      /\ Times(log, i) <= Lives - IF pc # "down" /\ ~InHand(i) THEN 1 ELSE 0
  <2>1. log \in Hashes
    BY <1>1 DEF Inv, TypedAndPlaced, ProverTypeOK
  <2> QED BY <1>1, <1>2, <2>1, TimesFinite DEF CommittedOnce
<1>7. Times(log, i) <= Lives
  BY <1>4, <1>6
<1> QED BY <1>4, <1>6, <1>7

(* One more link for a message that was not in hand before and is now.     *)
LEMMA OnceAdd ==
  ASSUME OnceInv, Add
  PROVE  Known' /\ CommittedOnce'
<1>1. Inv /\ Inv' /\ Known /\ CommittedOnce
  BY InvAdd DEF OnceInv
<1>2. /\ UNCHANGED <<next, raw, lifeVars, rejoins>> /\ Accepted(next + 1)
      /\ log' = ChainHash(log, next + 1, clock + 1)
      /\ pc = "process" /\ pc' = "persist"
  BY DEF Add, feedVars, pastVars
<1>3. /\ next \in Nat /\ log \in Hashes /\ clock + 1 \in Nat
      /\ next + 1 \in Txns /\ Lives \in Nat
  <2>1. TypedAndPlaced
    BY <1>1 DEF Inv
  <2>2. next + 1 \in Txns
    BY <2>1, TypedAdd
  <2>3. Lives \in Nat
    BY <2>1, LivesTyped
  <2>4. next \in Nat /\ log \in Hashes
    BY <2>1, MessagesAssumption DEF TypedAndPlaced, ProverTypeOK
  <2>5. clock + 1 \in Nat
    BY <2>1 DEF TypedAndPlaced, Placed
  <2> QED BY <2>2, <2>3, <2>4, <2>5
<1>4. Lives' = Lives
  BY <1>2 DEF lifeVars, Lives
<1>5. Known'
  BY <1>2 DEF Known, Accepted
<1>6. SUFFICES ASSUME NEW i \in 1 .. Raw
               PROVE  Times(log', i)
                        <= Lives' - IF pc' # "down" /\ ~InHand(i)' THEN 1 ELSE 0
  BY <1>5 DEF CommittedOnce
<1>7. /\ Times(log, i) \in Nat
      /\ Times(log, i) <= Lives - IF pc # "down" /\ ~InHand(i) THEN 1 ELSE 0
      /\ Times(log', i)
           = IF i = next + 1 THEN Times(log, i) + 1 ELSE Times(log, i)
  <2>1. Times(log, i) \in Nat
    BY <1>3, TimesFinite
  <2>2. Times(log, i) <= Lives - IF pc # "down" /\ ~InHand(i) THEN 1 ELSE 0
    BY <1>1 DEF CommittedOnce
  <2>3. Times(log', i) = IF i = next + 1 THEN Times(log, i) + 1 ELSE Times(log, i)
    BY <1>2, <1>3, TimesOneMore
  <2> QED BY <2>1, <2>2, <2>3
<1>8. CASE i = next + 1
  <2>1. InHand(i)' /\ ~InHand(i)
    BY <1>2, <1>3, <1>8 DEF InHand
  <2> QED BY <1>2, <1>3, <1>4, <1>7, <1>8, <2>1
<1>9. CASE i # next + 1
  <2>1. InHand(i)' <=> InHand(i)
    BY <1>2, <1>3, <1>9 DEF InHand
  <2> QED BY <1>2, <1>3, <1>4, <1>7, <1>9, <2>1
<1> QED BY <1>8, <1>9

LEMMA OncePersist ==
  ASSUME OnceInv, Save \/ SaveFails
  PROVE  Known' /\ CommittedOnce'
<1>1. Inv /\ Inv' /\ Known /\ CommittedOnce
  BY InvPersist DEF OnceInv
<1>2. /\ UNCHANGED <<next, raw, log, lifeVars, rejoins>>
      /\ pc = "persist" /\ pc' = "publish"
  BY DEF Save, SaveFails, Log!Stabilise, feedVars, ledgerVars, pastVars
<1>3. Lives' = Lives /\ running' = running
  BY <1>2 DEF lifeVars, Lives
<1>4. \A i \in 1 .. Raw : InHand(i) => InHand(i)'
  BY <1>2 DEF InHand
<1>5. Known'
  BY <1>1, <1>2 DEF Known, Accepted
<1>6. Lives \in Nat
  BY <1>1, LivesTyped DEF Inv
<1>7. CommittedOnce'
  BY <1>1, <1>2, <1>3, <1>4, <1>6, StillOnce
<1> QED BY <1>5, <1>7

LEMMA OncePublish ==
  ASSUME OnceInv, Publish \/ Alert
  PROVE  Known' /\ CommittedOnce'
<1>1. Inv /\ Inv' /\ Known /\ CommittedOnce
  BY InvPublish DEF OnceInv
<1>2. /\ UNCHANGED <<raw, log, lifeVars, rejoins>>
      /\ pc \in {"publish", "alert"}
      /\ \/ next' = next + 1 /\ pc' \in {"poll", "done", "process"}
         \/ /\ next' = next /\ pc' = "alert" /\ pc = "publish"
            /\ raw[next + 1] = "quarantine"
  BY DEF Publish, Alert, Done, LoopTest, ledgerVars, pastVars
<1>3. Lives' = Lives /\ running' = running
  BY <1>2 DEF lifeVars, Lives
<1>4. next \in Nat
  BY <1>1, MessagesAssumption DEF Inv, TypedAndPlaced, ProverTypeOK
<1>5. \A i \in 1 .. Raw : InHand(i) => InHand(i)'
  BY <1>2, <1>4, MessagesAssumption DEF InHand
<1>6. Known'
  BY <1>1, <1>2 DEF Known, Accepted
<1>7. Lives \in Nat
  BY <1>1, LivesTyped DEF Inv
<1>8. CommittedOnce'
  BY <1>1, <1>2, <1>3, <1>5, <1>7, StillOnce
<1> QED BY <1>6, <1>8

(* A new process: one life more, and nothing in its hands.                 *)
LEMMA OnceStart ==
  ASSUME OnceInv, Start \/ StartDeaf
  PROVE  Known' /\ CommittedOnce'
<1>1. Inv /\ Inv' /\ Known /\ CommittedOnce
  BY InvStart DEF OnceInv
<1>2. /\ UNCHANGED <<crashes, stops, rejoins>> /\ log' = stable
      /\ pc = "down" /\ pc' \in {"poll", "done"} /\ running' = TRUE
  BY DEF Start, StartDeaf, NewProcess, Log!Recover
<1>3. /\ log \in Hashes /\ stable \in Hashes /\ IsPrefix(stable, log)
      /\ crashes \in Nat /\ stops \in Nat /\ rejoins \in Nat
  BY <1>1 DEF Inv, AtHand, TypedAndPlaced, ProverTypeOK, Placed
<1>4. /\ Lives = crashes + stops + rejoins
      /\ Lives' = crashes + stops + rejoins + 1
  BY <1>1, <1>2, <1>3 DEF Known, Lives
<1>5. Known'
  BY <1>2 DEF Known
<1>6. SUFFICES ASSUME NEW i \in 1 .. Raw
               PROVE  Times(log', i)
                        <= Lives' - IF pc' # "down" /\ ~InHand(i)' THEN 1 ELSE 0
  BY <1>5 DEF CommittedOnce
<1>7. /\ Times(log, i) \in Nat /\ Times(stable, i) \in Nat
      /\ Times(stable, i) <= Times(log, i)
      /\ Times(log, i) <= crashes + stops + rejoins
  <2>1. Times(log, i) \in Nat /\ Times(stable, i) \in Nat
    BY <1>3, TimesFinite
  <2>2. Times(stable, i) <= Times(log, i)
    BY <1>3, TimesInPrefix
  <2>3. Times(log, i) <= Lives - IF pc # "down" /\ ~InHand(i) THEN 1 ELSE 0
    BY <1>1 DEF CommittedOnce
  <2>4. Times(log, i) <= crashes + stops + rejoins
    BY <1>2, <1>3, <1>4, <2>1, <2>3
  <2> QED BY <2>1, <2>2, <2>4
<1> QED BY <1>2, <1>3, <1>4, <1>7

LEMMA OnceStop ==
  ASSUME OnceInv, BeginStop \/ CloseConsumer \/ CloseProducer
  PROVE  Known' /\ CommittedOnce'
<1>1. Inv /\ Inv' /\ Known /\ CommittedOnce
  BY InvStop DEF OnceInv
<1>2. /\ UNCHANGED <<raw, next, log, pc, rejoins>> /\ pc # "down"
      /\ \/ UNCHANGED <<running, crashes, stops>>
         \/ running /\ ~running' /\ stops' = stops + 1 /\ crashes' = crashes
  BY DEF BeginStop, CloseConsumer, CloseProducer, feedVars, ledgerVars, pastVars
<1>3. Lives' = Lives /\ Lives \in Nat
  <2>1. /\ Lives \in Nat /\ crashes \in Nat /\ stops \in Nat /\ rejoins \in Nat
        /\ rejoins' = rejoins
    BY <1>1, <1>2, LivesTyped DEF Inv, TypedAndPlaced, Placed
  <2>2. CASE UNCHANGED <<running, crashes, stops>>
    BY <2>1, <2>2 DEF Lives
  <2>3. CASE running /\ ~running' /\ stops' = stops + 1 /\ crashes' = crashes
    <3>1. /\ Lives = crashes + stops + rejoins + 1
          /\ Lives' = crashes + (stops + 1) + rejoins + 0
      BY <2>1, <2>3 DEF Lives
    <3> QED BY <2>1, <3>1
  <2> QED BY <1>2, <2>2, <2>3
<1>4. \A i \in 1 .. Raw : InHand(i) => InHand(i)'
  BY <1>2 DEF InHand
<1>5. Known'
  BY <1>1, <1>2 DEF Known, Accepted
<1>6. CommittedOnce'
  BY <1>1, <1>2, <1>3, <1>4, StillOnce
<1> QED BY <1>5, <1>6

(* The end of a process was counted when it crashed or began to stop.      *)
LEMMA OnceEnd ==
  ASSUME OnceInv, Exit \/ Crash
  PROVE  Known' /\ CommittedOnce'
<1>1. Inv /\ Inv' /\ Known /\ CommittedOnce
  BY InvEnd DEF OnceInv
<1>2. /\ UNCHANGED <<raw, next, log>> /\ pc # "down" /\ pc' = "down"
      /\ running' = FALSE /\ stops' = stops /\ rejoins' = rejoins
      /\ \/ ~running /\ crashes' = crashes
         \/ crashes' = crashes + 1
  BY DEF Exit, Crash, Gone, feedVars, ledgerVars, pastVars
<1>3. Lives' >= Lives /\ Lives \in Nat /\ Lives' \in Nat
  <2>1. /\ Lives \in Nat /\ Lives' \in Nat
        /\ crashes \in Nat /\ stops \in Nat /\ rejoins \in Nat
    BY <1>1, LivesTyped DEF Inv, TypedAndPlaced, Placed
  <2>2. Lives' = crashes' + stops + rejoins + 0
    BY <1>2 DEF Lives
  <2>3. CASE ~running /\ crashes' = crashes
    <3>1. Lives = crashes + stops + rejoins + 0
      BY <2>3 DEF Lives
    <3> QED BY <2>1, <2>2, <2>3, <3>1
  <2>4. CASE crashes' = crashes + 1
    <3>1. Lives \in {crashes + stops + rejoins + 1, crashes + stops + rejoins + 0}
      BY DEF Lives
    <3> QED BY <2>1, <2>2, <2>4, <3>1
  <2> QED BY <1>2, <2>1, <2>3, <2>4
<1>4. Known'
  BY <1>2 DEF Known
<1>5. CommittedOnce'
  BY <1>1, <1>2, <1>3, StillOnce
<1> QED BY <1>4, <1>5

LEMMA OnceNetwork ==
  ASSUME OnceInv, Network
  PROVE  Known' /\ CommittedOnce'
<1>1. UNCHANGED <<feedVars, ledgerVars, lifeVars, pc, rejoins>>
  BY NetworkMoves DEF OnceInv, Inv
<1> QED BY <1>1 DEF OnceInv, Known, CommittedOnce, Accepted, Times, Lives, InHand,
      feedVars, ledgerVars, lifeVars

LEMMA OnceInit == ProverInit => OnceInv
<1> SUFFICES ASSUME ProverInit PROVE OnceInv
  OBVIOUS
<1>1. Inv
  BY InvInit
<1>2. /\ log = << >> /\ pc = "down" /\ running = FALSE
      /\ crashes = 0 /\ stops = 0 /\ rejoins = 0
  BY DEF ProverInit, Log!Init
<1>3. Known
  BY <1>2 DEF Known
<1>4. Lives = 0
  BY <1>2 DEF Lives
<1>5. \A i : Times(log, i) = 0
  <2>1. DOMAIN << >> = {}
    OBVIOUS
  <2>2. \A i : {k \in DOMAIN log : log[k].txn = i} = {}
    BY <1>2, <2>1
  <2> QED BY <2>2, FS_EmptySet DEF Times
<1>6. CommittedOnce
  BY <1>2, <1>4, <1>5 DEF CommittedOnce
<1> QED BY <1>1, <1>3, <1>6 DEF OnceInv

LEMMA OnceNext == OnceInv /\ [ProverNext]_proverVars => OnceInv'
<1> SUFFICES ASSUME OnceInv, [ProverNext]_proverVars PROVE OnceInv'
  OBVIOUS
<1>1. Inv'
  BY InvNext DEF OnceInv
<1>2. Known' /\ CommittedOnce'
  <2>1. CASE Ingest
    BY <2>1, OncePoll, OnceRejoin, OnceReject, OnceAbandon, OnceAdd, OncePersist,
      OncePublish DEF Ingest
  <2>2. CASE Network
    BY <2>2, OnceNetwork
  <2>3. CASE Lifecycle
    BY <2>3, OnceStart, OnceStop, OnceEnd DEF Lifecycle
  <2>4. CASE UNCHANGED proverVars
    BY <2>4 DEF OnceInv, Known, CommittedOnce, Accepted, Times, Lives, InHand,
      proverVars, feedVars, ledgerVars, lifeVars, pastVars
  <2> QED BY <2>1, <2>2, <2>3, <2>4 DEF ProverNext
<1> QED BY <1>1, <1>2 DEF OnceInv

(* However polls, shutdowns, evictions and crashes interleave, the chain   *)
(* never holds more links for a message than one for each process and one  *)
(* for each time a process had to join the group again (consumer.py:83-92, *)
(* 220-224).                                                               *)
THEOREM CommittedOncePerJoin == ProverSpec => []OnceForEachJoin
<1>1. OnceInv => OnceForEachJoin
  <2> SUFFICES ASSUME OnceInv, NEW i \in 1 .. Raw
               PROVE  Times(log, i) <= crashes + stops + rejoins + 1
    BY DEF OnceForEachJoin, Times
  <2>1. /\ log \in Hashes /\ crashes \in Nat /\ stops \in Nat /\ rejoins \in Nat
    BY DEF OnceInv, Inv, TypedAndPlaced, ProverTypeOK, Placed
  <2>2. Times(log, i) \in Nat
    BY <2>1, TimesFinite
  <2>3. /\ Times(log, i) <= Lives - IF pc # "down" /\ ~InHand(i) THEN 1 ELSE 0
        /\ Lives <= crashes + stops + rejoins + 1 /\ Lives \in Nat
    BY <2>1 DEF OnceInv, CommittedOnce, Lives
  <2> QED BY <2>1, <2>2, <2>3
<1>2. ProverSpec => []OnceInv
  BY OnceInit, OnceNext, PTL DEF ProverSpec
<1> QED BY <1>1, <1>2, PTL

-----------------------------------------------------------------------------
(* The counters of a process speak of the links it has added, but for the  *)
(* one at hand, and of the messages it polled.                             *)
Suspect == {k \in Nat : raw[log[k].txn] = "quarantine"}

Conserved ==
  tally["processed"] + tally["signature_failures"] + tally["errors"]
    + since["abandoned"] + (position - next)
      = since["polled"] + since["raised"]

FinishedTallied ==
  /\ tally["processed"] = Cardinality(Finished)
  /\ tally["quarantined"] = Cardinality(Finished \cap Suspect)

Tallied ==
  pc # "down" => /\ since["links"] + AtWork <= Len(log)
                 /\ FinishedTallied
                 /\ Conserved

LEMMA OneMoreCounted ==
  ASSUME NEW a \in Nat, NEW n \in Nat, a <= n, NEW W
  PROVE  /\ Cardinality((a + 1 .. n) \cap W) \in Nat
         /\ n + 1 \in W => Cardinality((a + 1 .. n + 1) \cap W)
                             = Cardinality((a + 1 .. n) \cap W) + 1
         /\ n + 1 \notin W => Cardinality((a + 1 .. n + 1) \cap W)
                                = Cardinality((a + 1 .. n) \cap W)
<1> DEFINE old == (a + 1 .. n) \cap W
           new == (a + 1 .. n + 1) \cap W
<1>1. IsFiniteSet(a + 1 .. n)
  BY FS_Interval
<1>2. IsFiniteSet(old)
  <2>1. old \in SUBSET (a + 1 .. n)
    OBVIOUS
  <2> QED BY <1>1, <2>1, FS_Subset
<1>3. n + 1 \in W => new = old \cup {n + 1}
  OBVIOUS
<1>4. n + 1 \notin W => new = old
  OBVIOUS
<1>5. n + 1 \notin old
  OBVIOUS
<1> HIDE DEF old, new
<1>6. Cardinality(old) \in Nat
  BY <1>2, FS_CardinalityType
<1>7. Cardinality(old \cup {n + 1}) = Cardinality(old) + 1
  BY <1>2, <1>5, FS_AddElement
<1>8. n + 1 \in W => Cardinality(new) = Cardinality(old) + 1
  BY <1>3, <1>7
<1>9. n + 1 \notin W => Cardinality(new) = Cardinality(old)
  BY <1>4
<1> QED BY <1>6, <1>8, <1>9 DEF old, new

LEMMA TallyTyped ==
  ASSUME TypedAndPlaced
  PROVE  /\ \A c \in Tallies : tally[c] \in Nat
         /\ \A m \in Marks : since[m] \in Nat
         /\ next \in Nat /\ position \in Nat /\ next <= position
         /\ Len(log) \in Nat /\ AtWork \in {0, 1}
<1>1. Len(log) \in Nat
  BY LenProperties DEF TypedAndPlaced, ProverTypeOK, Hashes
<1> QED BY <1>1, MessagesAssumption DEF TypedAndPlaced, ProverTypeOK, AtWork

LEMMA TalliedMeans ==
  ASSUME TypedAndPlaced, Tallied
  PROVE  EveryMessageTallied
<1>1. CASE pc = "down"
  BY <1>1 DEF EveryMessageTallied
<1>2. CASE pc # "down"
  <2>1. FinishedTallied /\ Conserved
    BY <1>2 DEF Tallied
  <2>2. since["links"] \in Nat
    BY TallyTyped DEF Marks
  <2>3. \A k \in Finished : k \in Nat
    BY <2>2, TallyTyped DEF Finished
  <2>4. Finished \cap Suspect = {k \in Finished : raw[log[k].txn] = "quarantine"}
    BY <2>3 DEF Suspect
  <2> QED BY <2>1, <2>4 DEF FinishedTallied, Conserved, EveryMessageTallied
<1> QED BY <1>1, <1>2

(* A step that adds no link and ends the work on none leaves the counters  *)
(* of the finished ones alone.                                             *)
LEMMA TalliedStays ==
  ASSUME Tallied, pc # "down", UNCHANGED <<raw, log>>, AtWork' = AtWork,
         since'["links"] = since["links"],
         tally'["processed"] = tally["processed"],
         tally'["quarantined"] = tally["quarantined"],
         Conserved'
  PROVE  Tallied'
<1>1. Finished' = Finished /\ Suspect' = Suspect
  BY DEF Finished, Suspect
<1>2. FinishedTallied'
  BY <1>1 DEF Tallied, FinishedTallied
<1> QED BY <1>2 DEF Tallied

(* Nor does one that touches neither the counters nor the chain.           *)
LEMMA TalliedSame ==
  ASSUME Tallied, UNCHANGED <<raw, log, next, position, tally, since>>,
         pc' # "down" => pc # "down" /\ AtWork' = AtWork
  PROVE  Tallied'
<1>1. CASE pc' = "down"
  BY <1>1 DEF Tallied
<1>2. CASE pc' # "down"
  <2>1. Conserved'
    BY <1>2 DEF Tallied, Conserved
  <2> QED BY <1>2, <2>1, TalliedStays
<1> QED BY <1>1, <1>2

(* The end of the work on a link: it is counted by what its message was.   *)
LEMMA OneMoreFinished ==
  ASSUME OnceInv, Tallied, pc \in {"publish", "alert"},
         UNCHANGED <<raw, log, since>>, AtWork' = 0,
         tally'["processed"] = tally["processed"] + 1,
         tally'["quarantined"]
           = tally["quarantined"]
               + (IF raw[next + 1] = "quarantine" THEN 1 ELSE 0),
         Conserved'
  PROVE  Tallied'
<1> DEFINE from == since["links"]
           n == Len(log) - 1
<1>1. TypedAndPlaced /\ AtWork = 1
  BY DEF OnceInv, Inv, AtWork
<1>2. /\ from \in Nat /\ Len(log) \in Nat /\ from + 1 <= Len(log)
      /\ FinishedTallied
  BY <1>1, TallyTyped DEF Tallied, Marks
<1>3. n \in Nat /\ from <= n /\ n + 1 = Len(log)
  BY <1>2
<1>4. Finished = from + 1 .. n /\ Finished' = from + 1 .. n + 1
  BY <1>1, <1>2 DEF Finished
<1>5. Suspect' = Suspect
  BY DEF Suspect
<1>6. n + 1 \in Suspect <=> raw[next + 1] = "quarantine"
  <2>1. log[n + 1].txn = next + 1
    BY <1>3 DEF OnceInv, Inv, AtHand, Last
  <2> QED BY <1>3, <2>1 DEF Suspect
<1> HIDE DEF from, n
<1> DEFINE old == from + 1 .. n
           new == from + 1 .. n + 1
<1>7. old \cap Nat = old /\ new \cap Nat = new /\ n + 1 \in Nat
  BY <1>2, <1>3
<1>8. /\ Cardinality(old \cap Nat) \in Nat
      /\ Cardinality(new \cap Nat) = Cardinality(old \cap Nat) + 1
  BY <1>2, <1>3, <1>7, OneMoreCounted
<1>9. /\ Cardinality(old \cap Suspect) \in Nat
      /\ Cardinality(new \cap Suspect)
           = Cardinality(old \cap Suspect)
               + (IF raw[next + 1] = "quarantine" THEN 1 ELSE 0)
  <2>1. from \in Nat /\ n \in Nat /\ from <= n
    BY <1>2, <1>3
  <2>2. PICK suspect : suspect = Suspect
    OBVIOUS
  <2>3. /\ Cardinality((from + 1 .. n) \cap suspect) \in Nat
        /\ n + 1 \in suspect => Cardinality((from + 1 .. n + 1) \cap suspect)
                                  = Cardinality((from + 1 .. n) \cap suspect) + 1
        /\ n + 1 \notin suspect => Cardinality((from + 1 .. n + 1) \cap suspect)
                                     = Cardinality((from + 1 .. n) \cap suspect)
    BY <2>1, OneMoreCounted
  <2>4. /\ Cardinality(old \cap suspect) \in Nat
        /\ n + 1 \in suspect => Cardinality(new \cap suspect)
                                  = Cardinality(old \cap suspect) + 1
        /\ n + 1 \notin suspect => Cardinality(new \cap suspect)
                                     = Cardinality(old \cap suspect)
    BY <2>3
  <2> HIDE DEF old, new
  <2> QED BY <1>6, <2>2, <2>4
<1>10. FinishedTallied'
  <2>1. Finished = old /\ Finished' = new
    BY <1>4
  <2> HIDE DEF old, new
  <2> QED BY <1>2, <1>5, <1>7, <1>8, <1>9, <2>1 DEF FinishedTallied
<1>11. since'["links"] + AtWork' <= Len(log')
  BY <1>2, <1>3 DEF from
<1> QED BY <1>10, <1>11 DEF Tallied

LEMMA TalliedPoll ==
  ASSUME OnceInv, Tallied,
         FetchNothing \/ PollRaises \/ Rejoin \/ \E n \in 1 .. MaxPoll : Fetch(n)
  PROVE  Tallied'
<1>1. TypedAndPlaced /\ pc = "poll" /\ next = position /\ Conserved
  BY DEF OnceInv, Inv, TypedAndPlaced, Placed, Tallied, Fetch, FetchNothing,
    PollRaises, Rejoin
<1>2. AtWork = 0
  BY <1>1 DEF AtWork
<1>3. /\ \A c \in Tallies : tally[c] \in Nat
      /\ \A m \in Marks : since[m] \in Nat
      /\ next \in Nat /\ position \in Nat
  BY <1>1, TallyTyped
<1>4. CASE FetchNothing
  <2>1. /\ UNCHANGED <<raw, log, next, position, tally, since>>
        /\ AtWork' = 0
    BY <1>4 DEF FetchNothing, LoopTest, AtWork, ledgerVars, pastVars
  <2> QED BY <1>1, <1>2, <2>1, TalliedSame
<1>5. CASE PollRaises
  <2>1. /\ UNCHANGED <<raw, log, next, position>> /\ AtWork' = 0
        /\ Count({"errors"}) /\ Marked("raised", 1)
    BY <1>5 DEF PollRaises, LoopTest, AtWork, ledgerVars
  <2>2. /\ tally'["errors"] = tally["errors"] + 1
        /\ tally'["processed"] = tally["processed"]
        /\ tally'["quarantined"] = tally["quarantined"]
        /\ tally'["signature_failures"] = tally["signature_failures"]
    BY <2>1 DEF Count, Tallies
  <2>3. /\ since'["raised"] = since["raised"] + 1
        /\ since'["links"] = since["links"]
        /\ since'["polled"] = since["polled"]
        /\ since'["abandoned"] = since["abandoned"]
    BY <1>1, <2>1 DEF Marked, Marks, TypedAndPlaced, ProverTypeOK
  <2>4. Conserved'
    BY <1>1, <1>3, <2>1, <2>2, <2>3 DEF Conserved, Tallies, Marks
  <2> QED BY <1>1, <1>2, <2>1, <2>2, <2>3, <2>4, TalliedStays
<1>6. CASE Rejoin
  <2>1. /\ UNCHANGED <<raw, log, tally, since, pc>>
        /\ next' = offset /\ position' = offset
    BY <1>6 DEF Rejoin, ledgerVars
  <2>2. position' - next' = position - next
    BY <1>1, <1>3, <2>1, MessagesAssumption DEF TypedAndPlaced, ProverTypeOK
  <2>3. Conserved'
    BY <1>1, <2>1, <2>2 DEF Conserved
  <2>4. AtWork' = AtWork
    BY <2>1 DEF AtWork
  <2> QED BY <1>1, <2>1, <2>3, <2>4, TalliedStays
<1>7. ASSUME NEW n \in 1 .. MaxPoll, Fetch(n)
      PROVE  Tallied'
  <2>1. /\ UNCHANGED <<raw, log, next, tally>> /\ AtWork' = 0
        /\ position' = position + n /\ Marked("polled", n)
    BY <1>7 DEF Fetch, AtWork, ledgerVars
  <2>2. /\ since'["polled"] = since["polled"] + n
        /\ since'["links"] = since["links"]
        /\ since'["raised"] = since["raised"]
        /\ since'["abandoned"] = since["abandoned"]
    BY <1>1, <2>1 DEF Marked, Marks, TypedAndPlaced, ProverTypeOK
  <2>3. n \in Nat
    BY PollAssumption
  <2>4. Conserved'
    BY <1>1, <1>3, <2>1, <2>2, <2>3 DEF Conserved, Tallies, Marks
  <2> QED BY <1>1, <1>2, <2>1, <2>2, <2>4, TalliedStays
<1> QED BY <1>4, <1>5, <1>6, <1>7

LEMMA TalliedReject ==
  ASSUME OnceInv, Tallied, Reject
  PROVE  Tallied'
<1>1. /\ TypedAndPlaced /\ pc = "process" /\ Conserved /\ next' = next + 1
      /\ UNCHANGED <<raw, log, position, since>>
      /\ pc' \in {"process", "poll", "done"}
  BY DEF OnceInv, Inv, Tallied, Reject, Done, LoopTest, ledgerVars, pastVars
<1>2. /\ \A c \in Tallies : tally[c] \in Nat
      /\ \A m \in Marks : since[m] \in Nat
      /\ next \in Nat /\ position \in Nat
  BY <1>1, TallyTyped
<1>3. PICK c \in {"signature_failures", "errors"} : Count({c})
  BY DEF Reject
<1>4. /\ tally'["processed"] = tally["processed"]
      /\ tally'["quarantined"] = tally["quarantined"]
      /\ tally'["signature_failures"] + tally'["errors"]
           = tally["signature_failures"] + tally["errors"] + 1
      /\ tally'["signature_failures"] \in Nat /\ tally'["errors"] \in Nat
  BY <1>2, <1>3 DEF Count, Tallies
<1>5. Conserved'
  BY <1>1, <1>2, <1>4 DEF Conserved, Tallies, Marks
<1>6. AtWork' = AtWork
  BY <1>1 DEF AtWork
<1> QED BY <1>1, <1>4, <1>5, <1>6, TalliedStays

LEMMA TalliedAbandon ==
  ASSUME OnceInv, Tallied, Abandon
  PROVE  Tallied'
<1>1. /\ TypedAndPlaced /\ pc = "process" /\ Conserved /\ next' = position
      /\ UNCHANGED <<raw, log, position>>
      /\ pc' \in {"poll", "done"}
      /\ Count({"errors"}) /\ Marked("abandoned", position - (next + 1))
  BY DEF OnceInv, Inv, Tallied, Abandon, LoopTest, ledgerVars
<1>2. /\ \A c \in Tallies : tally[c] \in Nat
      /\ \A m \in Marks : since[m] \in Nat
      /\ next \in Nat /\ position \in Nat
  BY <1>1, TallyTyped
<1>3. /\ tally'["errors"] = tally["errors"] + 1
      /\ tally'["processed"] = tally["processed"]
      /\ tally'["quarantined"] = tally["quarantined"]
      /\ tally'["signature_failures"] = tally["signature_failures"]
  BY <1>1 DEF Count, Tallies
<1>4. /\ since'["abandoned"] = since["abandoned"] + (position - (next + 1))
      /\ since'["links"] = since["links"]
      /\ since'["polled"] = since["polled"]
      /\ since'["raised"] = since["raised"]
  BY <1>1 DEF Marked, Marks, TypedAndPlaced, ProverTypeOK
<1>5. Conserved'
  BY <1>1, <1>2, <1>3, <1>4 DEF Conserved, Tallies, Marks
<1>6. AtWork' = AtWork
  BY <1>1 DEF AtWork
<1> QED BY <1>1, <1>3, <1>4, <1>5, <1>6, TalliedStays

(* The link just added is at hand, and not yet finished.                   *)
LEMMA TalliedAdd ==
  ASSUME OnceInv, Tallied, Add
  PROVE  Tallied'
<1>1. /\ TypedAndPlaced /\ pc = "process" /\ pc' = "persist"
      /\ UNCHANGED <<raw, next, position, tally, since>>
      /\ log' = ChainHash(log, next + 1, clock + 1)
      /\ FinishedTallied /\ Conserved /\ since["links"] + AtWork <= Len(log)
  BY DEF OnceInv, Inv, Tallied, Add, feedVars, pastVars
<1>2. since["links"] \in Nat /\ Len(log) \in Nat /\ AtWork = 0 /\ AtWork' = 1
  BY <1>1, TallyTyped DEF AtWork, Marks
<1>3. Len(log') = Len(log) + 1 /\ \A k \in 1 .. Len(log) : log'[k] = log[k]
  <2>1. log \in Seq(Links) /\ [txn |-> next + 1, ts |-> clock + 1] \in Links
    <3>1. /\ Raw \in Nat /\ Txns = 1 .. Raw /\ next \in 0 .. Raw
          /\ position \in next .. Raw /\ next < position /\ clock \in Nat
      BY <1>1, MessagesAssumption DEF TypedAndPlaced, ProverTypeOK, Placed
    <3>2. next + 1 \in Txns /\ clock + 1 \in Nat
      BY <3>1
    <3> QED BY <1>1, <3>2 DEF Links, TypedAndPlaced, ProverTypeOK, Hashes
  <2> QED BY <1>1, <2>1, AppendProperties DEF ChainHash
<1>4. Finished' = Finished /\ Finished \subseteq 1 .. Len(log)
  BY <1>1, <1>2, <1>3 DEF Finished
<1>5. Finished \cap Suspect' = Finished \cap Suspect
  <2>1. \A k \in Finished : k \in Nat /\ log'[k] = log[k]
    BY <1>3, <1>4
  <2>2. \A k \in Finished : k \in Suspect' <=> k \in Suspect
    BY <1>1, <2>1 DEF Suspect
  <2> QED BY <2>2
<1>6. FinishedTallied'
  BY <1>1, <1>4, <1>5 DEF FinishedTallied
<1>7. Conserved'
  BY <1>1 DEF Conserved
<1>8. since'["links"] + AtWork' <= Len(log')
  BY <1>1, <1>2, <1>3
<1> QED BY <1>6, <1>7, <1>8 DEF Tallied

LEMMA TalliedPublish ==
  ASSUME OnceInv, Tallied, Publish \/ Alert
  PROVE  Tallied'
<1>1. /\ TypedAndPlaced /\ pc \in {"publish", "alert"} /\ Conserved
      /\ UNCHANGED <<raw, log, position, since>>
  BY DEF OnceInv, Inv, Tallied, Publish, Alert, ledgerVars, pastVars
<1>2. /\ \A c \in Tallies : tally[c] \in Nat
      /\ \A m \in Marks : since[m] \in Nat
      /\ next \in Nat /\ position \in Nat
  BY <1>1, TallyTyped
<1>3. SendErrors \subseteq {"publish_errors"}
  BY DEF SendErrors
<1>4. CASE Publish /\ raw[next + 1] = "quarantine"
  <2>1. next' = next /\ pc' = "alert" /\ Count(SendErrors)
    BY <1>4 DEF Publish
  <2>2. /\ tally'["processed"] = tally["processed"]
        /\ tally'["quarantined"] = tally["quarantined"]
        /\ tally'["signature_failures"] = tally["signature_failures"]
        /\ tally'["errors"] = tally["errors"]
    BY <1>3, <2>1 DEF Count, Tallies
  <2>3. Conserved'
    BY <1>1, <2>1, <2>2 DEF Conserved
  <2>4. AtWork' = AtWork
    BY <1>1, <2>1 DEF AtWork
  <2> QED BY <1>1, <2>2, <2>3, <2>4, TalliedStays
<1>5. CASE Alert \/ (Publish /\ raw[next + 1] # "quarantine")
  <2>1. /\ next' = next + 1 /\ AtWork' = 0
        /\ \/ raw[next + 1] # "quarantine" /\ Count({"processed"} \cup SendErrors)
           \/ /\ raw[next + 1] = "quarantine"
              /\ Count({"quarantined", "processed"} \cup SendErrors)
    BY <1>5 DEF Publish, Alert, Done, LoopTest, AtWork, OnceInv, Known
  <2>2. /\ tally'["processed"] = tally["processed"] + 1
        /\ tally'["quarantined"]
             = tally["quarantined"] + (IF raw[next + 1] = "quarantine" THEN 1 ELSE 0)
        /\ tally'["signature_failures"] = tally["signature_failures"]
        /\ tally'["errors"] = tally["errors"]
    BY <1>2, <1>3, <2>1 DEF Count, Tallies
  <2>3. Conserved'
    BY <1>1, <1>2, <2>1, <2>2 DEF Conserved, Tallies, Marks
  <2> QED BY <1>1, <2>1, <2>2, <2>3, OneMoreFinished
<1> QED BY <1>4, <1>5

(* A new process counts from nothing, and from the chain it resumes.       *)
LEMMA TalliedStart ==
  ASSUME OnceInv, Start \/ StartDeaf
  PROVE  Tallied'
<1>1. /\ tally' = [c \in Tallies |-> 0]
      /\ since' = [m \in Marks |-> IF m = "links" THEN Len(stable) ELSE 0]
      /\ next' = offset /\ position' = offset /\ log' = stable
      /\ pc' \in {"poll", "done"}
  BY DEF Start, StartDeaf, NewProcess, Log!Recover
<1>2. offset \in Nat /\ Len(stable) \in Nat
  BY MessagesAssumption, LenProperties
    DEF OnceInv, Inv, TypedAndPlaced, ProverTypeOK, Hashes
<1>3. AtWork' = 0 /\ since'["links"] = Len(log')
  BY <1>1 DEF AtWork, Marks
<1>4. Finished' = {}
  BY <1>1, <1>2, <1>3 DEF Finished
<1>5. /\ tally'["processed"] = 0 /\ tally'["quarantined"] = 0
      /\ tally'["signature_failures"] = 0 /\ tally'["errors"] = 0
      /\ since'["abandoned"] = 0 /\ since'["polled"] = 0 /\ since'["raised"] = 0
  BY <1>1 DEF Tallies, Marks
<1>6. FinishedTallied'
  <2>1. Finished' \cap Suspect' = {}
    BY <1>4
  <2> QED BY <1>4, <1>5, <2>1, FS_EmptySet DEF FinishedTallied
<1>7. Conserved'
  BY <1>1, <1>2, <1>5 DEF Conserved
<1>8. since'["links"] + AtWork' <= Len(log')
  BY <1>1, <1>2, <1>3
<1> QED BY <1>6, <1>7, <1>8 DEF Tallied

LEMMA TalliedNext ==
  ASSUME OnceInv, Tallied, [ProverNext]_proverVars
  PROVE  Tallied'
<1>1. CASE Save \/ SaveFails
  <2>1. /\ UNCHANGED <<raw, log, next, position, tally, since>>
        /\ pc = "persist" /\ AtWork' = AtWork
    BY <1>1 DEF Save, SaveFails, Log!Stabilise, AtWork, feedVars, ledgerVars,
      pastVars
  <2> QED BY <2>1, TalliedSame
<1>2. CASE Network
  <2>1. UNCHANGED <<feedVars, ledgerVars, pc, tally, since>>
    BY <1>2, NetworkMoves DEF OnceInv, Inv
  <2> QED BY <2>1, TalliedSame DEF feedVars, ledgerVars, AtWork
<1>3. CASE BeginStop \/ CloseConsumer \/ CloseProducer \/ Exit \/ Crash
  <2>1. UNCHANGED <<raw, log, next, position, tally, since>>
    BY <1>3 DEF BeginStop, CloseConsumer, CloseProducer, Exit, Crash, Gone,
      feedVars, ledgerVars, pastVars
  <2>2. pc' = "down" \/ (pc # "down" /\ pc' = pc)
    BY <1>3 DEF BeginStop, CloseConsumer, CloseProducer, Exit, Crash, Gone
  <2> QED BY <2>1, <2>2, TalliedSame DEF AtWork
<1>4. CASE UNCHANGED proverVars
  BY <1>4, TalliedSame DEF proverVars, feedVars, ledgerVars, pastVars, AtWork
<1> QED BY <1>1, <1>2, <1>3, <1>4, TalliedPoll, TalliedReject, TalliedAbandon,
      TalliedAdd, TalliedPublish, TalliedStart DEF ProverNext, Ingest, Lifecycle

(* The counters of the running process tell what became of every message   *)
(* it polled: processed and quarantined are those of the links it added    *)
(* and is done with, and with the failures they make up what it polled, up *)
(* to what it has still to look at and to what it abandoned uncounted,     *)
(* whatever was rejected, raised, evicted or being published when the      *)
(* process before it died (consumer.py:61-68, 120-184, 220-228).           *)
THEOREM CountersAccountForAll == ProverSpec => []EveryMessageTallied
<1>1. ProverInit => OnceInv /\ Tallied
  BY OnceInit DEF ProverInit, Tallied
<1>2. OnceInv /\ Tallied /\ [ProverNext]_proverVars => (OnceInv /\ Tallied)'
  BY OnceNext, TalliedNext
<1>3. OnceInv /\ Tallied => EveryMessageTallied
  BY TalliedMeans DEF OnceInv, Inv
<1> QED BY <1>1, <1>2, <1>3, PTL DEF ProverSpec

-----------------------------------------------------------------------------
(* The ledger as the process uses it.                                      *)
LEMMA StepKeepsContract ==
  ASSUME Inv, [ProverNext]_proverVars
  PROVE  [Log!Next]_<<log, stable>>
<1>1. CASE Add
  <2>1. /\ Raw \in Nat /\ Txns = 1 .. Raw /\ next \in 0 .. Raw
        /\ position \in next .. Raw /\ next < position /\ clock \in Nat
    BY <1>1, MessagesAssumption DEF Inv, TypedAndPlaced, ProverTypeOK, Placed, Add
  <2>2. [txn |-> next + 1, ts |-> clock + 1] \in Links
    <3>1. next + 1 \in Txns /\ clock + 1 \in Nat
      BY <2>1
    <3> QED BY <3>1 DEF Links
  <2>3. log' = Append(log, [txn |-> next + 1, ts |-> clock + 1]) /\ UNCHANGED stable
    BY <1>1 DEF Add, ChainHash
  <2> QED BY <2>2, <2>3 DEF Log!Next, Log!Write
<1>2. CASE Save
  BY <1>2 DEF Save, Log!Next
<1>3. CASE Start \/ StartDeaf
  BY <1>3 DEF Start, StartDeaf, NewProcess, Log!Next
<1>4. CASE (\E n \in 1 .. MaxPoll : Fetch(n)) \/ FetchNothing \/ PollRaises \/ Rejoin
           \/ Reject \/ Abandon \/ SaveFails \/ Publish \/ Alert
  BY <1>4 DEF Fetch, FetchNothing, PollRaises, Rejoin, Reject, Abandon, SaveFails,
    Publish, Alert, ledgerVars
<1>5. CASE Network
  BY <1>5 DEF Network, Deliver, Lose, DeliverAgain, DeliverSecond, ledgerVars
<1>6. CASE BeginStop \/ CloseConsumer \/ CloseProducer \/ Exit \/ Crash
  BY <1>6 DEF BeginStop, CloseConsumer, CloseProducer, Exit, Crash, Gone, ledgerVars
<1>7. CASE UNCHANGED proverVars
  BY <1>7 DEF proverVars, ledgerVars
<1> QED BY <1>1, <1>2, <1>3, <1>4, <1>5, <1>6, <1>7 DEF ProverNext, Ingest, Lifecycle

(* The ledger of the process behaves as DurableLog at every step, whatever *)
(* the rest of it does: it is used within the contract that                *)
(* CommitmentStore implements (consumer.py:156-158, commitment.py:165-225).*)
THEOREM LedgerByContract == ProverSpec => Log!Spec
<1>1. ProverInit => Log!Init
  BY DEF ProverInit
<1> QED BY <1>1, StepKeepsContract, ProverInvariance, PTL DEF ProverSpec, Log!Spec
=============================================================================
