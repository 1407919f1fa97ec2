------------------------ MODULE IntentEngine_proofs -------------------------
(***************************************************************************)
(* Proofs about IntentEngine, for every set of accounts and kinds of       *)
(* transaction, every order of event times and every size of the windows.  *)
(***************************************************************************)
EXTENDS IntentEngine, SequenceTheorems, FiniteSetTheorems, FunctionTheorems,
        WellFoundedInduction, TLAPS

-----------------------------------------------------------------------------
(* What the rules can say.                                                 *)
RuleScores == {19000, 18400, 18000, 17000, 16000, 14000, 12400, 12000}

LEMMA ScoresAreNaturals == \A s \in Scores : s \in Nat
<1> DEFINE highest == 20000
<1>1. highest \in Int /\ Scores = 0 .. highest
  BY DEF Scores
<1> HIDE DEF highest
<1> QED BY <1>1

LEMMA RuleScoresKnown ==
  ASSUME NEW k, NEW hops, NEW velocity, NEW r \in Rules(k, hops, velocity)
  PROVE  r.score \in RuleScores /\ r.reason # "NONE"
BY SMT DEF Rules, Rule, RuleScores

(* Among the rules that fire is one that no other exceeds.                 *)
LEMMA SomeRuleIsLargest ==
  ASSUME NEW k, NEW hops, NEW velocity, Rules(k, hops, velocity) # {}
  PROVE  \E r \in Rules(k, hops, velocity) :
           \A q \in Rules(k, hops, velocity) : q.score <= r.score
<1> DEFINE rules == Rules(k, hops, velocity)
<1>1. \A r \in rules : r.score \in RuleScores
  BY RuleScoresKnown, SMT
<1> HIDE DEF rules
<1> SUFFICES ASSUME \A r \in rules : \E q \in rules : ~(q.score <= r.score)
             PROVE  rules = {}
  BY SMT DEF rules
<1>2. \A r \in rules : r.score # 19000
  BY <1>1, SMT DEF RuleScores
<1>3. \A r \in rules : r.score # 18400
  BY <1>1, <1>2, SMT DEF RuleScores
<1>4. \A r \in rules : r.score # 18000
  BY <1>1, <1>2, <1>3, SMT DEF RuleScores
<1>5. \A r \in rules : r.score # 17000
  BY <1>1, <1>2, <1>3, <1>4, SMT DEF RuleScores
<1>6. \A r \in rules : r.score # 16000
  BY <1>1, <1>2, <1>3, <1>4, <1>5, SMT DEF RuleScores
<1>7. \A r \in rules : r.score # 14000
  BY <1>1, <1>2, <1>3, <1>4, <1>5, <1>6, SMT DEF RuleScores
<1>8. \A r \in rules : r.score # 12400
  BY <1>1, <1>2, <1>3, <1>4, <1>5, <1>6, <1>7, SMT DEF RuleScores
<1> QED BY <1>1, <1>2, <1>3, <1>4, <1>5, <1>6, <1>7, <1>8, SMT DEF RuleScores

(* The typology is as high as every rule that fires, and names a reason    *)
(* exactly if one does.                                                    *)
LEMMA TypologyIsLargest ==
  ASSUME NEW k, NEW hops, NEW velocity
  PROVE  /\ Typology(k, hops, velocity).score \in RuleScores \cup {0}
         /\ \A r \in Rules(k, hops, velocity) :
              r.score <= Typology(k, hops, velocity).score
         /\ Typology(k, hops, velocity).score > 0 =>
              Typology(k, hops, velocity).reason # "NONE"
<1> DEFINE rules == Rules(k, hops, velocity)
           largest == CHOOSE r \in rules : \A q \in rules : q.score <= r.score
<1>1. CASE rules = {}
  BY <1>1, SMT DEF Typology
<1>2. CASE rules # {}
  <2>1. largest \in rules /\ \A q \in rules : q.score <= largest.score
    <3>1. \E r \in rules : \A q \in rules : q.score <= r.score
      BY <1>2, SomeRuleIsLargest, SMT
    <3> HIDE DEF rules
    <3> QED BY <3>1, SMT
  <2>2. Typology(k, hops, velocity) = largest
    BY <1>2, SMT DEF Typology
  <2>3. largest.score \in RuleScores /\ largest.reason # "NONE"
    BY <2>1, RuleScoresKnown, SMT
  <2> HIDE DEF largest
  <2> QED BY <2>1, <2>2, <2>3, SMT
<1> QED BY <1>1, <1>2, SMT

LEMMA ScoreOfVerdict ==
  ASSUME NEW a, NEW t, NEW k \in Kinds, NEW hops, NEW velocity
  PROVE  /\ Verdict(a, t, k, hops, velocity).score \in Nat
         /\ Typology(k, hops, velocity).score <= Verdict(a, t, k, hops, velocity).score
         /\ Verdict(a, t, k, hops, velocity).score
              \in {k.novelty, Typology(k, hops, velocity).score}
<1> DEFINE known == Typology(k, hops, velocity).score
<1>1. known \in Nat
  BY TypologyIsLargest, SMT DEF RuleScores
<1>2. k.novelty \in Nat
  BY ScoresAreNaturals, SMT DEF Kinds
<1> DEFINE score == Verdict(a, t, k, hops, velocity).score
<1>3. score = IF k.novelty > known THEN k.novelty ELSE known
  BY SMT DEF Verdict
<1> HIDE DEF known, score
<1>4. CASE k.novelty > known
  BY <1>1, <1>2, <1>3, <1>4, SMT DEF known, score
<1>5. CASE ~(k.novelty > known)
  BY <1>1, <1>2, <1>3, <1>5, SMT DEF known, score
<1> QED BY <1>4, <1>5, SMT

(* Rounding to the fourth digit.                                           *)
LEMMA RoundedQuarantine ==
  ASSUME NEW score \in Nat
  PROVE  StatusOf(score) = "QUARANTINED" <=> score >= Threshold - 1
<1>1. Rounded(score) >= Threshold <=> score >= Threshold - 1
  BY SMT DEF Rounded, Threshold
<1> QED BY <1>1, SMT DEF StatusOf

-----------------------------------------------------------------------------
(* Whoever is screened one or two hops away is quarantined.                *)
LEMMA NearIsQuarantined ==
  ASSUME NEW a, NEW t, NEW k \in Kinds, NEW velocity, k.distance <= 2
  PROVE  Verdict(a, t, k, k.distance, velocity).status = "QUARANTINED"
<1> DEFINE rules == Rules(k, k.distance, velocity)
           score == Verdict(a, t, k, k.distance, velocity).score
<1>1. k.distance \in 1 .. 2
  BY SMT DEF Kinds, SafeHops
<1>2. \E r \in rules : r.score >= 17000
  <2>1. CASE k.distance = 1
    <3>1. k.distance <= 1
      BY <2>1, SMT
    <3>2. [score |-> 19000, reason |-> "OFAC_SANCTION_LIST"] \in rules
      BY <3>1, SMT DEF Rules, Rule
    <3> QED BY <3>2, SMT
  <2>2. CASE k.distance = 2
    <3>1. [score |-> 17000, reason |-> "RBI_FLAG_2024"] \in rules
      BY <2>2, SMT DEF Rules, Rule
    <3> QED BY <3>1, SMT
  <2> QED BY <1>1, <2>1, <2>2, SMT
<1>3. score \in Nat /\ score >= 17000
  <2>1. PICK r \in rules : r.score >= 17000
    BY <1>2, SMT
  <2>2. r.score <= Typology(k, k.distance, velocity).score
    BY TypologyIsLargest, SMT
  <2>4. /\ Typology(k, k.distance, velocity).score <= score
        /\ score \in Nat
    BY ScoreOfVerdict, SMT
  <2>3. /\ r.score \in RuleScores
        /\ Typology(k, k.distance, velocity).score \in RuleScores \cup {0}
    BY RuleScoresKnown, TypologyIsLargest, SMT
  <2> HIDE DEF score, rules
  <2> QED BY <2>1, <2>2, <2>3, <2>4, SMT DEF RuleScores
<1>4. Verdict(a, t, k, k.distance, velocity).status = StatusOf(score)
  BY SMT DEF Verdict
<1> HIDE DEF score
<1> QED BY <1>3, <1>4, RoundedQuarantine, SMT DEF Threshold

(* The detector, the ledger and the reason, for one verdict.               *)
Explained(v) ==
  /\ v.quarantine => v.status = "QUARANTINED" /\ v.flag # "NONE"
  /\ v.status = "QUARANTINED" /\ ~v.quarantine <=> v.score = Threshold - 1

LEMMA VerdictExplained ==
  ASSUME NEW a, NEW t, NEW k \in Kinds, NEW hops, NEW velocity
  PROVE  Explained(Verdict(a, t, k, hops, velocity))
<1> DEFINE v == Verdict(a, t, k, hops, velocity)
           known == Typology(k, hops, velocity)
<1>1. /\ v.quarantine = (v.score >= Threshold) /\ v.status = StatusOf(v.score)
      /\ v.flag = Flag(known, k.novelty)
  BY SMT DEF Verdict
<1>2. /\ v.score \in Nat /\ v.score \in {k.novelty, known.score}
      /\ known.score \in RuleScores \cup {0}
      /\ known.score > 0 => known.reason # "NONE"
  <2>1. v.score \in Nat /\ v.score \in {k.novelty, known.score}
    BY ScoreOfVerdict, SMT
  <2>2. /\ known.score \in RuleScores \cup {0}
        /\ known.score > 0 => known.reason # "NONE"
    BY TypologyIsLargest, SMT
  <2> QED BY <2>1, <2>2, SMT
<1>3. k.novelty \in Nat
  BY ScoresAreNaturals, SMT DEF Kinds
<1> HIDE DEF v, known
<1>4. /\ v.quarantine => v.status = "QUARANTINED"
      /\ v.status = "QUARANTINED" /\ ~v.quarantine <=> v.score = Threshold - 1
  <2>1. /\ v.score >= Threshold => v.score >= Threshold - 1
        /\ v.score >= Threshold - 1 /\ ~(v.score >= Threshold)
             <=> v.score = Threshold - 1
    BY <1>2, SMT DEF Threshold
  <2>2. v.status = "QUARANTINED" <=> v.score >= Threshold - 1
    BY <1>1, <1>2, RoundedQuarantine, SMT
  <2>3. v.quarantine <=> v.score >= Threshold
    BY <1>1, Zenon
  <2> QED BY <2>1, <2>2, <2>3, Zenon
<1>5. v.quarantine => v.flag # "NONE"
  <2> SUFFICES ASSUME v.score >= Threshold
               PROVE  Flag(known, k.novelty) # "NONE"
    BY <1>1, Zenon
  <2>1. CASE known.score > 0
    BY <1>2, <2>1, SMT DEF Flag
  <2>2. CASE ~(known.score > 0)
    <3>1. known.score = 0
      BY <1>2, <2>2, SMT DEF RuleScores
    <3>2. k.novelty >= Threshold
      BY <1>2, <3>1, SMT DEF Threshold
    <3>3. NoveltyReason(k.novelty) # "NONE"
      BY <1>3, <3>2, SMT DEF NoveltyReason, Threshold
    <3> QED BY <2>2, <3>3, SMT DEF Flag
  <2> QED BY <2>1, <2>2, SMT
<1> QED BY <1>4, <1>5, SMT DEF Explained, v

-----------------------------------------------------------------------------
(* The inductive invariant: the two properties, and the client has a flag  *)
(* to turn off.                                                            *)
Inv == "available" \in DOMAIN graph /\ MissedMeansDegraded /\ QuarantineExplained

LEMMA Judged ==
  ASSUME Inv, NEW a, NEW t, NEW k \in TxnKinds, NEW hops, Judge(a, t, k, hops)
  PROVE  /\ QuarantineExplained'
         /\ passed' \subseteq passed \cup {k.distance}
         /\ hops = k.distance /\ k.distance <= 2 => passed' = passed
<1>1. k \in Kinds
  BY KindsAssumption
<1>2. verdict' = Verdict(a, t, k, hops, Count(Deque(a)', t))
  BY DEF Judge
<1>3. Explained(verdict')
  BY <1>1, <1>2, VerdictExplained
<1>4. QuarantineExplained'
  BY <1>3 DEF QuarantineExplained, Explained
<1>5. passed' = IF verdict'.status = "VERIFIED" THEN passed \cup {k.distance}
                ELSE passed
  BY DEF Judge
<1>6. hops = k.distance /\ k.distance <= 2 => verdict'.status = "QUARANTINED"
  BY <1>1, <1>2, NearIsQuarantined
<1> QED BY <1>4, <1>5, <1>6

LEMMA InvInit == IntentInit => Inv
BY DEF IntentInit, Inv, MissedMeansDegraded, QuarantineExplained

LEMMA InvNext == Inv /\ [IntentNext]_intentVars => Inv'
<1> SUFFICES ASSUME Inv, [IntentNext]_intentVars
             PROVE  Inv'
  OBVIOUS
<1>1. ASSUME NEW a \in Accounts, NEW t \in Times, NEW k \in TxnKinds,
             ScoreScreened(a, t, k)
      PROVE  Inv'
  <2>1. /\ graph.available /\ graph' = [graph EXCEPT !.queries = @ + 1]
        /\ Judge(a, t, k, k.distance)
    BY <1>1 DEF ScoreScreened
  <2>2. "available" \in DOMAIN graph'
    BY <2>1 DEF Inv
  <2>3. \A hops \in passed : ~(hops <= 2)
    BY <2>1 DEF Inv, MissedMeansDegraded
  <2>4. \A hops \in passed' : ~(hops <= 2)
    <3>1. /\ passed' \subseteq passed \cup {k.distance}
          /\ k.distance <= 2 => passed' = passed
      BY <2>1, Judged
    <3> QED BY <2>3, <3>1
  <2>5. QuarantineExplained'
    BY <2>1, Judged
  <2> QED BY <2>2, <2>4, <2>5 DEF Inv, MissedMeansDegraded
<1>2. ASSUME NEW a \in Accounts, NEW t \in Times, NEW k \in TxnKinds,
             ScoreGraphFails(a, t, k) \/ ScoreDegraded(a, t, k)
      PROVE  Inv'
  <2>1. "available" \in DOMAIN graph' /\ ~graph'.available
    <3>1. CASE ScoreGraphFails(a, t, k)
      <4>1. graph' = [graph EXCEPT !.errors = @ + 1, !.available = FALSE]
        BY <3>1 DEF ScoreGraphFails, Degrade
      <4>2. graph'.available = FALSE /\ DOMAIN graph' = DOMAIN graph
        BY <4>1 DEF Inv
      <4> QED BY <4>2 DEF Inv
    <3>2. CASE ScoreDegraded(a, t, k)
      <4>1. graph' = graph /\ ~graph.available
        BY <3>2 DEF ScoreDegraded
      <4> QED BY <4>1 DEF Inv
    <3> QED BY <1>2, <3>1, <3>2
  <2>2. Judge(a, t, k, SafeHops)
    BY <1>2 DEF ScoreGraphFails, ScoreDegraded
  <2>3. QuarantineExplained'
    BY <2>2, Judged
  <2> QED BY <2>1, <2>3 DEF Inv, MissedMeansDegraded
<1>3. CASE UNCHANGED intentVars
  BY <1>3 DEF Inv, MissedMeansDegraded, QuarantineExplained, intentVars
<1> QED BY <1>1, <1>2, <1>3 DEF IntentNext

-----------------------------------------------------------------------------
(* The invariant holds in every reachable state.                           *)
THEOREM IntentInvariance == IntentSpec => []Inv
<1> QED BY InvInit, InvNext, PTL DEF IntentSpec

(* No transaction near a sanctioned entity is let through as long as the   *)
(* client says that it screens (sanctions_graph.py:113-155).               *)
THEOREM NearMissMeansDegraded == IntentSpec => []MissedMeansDegraded
<1>1. Inv => MissedMeansDegraded
  BY DEF Inv
<1> QED BY <1>1, IntentInvariance, PTL

(* What the detector quarantines the ledger quarantines, with a reason; it *)
(* goes beyond it for the half unit that rounding lifts onto the           *)
(* threshold, and for nothing else                                         *)
(* (anomaly_detector.py:391-418, 471-476, commitment.py:173).              *)
THEOREM QuarantineHasReason == IntentSpec => []QuarantineExplained
<1>1. Inv => QuarantineExplained
  BY DEF Inv
<1> QED BY <1>1, IntentInvariance, PTL

-----------------------------------------------------------------------------
(* The deques.  A set of naturals has a least element.                     *)
LEMMA LeastNat ==
  ASSUME NEW T, T \subseteq Nat, T # {}
  PROVE  \E x \in T : \A y \in T : x <= y
<1> DEFINE R == OpToRel(<, Nat)
<1>1. \A x, y \in Nat : <<x, y>> \in R <=> x < y
  BY DEF OpToRel
<1>2. IsWellFoundedOn(R, Nat)
  BY NatLessThanWellFounded
<1> HIDE DEF R
<1>3. PICK x \in T : \A y \in T : ~(<<y, x>> \in R)
  BY <1>2, WFMin
<1>4. ASSUME NEW y \in T PROVE x <= y
  <2>1. x \in Nat /\ y \in Nat
    OBVIOUS
  <2>2. ~(y < x)
    BY <1>1, <1>3, <2>1
  <2> QED BY <2>1, <2>2
<1> QED BY <1>4

LEMMA MinIsLeast ==
  ASSUME NEW T, T \subseteq Nat, T # {}
  PROVE  Min(T) \in T /\ \A y \in T : Min(T) <= y
<1> DEFINE least == CHOOSE x \in T : \A y \in T : x <= y
<1>1. least \in T /\ \A y \in T : least <= y
  BY LeastNat
<1>2. Min(T) = least
  BY DEF Min
<1> QED BY <1>1, <1>2

LEMMA NewestIsLatest ==
  ASSUME NEW events \in Seq(Times), events # << >>
  PROVE  /\ Newest(events) \in Times
         /\ \A i \in 1 .. Len(events) : events[i] <= Newest(events)
<1> DEFINE T == {MaxTime - events[i] : i \in 1 .. Len(events)}
           latest == CHOOSE t \in Times : /\ \E i \in DOMAIN events : events[i] = t
                                          /\ \A i \in DOMAIN events : events[i] <= t
<1>1. MaxTime \in Nat
  BY TimeAssumption
<1>2. DOMAIN events = 1 .. Len(events) /\ Len(events) \in Nat /\ Len(events) # 0
  OBVIOUS
<1>3. \A i \in 1 .. Len(events) : events[i] \in Int /\ 1 <= events[i] /\ events[i] <= MaxTime
  <2>1. \A i \in 1 .. Len(events) : events[i] \in Times
    OBVIOUS
  <2> QED BY <1>1, <2>1 DEF Times
<1>4. T \subseteq Nat
  BY <1>1, <1>3
<1>5. T # {}
  <2>1. 1 \in 1 .. Len(events)
    BY <1>2
  <2>2. MaxTime - events[1] \in T
    BY <2>1
  <2> QED BY <2>2
<1>6. PICK x \in T : \A y \in T : x <= y
  <2> HIDE DEF T
  <2> QED BY <1>4, <1>5, LeastNat
<1>7. PICK i \in 1 .. Len(events) : x = MaxTime - events[i]
  OBVIOUS
<1>8. ASSUME NEW j \in 1 .. Len(events) PROVE events[j] <= events[i]
  <2>1. MaxTime - events[j] \in T
    OBVIOUS
  <2>2. MaxTime - events[i] <= MaxTime - events[j]
    BY <1>6, <1>7, <2>1
  <2> QED BY <1>1, <1>3, <2>2
<1>9. \E t \in Times : /\ \E j \in DOMAIN events : events[j] = t
                       /\ \A j \in DOMAIN events : events[j] <= t
  BY <1>2, <1>8
<1>10. latest \in Times /\ \A j \in DOMAIN events : events[j] <= latest
  BY <1>9
<1>11. Newest(events) = latest
  BY DEF Newest
<1> HIDE DEF latest
<1> QED BY <1>2, <1>10, <1>11

(* Of the events of an account its deque holds the latest, at least one,   *)
(* and those it has let go were before the window of some event already.   *)
HoldsLatest(dq, events) ==
  /\ Len(dq) \in 1 .. Len(events)
  /\ \A i \in 1 .. Len(dq) : dq[i] = events[(Len(events) - Len(dq)) + i]
  /\ \A i \in 1 .. Len(events) - Len(dq) :
       \E j \in 1 .. Len(events) : events[i] < events[j] - WindowSeconds

LEMMA AppendHoldsLatest ==
  ASSUME NEW dq \in Seq(Times), NEW events \in Seq(Times), NEW t \in Times,
         (dq = << >> /\ events = << >>) \/ HoldsLatest(dq, events)
  PROVE  HoldsLatest(Append(dq, t), Append(events, t))
<1>1. PICK m \in Nat, n \in Nat : m = Len(dq) /\ n = Len(events)
  OBVIOUS
<1>2. /\ m <= n
      /\ \A i \in 1 .. m : dq[i] = events[(n - m) + i]
      /\ \A i \in 1 .. n - m :
           \E j \in 1 .. n : events[i] < events[j] - WindowSeconds
  <2>1. CASE dq = << >> /\ events = << >>
    <3>1. m = 0 /\ n = 0
      BY <1>1, <2>1
    <3> QED BY <3>1
  <2>2. CASE HoldsLatest(dq, events)
    BY <1>1, <2>2 DEF HoldsLatest
  <2> QED BY <2>1, <2>2
<1> DEFINE full == Append(dq, t)
           all == Append(events, t)
<1>3. /\ Len(full) = m + 1 /\ Len(all) = n + 1
      /\ full[m + 1] = t /\ all[n + 1] = t
  BY <1>1
<1>4. /\ \A i \in 1 .. m : full[i] = dq[i]
      /\ \A i \in 1 .. n : all[i] = events[i]
  BY <1>1
<1> HIDE DEF full, all
<1>5. (n + 1) - (m + 1) = n - m
  OBVIOUS
<1>6. \A i \in 1 .. m + 1 : full[i] = all[(n - m) + i]
  <2> SUFFICES ASSUME NEW i \in 1 .. m + 1 PROVE full[i] = all[(n - m) + i]
    OBVIOUS
  <2>1. CASE i = m + 1
    <3>1. (n - m) + i = n + 1
      BY <2>1
    <3> QED BY <1>3, <2>1, <3>1
  <2>2. CASE i # m + 1
    <3>1. i \in 1 .. m /\ (n - m) + i \in 1 .. n
      BY <1>2, <2>2
    <3> QED BY <1>2, <1>4, <3>1
  <2> QED BY <2>1, <2>2
<1>7. \A i \in 1 .. n - m : \E j \in 1 .. n + 1 : all[i] < all[j] - WindowSeconds
  <2> SUFFICES ASSUME NEW i \in 1 .. n - m
               PROVE  \E j \in 1 .. n + 1 : all[i] < all[j] - WindowSeconds
    OBVIOUS
  <2>1. PICK j \in 1 .. n : events[i] < events[j] - WindowSeconds
    BY <1>2
  <2>2. i \in 1 .. n /\ j \in 1 .. n + 1
    OBVIOUS
  <2>3. all[i] < all[j] - WindowSeconds
    BY <1>4, <2>1, <2>2
  <2> QED BY <2>2, <2>3
<1>8. m + 1 \in 1 .. n + 1
  BY <1>2
<1> QED BY <1>3, <1>5, <1>6, <1>7, <1>8 DEF HoldsLatest, full, all

(* Pruning keeps the newcomer and lets go only of what is too old for it.  *)
LEMMA PruningHoldsLatest ==
  ASSUME NEW full \in Seq(Times), NEW all \in Seq(Times), HoldsLatest(full, all)
  PROVE  LET t == full[Len(full)]
             dq == Pruned(full, t - WindowSeconds)
         IN  dq \in Seq(Times) /\ HoldsLatest(dq, all)
<1> DEFINE t == full[Len(full)]
           kept == {i \in DOMAIN full : full[i] >= t - WindowSeconds}
           dq == Pruned(full, t - WindowSeconds)
<1>1. PICK m \in Nat, n \in Nat : m = Len(full) /\ n = Len(all)
  OBVIOUS
<1>2. /\ m \in 1 .. n
      /\ \A i \in 1 .. m : full[i] = all[(n - m) + i]
      /\ \A i \in 1 .. n - m : \E j \in 1 .. n : all[i] < all[j] - WindowSeconds
  BY <1>1 DEF HoldsLatest
<1>3. /\ WindowSeconds \in Nat
      /\ \A i \in 1 .. m : full[i] \in Int
  <2>1. \A i \in 1 .. m : full[i] \in Times
    BY <1>1
  <2> QED BY <2>1, TimeAssumption DEF Times
<1>4. m \in kept /\ kept \subseteq 1 .. m
  <2>1. DOMAIN full = 1 .. m /\ m \in 1 .. m
    BY <1>1, <1>2
  <2>2. full[m] = t
    BY <1>1
  <2> HIDE DEF t
  <2>3. t \in Int /\ full[m] >= t - WindowSeconds
    BY <1>3, <2>1, <2>2
  <2> QED BY <2>1, <2>3
<1>5. PICK first \in 1 .. m : /\ first = Min(kept) /\ first \in kept
                              /\ \A i \in kept : first <= i
  <2> HIDE DEF kept
  <2>1. kept \subseteq Nat /\ kept # {}
    BY <1>4
  <2>2. Min(kept) \in kept /\ \A i \in kept : Min(kept) <= i
    BY <2>1, MinIsLeast
  <2> QED BY <1>4, <2>2
<1>6. \A i \in 1 .. first - 1 : full[i] < t - WindowSeconds
  <2> SUFFICES ASSUME NEW i \in 1 .. first - 1
               PROVE  full[i] < t - WindowSeconds
    OBVIOUS
  <2>1. i \in 1 .. m /\ i \in DOMAIN full
    BY <1>1
  <2>2. i \notin kept
    <3>1. ~(first <= i)
      OBVIOUS
    <3> HIDE DEF kept
    <3> QED BY <1>5, <3>1
  <2>3. t = full[m] /\ t \in Int
    BY <1>1, <1>2, <1>3
  <2>4. ~(full[i] >= t - WindowSeconds)
    BY <2>1, <2>2
  <2> HIDE DEF t
  <2> QED BY <1>3, <2>1, <2>3, <2>4
<1>7. dq = SubSeq(full, first, m)
  <2>1. kept # {}
    BY <1>4
  <2> QED BY <1>1, <1>5, <2>1 DEF Pruned
<1>8. /\ dq \in Seq(Times) /\ Len(dq) = (m - first) + 1
      /\ \A i \in 1 .. (m - first) + 1 : dq[i] = full[(first + i) - 1]
  <2>1. \A i \in first .. m : full[i] \in Times
    BY <1>1
  <2>2. SubSeq(full, first, m) \in Seq(Times)
    BY <1>1, <2>1
  <2>3. Len(SubSeq(full, first, m)) = (m - first) + 1
    BY <1>1
  <2>4. \A i \in 1 .. (m - first) + 1 :
           SubSeq(full, first, m)[i] = full[(first + i) - 1]
    BY <1>1
  <2> QED BY <1>7, <2>2, <2>3, <2>4
<1> DEFINE k == (m - first) + 1
<1>9. /\ k \in 1 .. n
      /\ \A i \in 1 .. k : dq[i] = all[(n - k) + i]
      /\ \A i \in 1 .. n - k : \E j \in 1 .. n : all[i] < all[j] - WindowSeconds
  <2> HIDE DEF dq
  <2>1. k \in 1 .. n
    BY <1>2
  <2>2. ASSUME NEW i \in 1 .. k PROVE dq[i] = all[(n - k) + i]
    <3>1. (first + i) - 1 \in 1 .. m
      OBVIOUS
    <3>2. (n - m) + ((first + i) - 1) = (n - k) + i
      OBVIOUS
    <3>3. dq[i] = full[(first + i) - 1]
      BY <1>8
    <3>4. full[(first + i) - 1] = all[(n - m) + ((first + i) - 1)]
      BY <1>2, <3>1
    <3> QED BY <3>2, <3>3, <3>4
  <2>3. ASSUME NEW i \in 1 .. n - k
        PROVE  \E j \in 1 .. n : all[i] < all[j] - WindowSeconds
    <3>1. CASE i <= n - m
      BY <1>2, <3>1
    <3>2. CASE ~(i <= n - m)
      <4>1. i - (n - m) \in 1 .. first - 1 /\ i - (n - m) \in 1 .. m
        BY <1>2, <3>2
      <4>2. (n - m) + (i - (n - m)) = i /\ (n - m) + m = n
        BY <1>2
      <4>3. full[i - (n - m)] = all[i] /\ full[m] = all[n]
        <5>1. full[i - (n - m)] = all[(n - m) + (i - (n - m))]
          BY <1>2, <4>1
        <5>2. full[m] = all[(n - m) + m]
          BY <1>2
        <5> QED BY <4>2, <5>1, <5>2
      <4>4. full[i - (n - m)] < full[m] - WindowSeconds
        BY <1>1, <1>6, <4>1
      <4>5. n \in 1 .. n
        BY <1>2
      <4> QED BY <4>3, <4>4, <4>5
    <3> QED BY <3>1, <3>2
  <2> QED BY <2>1, <2>2, <2>3
<1>10. HoldsLatest(dq, all)
  <2> HIDE DEF dq
  <2>1. Len(dq) = k
    BY <1>8
  <2> HIDE DEF k
  <2> QED BY <1>1, <1>9, <2>1 DEF HoldsLatest
<1> QED BY <1>8, <1>10

(* What the deque counts before the newest event is all there is.          *)
LEMMA CountIsTrailing ==
  ASSUME NEW dq \in Seq(Times), NEW events \in Seq(Times), HoldsLatest(dq, events)
  PROVE  Count(dq, Newest(events)) = Trailing(events, Newest(events))
<1>1. PICK m \in Nat, n \in Nat : m = Len(dq) /\ n = Len(events)
  OBVIOUS
<1>2. /\ m \in 1 .. n
      /\ \A i \in 1 .. m : dq[i] = events[(n - m) + i]
      /\ \A i \in 1 .. n - m : \E j \in 1 .. n : events[i] < events[j] - WindowSeconds
  BY <1>1 DEF HoldsLatest
<1>3. PICK t \in Int : t = Newest(events) /\ \A i \in 1 .. n : events[i] <= t
  <2>1. events # << >>
    BY <1>1, <1>2
  <2> QED BY <1>1, <2>1, NewestIsLatest, TimeAssumption DEF Times
<1>4. /\ WindowSeconds \in Nat
      /\ \A i \in 1 .. n : events[i] \in Int
  <2>1. \A i \in 1 .. n : events[i] \in Times
    BY <1>1
  <2> QED BY <2>1, TimeAssumption DEF Times
<1> DEFINE A == {i \in 1 .. m : dq[i] > t - WindowSeconds}
           B == {i \in 1 .. n : t - WindowSeconds < events[i] /\ events[i] <= t}
           f == [i \in A |-> (n - m) + i]
<1>5. ASSUME NEW i \in A PROVE f[i] \in B
  <2>1. i \in 1 .. m /\ (n - m) + i \in 1 .. n
    BY <1>2
  <2>2. dq[i] = events[(n - m) + i]
    BY <1>2, <2>1
  <2>3. /\ events[(n - m) + i] <= t /\ events[(n - m) + i] \in Int
        /\ events[(n - m) + i] > t - WindowSeconds
    BY <1>3, <1>4, <2>1, <2>2
  <2>4. (n - m) + i \in B
    BY <1>4, <2>1, <2>3
  <2> QED BY <2>4
<1>6. \A i, j \in A : f[i] = f[j] => i = j
  OBVIOUS
<1>7. ASSUME NEW j \in B PROVE \E i \in A : f[i] = j
  <2>1. ~(j \in 1 .. n - m)
    <3> SUFFICES ASSUME j \in 1 .. n - m PROVE FALSE
      OBVIOUS
    <3>1. PICK l \in 1 .. n : events[j] < events[l] - WindowSeconds
      BY <1>2
    <3>2. events[l] <= t /\ events[l] \in Int /\ events[j] \in Int
      BY <1>3, <1>4
    <3>3. t - WindowSeconds < events[j]
      OBVIOUS
    <3> QED BY <1>4, <3>1, <3>2, <3>3
  <2>2. j - (n - m) \in 1 .. m /\ (n - m) + (j - (n - m)) = j
    BY <1>2, <2>1
  <2>3. dq[j - (n - m)] = events[j]
    <3>1. dq[j - (n - m)] = events[(n - m) + (j - (n - m))]
      BY <1>2, <2>2
    <3> QED BY <2>2, <3>1
  <2>4. dq[j - (n - m)] > t - WindowSeconds
    BY <1>4, <2>3
  <2>5. j - (n - m) \in A
    BY <2>2, <2>4
  <2> QED BY <2>2, <2>5
<1>8. ExistsBijection(A, B)
  <2>1. f \in Injection(A, B)
    BY <1>5, <1>6, Fun_IsInj
  <2>2. f \in Surjection(A, B)
    BY <1>5, <1>7, Fun_IsSurj
  <2>3. f \in Bijection(A, B)
    BY <2>1, <2>2 DEF Bijection
  <2> QED BY <2>3 DEF ExistsBijection
<1>9. IsFiniteSet(A)
  <2>1. A \subseteq 1 .. m
    OBVIOUS
  <2> HIDE DEF A
  <2>2. IsFiniteSet(1 .. m)
    BY FS_Interval
  <2> QED BY <2>1, <2>2, FS_Subset
<1>10. Cardinality(A) = Cardinality(B)
  <2> HIDE DEF A, B
  <2> QED BY <1>8, <1>9, FS_Bijection
<1>11. DOMAIN dq = 1 .. m /\ DOMAIN events = 1 .. n
  BY <1>1
<1>12. Count(dq, t) = Cardinality(A)
  BY <1>11 DEF Count
<1>13. Trailing(events, t) = Cardinality(B)
  BY <1>11 DEF Trailing
<1> QED BY <1>3, <1>10, <1>12, <1>13

-----------------------------------------------------------------------------
(* The second inductive invariant: every deque holds the latest events,    *)
(* the graph client fails once, and everything is of its type.             *)
Deques ==
  /\ DOMAIN times \subseteq Accounts
  /\ times = [a \in DOMAIN times |-> times[a]]
  /\ seen \in [Accounts -> Seq(Times)]
  /\ \A a \in Accounts : a \in DOMAIN times <=> seen[a] # << >>
  /\ \A a \in DOMAIN times :
       times[a] \in Seq(Times) /\ HoldsLatest(times[a], seen[a])

GraphOk ==
  /\ graph \in [available : BOOLEAN, queries : Nat, errors : 0 .. 1]
  /\ graph.available => graph.errors = 0

TypedInv == IntentTypeOK /\ GraphOk /\ Deques

(* What RecordTime makes of the deque of the account, before it trims.     *)
NewDeque(a, t) == Pruned(Append(Deque(a), t), t - WindowSeconds)

LEMMA NewDequeHoldsLatest ==
  ASSUME Deques, NEW a \in Accounts, NEW t \in Times
  PROVE  /\ NewDeque(a, t) \in Seq(Times)
         /\ HoldsLatest(NewDeque(a, t), Append(seen[a], t))
<1>1. seen[a] \in Seq(Times) /\ Append(seen[a], t) \in Seq(Times)
  BY DEF Deques
<1>2. /\ Deque(a) \in Seq(Times)
      /\ \/ Deque(a) = << >> /\ seen[a] = << >>
         \/ HoldsLatest(Deque(a), seen[a])
  <2>1. CASE a \in DOMAIN times
    BY <2>1 DEF Deques, Deque
  <2>2. CASE a \notin DOMAIN times
    <3>1. Deque(a) = << >> /\ seen[a] = << >>
      BY <2>2 DEF Deques, Deque
    <3> QED BY <3>1
  <2> QED BY <2>1, <2>2
<1> DEFINE full == Append(Deque(a), t)
<1>3. full \in Seq(Times) /\ full[Len(full)] = t
  BY <1>2
<1>4. HoldsLatest(full, Append(seen[a], t))
  BY <1>1, <1>2, AppendHoldsLatest
<1> HIDE DEF full
<1>5. /\ Pruned(full, t - WindowSeconds) \in Seq(Times)
      /\ HoldsLatest(Pruned(full, t - WindowSeconds), Append(seen[a], t))
  BY <1>1, <1>3, <1>4, PruningHoldsLatest
<1> QED BY <1>5 DEF NewDeque, full

(* No deque is ever empty, so that the bound on the accounts drops none.   *)
LEMMA TrimmedIsWhole ==
  ASSUME NEW S, NEW map, map = [b \in S |-> map[b]], \A b \in S : map[b] # << >>
  PROVE  Trimmed(map) = map
<1>1. DOMAIN map = S
  OBVIOUS
<1>2. {b \in DOMAIN map : map[b] # << >>} = S
  BY <1>1
<1>3. Restrict(map, S) = map
  BY DEF Restrict
<1> QED BY <1>2, <1>3 DEF Trimmed

LEMMA DequesRecord ==
  ASSUME Deques, NEW a \in Accounts, NEW t \in Times, RecordTime(a, t),
         seen' = [seen EXCEPT ![a] = Append(@, t)]
  PROVE  /\ Deques'
         /\ a \in DOMAIN times'
<1> DEFINE S == DOMAIN times \cup {a}
           map == [b \in S |-> IF b = a THEN NewDeque(a, t) ELSE times[b]]
<1>1. /\ NewDeque(a, t) \in Seq(Times)
      /\ HoldsLatest(NewDeque(a, t), Append(seen[a], t))
  BY NewDequeHoldsLatest
<1>2. ASSUME NEW b \in S
      PROVE  map[b] \in Seq(Times) /\ HoldsLatest(map[b], seen'[b])
  <2>1. CASE b = a
    <3>1. map[b] = NewDeque(a, t) /\ seen'[b] = Append(seen[a], t)
      BY <2>1 DEF Deques
    <3> QED BY <1>1, <3>1
  <2>2. CASE b # a
    <3>1. b \in DOMAIN times /\ map[b] = times[b]
      BY <2>2
    <3>2. seen'[b] = seen[b]
      BY <2>2, <3>1 DEF Deques
    <3> QED BY <3>1, <3>2 DEF Deques
  <2> QED BY <2>1, <2>2
<1>3. \A b \in S : map[b] # << >>
  <2> SUFFICES ASSUME NEW b \in S PROVE map[b] # << >>
    OBVIOUS
  <2>1. Len(map[b]) \in 1 .. Len(seen'[b])
    BY <1>2 DEF HoldsLatest
  <2> HIDE DEF map
  <2> QED BY <2>1
<1>4. times' = map
  <2>1. times' = Trimmed(map)
    BY DEF RecordTime, NewDeque
  <2>2. map = [b \in S |-> map[b]]
    OBVIOUS
  <2> HIDE DEF map, S
  <2> QED BY <1>3, <2>1, <2>2, TrimmedIsWhole
<1>5. DOMAIN times' = S /\ times' = [b \in DOMAIN times' |-> times'[b]]
  BY <1>4
<1>6. seen' \in [Accounts -> Seq(Times)]
  BY DEF Deques
<1>7. \A b \in Accounts : b \in DOMAIN times' <=> seen'[b] # << >>
  <2> SUFFICES ASSUME NEW b \in Accounts
               PROVE  b \in DOMAIN times' <=> seen'[b] # << >>
    OBVIOUS
  <2>1. CASE b = a
    <3>1. seen'[b] = Append(seen[a], t) /\ seen[a] \in Seq(Times)
      BY <2>1 DEF Deques
    <3>2. Append(seen[a], t) # << >>
      BY <3>1
    <3> QED BY <1>5, <2>1, <3>1, <3>2
  <2>2. CASE b # a
    <3>1. seen'[b] = seen[b]
      BY <2>2 DEF Deques
    <3> QED BY <1>5, <2>2, <3>1 DEF Deques
  <2> QED BY <2>1, <2>2
<1>8. \A b \in DOMAIN times' : times'[b] \in Seq(Times) /\ HoldsLatest(times'[b], seen'[b])
  <2> HIDE DEF map, S
  <2> QED BY <1>2, <1>4, <1>5
<1>9. DOMAIN times' \subseteq Accounts
  BY <1>5 DEF Deques
<1> QED BY <1>5, <1>6, <1>7, <1>8, <1>9 DEF Deques

LEMMA DequesCountExactly == Deques => CountExactAtNewest
<1> SUFFICES ASSUME Deques, NEW a \in Accounts, seen[a] # << >>
             PROVE  Count(Deque(a), Newest(seen[a])) = Trailing(seen[a], Newest(seen[a]))
  BY DEF CountExactAtNewest
<1>1. a \in DOMAIN times /\ Deque(a) = times[a]
  BY DEF Deques, Deque
<1>2. /\ times[a] \in Seq(Times) /\ seen[a] \in Seq(Times)
      /\ HoldsLatest(times[a], seen[a])
  BY <1>1 DEF Deques
<1> QED BY <1>1, <1>2, CountIsTrailing

(* What the rules can answer is a verdict of the declared type.            *)
LEMMA CountIsNatural ==
  ASSUME NEW dq \in Seq(Times), NEW t
  PROVE  Count(dq, t) \in Nat
<1> DEFINE A == {i \in DOMAIN dq : dq[i] > t - WindowSeconds}
<1>1. A \subseteq 1 .. Len(dq) /\ Len(dq) \in Nat
  OBVIOUS
<1> HIDE DEF A
<1>2. IsFiniteSet(1 .. Len(dq))
  BY <1>1, FS_Interval
<1>3. IsFiniteSet(A)
  BY <1>1, <1>2, FS_Subset
<1>4. Cardinality(A) \in Nat
  BY <1>3, FS_CardinalityType
<1> QED BY <1>4 DEF Count, A

LEMMA RecordedIsTyped ==
  ASSUME NEW d \in 0 .. 9, digits \in Seq(1 .. 9), Len(digits) <= BenfordWindow
  PROVE  Recorded(d) \in Seq(1 .. 9) /\ Len(Recorded(d)) <= BenfordWindow
<1>1. BenfordWindow \in Nat \ {0}
  BY SizesAssumption
<1>2. CASE d = 0
  BY <1>2 DEF Recorded
<1>3. CASE d # 0 /\ Len(digits) < BenfordWindow
  <2>1. d \in 1 .. 9 /\ Recorded(d) = Append(digits, d)
    BY <1>3 DEF Recorded
  <2>2. Append(digits, d) \in Seq(1 .. 9) /\ Len(Append(digits, d)) = Len(digits) + 1
    BY <2>1
  <2> QED BY <1>1, <1>3, <2>1, <2>2
<1>4. CASE d # 0 /\ ~(Len(digits) < BenfordWindow)
  <2>1. d \in 1 .. 9 /\ Recorded(d) = Append(Tail(digits), d)
    BY <1>4 DEF Recorded
  <2>2. digits # << >>
    BY <1>1, <1>4
  <2>3. Tail(digits) \in Seq(1 .. 9) /\ Len(Tail(digits)) = Len(digits) - 1
    BY <2>2
  <2>4. /\ Append(Tail(digits), d) \in Seq(1 .. 9)
        /\ Len(Append(Tail(digits), d)) = Len(Tail(digits)) + 1
    BY <2>1, <2>3
  <2> QED BY <1>1, <2>1, <2>3, <2>4
<1> QED BY <1>2, <1>3, <1>4

LEMMA TypologyReasonKnown ==
  ASSUME NEW k, NEW hops, NEW velocity
  PROVE  Typology(k, hops, velocity).reason \in Flags
<1> DEFINE rules == Rules(k, hops, velocity)
           largest == CHOOSE r \in rules : \A q \in rules : q.score <= r.score
<1>1. \A r \in rules : r.reason \in Flags
  BY SMT DEF Rules, Rule, Flags
<1>2. CASE rules = {}
  BY <1>2, SMT DEF Typology, Flags
<1>3. CASE rules # {}
  <2>1. \E r \in rules : \A q \in rules : q.score <= r.score
    BY <1>3, SomeRuleIsLargest, SMT
  <2>2. Typology(k, hops, velocity) = largest
    BY <1>3, SMT DEF Typology
  <2> HIDE DEF rules
  <2>3. largest \in rules
    BY <2>1, SMT
  <2> QED BY <1>1, <2>2, <2>3, SMT
<1> QED BY <1>2, <1>3

LEMMA VerdictIsTyped ==
  ASSUME NEW a \in Accounts, NEW t \in Times, NEW k \in Kinds, NEW hops,
         NEW velocity \in Nat
  PROVE  Verdict(a, t, k, hops, velocity) \in Verdicts
<1> DEFINE v == Verdict(a, t, k, hops, velocity)
           known == Typology(k, hops, velocity)
<1>1. k.novelty \in Scores
  BY SMT DEF Kinds
<1>2. RuleScores \cup {0} \subseteq Scores
  BY SMT DEF RuleScores, Scores
<1>3. known.score \in Scores
  BY <1>2, TypologyIsLargest, Zenon
<1>4. v.score \in Scores
  <2>1. v.score \in {k.novelty, known.score}
    BY ScoreOfVerdict, SMT
  <2> HIDE DEF v, known
  <2> QED BY <1>1, <1>3, <2>1, Zenon
<1>5. Flag(known, k.novelty) \in Flags
  <2>1. known.reason \in Flags
    BY TypologyReasonKnown
  <2>2. NoveltyReason(k.novelty) \in Flags
    BY SMT DEF NoveltyReason, Flags
  <2> HIDE DEF known
  <2> QED BY <2>1, <2>2, SMT DEF Flag
<1>6. StatusOf(v.score) \in {"VERIFIED", "QUARANTINED"}
  BY Zenon DEF StatusOf
<1> DEFINE quarantine == v.score >= Threshold
           flag == Flag(known, k.novelty)
           status == StatusOf(v.score)
           score == v.score
<1>7. (v.score >= Threshold) \in BOOLEAN
  <2>1. v.score \in Int /\ Threshold \in Int
    BY <1>4, ScoresAreNaturals, SMT DEF Threshold
  <2> HIDE DEF v
  <2> QED BY <2>1, SMT
<1>8. v = [account |-> a, at |-> t, velocity |-> velocity, score |-> score,
           flag |-> flag, quarantine |-> quarantine, status |-> status]
  BY SMT DEF Verdict
<1> HIDE DEF v, known, quarantine, flag, status, score
<1>9. /\ score \in Scores /\ flag \in Flags /\ quarantine \in BOOLEAN
      /\ status \in {"VERIFIED", "QUARANTINED"}
  BY <1>4, <1>5, <1>6, <1>7, Zenon DEF quarantine, flag, status, score
<1>10. v \in [account : Accounts, at : Times, velocity : Nat,
              score : Scores, flag : Flags, quarantine : BOOLEAN,
              status : {"VERIFIED", "QUARANTINED"}]
  BY <1>8, <1>9, Zenon
<1> QED BY <1>10, Zenon DEF Verdicts, v

-----------------------------------------------------------------------------
(* One transaction judged, whatever the graph answered.                    *)
LEMMA JudgedIsTyped ==
  ASSUME TypedInv, NEW a \in Accounts, NEW t \in Times, NEW k \in TxnKinds,
         NEW hops, Judge(a, t, k, hops), GraphOk'
  PROVE  TypedInv'
<1>1. k \in Kinds
  BY KindsAssumption
<1>2. /\ RecordTime(a, t) /\ seen' = [seen EXCEPT ![a] = Append(@, t)]
      /\ verdict' = Verdict(a, t, k, hops, Count(Deque(a)', t))
      /\ digits' = Recorded(k.digit) /\ scored < MaxScored /\ scored' = scored + 1
      /\ passed' = IF verdict'.status = "VERIFIED" THEN passed \cup {k.distance}
                   ELSE passed
  BY DEF Judge
<1>3. Deques' /\ a \in DOMAIN times'
  BY <1>2, DequesRecord DEF TypedInv
<1>4. Deque(a)' \in Seq(Times)
  BY <1>3 DEF Deques, Deque
<1>5. verdict' \in Verdicts
  <2>1. Count(Deque(a)', t) \in Nat
    BY <1>4, CountIsNatural
  <2> QED BY <1>1, <1>2, <2>1, VerdictIsTyped
<1>6. k.digit \in 0 .. 9 /\ k.distance \in 1 .. SafeHops
  BY <1>1, SMT DEF Kinds
<1>7. digits' \in Seq(1 .. 9) /\ Len(digits') <= BenfordWindow
  BY <1>2, <1>6, RecordedIsTyped DEF TypedInv, IntentTypeOK
<1>8. scored' \in 0 .. MaxScored
  <2>1. scored \in 0 .. MaxScored /\ MaxScored \in Nat
    BY BoundAssumption DEF TypedInv, IntentTypeOK
  <2> QED BY <1>2, <2>1
<1>9. passed' \subseteq 1 .. SafeHops
  <2>1. passed \subseteq 1 .. SafeHops
    BY DEF TypedInv, IntentTypeOK
  <2> QED BY <1>2, <1>6, <2>1
<1>10. /\ DOMAIN times' \subseteq Accounts
       /\ \A b \in DOMAIN times' : times'[b] \in Seq(Times)
       /\ seen' \in [Accounts -> Seq(Times)]
  BY <1>3 DEF Deques
<1>11. graph' \in [available : BOOLEAN, queries : Nat, errors : 0 .. 1]
  BY DEF GraphOk
<1>12. verdict' \in {<< >>} \cup Verdicts
  BY <1>5
<1>13. IntentTypeOK'
  BY <1>7, <1>8, <1>9, <1>10, <1>11, <1>12 DEF IntentTypeOK
<1> QED BY <1>3, <1>13 DEF TypedInv

LEMMA TypedInit == IntentInit => TypedInv
<1> SUFFICES ASSUME IntentInit PROVE TypedInv
  OBVIOUS
<1>1. /\ times = << >> /\ digits = << >> /\ scored = 0 /\ verdict = << >>
      /\ seen = [a \in Accounts |-> << >>] /\ passed = {}
      /\ graph \in [available : BOOLEAN, queries : {0}, errors : {0}]
  BY DEF IntentInit
<1>2. GraphOk
  <2>1. graph \in [available : BOOLEAN, queries : Nat, errors : 0 .. 1]
    BY <1>1
  <2>2. graph.errors = 0
    BY <1>1
  <2> QED BY <2>1, <2>2 DEF GraphOk
<1>3. DOMAIN times = {} /\ times = [a \in DOMAIN times |-> times[a]]
  BY <1>1
<1>4. seen \in [Accounts -> Seq(Times)]
  BY <1>1
<1>5. Deques
  BY <1>1, <1>3, <1>4 DEF Deques
<1>6. IntentTypeOK
  <2>1. scored \in 0 .. MaxScored
    BY <1>1, BoundAssumption
  <2>2. digits \in Seq(1 .. 9) /\ Len(digits) <= BenfordWindow
    BY <1>1, SizesAssumption
  <2> QED BY <1>1, <1>2, <1>3, <1>4, <2>1, <2>2 DEF IntentTypeOK, GraphOk
<1> QED BY <1>2, <1>5, <1>6 DEF TypedInv

LEMMA TypedNext == TypedInv /\ [IntentNext]_intentVars => TypedInv'
<1> SUFFICES ASSUME TypedInv, [IntentNext]_intentVars
             PROVE  TypedInv'
  OBVIOUS
<1>1. ASSUME NEW a \in Accounts, NEW t \in Times, NEW k \in TxnKinds,
             ScoreScreened(a, t, k)
      PROVE  TypedInv'
  <2>1. graph' = [graph EXCEPT !.queries = @ + 1] /\ Judge(a, t, k, k.distance)
    BY <1>1 DEF ScoreScreened
  <2>2. GraphOk'
    <3>1. graph' \in [available : BOOLEAN, queries : Nat, errors : 0 .. 1]
      BY <2>1 DEF TypedInv, GraphOk
    <3>2. graph'.available = graph.available /\ graph'.errors = graph.errors
      BY <2>1 DEF TypedInv, GraphOk
    <3> QED BY <3>1, <3>2 DEF TypedInv, GraphOk
  <2> QED BY <2>1, <2>2, JudgedIsTyped
<1>2. ASSUME NEW a \in Accounts, NEW t \in Times, NEW k \in TxnKinds,
             ScoreGraphFails(a, t, k)
      PROVE  TypedInv'
  <2>1. /\ graph.available
        /\ graph' = [graph EXCEPT !.errors = @ + 1, !.available = FALSE]
        /\ Judge(a, t, k, SafeHops)
    BY <1>2 DEF ScoreGraphFails, Degrade
  <2>2. GraphOk'
    <3>1. graph \in [available : BOOLEAN, queries : Nat, errors : 0 .. 1]
      BY DEF TypedInv, GraphOk
    <3>2. graph.errors = 0
      BY <2>1 DEF TypedInv, GraphOk
    <3> DEFINE failures == graph.errors + 1
    <3>3. failures \in 0 .. 1
      BY <3>2
    <3>4. graph' = [graph EXCEPT !.errors = failures, !.available = FALSE]
      BY <2>1
    <3> HIDE DEF failures
    <3>5. graph' \in [available : BOOLEAN, queries : Nat, errors : 0 .. 1]
      BY <3>1, <3>3, <3>4
    <3>6. graph'.available = FALSE
      BY <3>1, <3>4
    <3> QED BY <3>5, <3>6 DEF GraphOk
  <2> QED BY <2>1, <2>2, JudgedIsTyped
<1>3. ASSUME NEW a \in Accounts, NEW t \in Times, NEW k \in TxnKinds,
             ScoreDegraded(a, t, k)
      PROVE  TypedInv'
  <2>1. graph' = graph /\ Judge(a, t, k, SafeHops)
    BY <1>3 DEF ScoreDegraded
  <2>2. GraphOk'
    BY <2>1 DEF TypedInv, GraphOk
  <2> QED BY <2>1, <2>2, JudgedIsTyped
<1>4. CASE UNCHANGED intentVars
  <2>1. /\ times' = times /\ digits' = digits /\ graph' = graph /\ scored' = scored
        /\ verdict' = verdict /\ seen' = seen /\ passed' = passed
    BY <1>4 DEF intentVars
  <2>2. IntentTypeOK'
    BY <2>1 DEF TypedInv, IntentTypeOK
  <2>3. GraphOk'
    BY <2>1 DEF TypedInv, GraphOk
  <2>4. Deques'
    BY <2>1 DEF TypedInv, Deques
  <2> QED BY <2>2, <2>3, <2>4 DEF TypedInv
<1> QED BY <1>1, <1>2, <1>3, <1>4 DEF IntentNext

-----------------------------------------------------------------------------
(* The second invariant holds in every reachable state.                    *)
THEOREM TypedInvariance == IntentSpec => []TypedInv
<1> QED BY TypedInit, TypedNext, PTL DEF IntentSpec

(* Every deque, counter and verdict is always of its type.                 *)
THEOREM IntentTypeCorrect == IntentSpec => []IntentTypeOK
<1>1. TypedInv => IntentTypeOK
  BY DEF TypedInv
<1> QED BY <1>1, TypedInvariance, PTL

(* In whatever order the transactions of an account arrive, its deque      *)
(* counts at its newest event exactly the events of the window before it,  *)
(* for every size of the window, number of accounts and bound on them      *)
(* (anomaly_detector.py:220-244).                                          *)
THEOREM CountIsExact == IntentSpec => []CountExactAtNewest
<1>1. TypedInv => CountExactAtNewest
  BY DequesCountExactly DEF TypedInv
<1> QED BY <1>1, TypedInvariance, PTL

(* Every account that was ever seen has its deque, and the deque of none   *)
(* is empty.                                                               *)
EveryAccountKept ==
  /\ DOMAIN times = {a \in Accounts : seen[a] # << >>}
  /\ \A a \in DOMAIN times : times[a] # << >>

(* The bound on the accounts takes away none, however many there are: it   *)
(* drops those whose deque is empty, and record() has just put an entry    *)
(* into the one it prunes.  So no count is ever too low for it, and the    *)
(* map grows with the accounts all the same (anomaly_detector.py:220-231). *)
THEOREM NoAccountIsDropped == IntentSpec => []EveryAccountKept
<1>1. TypedInv => EveryAccountKept
  <2> SUFFICES ASSUME Deques PROVE EveryAccountKept
    BY DEF TypedInv
  <2>1. DOMAIN times = {a \in Accounts : seen[a] # << >>}
    BY DEF Deques
  <2>2. ASSUME NEW a \in DOMAIN times PROVE times[a] # << >>
    <3>1. Len(times[a]) \in 1 .. Len(seen[a])
      BY DEF Deques, HoldsLatest
    <3> QED BY <3>1
  <2> QED BY <2>1, <2>2 DEF EveryAccountKept
<1> QED BY <1>1, TypedInvariance, PTL
=============================================================================
