---------------------------- MODULE IntentEngine ----------------------------
(***************************************************************************)
(* The intent engine, verifier/anomaly_detector.py, which runs inside the  *)
(* prover, with the sanctions graph client, verifier/sanctions_graph.py.   *)
(* The ingest thread alone calls score(), one transaction after the other, *)
(* and the ledger derives the status of the record from the rounded score. *)
(*                                                                         *)
(* The event time of a transaction is a field of the message, and the raw  *)
(* topic is not ordered by it.  What the rules read of a transaction is    *)
(* its kind: leading digit, size (1: log_amount above 0.55, 2: above       *)
(* 0.60), nearness to a reporting threshold, hour, distance to a           *)
(* sanctioned entity in the graph (8: eight or no path) and the novelty    *)
(* the model gives it.  The model is external: any novelty is possible.    *)
(*                                                                         *)
(* Scores are in half units of the fourth digit, rounded down: what the    *)
(* thresholds and round(score, 4) tell apart.                              *)
(***************************************************************************)
EXTENDS Integers, Sequences, FiniteSetsExt, Functions

CONSTANTS Accounts,      \* the account hashes
          TxnKinds,      \* the kinds of transaction that occur
          MaxTime,       \* bound: event times are 1 .. MaxTime
          WindowSeconds, \* VelocityTracker's window_seconds
          MaxAccounts,   \* VelocityTracker's max_accounts
          BenfordWindow, \* BenfordMonitor's window
          SpikeAt,       \* velocity per hour that is a spike (12)
          BurstAt,       \* velocity per hour that is a stronger one (20)
          MaxScored      \* bound: transactions scored

Threshold == 15000
SafeHops == 8

Scores == 0 .. 20000

Kinds == [digit : 0 .. 9, size : 0 .. 2, near : BOOLEAN, offhours : BOOLEAN,
          distance : 1 .. SafeHops, novelty : Scores]

ASSUME KindsAssumption == TxnKinds \subseteq Kinds
ASSUME TimeAssumption == MaxTime \in Nat /\ WindowSeconds \in Nat \ {0}
ASSUME SizesAssumption == MaxAccounts \in Nat /\ BenfordWindow \in Nat \ {0}
ASSUME VelocityAssumption == SpikeAt \in Nat \ {0} /\ BurstAt \in Nat /\ SpikeAt < BurstAt
ASSUME BoundAssumption == MaxScored \in Nat

VARIABLES times,   \* VelocityTracker._ts: a deque for each account it knows
          digits,  \* BenfordMonitor._digits
          graph,   \* SanctionsGraphClient: _available and its counters
          scored,  \* AnomalyDetector._scored
          verdict, \* the latest verdict and the status it led to
          seen,    \* history: all the event times of each account
          passed   \* history: distances of the transactions let through

intentVars == <<times, digits, graph, scored, verdict, seen, passed>>

Times == 1 .. MaxTime

Flags == {"NONE", "OFAC_SANCTION_LIST", "RBI_FLAG_2024", "FATF_GREY_LIST",
          "STRUCTURING_PATTERN", "VELOCITY_SPIKE", "BENFORD_VIOLATION",
          "OFFHOURS_HIGH_VALUE", "CRITICAL_NOVELTY", "HIGH_NOVELTY_SCORE"}

Verdicts == [account : Accounts, at : Times, velocity : Nat,
             score : Scores, flag : Flags, quarantine : BOOLEAN,
             status : {"VERIFIED", "QUARANTINED"}]

IntentTypeOK ==
  /\ DOMAIN times \subseteq Accounts
  /\ \A a \in DOMAIN times : times[a] \in Seq(Times)
  /\ digits \in Seq(1 .. 9) /\ Len(digits) <= BenfordWindow
  /\ graph \in [available : BOOLEAN, queries : Nat, errors : 0 .. 1]
  /\ scored \in 0 .. MaxScored
  /\ verdict \in {<< >>} \cup Verdicts
  /\ seen \in [Accounts -> Seq(Times)]
  /\ passed \subseteq 1 .. SafeHops

(* The client connects once, when the first transaction is scored.         *)
IntentInit ==
  /\ times = << >>
  /\ digits = << >>
  /\ graph \in [available : BOOLEAN, queries : {0}, errors : {0}]
  /\ scored = 0
  /\ verdict = << >>
  /\ seen = [a \in Accounts |-> << >>]
  /\ passed = {}

-----------------------------------------------------------------------------
(* VelocityTracker.record().                                               *)
Deque(a) == IF a \in DOMAIN times THEN times[a] ELSE << >>

(* The entries in front that are before the cutoff leave; one behind a     *)
(* newer one stays, however old it is.                                     *)
Pruned(dq, cutoff) ==
  LET kept == {i \in DOMAIN dq : dq[i] >= cutoff}
  IN  IF kept = {} THEN << >> ELSE SubSeq(dq, Min(kept), Len(dq))

(* Too many accounts: those without an entry are dropped.                  *)
Trimmed(map) ==
  IF Cardinality(DOMAIN map) > MaxAccounts
  THEN Restrict(map, {a \in DOMAIN map : map[a] # << >>})
  ELSE map

RecordTime(a, t) ==
  LET dq == Pruned(Append(Deque(a), t), t - WindowSeconds)
  IN  times' = Trimmed([b \in DOMAIN times \cup {a} |->
                          IF b = a THEN dq ELSE times[b]])

(* mutant: the cutoff itself is inside the window                          *)
CountInclusive(dq, t) ==
  Cardinality({i \in DOMAIN dq : dq[i] >= t - WindowSeconds})

(* VelocityTracker.count_1h().                                             *)
Count(dq, t) == Cardinality({i \in DOMAIN dq : dq[i] > t - WindowSeconds})

(* BenfordMonitor.record(): a deque with a maxlen.                         *)
(* mutant: without it                                                      *)
RecordedUnbounded(d) == IF d = 0 THEN digits ELSE Append(digits, d)

Recorded(d) ==
  IF d = 0 THEN digits
  ELSE IF Len(digits) < BenfordWindow THEN Append(digits, d)
  ELSE Append(Tail(digits), d)

-----------------------------------------------------------------------------
(* The typology rules, hops 1 to 3 with the flag of the client.            *)
Rule(fires, score, reason) ==
  IF fires THEN {[score |-> score, reason |-> reason]} ELSE {}

Rules(k, hops, velocity) == UNION {
  Rule(hops <= 1, 19000, "OFAC_SANCTION_LIST"),
  Rule(hops = 2, 17000, "RBI_FLAG_2024"),
  Rule(hops = 3, 14000, "FATF_GREY_LIST"),
  Rule(k.near, 18000, "STRUCTURING_PATTERN"),
  Rule(velocity >= BurstAt, 18400, "VELOCITY_SPIKE"),
  Rule(velocity \in SpikeAt .. BurstAt - 1, 16000, "VELOCITY_SPIKE"),
  Rule(k.digit = 9 /\ k.size >= 1, 12400, "BENFORD_VIOLATION"),
  Rule(k.offhours /\ k.size = 2, 12000, "OFFHOURS_HIGH_VALUE")}

Typology(k, hops, velocity) ==
  LET rules == Rules(k, hops, velocity)
  IN  IF rules = {} THEN [score |-> 0, reason |-> "NONE"]
      ELSE CHOOSE r \in rules : \A q \in rules : q.score <= r.score

NoveltyReason(novelty) ==
  IF novelty >= 18000 THEN "CRITICAL_NOVELTY"
  ELSE IF novelty >= Threshold THEN "HIGH_NOVELTY_SCORE"
  ELSE "NONE"

Flag(typology, novelty) ==
  IF typology.score > 0 THEN typology.reason ELSE NoveltyReason(novelty)

(* mutant: the digits beyond the fourth cut off                            *)
CutOff(score) == (score \div 2) * 2

(* round(score, 4).                                                        *)
Rounded(score) == ((score + 1) \div 2) * 2

(* CommitmentStore.add() sees the rounded score only.                      *)
StatusOf(score) ==
  IF Rounded(score) >= Threshold THEN "QUARANTINED" ELSE "VERIFIED"

Verdict(a, t, k, hops, velocity) ==
  LET typology == Typology(k, hops, velocity)
      score == IF k.novelty > typology.score THEN k.novelty ELSE typology.score
  IN  [account |-> a, at |-> t, velocity |-> velocity, score |-> score,
       flag |-> Flag(typology, k.novelty), quarantine |-> score >= Threshold,
       status |-> StatusOf(score)]

(* score(), and the status that add() gives the record; hops is what the   *)
(* client answered.                                                        *)
Judge(a, t, k, hops) ==
  /\ scored < MaxScored
  /\ RecordTime(a, t)
  /\ digits' = Recorded(k.digit)
  /\ verdict' = Verdict(a, t, k, hops, Count(Deque(a)', t))
  /\ scored' = scored + 1
  /\ seen' = [seen EXCEPT ![a] = Append(@, t)]
  /\ passed' = IF verdict'.status = "VERIFIED" THEN passed \cup {k.distance}
               ELSE passed

(* The graph answers.                                                      *)
ScoreScreened(a, t, k) ==
  /\ graph.available
  /\ graph' = [graph EXCEPT !.queries = @ + 1]
  /\ Judge(a, t, k, k.distance)

(* mutant: a query that failed is the only consequence of a failed query   *)
CountError == graph' = [graph EXCEPT !.errors = 1]

(* A query raises: the client never tries again.                           *)
Degrade == graph' = [graph EXCEPT !.errors = @ + 1, !.available = FALSE]

ScoreGraphFails(a, t, k) ==
  /\ graph.available
  /\ Degrade
  /\ Judge(a, t, k, SafeHops)

ScoreDegraded(a, t, k) ==
  /\ ~graph.available
  /\ UNCHANGED graph
  /\ Judge(a, t, k, SafeHops)

IntentNext ==
  \E a \in Accounts, t \in Times, k \in TxnKinds :
    ScoreScreened(a, t, k) \/ ScoreGraphFails(a, t, k) \/ ScoreDegraded(a, t, k)

IntentSpec == IntentInit /\ [][IntentNext]_intentVars

-----------------------------------------------------------------------------
(***************************************************************************)
(* Properties.                                                             *)
(***************************************************************************)
Trailing(events, t) ==
  Cardinality({i \in DOMAIN events : t - WindowSeconds < events[i] /\ events[i] <= t})

Newest(events) ==
  CHOOSE t \in Times : /\ \E i \in DOMAIN events : events[i] = t
                       /\ \A i \in DOMAIN events : events[i] <= t

(* Whatever the order in which the transactions of an account arrive, the  *)
(* deque holds exactly what the window before its newest event needs:      *)
(* nothing is pruned too early, nothing counted that is too old, and no    *)
(* account that has events is dropped when there are too many of them      *)
(* (anomaly_detector.py:220-244).                                          *)
CountExactAtNewest ==
  \A a \in Accounts :
    seen[a] # << >> =>
      Count(Deque(a), Newest(seen[a])) = Trailing(seen[a], Newest(seen[a]))

(* If a transaction one or two hops away from a sanctioned entity was ever *)
(* let through, the client says now that it is degraded: no screening was  *)
(* skipped behind an available graph (sanctions_graph.py:113-155).         *)
MissedMeansDegraded ==
  (\E hops \in passed : hops <= 2) => ~graph.available

(* Whatever the detector quarantines the ledger quarantines too, with a    *)
(* reason; and the ledger goes beyond it in exactly one case, the half     *)
(* unit below the threshold that rounding lifts onto it                    *)
(* (anomaly_detector.py:391-418, 471-476, commitment.py:173).              *)
QuarantineExplained ==
  verdict # << >> =>
    /\ verdict.quarantine => verdict.status = "QUARANTINED" /\ verdict.flag # "NONE"
    /\ verdict.status = "QUARANTINED" /\ ~verdict.quarantine
         <=> verdict.score = Threshold - 1
=============================================================================
