----------------------------- MODULE VerifierApi -----------------------------
(***************************************************************************)
(* The API of the verifier (verifier/dashboard.py) on top of the service:  *)
(* the queue of anomalies, which comes by a topic of its own, the analysts *)
(* who decide about them, the verdicts that GET /transactions writes into  *)
(* the shared records, and the event stream of one subscriber, a           *)
(* generator that sleeps between its rounds while the consumer thread goes *)
(* on pushing.                                                             *)
(*                                                                         *)
(* The steps of the service are those of VerifierService; the steps here   *)
(* are those of other threads, and of the consumer on the other topic.     *)
(***************************************************************************)
EXTENDS VerifierService

CONSTANTS Window,       \* records a round of the stream looks at (100)
          MaxSeen,      \* identifiers remembered before pruning (5000)
          KeepSeen,     \* identifiers kept by a pruning (1000)
          Actions,      \* what an analyst may decide (AUTHORIZE, TERMINATE)
          MaxAlerts,    \* bound: quarantined records
          MaxDecisions  \* bound: decisions of the analysts

ASSUME WindowAssumption == Window \in 1 .. BufferSize
ASSUME SeenAssumption ==
  /\ MaxSeen \in Nat /\ KeepSeen \in Nat
  /\ KeepSeen + Window <= MaxSeen
ASSUME ActionsAssumption == "none" \notin Actions
ASSUME ApiBoundsAssumption == MaxAlerts \in Nat /\ MaxDecisions \in Nat

VARIABLES alerts,       \* the anomalies topic
          alertPosition, \* position of the consumer in it
          queue,        \* anomaly_buffer
          marks,        \* "verified" of each record in the committed buffer
          resolutions,  \* _resolutions
          decisions,    \* decisions so far (bounds the runs)
          batch,        \* {} or {what is left of the round of the stream}
          seen,         \* seen, of the stream
          pushes,       \* history: what this process received, in order, as
                        \*   positions in the topic
          feed,         \* history: what the subscriber was sent, likewise,
                        \*   and a 0 for each pruning
          covered,      \* history: pushes up to the latest round
          overrun       \* history: did a round begin too late?

streamVars == <<batch, seen, feed, covered, overrun>>
apiVars == <<alerts, alertPosition, queue, marks, resolutions, decisions,
             pushes, streamVars>>

ApiTypeOK ==
  /\ alerts \in Seq(Records) /\ alertPosition \in 0 .. Len(alerts)
  /\ queue \in Seq(Records) /\ Len(queue) <= BufferSize
  /\ marks \in [DOMAIN buffer -> {"none", "passed", "failed"}]
  /\ resolutions \in [Txns -> Actions \cup {"none"}]
  /\ decisions \in 0 .. MaxDecisions
  /\ \A rest \in batch : rest \in Seq(Records) /\ Len(rest) <= Window
  /\ Cardinality(batch) <= 1
  /\ seen \subseteq Txns /\ Cardinality(seen) <= MaxSeen + Window
  /\ pushes \in Seq(1 .. Len(topic)) /\ covered \in 0 .. Len(pushes)
  /\ feed \in Seq(0 .. Len(topic))
  /\ overrun \in BOOLEAN

ApiInit ==
  /\ Init
  /\ alerts = << >> /\ alertPosition = 0 /\ queue = << >>
  /\ marks = << >> /\ pushes = << >>
  /\ resolutions = [txn \in Txns |-> "none"] /\ decisions = 0
  /\ batch = {} /\ seen = {} /\ feed = << >> /\ covered = 0 /\ overrun = FALSE

-----------------------------------------------------------------------------
(* The prover: a quarantined record goes to both topics.                   *)
Quarantine(txn) ==
  /\ Len(topic) < MaxPublished /\ Len(alerts) < MaxAlerts
  /\ LET rec == NextRecord(txn, "QUARANTINED")
     IN  topic' = Append(topic, rec) /\ alerts' = Append(alerts, rec)
  /\ UNCHANGED <<verifierVars, serviceVars, alertPosition, queue, marks,
                 resolutions, decisions, pushes, streamVars>>

-----------------------------------------------------------------------------
(* The consumer thread.  One poll() returns what it has of both topics, in *)
(* no particular order.                                                    *)
ReceiveCommitted ==
  /\ Receive
  /\ marks' = Push(marks, "none")
  /\ pushes' = Append(pushes, position + 1)
  /\ UNCHANGED <<alerts, alertPosition, queue, resolutions, decisions, streamVars>>

ReceiveAnomaly ==
  /\ connected /\ verifying = {}
  /\ alertPosition < Len(alerts)
  /\ alertPosition' = alertPosition + 1
  /\ queue' = Push(queue, alerts[alertPosition + 1])
  /\ UNCHANGED <<vars, alerts, marks, resolutions, decisions, pushes, streamVars>>

(* After an error the other topic, too, is read again from an offset that  *)
(* was committed at some time.                                             *)
LoopErrorOnBoth ==
  /\ LoopError
  /\ alertPosition' \in 0 .. alertPosition
  /\ UNCHANGED <<alerts, queue, marks, resolutions, decisions, pushes, streamVars>>

NewStream ==
  /\ batch' = {} /\ seen' = {}
  /\ feed' = << >> /\ covered' = 0 /\ overrun' = FALSE

(* mutant: the marks outlive the buffer                                    *)
ApiRestartKeepingMarks ==
  /\ ProcessRestart
  /\ alertPosition' = 0 /\ queue' = << >> /\ pushes' = << >>
  /\ resolutions' = [txn \in Txns |-> "none"]
  /\ NewStream
  /\ UNCHANGED <<alerts, decisions, marks>>

(* Everything the API shows is in memory.                                  *)
ApiRestart ==
  /\ ProcessRestart
  /\ alertPosition' = 0 /\ queue' = << >> /\ marks' = << >> /\ pushes' = << >>
  /\ resolutions' = [txn \in Txns |-> "none"]
  /\ NewStream
  /\ UNCHANGED <<alerts, decisions>>

-----------------------------------------------------------------------------
(* GET /transactions writes the verdict of the moment into the records,    *)
(* which are those of the buffer and not copies.                           *)
(* mutant: no report counts as a failure                                   *)
VerdictOrFailed(txn) ==
  IF \E i \in DOMAIN reports : reports[i] = [txn |-> txn, verified |-> TRUE]
  THEN "passed"
  ELSE "failed"

Verdict(txn) ==
  IF \E i \in DOMAIN reports : reports[i] = [txn |-> txn, verified |-> TRUE]
  THEN "passed"
  ELSE IF \E i \in DOMAIN reports : reports[i].txn = txn THEN "failed"
  ELSE "none"

Transactions(n) ==
  /\ marks' = [i \in DOMAIN buffer |->
                 IF i > Len(buffer) - n THEN Verdict(buffer[i].txn) ELSE marks[i]]
  /\ UNCHANGED <<vars, alerts, alertPosition, queue, resolutions, decisions,
                 pushes, streamVars>>

(* _find(), and the two requests that answer 404 without a record.         *)
Findable(txn) == \E i \in DOMAIN buffer : buffer[i].txn = txn

(* POST /resolve/{txn_id}: the latest decision stands.                     *)
Resolve(txn, action) ==
  /\ decisions < MaxDecisions
  /\ Findable(txn)
  /\ resolutions' = [resolutions EXCEPT ![txn] = action]
  /\ decisions' = decisions + 1
  /\ UNCHANGED <<vars, alerts, alertPosition, queue, marks, pushes, streamVars>>

-----------------------------------------------------------------------------
(* GET /stream.  A subscriber that was cut off and comes back gets a new   *)
(* generator.                                                              *)
Resubscribe ==
  /\ failures < MaxFailures
  /\ failures' = failures + 1
  /\ NewStream
  /\ UNCHANGED <<verifierVars, topic, position, offset, connected, buffer,
                 verifying, reports, fetchesLeft, alerts, alertPosition, queue,
                 marks, resolutions, decisions, pushes>>

(* mutant: the round takes the oldest records of the buffer                *)
BeginRoundAtOldest ==
  /\ batch = {}
  /\ batch' = {SubSeq(buffer, 1, IF Window < Len(buffer) THEN Window ELSE Len(buffer))}
  /\ covered' = Len(pushes)
  /\ overrun' = (overrun \/ Len(pushes) - covered > Window)
  /\ UNCHANGED <<vars, alerts, alertPosition, queue, marks, resolutions,
                 decisions, pushes, seen, feed>>

BeginRound ==
  /\ batch = {}
  /\ batch' = {Newest(Window)}
  /\ covered' = Len(pushes)
  /\ overrun' = (overrun \/ Len(pushes) - covered > Window)
  /\ UNCHANGED <<vars, alerts, alertPosition, queue, marks, resolutions,
                 decisions, pushes, seen, feed>>

SendNext ==
  \E rest \in batch :
    /\ rest # << >>
    /\ batch' = {Tail(rest)}
    /\ LET rec == Head(rest)
       IN  IF rec.txn \in seen
           THEN UNCHANGED <<seen, feed>>
           ELSE seen' = seen \cup {rec.txn} /\ feed' = Append(feed, rec.seq)
    /\ UNCHANGED <<vars, alerts, alertPosition, queue, marks, resolutions,
                   decisions, pushes, covered, overrun>>

(* mutant: seen is local to the round                                      *)
EndRoundForgetting ==
  /\ batch = {<< >>}
  /\ batch' = {} /\ seen' = {}
  /\ UNCHANGED <<vars, alerts, alertPosition, queue, marks, resolutions,
                 decisions, pushes, feed, covered, overrun>>

(* A set has no order, so which identifiers list(seen)[-1000:] keeps is    *)
(* anybody's guess.  The round ends with the statistics and a sleep.       *)
EndRound ==
  /\ batch = {<< >>}
  /\ batch' = {}
  /\ IF Cardinality(seen) > MaxSeen
     THEN /\ seen' \in kSubset(KeepSeen, seen)
          /\ feed' = Append(feed, 0)
     ELSE UNCHANGED <<seen, feed>>
  /\ UNCHANGED <<vars, alerts, alertPosition, queue, marks, resolutions,
                 decisions, pushes, covered, overrun>>

-----------------------------------------------------------------------------
(* The key-fetch thread moves only counters that nothing here reads, and   *)
(* is left to VerifierService.                                             *)
ServiceStep ==
  /\ Connect \/ Verify \/ \E txn \in Txns : Publish(txn)
  /\ UNCHANGED apiVars

ApiNext ==
  \/ ServiceStep
  \/ \E txn \in Txns : Quarantine(txn)
  \/ ReceiveCommitted \/ ReceiveAnomaly \/ LoopErrorOnBoth \/ ApiRestart
  \/ \E n \in 1 .. BufferSize : Transactions(n)
  \/ \E txn \in Txns, action \in Actions : Resolve(txn, action)
  \/ Resubscribe \/ BeginRound \/ SendNext \/ EndRound

ApiSpec == ApiInit /\ [][ApiNext]_<<vars, apiVars>>

-----------------------------------------------------------------------------
(***************************************************************************)
(* Properties.                                                             *)
(***************************************************************************)
Txn(k) == topic[k].txn

(* An anomaly in the queue can be opened and decided upon, unless its      *)
(* record has not come over the other topic yet, or BufferSize records     *)
(* came after it; in whatever order the topics are read and however often  *)
(* they are read again (dashboard.py:192-196, 272-276, 382-387,            *)
(* consumer.py:155-170, 209-212).                                          *)
QueuedCanBeResolved ==
  \A i \in DOMAIN queue :
    ~Findable(queue[i].txn) =>
      \A k \in DOMAIN pushes :
        pushes[k] = queue[i].seq => Len(pushes) - k >= BufferSize

(* What /transactions calls failed, on an unbroken chain, is a transaction *)
(* of which this process was handed a record twice; the mark of any other  *)
(* record is the verdict it got or none, however late it is looked at      *)
(* (dashboard.py:86-94, 252-259, 399-409).                                 *)
FailedWasReread ==
  \A i \in DOMAIN buffer :
    marks[i] = "failed" =>
      \E j, k \in DOMAIN pushes :
        j # k /\ pushes[j] = pushes[k] /\ Txn(pushes[j]) = buffer[i].txn

(* The stream leaves out no transaction that was received before its       *)
(* latest round, unless more than Window records came between two rounds   *)
(* (dashboard.py:484-497).                                                 *)
StreamMissesOnlyOverrun ==
  ~overrun =>
    \A k \in 1 .. covered :
      \/ \E i \in DOMAIN feed : feed[i] # 0 /\ Txn(feed[i]) = Txn(pushes[k])
      \/ \E rest \in batch : \E rec \in ToSet(rest) : rec.txn = Txn(pushes[k])

(* A subscriber is sent a transaction again only after a pruning, whatever *)
(* that kept, and then at most once more (dashboard.py:485-494).           *)
SentOncePerPruning ==
  \A txn \in Txns :
    Cardinality({i \in DOMAIN feed : feed[i] # 0 /\ Txn(feed[i]) = txn})
      <= 1 + Cardinality({i \in DOMAIN feed : feed[i] = 0})
=============================================================================
