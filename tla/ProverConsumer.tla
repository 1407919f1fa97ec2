--------------------------- MODULE ProverConsumer ---------------------------
(***************************************************************************)
(* The prover process: the ingest loop of prover/consumer.py between the   *)
(* raw topic, the ledger and the committed and anomalies topics, and the   *)
(* stop() that the FastAPI shutdown hook of prover/main.py runs on another *)
(* thread.                                                                 *)
(*                                                                         *)
(* The ledger is used through its contract, DurableLog, which              *)
(* CommitmentStore implements: `log` is the chain in memory, `stable` the  *)
(* saved head.  The ingest thread alone extends the chain, so between      *)
(* add() and the publication the record at hand is the head of `log`; an   *)
(* envelope is determined by its chain hash and is represented by it.      *)
(*                                                                         *)
(* Kafka is external: a topic is a sequence, send() puts an envelope in    *)
(* the producer's accumulator, from where it is delivered later, one       *)
(* partition per topic because the key is constant; consumer offsets are   *)
(* committed automatically, inside poll() and close() only.  The raw topic *)
(* is read as one partition.                                               *)
(***************************************************************************)
EXTENDS HashChain, SequencesExt, FiniteSetsExt

CONSTANTS Raw,            \* number of messages on the raw topic
          RawKinds,       \* the kinds of message that occur on it
          MaxPoll,        \* KAFKA_MAX_POLL_RECORDS
          SaveMayFail,    \* may the ledger fail to save?
          MaxTroubles,    \* bound: deaths of the process, orderly shutdowns,
                          \*   evictions from the consumer group and faults
                          \*   of the network, taken together
          MaxRaises       \* bound: polls of one process that raise because of
                          \*   what is on the topic

(* A message of the raw topic: not JSON, so that poll() raises on it; JSON *)
(* but not an object, so that _process() raises outside its try; not       *)
(* signed by the bank; signed but such that scoring or committing it       *)
(* raises; or scored below the threshold, or not.                          *)
Kinds == {"not_json", "not_object", "unsigned", "malformed", "normal",
           "quarantine"}

ASSUME MessagesAssumption ==
  Raw \in Nat /\ Txns = 1 .. Raw /\ RawKinds \subseteq Kinds
ASSUME PollAssumption == MaxPoll \in Nat \ {0}
ASSUME FaultAssumption == SaveMayFail \in BOOLEAN
ASSUME BoundAssumption == MaxTroubles \in Nat /\ MaxRaises \in Nat

VARIABLES raw,         \* the kind of each message of the raw topic
          offset,      \* committed offset of the consumer group
          position,    \* messages returned by poll()
          next,        \* messages the loop is done with
          pc,          \* what the ingest thread does, or "down"
          running,     \* _running
          halted,      \* has an operator told the container to stop?
          handles,     \* which of _consumer and _producer are open
          log, stable, \* the ledger: chain in memory, saved head
          clock,       \* time.time_ns() of the latest commit
          outbox,      \* the producer's accumulator, by topic
          topic,       \* what the brokers hold, by topic
          tally,       \* the counters of _stats, of this process
          crashes, stops, \* deaths and shutdowns so far
          faults,      \* faults of the network so far
          rejoins,     \* evictions from the consumer group so far
          unsaved,     \* history: messages whose record was not saved
          cut,         \* history: messages polled, acknowledged by close()
                       \*   and not yet processed
          abandoned,   \* history: messages polled together with one that is
                       \*   not an object, and behind it
          since        \* history of this process: length of the chain it
                       \*   resumed, messages polled, messages abandoned,
                       \*   polls that raised

feedVars == <<raw, offset, position, next>>
ledgerVars == <<log, stable, clock>>
kafkaVars == <<outbox, topic>>
lifeVars == <<running, halted, handles, crashes, stops>>
lostVars == <<unsaved, cut, abandoned>>
pastVars == <<faults, rejoins, lostVars, since>>
proverVars == <<feedVars, ledgerVars, kafkaVars, lifeVars, pc, tally, pastVars>>

Topics == {"committed", "anomalies"}

Accepted(i) == raw[i] \in {"normal", "quarantine"}

PCs == {"down", "poll", "process", "persist", "publish", "alert", "done"}

Tallies == {"processed", "errors", "signature_failures", "quarantined",
             "publish_errors"}

Marks == {"links", "polled", "abandoned", "raised"}

Log == INSTANCE DurableLog WITH Entries <- Links

ProverTypeOK ==
  /\ raw \in [1 .. Raw -> Kinds]
  /\ offset \in 0 .. Raw /\ next \in 0 .. Raw /\ position \in next .. Raw
  /\ pc \in PCs
  /\ running \in BOOLEAN /\ halted \in BOOLEAN
  /\ handles \subseteq {"consumer", "producer"}
  /\ log \in Hashes /\ stable \in Hashes
  /\ outbox \in [Topics -> Seq(Hashes)] /\ topic \in [Topics -> Seq(Hashes)]
  /\ tally \in [Tallies -> Nat] /\ since \in [Marks -> Nat]
  /\ unsaved \subseteq Txns /\ cut \subseteq Txns /\ abandoned \subseteq Txns
  /\ crashes + stops + faults + rejoins \in 0 .. MaxTroubles

ProverInit ==
  /\ raw \in [1 .. Raw -> RawKinds]
  /\ offset = 0 /\ position = 0 /\ next = 0
  /\ pc = "down" /\ running = FALSE /\ halted = FALSE /\ handles = {}
  /\ Log!Init /\ clock = 0
  /\ outbox = [t \in Topics |-> << >>] /\ topic = [t \in Topics |-> << >>]
  /\ tally = [c \in Tallies |-> 0] /\ since = [m \in Marks |-> 0]
  /\ crashes = 0 /\ stops = 0 /\ faults = 0 /\ rejoins = 0
  /\ unsaved = {} /\ cut = {} /\ abandoned = {}

-----------------------------------------------------------------------------
Trouble == crashes + stops + faults + rejoins < MaxTroubles

(* The network or a broker misbehaves.                                     *)
Fault == Trouble /\ faults' = faults + 1

(* A process starts: the store resumes the saved head, and the counters    *)
(* are 0.                                                                  *)
NewProcess ==
  /\ pc = "down"
  /\ Log!Recover
  /\ running' = TRUE /\ halted' = FALSE
  /\ tally' = [c \in Tallies |-> 0]
  /\ since' = [m \in Marks |-> IF m = "links" THEN Len(stable) ELSE 0]
  /\ UNCHANGED <<raw, offset, clock, kafkaVars, crashes, stops, rejoins, lostVars>>

(* mutant: the loop goes on where the previous process was                 *)
StartWhereItWas ==
  /\ NewProcess
  /\ pc' = "poll" /\ handles' = {"consumer", "producer"}
  /\ position' = offset /\ next' = next
  /\ UNCHANGED faults

(* The thread connects in the group and polls.                             *)
Start ==
  /\ NewProcess
  /\ pc' = "poll" /\ handles' = {"consumer", "producer"}
  /\ position' = offset /\ next' = offset
  /\ UNCHANGED faults

(* Twelve attempts failed: run() returns, and the process stays up.        *)
StartDeaf ==
  /\ NewProcess
  /\ Fault
  /\ pc' = "done" /\ handles' = {}
  /\ position' = offset /\ next' = offset

-----------------------------------------------------------------------------
LoopTest == pc' = IF running THEN "poll" ELSE "done"

Marked(mark, n) == since' = [since EXCEPT ![mark] = @ + n]

Count(counters) ==
  tally' = [c \in Tallies |-> IF c \in counters THEN tally[c] + 1 ELSE tally[c]]

(* A fetch that reaches a value that is not JSON raises as a whole, so     *)
(* nothing from there on, and perhaps nothing before, is ever returned.    *)
Poisoned == \E i \in position + 1 .. Raw : raw[i] = "not_json"

(* mutant: poll() acknowledges the messages it is about to return          *)
FetchAcknowledging(n) ==
  /\ pc = "poll" /\ "consumer" \in handles
  /\ position + n <= Raw
  /\ \A i \in position + 1 .. position + n : raw[i] # "not_json"
  /\ position' = position + n
  /\ offset' \in {offset, position + n}
  /\ pc' = "process"
  /\ Marked("polled", n)
  /\ UNCHANGED <<raw, next, ledgerVars, kafkaVars, lifeVars, tally, faults,
                 rejoins, lostVars>>

(* poll() returns n messages; what was returned before is processed by     *)
(* now, and may be acknowledged on the way.                                *)
Fetch(n) ==
  /\ pc = "poll" /\ "consumer" \in handles
  /\ position + n <= Raw
  /\ \A i \in position + 1 .. position + n : raw[i] # "not_json"
  /\ position' = position + n
  /\ offset' \in {offset, position}
  /\ pc' = "process"
  /\ Marked("polled", n)
  /\ UNCHANGED <<raw, next, ledgerVars, kafkaVars, lifeVars, tally, faults,
                 rejoins, lostVars>>

(* poll() returns nothing.                                                 *)
FetchNothing ==
  /\ pc = "poll"
  /\ offset' \in IF "consumer" \in handles THEN {offset, position} ELSE {offset}
  /\ LoopTest
  /\ UNCHANGED <<raw, position, next, ledgerVars, kafkaVars, lifeVars, tally,
                 pastVars>>

(* poll() raises: stop() has closed the consumer, or a value that was      *)
(* fetched is not JSON; the position stays.                                *)
PollRaises ==
  /\ pc = "poll"
  /\ \/ "consumer" \notin handles /\ offset' = offset
     \/ /\ "consumer" \in handles /\ offset' \in {offset, position}
        /\ Poisoned /\ since["raised"] < MaxRaises
  /\ LoopTest
  /\ Count({"errors"}) /\ Marked("raised", 1)
  /\ UNCHANGED <<raw, position, next, ledgerVars, kafkaVars, lifeVars, faults,
                 rejoins, lostVars>>

(* The group has evicted the consumer (max.poll.interval or the session    *)
(* timeout): poll() joins it again, at the acknowledged offset.            *)
Rejoin ==
  /\ pc = "poll" /\ "consumer" \in handles
  /\ Trouble
  /\ rejoins' = rejoins + 1
  /\ position' = offset /\ next' = offset
  /\ UNCHANGED <<raw, offset, ledgerVars, kafkaVars, lifeVars, pc, tally, faults,
                 lostVars, since>>

(* The for loops go through the whole batch before _running is looked at.  *)
Done ==
  /\ next' = next + 1
  /\ IF next + 1 < position THEN pc' = "process" ELSE LoopTest

Reject ==
  /\ pc = "process" /\ raw[next + 1] \in {"unsigned", "malformed"}
  /\ Done
  /\ Count(IF raw[next + 1] = "unsigned" THEN {"signature_failures"} ELSE {"errors"})
  /\ UNCHANGED <<raw, offset, position, ledgerVars, kafkaVars, lifeVars, pastVars>>

(* mutant: after an error the loop seeks back to what was acknowledged     *)
AbandonAndSeek ==
  /\ pc = "process" /\ raw[next + 1] = "not_object"
  /\ position' = offset /\ next' = offset
  /\ LoopTest
  /\ Count({"errors"})
  /\ UNCHANGED <<raw, offset, ledgerVars, kafkaVars, lifeVars, pastVars>>

(* record.get() raises outside the try: both for loops are left, and what  *)
(* they had not reached is acknowledged like the rest by the next poll().  *)
Abandon ==
  /\ pc = "process" /\ raw[next + 1] = "not_object"
  /\ next' = position
  /\ abandoned' = abandoned \cup (next + 2 .. position)
  /\ LoopTest
  /\ Count({"errors"}) /\ Marked("abandoned", position - (next + 1))
  /\ UNCHANGED <<raw, offset, position, ledgerVars, kafkaVars, lifeVars, faults,
                 rejoins, unsaved, cut>>

(* mutant: the envelope is published before the ledger has it              *)
AddAndPublish ==
  /\ pc = "process" /\ Accepted(next + 1)
  /\ log' = ChainHash(log, next + 1, clock + 1)
  /\ clock' = clock + 1
  /\ pc' = "publish"
  /\ UNCHANGED <<feedVars, stable, kafkaVars, lifeVars, tally, pastVars>>

(* store.add(), in memory.                                                 *)
Add ==
  /\ pc = "process" /\ Accepted(next + 1)
  /\ log' = ChainHash(log, next + 1, clock + 1)
  /\ clock' = clock + 1
  /\ pc' = "persist"
  /\ UNCHANGED <<feedVars, stable, kafkaVars, lifeVars, tally, pastVars>>

(* store.add(), the durable part.  A failure is not seen by the loop.      *)
Save ==
  /\ pc = "persist"
  /\ Log!Stabilise
  /\ pc' = "publish"
  /\ UNCHANGED <<feedVars, clock, kafkaVars, lifeVars, tally, pastVars>>

SaveFails ==
  /\ SaveMayFail
  /\ pc = "persist"
  /\ unsaved' = unsaved \cup {next + 1}
  /\ pc' = "publish"
  /\ UNCHANGED <<feedVars, ledgerVars, kafkaVars, lifeVars, tally, faults,
                 rejoins, cut, abandoned, since>>

(* _publish(): send() returns before anything is delivered; it raises when *)
(* the producer is closed.                                                 *)
Sent(t) ==
  IF "producer" \in handles
  THEN outbox' = [outbox EXCEPT ![t] = Append(@, log)]
  ELSE UNCHANGED outbox

SendErrors == IF "producer" \in handles THEN {} ELSE {"publish_errors"}

Publish ==
  /\ pc = "publish"
  /\ Sent("committed")
  /\ IF raw[next + 1] = "quarantine"
     THEN pc' = "alert" /\ UNCHANGED next /\ Count(SendErrors)
     ELSE Done /\ Count({"processed"} \cup SendErrors)
  /\ UNCHANGED <<raw, offset, position, ledgerVars, topic, lifeVars, pastVars>>

(* mutant: a quarantined message is counted as quarantined only            *)
AlertUncounted ==
  /\ pc = "alert"
  /\ Sent("anomalies")
  /\ Done
  /\ Count({"quarantined"} \cup SendErrors)
  /\ UNCHANGED <<raw, offset, position, ledgerVars, topic, lifeVars, pastVars>>

Alert ==
  /\ pc = "alert"
  /\ Sent("anomalies")
  /\ Done
  /\ Count({"quarantined", "processed"} \cup SendErrors)
  /\ UNCHANGED <<raw, offset, position, ledgerVars, topic, lifeVars, pastVars>>

Ingest ==
  \/ \E n \in 1 .. MaxPoll : Fetch(n)
  \/ FetchNothing \/ PollRaises \/ Rejoin
  \/ Reject \/ Abandon \/ Add \/ Save \/ SaveFails \/ Publish \/ Alert

-----------------------------------------------------------------------------
(* The producer's sender thread and the brokers.                           *)

(* mutant: no message key, so the partitions are read in another order     *)
DeliverUnkeyed(t) ==
  /\ outbox[t] # << >>
  /\ topic' = [topic EXCEPT ![t] = Append(@, Last(outbox[t]))]
  /\ outbox' = [outbox EXCEPT ![t] = Front(@)]
  /\ UNCHANGED <<feedVars, ledgerVars, lifeVars, pc, tally, pastVars>>

Deliver(t) ==
  /\ outbox[t] # << >>
  /\ topic' = [topic EXCEPT ![t] = Append(@, Head(outbox[t]))]
  /\ outbox' = [outbox EXCEPT ![t] = Tail(@)]
  /\ UNCHANGED <<feedVars, ledgerVars, lifeVars, pc, tally, pastVars>>

(* retries=5 are used up, or the one broker that acknowledged is lost.     *)
Lose(t) ==
  /\ Fault
  /\ outbox[t] # << >>
  /\ outbox' = [outbox EXCEPT ![t] = Tail(@)]
  /\ UNCHANGED <<topic, feedVars, ledgerVars, lifeVars, pc, tally, rejoins,
                 lostVars, since>>

(* The acknowledgement is lost and the send retried.                       *)
DeliverAgain(t) ==
  /\ Fault
  /\ outbox[t] # << >>
  /\ topic' = [topic EXCEPT ![t] = Append(@, Head(outbox[t]))]
  /\ UNCHANGED <<outbox, feedVars, ledgerVars, lifeVars, pc, tally, rejoins,
                 lostVars, since>>

(* A retried send lands after the one that followed it.                    *)
DeliverSecond(t) ==
  /\ Fault
  /\ Len(outbox[t]) > 1
  /\ topic' = [topic EXCEPT ![t] = Append(@, outbox[t][2])]
  /\ outbox' = [outbox EXCEPT ![t] = RemoveAt(@, 2)]
  /\ UNCHANGED <<feedVars, ledgerVars, lifeVars, pc, tally, rejoins,
                 lostVars, since>>

Network == \E t \in Topics :
  Deliver(t) \/ Lose(t) \/ DeliverAgain(t) \/ DeliverSecond(t)

-----------------------------------------------------------------------------
(* stop(), on another thread: the flag, the consumer, the producer, and    *)
(* then the process exits, whatever the ingest thread is doing.            *)
BeginStop ==
  /\ pc # "down" /\ running
  /\ Trouble
  /\ stops' = stops + 1
  /\ running' = FALSE /\ halted' = TRUE
  /\ UNCHANGED <<feedVars, ledgerVars, kafkaVars, handles, crashes, pc, tally,
                 pastVars>>

(* consumer.close() commits the position: all that poll() ever returned.   *)
CloseConsumer ==
  /\ pc # "down" /\ ~running /\ "consumer" \in handles
  /\ handles' = handles \ {"consumer"}
  /\ \/ offset' = position /\ cut' = cut \cup (next + 1 .. position)
     \/ UNCHANGED <<offset, cut>>
  /\ UNCHANGED <<raw, position, next, ledgerVars, kafkaVars, running, halted,
                 crashes, stops, pc, tally, faults, rejoins, unsaved, abandoned,
                 since>>

CloseProducer ==
  /\ pc # "down" /\ ~running /\ handles = {"producer"}
  /\ handles' = {}
  /\ UNCHANGED <<feedVars, ledgerVars, kafkaVars, running, halted, crashes,
                 stops, pc, tally, pastVars>>

Gone ==
  /\ pc' = "down" /\ running' = FALSE /\ handles' = {}
  /\ outbox' = [t \in Topics |-> << >>]
  /\ UNCHANGED <<halted, feedVars, ledgerVars, topic, tally, pastVars>>

(* producer.close() waits for the accumulator to be empty.                 *)
Exit ==
  /\ pc # "down" /\ ~running /\ handles = {}
  /\ \A t \in Topics : outbox[t] = << >>
  /\ Gone
  /\ UNCHANGED <<crashes, stops>>

Crash ==
  /\ pc # "down"
  /\ Trouble
  /\ crashes' = crashes + 1
  /\ Gone
  /\ UNCHANGED stops

Lifecycle ==
  Start \/ StartDeaf \/ BeginStop \/ CloseConsumer \/ CloseProducer \/ Exit \/ Crash

ProverNext == Ingest \/ Network \/ Lifecycle

ProverSpec == ProverInit /\ [][ProverNext]_proverVars

(* The ingest thread and the sender thread run while the process does, and *)
(* a shutdown that has begun runs to its end.  The container is restarted  *)
(* unless an operator stopped it (restart: unless-stopped), and a topic    *)
(* without a value that is not JSON is read to its end.                    *)
ProverFairness ==
  /\ WF_proverVars(~halted /\ Start)
  /\ WF_proverVars(~Poisoned /\ \E n \in 1 .. MaxPoll : Fetch(n))
  /\ WF_proverVars(~running /\ (FetchNothing \/ PollRaises))
  /\ WF_proverVars(Reject \/ Abandon \/ Add \/ Save \/ SaveFails \/ Publish \/ Alert)
  /\ WF_proverVars(\E t \in Topics : Deliver(t))
  /\ WF_proverVars(CloseConsumer \/ CloseProducer \/ Exit)

ProverFairSpec == ProverSpec /\ ProverFairness

-----------------------------------------------------------------------------
(***************************************************************************)
(* Properties.                                                             *)
(***************************************************************************)
LedgerTxns == {stable[k].txn : k \in DOMAIN stable}

(* At-least-once into the ledger: a message of which the group's offset    *)
(* says it was consumed is in the durable ledger, unless it was not fit to *)
(* be committed, the ledger refused to save it, an orderly stop()          *)
(* acknowledged a batch of which it was still part, or it stood behind a   *)
(* value that is not an object in one batch (consumer.py:86-95, 117,       *)
(* 220-228 and 233-240).                                                   *)
Lost == unsaved \cup cut \cup abandoned

AckedIsCommitted ==
  \A i \in 1 .. offset : Accepted(i) => i \in LedgerTxns \cup Lost

(* No restart takes back a record that was published: as long as the       *)
(* ledger saved what it was given, every envelope on either topic, or on   *)
(* its way there, is a link of the durable chain, whatever died, was lost, *)
(* retried or reordered since (consumer.py:156-174).                       *)
InFlight(t) == ToSet(topic[t]) \cup ToSet(outbox[t])

PublishedIsDurable ==
  unsaved = {} =>
    \A t \in Topics : \A envelope \in InFlight(t) : IsPrefix(envelope, stable)

(* One commit for each time a consumer joins the group: however polls,     *)
(* shutdowns, evictions and crashes interleave, the ledger never holds     *)
(* more links for a message than there were readings of it, one for each   *)
(* process and one for each time it had to join again (consumer.py:83-92,  *)
(* 220-224).                                                               *)
OnceForEachJoin ==
  \A i \in 1 .. Raw :
    Cardinality({k \in DOMAIN log : log[k].txn = i})
      <= crashes + stops + rejoins + 1

(* The counters of a process tell what became of every message it polled:  *)
(* `processed` and `quarantined` are those of the links it has put in the  *)
(* chain and is done with, and together with the failures, less the polls  *)
(* that raised, they make up what it polled, up to the messages it still   *)
(* has to look at and those it abandoned, which no counter shows           *)
(* (consumer.py:61-68, 120-184, 220-228).                                  *)
AtWork == IF pc \in {"persist", "publish", "alert"} THEN 1 ELSE 0

Finished == since["links"] + 1 .. Len(log) - AtWork

EveryMessageTallied ==
  pc # "down" =>
    /\ tally["processed"] = Cardinality(Finished)
    /\ tally["quarantined"]
         = Cardinality({k \in Finished : raw[log[k].txn] = "quarantine"})
    /\ tally["processed"] + tally["signature_failures"] + tally["errors"]
         + since["abandoned"] + (position - next)
           = since["polled"] + since["raised"]

(* Every message fit to be committed ends up in the durable ledger or in   *)
(* Lost, across crashes, evictions and shutdowns, unless a value on the    *)
(* topic is not JSON, an operator stopped the prover for good, or the      *)
(* ingest thread has given up connecting while the process stays up        *)
(* (consumer.py:86-95, 156-158, 211-228).                                  *)
Deaf == pc = "done" /\ running

StoppedForGood == pc = "down" /\ halted

EventuallyInLedger ==
  \/ \E i \in 1 .. Raw : raw[i] = "not_json"
  \/ <>[]Deaf \/ <>[]StoppedForGood
  \/ <>(\A i \in 1 .. Raw : Accepted(i) => i \in LedgerTxns \cup Lost)
=============================================================================
