--------------------------- MODULE VerifierService ---------------------------
(***************************************************************************)
(* The verifier process in the DMZ: the consumer thread of                 *)
(* verifier/kafka_client/consumer.py with its ring buffer, the verifier it *)
(* calls back, the report store of verifier/dashboard.py, and the key-     *)
(* fetch thread that runs beside them from startup.                        *)
(*                                                                         *)
(* The committed topic is one partition (the prover sends with a constant  *)
(* key), here a sequence.  A record is handed over one at a time: what a   *)
(* larger batch changes is only when offsets are committed, and that is    *)
(* left open.                                                              *)
(***************************************************************************)
EXTENDS ExternalVerifier, SequencesExt

CONSTANTS BufferSize,     \* RingBuffer maxlen (500)
          MaxReports,     \* reports kept before pruning (5000)
          PruneCount,     \* reports dropped by a pruning (1000)
          FetchRetries,   \* attempts of _fetch_prover_keys (30)
          MaxPublished,   \* bound: records on the topic
          MaxFailures     \* bound: consumer errors and process restarts

ASSUME BufferAssumption ==
  /\ BufferSize \in Nat \ {0} /\ PruneCount \in Nat \ {0}
  /\ MaxReports \in Nat /\ BufferSize + PruneCount <= MaxReports + 2
ASSUME FetchAssumption == FetchRetries \in Nat \ {0}

VARIABLES topic,       \* the committed topic
          position,    \* position of the consumer in the topic
          offset,      \* committed offset of the consumer's group
          connected,   \* _consumer is not None
          buffer,      \* committed_buffer
          verifying,   \* {} or {the record pushed but not yet verified}
          reports,     \* _reports, in insertion order of its keys
          fetchesLeft, \* attempts the key-fetch thread has left; 0 = gave up
          failures     \* consumer errors and restarts so far (bounds the runs)

serviceVars == <<position, offset, connected, buffer, verifying, reports,
                 fetchesLeft, failures>>
vars == <<verifierVars, topic, serviceVars>>

Reports == [txn : Txns, verified : BOOLEAN]

TypeOK ==
  /\ VerifierTypeOK
  /\ topic \in Seq(Records)
  /\ offset \in 0 .. position /\ position \in 0 .. Len(topic)
  /\ connected \in BOOLEAN
  /\ buffer \in Seq(Records) /\ Len(buffer) <= BufferSize
  /\ verifying \in SUBSET Records
  /\ reports \in Seq(Reports) /\ Len(reports) <= MaxReports + 1
  /\ fetchesLeft \in 0 .. FetchRetries
  /\ failures \in Nat

ServiceInit ==
  /\ VerifierInit
  /\ position = 0 /\ offset = 0 /\ connected = FALSE
  /\ buffer = << >> /\ verifying = {} /\ reports = << >>
  /\ fetchesLeft = FetchRetries
  /\ failures = 0

Init == ServiceInit /\ topic = << >>

-----------------------------------------------------------------------------
(* The key-fetch thread.  It stops at the first answer, or for good after  *)
(* FetchRetries failures.                                                  *)
FetchKey ==
  /\ ~hasKey /\ fetchesLeft > 0
  /\ SetPublicKey
  /\ UNCHANGED <<topic, serviceVars>>

FetchFails ==
  /\ ~hasKey /\ fetchesLeft > 0
  /\ fetchesLeft' = fetchesLeft - 1
  /\ UNCHANGED <<verifierVars, topic, position, offset, connected, buffer,
                 verifying, reports, failures>>

-----------------------------------------------------------------------------
(* The consumer thread: connect, poll, process, and on an error close and  *)
(* reconnect in the same group.                                            *)
(* mutant: auto_offset_reset decides, although the group has an offset     *)
ConnectAtLatest ==
  /\ ~connected
  /\ connected' = TRUE
  /\ position' = IF offset = 0 THEN Len(topic) ELSE offset
  /\ UNCHANGED <<verifierVars, topic, offset, buffer, verifying, reports,
                 fetchesLeft, failures>>

Connect ==
  /\ ~connected
  /\ connected' = TRUE
  /\ position' = offset
  /\ UNCHANGED <<verifierVars, topic, offset, buffer, verifying, reports,
                 fetchesLeft, failures>>

(* mutants: no bound; the newest entry makes room                          *)
PushUnbounded(ring, rec) == Append(ring, rec)
PushOverNewest(ring, rec) ==
  IF Len(ring) < BufferSize THEN Append(ring, rec) ELSE Append(Front(ring), rec)

Push(ring, rec) ==
  IF Len(ring) < BufferSize THEN Append(ring, rec) ELSE Append(Tail(ring), rec)

(* _process on the committed topic, up to the callback: poll() may commit  *)
(* the offsets of what it returned before, and the record is in the buffer *)
(* before it is verified.                                                  *)
Receive ==
  /\ connected /\ verifying = {}
  /\ position < Len(topic)
  /\ LET rec == topic[position + 1]
     IN  /\ buffer' = Push(buffer, rec)
         /\ verifying' = {rec}
  /\ offset' \in {offset, position}
  /\ position' = position + 1
  /\ UNCHANGED <<verifierVars, topic, connected, reports, fetchesLeft, failures>>

(* _reports is a dict: a key that is there keeps its place.                *)
(* mutant: the newest reports are dropped                                  *)
PrunedNewest(entries) ==
  IF Len(entries) > MaxReports
  THEN SubSeq(entries, 1, Len(entries) - PruneCount)
  ELSE entries

Pruned(entries) ==
  IF Len(entries) > MaxReports
  THEN SubSeq(entries, PruneCount + 1, Len(entries))
  ELSE entries

Reported(entries, report) ==
  IF \E i \in DOMAIN entries : entries[i].txn = report.txn
  THEN [i \in DOMAIN entries |->
          IF entries[i].txn = report.txn THEN report ELSE entries[i]]
  ELSE Append(entries, report)

(* _record_verification: verify, prune, keep the report.                   *)
Verify ==
  /\ \E rec \in verifying :
       /\ VerifyEnvelope(rec)
       /\ reports' = Reported(Pruned(reports),
                              [txn |-> rec.txn, verified |-> ChainOk(rec)])
  /\ verifying' = {}
  /\ UNCHANGED <<topic, position, offset, connected, buffer, fetchesLeft, failures>>

(* poll() raises: close() may or may not get the position committed.       *)
LoopError ==
  /\ connected /\ verifying = {}
  /\ failures < MaxFailures
  /\ failures' = failures + 1
  /\ connected' = FALSE
  /\ offset' \in {offset, position}
  /\ UNCHANGED <<verifierVars, topic, position, buffer, verifying, reports,
                 fetchesLeft>>

(* A new process reads the topic from the beginning in a group of its own. *)
ProcessRestart ==
  /\ failures < MaxFailures
  /\ failures' = failures + 1
  /\ hasKey' = FALSE /\ expectedPrev' = {} /\ stats' = NoStats
  /\ position' = 0 /\ offset' = 0 /\ connected' = FALSE
  /\ buffer' = << >> /\ verifying' = {} /\ reports' = << >>
  /\ fetchesLeft' = FetchRetries
  /\ UNCHANGED topic

ServiceNext ==
  \/ FetchKey \/ FetchFails
  \/ Connect \/ Receive \/ Verify \/ LoopError \/ ProcessRestart

-----------------------------------------------------------------------------
(* On its own, the service faces a prover that publishes its chain without *)
(* a gap; a transaction may be committed more than once.                   *)
NextHead == IF topic = << >> THEN GenesisHash ELSE Last(topic).chain

NextRecord(txn, status) ==
  LET n == Len(topic) + 1
  IN  [txn |-> txn, ts |-> n, seq |-> n, prev |-> NextHead,
       chain |-> ChainHash(NextHead, txn, n), status |-> status]

Publish(txn) ==
  /\ Len(topic) < MaxPublished
  /\ topic' = Append(topic, NextRecord(txn, "VERIFIED"))
  /\ UNCHANGED <<verifierVars, serviceVars>>

Next == ServiceNext \/ \E txn \in Txns : Publish(txn)

Spec == Init /\ [][Next]_vars

(* The consumer thread runs as long as the process does, and the loop      *)
(* reconnects after every error; the key-fetch thread keeps trying.        *)
Fairness ==
  /\ WF_vars(Connect) /\ WF_vars(Receive) /\ WF_vars(Verify)
  /\ WF_vars(FetchKey \/ FetchFails)

FairSpec == Spec /\ Fairness

-----------------------------------------------------------------------------
(* Every record of the topic so far was received once in this life, and    *)
(* no transaction twice.                                                   *)
ReceivedOnce ==
  /\ stats["records"] + Cardinality(verifying) = position
  /\ \A i, j \in 1 .. position : topic[i].txn = topic[j].txn => i = j

(* /transactions shows a verdict for every buffered record that is not     *)
(* being verified right now: pruning the reports never outruns the buffer  *)
(* (dashboard.py:86-94 and 252-259, consumer.py:42-60).                    *)
BufferedHasReport ==
  ReceivedOnce =>
    \A i \in DOMAIN buffer :
      \/ buffer[i] \in verifying
      \/ \E k \in DOMAIN reports : reports[k].txn = buffer[i].txn

(* The dashboard's own walk of the buffered chain and the verifier's       *)
(* counters agree that an unbroken chain is unbroken, at any moment and    *)
(* for any number of records asked for (dashboard.py:300-334).             *)
Newest(n) == SubSeq(buffer, IF n < Len(buffer) THEN Len(buffer) - n + 1 ELSE 1,
                    Len(buffer))

DashboardIntact ==
  stats["records"] + Cardinality(verifying) = position =>
    /\ \A n \in 1 .. BufferSize : Intact(Newest(n))
    /\ stats["chain_broken"] = 0 /\ stats["failed"] = 0

(* Across errors, reconnections and redeliveries the verifier accepts each *)
(* link of the published chain exactly once and in order: a redelivered    *)
(* record is reported broken, and the tracked head neither moves back nor  *)
(* loses its place (verify.py:173-183).                                    *)
EachLinkAcceptedOnce ==
  /\ \A h \in expectedPrev : stats["chain_ok"] = Len(h)
  /\ expectedPrev = {} => stats["chain_ok"] = 0
  /\ \A i \in 1 .. position :
       \/ topic[i] \in verifying
       \/ \E h \in expectedPrev : i <= Len(h)

(* Whatever errors the consumer meets, it ends up having received and      *)
(* accepted everything that was published: the head it tracks is the head  *)
(* of the topic (consumer.py:194-231).                                     *)
CatchesUp ==
  <>[](topic # << >> => expectedPrev = {Last(topic).chain} /\ verifying = {})

(* "chain_broken: 0 and failed: 0 are the assertions that matter: every    *)
(* record the DMZ received carried a valid enclave signature" (README.md:  *)
(* 228).                                                                   *)
NothingFailedMeansAllSigned ==
  stats["chain_broken"] = 0 /\ stats["failed"] = 0 =>
    stats["signature_ok"] = stats["records"]
=============================================================================
