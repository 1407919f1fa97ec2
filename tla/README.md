# Verification of ZeroAudit

TLA+ models of the ZeroAudit pipeline: a prover that commits bank transactions
to a hash-chained ledger, and an external verifier in a DMZ that follows the
published chain. The modules are translated from the Python source; line numbers
below refer to it. TLC checks small instances (one `.cfg` per run), TLAPS
proves the safety properties for every value of the constants.

    cd tla
    tlc -config Store_faulty.cfg MCCommitmentStore.tla
    tlapm CommitmentStore_proofs.tla

## The system

| Part | Source | State it keeps | Operations |
|---|---|---|---|
| Commitment ledger | `prover/crypto/commitment.py` | `_seq`, `_head`, `_hot` (ring), `_counts`, `_total` | `add`, `_set_status`, `_resume_chain`, `get`, `audit_export`, `verify_chain` |
| Durable tier | `prover/cassandra_store.py` | two query tables, `ledger_head`, `available` | `connect`, `write`, `set_status`, `save_head`, `load_head`, `get`, `recent` |
| Prover process | `prover/consumer.py`, `prover/main.py` | consumer, producer, `_running`, `_stats` | `_connect`, `run`, `_process`, `_publish`, `stop` |
| External verifier | `verifier/verify.py` | `_pubkey`, `_expected_prev`, `_stats` | `set_public_key`, `verify_envelope` |
| Verifier service | `verifier/kafka_client/consumer.py`, `verifier/dashboard.py` | ring buffers, `_reports`, offsets, lag figures | `_connect`, `_consume_loop`, `_process`, `_record_verification`, `_fetch_prover_keys`, `chain_verify`, API |
| Intent engine | `verifier/anomaly_detector.py`, `verifier/sanctions_graph.py` | velocity windows, Benford window, graph client | `score`, `record`, `count_1h`, `hops_to_sanctioned` |
| Lattice commitments | `prover/crypto/lwe.py` | keys, made once in a process or read from its environment | `commit`, `derive_randomness`, `open_commitment`, `verify` |
| Signatures | `prover/crypto/signature.py` | key, likewise | `sign_commitment`, `verify_signature` |
| Verifier API | `verifier/dashboard.py` | `_resolutions`, `_prover_keys`, marks in the buffered records, `seen` of each stream | `/transactions`, `/anomalies`, `/resolve`, `/stream`, `/verify/opening` |
| Sanctions loader | `scripts/load_sanctions_graph.py` | the graph in Neo4j | `load_entities`, `seed_demo_accounts` |
| Bank simulator | `simulator/bank_sim.py` | counters | `run`, `_emit`, `_emit_burst` |
| Presentation, other scripts, training | `dashboard/`, `verifier/components/`, `scripts/`, `ml/` | none that lasts | |

How they interact. The simulator signs transactions and sends them to the raw
topic. The prover's one ingest thread polls them, drops those whose signature
fails, has the intent engine score the rest, commits each to the ledger
(`add`, in memory under a lock, then three CQL statements outside it) and sends
the envelope to the committed topic, and to the anomalies topic when the score
reaches the threshold. FastAPI handlers read the same ledger on other threads,
and the shutdown hook calls `stop()` on yet another. In the DMZ a consumer
thread pushes each record into a ring buffer and calls the verifier back; a
second thread fetches the prover's keys; the API reads buffer, reports and
counters, writes verdicts into the buffered records, and feeds each subscriber
from a generator of its own. An auditor asks the prover for the opening of one
commitment (`/audit/open`) and hands it to the verifier (`/verify/opening`).
Docker compose runs the sanctions loader before the prover starts; it may be run
again by hand with a newer list while the prover screens.

What is hard here: three durable statements that are not a transaction, whose
failures the caller ignores; a restart that trusts one of them; offsets that are
acknowledged inside `poll()` and `close()` only; values on the raw topic that raise
in the deserializer, or outside of the `try` that was meant for them; a consumer
that its group evicts when a batch takes too long; sends that are asynchronous; a
shutdown that does not wait for the ingest thread; a verifier that must see the
chain in order although its transport only promises it per partition; buffers
bounded independently of one another; keys that arrive at any time or never, and
that a restarted prover may no longer have; two topics that are read in any
order; requests and streams that read shared buffers between the steps of the
consumer; a graph that is loaded in many small transactions.

What makes each part correct:

- ledger: records always recompute, the saved head never names a link without a
  row, the chain in memory and the ring agree, counters are conserved, the
  chain's self-check raises no false alarm, a restart continues the saved chain;
- prover process: at-least-once into the ledger, at most once for each time a
  consumer joins the group, nothing published is ever taken back, counters that
  tell what became of each message;
- verifier: a clean verdict means a contiguous, ordered, duplicate-free chain,
  and such a chain gets a clean verdict; errors and restarts lose nothing;
- verifier API: what is queued can be decided, a verdict shown is one that was
  given, a stream leaves out nothing and repeats nothing beyond its stated bounds;
- intent engine: windows are by event time, a client that failed to screen says so
  itself, reason and status agree with the score;
- commitments: the committed amount opens one, and no other does, whatever either
  side was restarted with;
- sanctions graph: an account is never nearer to a sanctioned entity than it
  should be, and a prover that was started properly is told its exact distance.

## Modules

| Module | Models | Composes |
|---|---|---|
| `HashChain` | `compute_chain_hash`, records, the walk of `verify_chain` and of the dashboard's `chain_verify` | |
| `CassandraLedger` | the tables and the head pointer, one operator per CQL statement, the ordered read | `HashChain` |
| `DurableLog` | abstract: an append-only log with a stable prefix | |
| `CommitmentStore` | `commitment.py` over the tables, crash and restart | `CassandraLedger`, implements `DurableLog` |
| `ProverConsumer` | ingest loop, producer, `stop()`, crash and restart | `HashChain`; the ledger through `DurableLog` |
| `ExternalVerifier` | key, tracked head, counters of `verify.py` | `HashChain` |
| `VerifierService` | consumer thread, buffer, reports, key fetch, restart | `ExternalVerifier` |
| `VerifierApi` | anomaly queue, decisions, marks, one event stream | `VerifierService` |
| `AuditPipeline` | prover and verifier over the committed topic | `ProverConsumer`, `ExternalVerifier` |
| `Lattice` | ring arithmetic, samplers, encoding and commitment of `lwe.py`, as operators | |
| `Disclosure` | keys, commitments and openings over the lives of prover and verifier | `Lattice` |
| `SanctionsGraph` | the loader's statements, the client and its shortest path | |
| `IntentEngine` | `score()` with the velocity and Benford windows, the typology rules, the sanctions client, the status derived from the score | |
| `CommitmentStore_proofs` | theorems | `CommitmentStore` |
| `ProverConsumer_proofs` | theorems | `ProverConsumer` |
| `VerifierService_proofs` | theorems | `VerifierService` |
| `AuditPipeline_proofs` | theorems | `AuditPipeline`, `ProverConsumer_proofs` |
| `VerifierApi_proofs` | theorems | `VerifierApi`, `VerifierService_proofs` |
| `IntentEngine_proofs` | theorems | `IntentEngine` |
| `SanctionsGraph_proofs` | theorems | `SanctionsGraph` |
| `Disclosure_proofs` | theorems, and what they need of `Lattice` | `Disclosure` |
| `MC*` | the instances TLC checks | |

Operators whose comment says "mutant" are wrong variants of the definition that
follows them, kept to show that a property notices the corresponding bug; no
specification uses them.

### How state and actions correspond to the code

`CommitmentStore`. `Add` is `add()` up to the release of the lock (lines
165-221); the statements after it are `WriteBucket`, `WriteTxn` and `SaveHead`,
each with a failing twin. A failing INSERT may have landed all the same (a
timeout), skips the second INSERT, and is followed by `save_head()` because
`add()` ignores what `write()` returns. `pending` is the record between these
steps; `pc` says which is next. `SetStatus` is the part of `_set_status` under
the lock, `PersistStatus` the UPDATE after it; the record object is shared, so a
status set before `write()` exports it reaches the row, and one set later does
not. `Crash` may come between any two steps; `Resume`, `ResumeForgets` (the head
read failed and returned None) and `StartMemoryOnly` (the cluster was not
reachable) are the three ways a process begins.
`refused` and `broken` are history variables: they record which INSERTs raised
and whether some restart lost part of the chain, and only properties read them.

`ProverConsumer`. `next` counts the messages the loop is done with, `position`
those `poll()` returned, `offset` what the group has acknowledged. A message is of
one of six kinds: not JSON, JSON but not an object, unsigned, signed but such that
scoring or committing it raises, below the threshold, or quarantined. `Fetch` is a
`poll()` that returns messages, and may acknowledge what earlier calls returned;
`FetchNothing` returns none. `PollRaises` is a `poll()` that raises, which counts
an error and leaves the position alone: because `stop()` has closed the consumer,
or because a value is not JSON (`Poisoned`). kafka-python deserializes what it
fetched as a whole, so one such value keeps back everything fetched with it, and
the loop polls it again for good; `Fetch` therefore never reaches it. Whatever else
may raise out of the client's `poll()` would be counted in the same way.
`Rejoin` is a consumer that was evicted from its group, because a batch took longer
than `max.poll.interval` or its session timed out: inside `poll()` it joins again,
and reads on from the acknowledged offset, in the same process. `Reject`, `Add`,
`Save`, `Publish` and `Alert` are the steps of `_process`, and `Done` ends each
message: the loops go through the batch before `_running` is tested again. `Abandon`
is a value that is not an object: `record.get` at line 117 stands before the `try`,
so the exception leaves both loops, is counted at line 227, and what is behind it
in the batch is acknowledged by the next `poll()` and never looked at.
`BeginStop`, `CloseConsumer`, `CloseProducer` and `Exit` are
`stop()` and the end of the process on another thread; `close()` of the consumer
acknowledges the whole batch. `halted` says that an operator stopped the container.
`outbox` is the producer's accumulator. The ledger
appears through its contract only: `Save` is `DurableLog`'s `Stabilise`, every new
process (`NewProcess`) begins with its `Recover`; `CommitmentStore` is proved to
implement that contract.
What may go wrong, a death of the process, a shutdown, an eviction, a network
fault, a start that never connects (`StartDeaf`), is counted together and bounded
by `MaxTroubles`; a ledger that does not save is not counted. `MaxRaises` bounds
the polls of one process that raise on a poisoned topic. `unsaved`, `cut` and
`abandoned` are history: the messages whose record was not saved, that a `close()`
acknowledged unprocessed, and that were abandoned; so is `since`, which counts from
the start of the process.

`ExternalVerifier`. The prover modelled is honest, so of the five checks only
SIGNATURE (is the key there?) and CHAIN_LINK (does it follow the tracked head?)
depend on state. A missing key is a SKIP, which does not fail a record.

`VerifierService`. `Receive` is `_process` up to the callback: the record is in
the buffer before it is verified; `Verify` is the callback
`_record_verification`. `LoopError` closes the consumer, `Connect` opens it at
the committed offset of the same group; `ProcessRestart` starts at the beginning
of the topic in a group of its own.

`VerifierApi`. The service's steps are taken over unchanged; a quarantined record
goes to both topics (`Quarantine`), and one `poll()` serves both, so
`ReceiveCommitted` and `ReceiveAnomaly` come in any order. `Transactions` is GET
/transactions, which writes a verdict into the record objects of the buffer
(`marks`); `Resolve` is POST /resolve. The generator behind GET /stream yields
between records and sleeps between rounds: `BeginRound` takes the newest records,
`SendNext` looks at one, `EndRound` prunes `seen`. `pushes`, `feed`, `covered` and
`overrun` are history. After an error the anomalies topic is read again from any
offset up to the position, which includes every offset that was committed.

`Disclosure`. `life` numbers the processes of the prover; a secret that the
environment does not provide is made up by each (`Secret`), so keys and blindings
are those of a life. `Commit` publishes a record, `FetchKeys` is the one success
of the key thread, `Receive` gives the SIGNATURE status of one record. The
requests `/audit/open`, `/verify` and `/verify/opening` only read; they are the
operators `OpeningFor`, `VerifyTxn` and `VerifyOpening`, and the properties speak
of every request possible in a state, an opening of an earlier process included.
`Openings` tabulates what recomputing a commitment gives, for every amount, seed
and key.

`SanctionsGraph`. `job` is what the loader has left to run; each statement is a
record of what its MATCH needs and what it MERGEs, because a MATCH that finds
nothing makes the statement do nothing. `BeginLoad`, `RunStatement` and
`LoaderDies` are the loader, `StartProver` waits for a load that ended well (the
`service_completed_successfully` of `docker-compose.yml`), `QueryFails` degrades
the client. `HopsToSanctioned` is the query and its default, over the requests
the simulator can cause.

`IntentEngine`. The ingest thread alone calls `score()`, so it is one step, in
three variants by what the graph client answers: `ScoreScreened`,
`ScoreGraphFails` (which degrades the client for good) and `ScoreDegraded`.
`times` is `VelocityTracker._ts`; `RecordTime` appends, pops from the left
(`Pruned`) and trims the map of accounts (`Trimmed`). `Verdict` is the rest of
`score()` and the status `add()` derives from its result. Event times are inputs
in any order: they are a field of the message, the simulator draws them at random
over five days, and nothing sorts the raw topic. `ProverConsumer` does not
compose this module: a message there is quarantined or not. A distance in the
graph is an input here; `SanctionsGraph` says which one it is.

### Abstractions

- A hash is the history it commits to (a sequence of links): SHA3-256 is taken
  to be free of collisions. A link names the transaction and its timestamp; the
  binding hash is a function of the transaction, and the signature and scores of
  a record never change after it is built.
- `time.time_ns()` gives increasing, distinct values, across restarts too. The
  code relies on it: the order of the durable export and the primary key of the
  by-bucket table are timestamps.
- All rows fall into the two day-partitions that `recent()` scans.
- One ingest thread calls `add()`, as in the code; one status change at a time.
- Kafka is external: a topic is one partition, because the producer sends with a
  constant key; the raw topic is filled beforehand and read as one partition too,
  so a batch is a stretch of it and a poisoned value stands before everything
  behind it. A network fault is losing, repeating or overtaking a send. An eviction
  is noticed when the loop is back in `poll()`, as the client notices it, and no
  other member of the group takes over meanwhile: compose runs one prover.
- SHAKE and HMAC are constants that map a seed and a position to a number; the
  instance scatters their arguments. Byte packing, fingerprints and the constant
  time of the comparison are left out.
- POST /verify/opening is modelled for a request of its three required fields; a
  caller that supplies a commitment or a public key of its own asks about no
  record of the ledger.
- `VerifierApi` leaves the key-fetch thread to `VerifierService`, since nothing it
  asks depends on the key.
- `rng.sample` with its constant seed is any injective choice, fixed for each
  list. The tier of a demo account stands for its number of hops; the pool
  accounts of the simulator are one account that the graph does not know.
- Left out: the counters of the Cassandra client, log lines, rates, uptimes.
- What the rules read of a transaction is its kind: a leading digit, a size class,
  nearness to a threshold, an off-hours bit, a distance in the graph. The novelty
  score is an input. A score is a number of half units of the fourth digit, rounded
  down: nothing finer is told apart by the thresholds or by `round(score, 4)`.

## Runs

| Run | Bounds | Shows |
|---|---|---|
| `Store_faulty` | 3 transactions, ring of 2, 4 commits, 1 crash; every failure | `TypeOK`, `RecordsLinked`, `HeadNeverAheadOfLedger`, `HotOnOneChain`, `NoFalseAlarm` |
| `Store_resume` | 2 transactions, ring of 1, 3 commits, 1 crash, 1 status change; writes may fail | `CountsConserved`, `DurableHeadOnlyExtends`, `ImplementsDurableLog` |
| `Store_fork` | 2 transactions, 3 commits, 1 crash | `NoFork` is violated |
| `Store_redelivery` | 2 transactions, 3 commits, 1 crash | `RedeliveryRewrites` is violated |
| `Prover_process` | 2 messages of any of the six kinds, batches of up to 2, 2 troubles: crashes, shutdowns, evictions, lost, repeated and overtaking sends, starts that never connect; 1 poll that raises on a poisoned topic in each process; saves may fail | `ProverTypeOK`, `AckedIsCommitted`, `OnceForEachJoin`, `EveryMessageTallied`, `PublishedIsDurable`, `EventuallyInLedger` |
| `Verifier_service` | 3 transactions, 3 records, buffer of 2, reports pruned beyond 1, 2 errors or restarts | `TypeOK`, `BufferedHasReport`, `DashboardIntact`, `EachLinkAcceptedOnce`, `CatchesUp` |
| `Verifier_unsigned` | 2 transactions, 3 records | `NothingFailedMeansAllSigned` is violated |
| `Pipeline` | 3 messages, fit or not an object, batches of up to 2, 1 trouble; saves may fail | `CleanMeansContiguous`, `NoAlarmWithoutFault`, `EventuallyVerified` |
| `Intent_engine` | 2 accounts, 4 transactions of 7 kinds, event times 1 to 5, window of 2, at most 1 account before trimming; the graph may fail | `IntentTypeOK`, `CountExactAtNewest`, `MissedMeansDegraded`, `QuarantineExplained` |
| `Disclosure` | 2 transactions of amounts 1, 3 and 4 (one out of domain), 2 commitments, 2 restarts of either side, any set of secrets in the environment, NumPy on either side or not; degree 2, rank 2, modulus 17, amounts of 2 bits | `TypeOK`, `HonestOpeningAccepted`, `AcceptedIsCommitted`, `TraceAgrees`, `PassedCanBeOpened` |
| `Verifier_api` | 3 transactions, 3 records, 1 of them quarantined, buffer of 2, rounds of 1, `seen` pruned beyond 2 to 1, 1 error, restart or resubscription, 1 decision | `ApiTypeOK`, `QueuedCanBeResolved`, `FailedWasReread`, `StreamMissesOnlyOverrun`, `SentOncePerPruning` |
| `Sanctions_graph` | lists (1, 2, 3) and (3, 4), statements of 2 entities, 2 wired entities, 2 accounts in each tier, 3 loads | `GraphTypeOK`, `NeverTooNear`, `ScreenedExactly`, `ReloadChangesNothing` |

Why the bounds are enough. A ring of two and four commits of three transactions
contain an eviction, a transaction committed twice while it is in the ring, one
committed again after its eviction, and an eviction of a record that is not the
oldest link; one crash separates two lives and can fall between any two of the
five steps of a commit, and commits follow on both sides of it. Two messages in
one batch contain the shutdown or crash in the middle of a batch, and a value that
abandons the one behind it; in two batches they contain the acknowledgement of the
first by the second poll, an eviction between them, and a poisoned value behind a
message that was read. A second poll that raises differs from the first by the
count only. In `Pipeline` a value that is not an object and ends its batch is
counted and passed over like any other message that is rejected. Three records and a
buffer of two overflow it; reports pruned beyond one are pruned while the buffer
is full, and `BufferAssumption` states exactly the relation of the sizes
(500, 5000 and 1000 in the code) under which a buffered record keeps its report.
Three sends in the accumulator allow one to overtake another and the third to
show whether that is noticed. One trouble is enough in `Pipeline`: the verdict on
a record depends on the record and the tracked head, so the first discontinuity
decides the rest, and saves that fail before and after a crash still fork the
chain; two troubles that interact within the prover are in `Prover_process`.
A ring of degree 2 has both signs of a folded product, rank 2 has the transpose,
and a commitment can be made twice, or once by each of two lives, with a key
fetch or a restart anywhere in between. Rounds of one record over a buffer of two
can be overrun while the record is still in the buffer, and three transactions
prune `seen` once. Two lists that share an entity, two accounts and a shell for
each tier give a graph in which every kind of node is shared; three loads let one
die between two that end. Event times 1 to 5 with a window of 2 contain two
events just inside, on and outside the window's edge, in both orders, and an old
entry stuck behind a newer one; spikes from 2 and bursts from 3 (12 and 20 in the
code) are both reached with four transactions, and so are scores on either side
of the rounding at the threshold (`MCTxnKinds`).

Deadlock checking is off in every run: each model stops when its bounds are used
up.

What the properties say in short (each is stated above its definition):

- `HeadNeverAheadOfLedger`: each link of the saved head has its row, unless that
  very INSERT raised.
- `NoFalseAlarm`: `verify_chain` over the durable tier reports no break unless an
  INSERT was refused or a restart lost part of the chain; over the ring, unless a
  transaction was committed twice. The two exceptions are real: in both cases the
  walk does report breaks in an honest ledger.
- `AckedIsCommitted`: an acknowledged message is in the ledger, except those it
  refused to save, those an orderly shutdown acknowledged while they were still in
  the polled batch, and those behind a value that is not an object in one batch. A
  crash or an eviction loses nothing; a clean `stop()` or one malformed neighbour
  may.
- `OnceForEachJoin`: each reading of the topic from the acknowledged offset, by a
  new process or by one that was evicted, commits a message at most once.
- `EveryMessageTallied`: `processed` and `quarantined` are those of the links this
  process added to the chain and is done with; and
  `processed + signature_failures + errors`, less the polls that raised, is what it
  polled, less what it has still to look at and what it abandoned. So the counters
  lose exactly the abandoned messages, and `errors` alone does not tell a message
  from a poll.
- `EventuallyInLedger`: a fit message is committed or in one of the three losses in
  the end, unless a value on the topic is not JSON, the thread gave up connecting
  (`Deaf`), or an operator stopped the container for good. Those three are the ways
  for a message to be stuck.
- `CleanMeansContiguous`: `chain_broken` and `failed` are 0 exactly as long as
  the verifier received a contiguous stretch of the chain. After a crash of the
  prover between `add()` and delivery, the stretch is broken, and so is every
  record after it: the tracked head moves only past an accepted record.
- `CountExactAtNewest`: however the events of an account are ordered, the deque
  holds what the window before the newest of them needs, and the bound on the
  number of accounts takes no deque away that has entries. For any other event the
  count may be too high (see below).
- `MissedMeansDegraded`: one failed query ends the screening of this process, and
  a transaction near a sanctioned entity gets through only then.
- `QuarantineExplained`: the detector's quarantine implies the ledger's, and a
  reason. The ledger goes beyond it exactly for a score within half a unit of the
  fourth digit below the threshold, which is rounded onto it; if no rule fired, such
  a record is quarantined with the reason NONE.
- `HonestOpeningAccepted` is an equivalence: an honest opening fails exactly when
  key or blinding are not those of the commitment's process. So with configured
  secrets it never fails, and without them a restart of the prover makes earlier
  records impossible to open, and later ones too for a verifier that fetched its
  key before.
- `AcceptedIsCommitted`: no blinding at all, of any life or transaction, makes the
  verifier accept another amount. It follows from `SeedsDoNotCollide`, which TLC
  finds true of the hash functions of the instance, and from the encoding; the
  mutants show which errors break it.
- `PassedCanBeOpened`: signature and lattice keys come in one answer, so a record
  whose signature passed can be opened, when all secrets are of one kind.
- `QueuedCanBeResolved`: a queued anomaly answers 404 only while its record has not
  come over the other topic, or when a whole buffer of records came after it.
- `FailedWasReread`: on an honest chain `/transactions` shows FAILED only for a
  transaction of which this process was handed a record twice.
- `StreamMissesOnlyOverrun` and `SentOncePerPruning` bound what a stream loses and
  repeats by what the code lets happen: rounds that come too late, and prunings.
- `ScreenedExactly`: no window in which the prover of a fresh deployment misses a
  sanctioned neighbour, because it waits for a load that ended; a reload that dies
  takes nothing away. `NeverTooNear` adds that piled-up lists create no shortcut.
- `EachLinkAcceptedOnce`: redelivered records are reported broken, but the
  tracked head never moves back and never loses its place.

Fairness. The ingest, sender, consumer and key-fetch threads run as long as
their process does, so each of their steps is weakly fair; a shutdown that has
begun completes. `docker-compose.yml` restarts the prover `unless-stopped`, so
`Start` is weakly fair while no operator has stopped it, and not after. `Fetch` is
weakly fair as long as nothing ahead is poisoned, and no poll is assumed to return
otherwise. Nothing is assumed of crashes, evictions, faults, shutdowns or
status changes. A process whose ingest thread gave up connecting (`StartDeaf`)
stays up and does nothing, and no supervisor notices; nor does one notice a loop
that raises on the same value for good. `EventuallyVerified` speaks of
runs without a trouble and without a poisoned topic, and of the messages that were
not abandoned. `Disclosure`, `VerifierApi`, `SanctionsGraph` and
`IntentEngine` have safety properties only: what they wait for is a request.

### Disagreements between the code and what is said of it

- `Store_fork`: the head pointer is written after the row, in another statement,
  and a restart reads the pointer alone; a crash in between (or a failed
  `save_head`) gives the sequence number of a stored row out again.
  `cassandra_store.py:22-24` says a restarted prover resumes the chain instead of
  forking it.
- `Store_redelivery`: `cassandra_store.py:26-28` says re-delivering a message
  rewrites identical values; the second commit takes a new timestamp and
  sequence, and the timestamp is part of the key of the by-bucket table.
- `Verifier_unsigned`: `README.md:228` reads `chain_broken: 0` and `failed: 0` as
  "every record carried a valid enclave signature"; records verified before the
  key is there count as verified (`verify.py:114-120`).
Others without a run, because they follow from one definition or concern what
no document promises:

- `anomaly_detector.py:234` promises the transactions in the trailing window in
  event time; `count_1h` has a lower bound and no upper one, so an event is judged
  with all the later ones that arrived before it. `ml/evaluate.py:22` replays its
  stream in order and does not meet this.
- `anomaly_detector.py:228` says that the map of accounts is bounded by dropping
  the coldest. The branch drops accounts without an entry, and an account that was
  recorded always has its newest one, so nothing is dropped and the map grows with
  the accounts seen (theorem `NoAccountIsDropped`).
- `sanctions_graph.py:31-33` says that sidebar and status surface a client that no
  longer screens. The flag is there (`stats()`), and `MissedMeansDegraded` speaks
  of it; nothing in the repository displays it.
- `README.md:199` says that after a restart of a prover without configured secrets
  the verifier rejects earlier signatures. The verifier keeps the key it fetched,
  so it accepts those and rejects the new ones until it is itself restarted.
- The answer of `/verify/opening` names the fingerprint of the fetched key
  (`dashboard.py:369`) when the request brought a key of its own.
- A decision is kept by transaction identifier and shown for a record committed
  again after it; the stream sends such a transaction once.
- Quarantined records that left the committed ring answer 404 to a decision while
  they are still in the anomaly queue.
- The loader only merges: an entity that is no longer on the list stays in the
  graph (`NeverTooNear` speaks of every list that was ever loaded), and an account
  without a path is reported at eight hops and not as degraded. Only the order of
  docker compose keeps the prover from meeting one.

## Proofs

Each theorem holds for every value of the constants of its module: any number of
transactions, records, lists, crashes, errors and faults, any size of the buffers,
windows, batches and rings. The named assumptions on the constants are all they
rest on beside what the last column says; TLC evaluates them on every run. Most
say that a size is a positive number; the others are:

- `BufferAssumption` of `VerifierService` (500, 5000 and 1000 satisfy it) and
  `SeenAssumption` of `VerifierApi` (a round fits between what `seen` keeps and
  what it may hold);
- `SnapshotsAssumption` of `SanctionsGraph`: a list is a sequence of different
  entities and not empty;
- `RingAssumption` of `Lattice` and `HashAssumption` of `Disclosure`: four bits of
  a hash are a number below 16, and the candidates for a coefficient are a sequence
  of numbers. Nothing else is assumed of the hash functions, except by the two
  theorems that name it in the last column: `SeedsDoNotCollide` says that two
  commitments that are equal have the same key and the same blinding. It does not
  speak of amounts. For SHAKE this is a matter of cryptography; the assumption
  `SeedsAssumption` of `MCDisclosure` has TLC evaluate it on the instance, so the
  two theorems are about something.

| Module | Theorem | Statement | Assumes |
|---|---|---|---|
| `CommitmentStore_proofs` | `TypeCorrect` | `Spec => []TypeOK` | |
| | `RecordsAlwaysLinked` | `Spec => []RecordsLinked` | |
| | `HeadBehindLedger` | `Spec => []HeadNeverAheadOfLedger` | |
| | `RingOnOneChain` | `Spec => []HotOnOneChain` | |
| | `CountersAddUp` | `Spec => []CountsConserved` | |
| | `ExportsAlwaysIntact` | `Spec => []NoFalseAlarm` | |
| | `DurableHeadExtends` | `Spec => DurableHeadOnlyExtends` | `~LoadMayFail` |
| | `StoreImplementsLog` | `Spec => ImplementsDurableLog` | `~LoadMayFail`, `~ConnectMayFail` |
| `ProverConsumer_proofs` | `ProverTypeCorrect` | `ProverSpec => []ProverTypeOK` | |
| | `AcknowledgedIsCommitted` | `ProverSpec => []AckedIsCommitted` | |
| | `PublishedStaysDurable` | `ProverSpec => []PublishedIsDurable` | |
| | `CommittedOncePerJoin` | `ProverSpec => []OnceForEachJoin` | |
| | `CountersAccountForAll` | `ProverSpec => []EveryMessageTallied` | |
| | `LedgerByContract` | `ProverSpec => Log!Spec` | |
| `VerifierService_proofs` | `ServiceTypeCorrect` | `Spec => []TypeOK` | |
| | `LinksAcceptedOnce` | `Spec => []EachLinkAcceptedOnce` | |
| | `DashboardAgrees` | `Spec => []DashboardIntact` | |
| | `VerdictForEveryBuffered` | `Spec => []BufferedHasReport` | |
| `VerifierApi_proofs` | `ApiTypeCorrect` | `ApiSpec => []ApiTypeOK` | |
| | `ServiceGuaranteesHold` | `ApiSpec => [](EachLinkAcceptedOnce /\ DashboardIntact /\ BufferedHasReport)` | |
| | `AlertsCanBeResolved` | `ApiSpec => []QueuedCanBeResolved` | |
| | `FailureMeansReread` | `ApiSpec => []FailedWasReread` | |
| | `StreamMissesNothing` | `ApiSpec => []StreamMissesOnlyOverrun` | |
| | `SentOnceBetweenPrunings` | `ApiSpec => []SentOncePerPruning` | |
| `AuditPipeline_proofs` | `CleanVerdict` | `Spec => []CleanMeansContiguous` | |
| | `NoFalseAlarmEndToEnd` | `Spec => []NoAlarmWithoutFault` | |
| | `CleanLeavesNothingOut` | `Spec => []NothingLeftOut` | |
| | `AcceptedStaysOneChain` | `Spec => []AcceptedIsOneChain` | |
| `IntentEngine_proofs` | `IntentTypeCorrect` | `IntentSpec => []IntentTypeOK` | |
| | `CountIsExact` | `IntentSpec => []CountExactAtNewest` | |
| | `NoAccountIsDropped` | `IntentSpec => []EveryAccountKept` | |
| | `NearMissMeansDegraded` | `IntentSpec => []MissedMeansDegraded` | |
| | `QuarantineHasReason` | `IntentSpec => []QuarantineExplained` | |
| `SanctionsGraph_proofs` | `GraphTypeCorrect` | `Spec => []GraphTypeOK` | |
| | `NoFalseHit` | `Spec => []NeverTooNear` | |
| | `NoHitMissed` | `Spec => []ScreenedExactly` | |
| | `ReloadIsDeterministic` | `Spec => ReloadChangesNothing` | |
| `Disclosure_proofs` | `MultiplicationsAgree` | `MulNumpy(a, b) = MulSchoolbook(a, b)` | integer coefficients |
| | `DisclosureTypeCorrect` | `Spec => []TypeOK` | |
| | `BankAndAuditorAgree` | `Spec => []TraceAgrees` | |
| | `EncodingsDiffer` | distinct amounts are `Q \div 2` apart in a coefficient | amounts of the domain |
| | `BlindingBinds` | equal commitments under one key and blinding are of equal amounts | |
| | `HonestOpens` | `Spec => []HonestAlwaysOpens` | |
| | `OpeningIsOfTheAmount` | `Spec => []OpensOnlyTheCommitted` | |
| | `AcceptedStatesTheAmount` | `Spec => []AcceptedIsCommitted` | `SeedsDoNotCollide` |
| | `HonestOpeningIff` | `Spec => []HonestOpeningAccepted` | `SeedsDoNotCollide` |
| | `PassedIsOpenable` | `Spec => []PassedCanBeOpened` | |

Beside them each module has a theorem `...Invariance` (`Invariance` in
`CommitmentStore_proofs`) for its inductive invariant.

The ledger. `HeadNeverAheadOfLedger` is not inductive: `SaveHead` stores a head
of which nothing is known unless the state remembers that its rows were written
before. The invariant `Inv` adds two facts. `Persisting`: while `add()` is at
work, `pending` holds exactly one record, whose chain hash is the head in memory,
whose `seq` is `_seq` and whose timestamp is the clock. `Coverage`: every link of
the head in memory is stored (or was refused), except between the lock and the
first INSERT, when this holds of the predecessor; and stored timestamps lie
strictly before the pending one, so the INSERT overwrites no row. Each action is
a lemma; `InvNext` puts them together. The two theorems with assumptions add
`Ancestry`: a process that has its ledger works on an extension of the saved
head. The refinement maps `log` to `_head` and `stable` to the saved hash: `Add`
is `Write`, `SaveHead` is `Stabilise`, `Resume` is `Recover`, everything else
stutters. `LoadMayFail` must be excluded because a prover that failed to read
the head starts again at genesis and overwrites the pointer.

The ring and the counters need `HotInv` on top. `add()` changes the ring in one
of three ways (a position replaced, appended, appended with an eviction), which
`RenewedBy` describes at once: the new record at one position, at the others
different old records of other transactions; counting then is a matter of
injections. `Counted` bounds each counter by the records of its status, so no
subtraction goes below zero. For `NoFalseAlarm`, `InARow` says that the ring is
the newest stretch of the chain until a transaction comes back, and `OneLedger`
that the rows are those of one chain without a gap until an INSERT is refused or
a restart does not resume the head: timestamps go up along a chain (`Timed`), so
no row overwrites another, and `recent()` returns a stretch in order.

The prover process. None of its properties is inductive: an acknowledgement in
`poll()` or `close()` looks at a position only, so the state must remember what
became of every message before it. `Covered` says it of all messages that the
loop or the group is past: committed to the stable chain, unfit, unsaved, cut
off by `stop()`, or abandoned with its batch. It says it of both, so a loop that an
eviction puts back at the acknowledged offset is where it holds too. `Placed` says
where in the polled batch the loop is, so that "past" means something at each
program counter. `AtHand` follows one record from `Add` to the end of its message:
the stable chain is a prefix of the log, the last link of the log is the message at
hand, and once it was saved the message is in the stable chain, and the log is the
stable chain, unless a save failed. That is
what makes `Publish` send a durable link; a crash may only cut the log back to
the stable chain, of which everything in flight is a prefix. `CommittedOnce`
counts with the readings of the topic (`Lives`: processes and evictions): the
present one has committed no message it has not reached. `Tallied` says of the
counters what `EveryMessageTallied` does, and that the chain is no shorter than the
one the process resumed and the link at hand; `Conserved` is its third part, a law
of conservation that each action keeps on its own, `FinishedTallied` the other two,
where only `Publish` and `Alert` finish a link and `AtHand` says whose it is.
`LedgerByContract` is
the counterpart of `StoreImplementsLog`: what the process does to its ledger is
what `DurableLog` allows, at every step.

The verifier. `Chained`: the topic holds one chain, so a record's predecessor is
the record before it. `Tracked`: what has been accepted is a stretch of the topic
from its first record on, the tracked head is the last record of that stretch,
and the consumer is past it at most by the record it is verifying. A redelivered
record lies inside the stretch and does not follow the head, so it is refused and
the stretch stays. `Straight` speaks of a life without redelivery: the buffer is
the newest stretch of what was received, everything passed, and, unless a
transaction occurs twice, the reports are the newest stretch of what was verified
and at least as many as the buffer can hold. This is where `BufferAssumption`
enters.

The API. With redelivery the buffer is a window over what was handed over and not
over the topic: `Received` relates it to the history `pushes`, and says that every
accepted link is in it. So a record that fails, because it is not the next link,
was handed over before (`Marked`, which follows a verdict from the report into the
mark). `Queued` ties an anomaly to its record on the committed topic. For the
stream, `Remembered` bounds `seen` in the middle of a round by what is left of it,
and `FeedOk` says where each record of a covered round is: sent, or still waiting
in the round; and that a transaction was sent at most once more than there were
prunings, and not once more unless it is in `seen`. The API's steps are not all
steps of the service (a quarantined record, a new subscription), so the theorems of
the service are not theorems of the API; its invariants `Inv` and `Straight` are,
which is `ServiceGuaranteesHold`.

The pipeline. `Judged`: while the counters are clean, the tracked head is the
record received last; so the next verdict is clean exactly if the next record
names it as its predecessor. `Formed`, on top of the prover's invariant: whatever
is sent or in flight has a link to its name, so an honest envelope recomputes.
Nothing is assumed of the network: the topic only grows, by one envelope at a
time (`StreamGrows`). `NoAlarmWithoutFault` is the converse: `InStep` says that
while nothing has gone wrong, the topic followed by the accumulator is one stretch
of the chain, ending with the record published last. `NothingLeftOut` puts prover and
verifier together: a clean stretch has consecutive links, and each of its records
is a prefix of the saved chain because everything in flight is (unless a save
failed), so the records are the saved chain itself from the first one received on.
`Following` says what remains when the verdict is no longer clean: the tracked head
was received, it continues the record received first, and `chain_ok` is the number
of links from one to the other. A repeated, late or forked record does not follow
the head and changes none of the three; so the verifier never changes to another
chain, and never counts a link twice (`AcceptedIsOneChain`).

The intent engine. For the screening the work is in the operators.
`TypologyIsLargest`: among the rules that fire there is a largest, so the typology
is no lower than any of them and has a reason; therefore a distance of one or two
hops, once the graph answers it, lifts every score over the threshold, whatever
the novelty, the velocity and the other rules say (`NearIsQuarantined`).
`VerdictExplained` compares the thresholds with the rounding. The velocity count
may be any number in both. `CountExactAtNewest` has an invariant of its own,
`TypedInv`: the deque is the latest suffix of the account's events, and what was
let go was already before the window of some event (`HoldsLatest`). The newest
event is no earlier than that one, so nothing that is missing could be counted;
and since pruning stops at the first entry it keeps, the suffix is all that can be
said of the deque when events come out of order. It is never empty, because the
event just appended is within its own window: that is why the trimming of the map
takes nothing (`TrimmedIsWhole`, `NoAccountIsDropped`).

The sanctions graph. Every relationship goes down by one step of `Height`, the
distance a node is meant to have, so a path of n hops cannot begin higher than n:
that is `NeverTooNear`, by induction on the ball that the query grows. For the
other direction `UnderWay` says which prefix of the statements has run, and
`Grounded` that whatever a statement matches was merged by one before it; so a
load that ended left every path of its list in the graph (`AppliedAll`), and
nothing removes it. A load that ended once finds everything merged.

The openings. `DisclosureInv` says that every record is the commitment of a
process that has run, that the keys are one answer of such a process, and that a
signature passed with the keys that are still there. The rest is algebra:
`FoldedCoefficient` shows that folding back the high half of a convolution negates
exactly the products the schoolbook negates (`MultiplicationsAgree`), so keys and
commitments do not depend on which multiplication made them, and an opening is
accepted by one side if and only if it is by the other.

What an accepted opening says has two parts. The encoding is one-to-one: the bits
of an amount are the remainders of its halvings (`Shifted`), the last halving of an
amount of the domain is 0 (`ShiftedBounded`), and so equal bits give equal halvings
from the last one back to the amount itself (`BitsDetermine`). Two amounts are
therefore `Q \div 2` apart in some coefficient (`EncodingsDiffer`), the encoding is
added last and to the same polynomial (`BlindingBinds`), and under the blinding of
a record an opening is accepted for its amount and no other, whatever the hash
functions are (`OpeningIsOfTheAmount`, which contains `HonestOpens`). That no other
blinding, of any life or transaction, and no other key will do is where
`SeedsDoNotCollide` comes in: it reduces any accepted opening to that case. Without
it `AcceptedIsCommitted` and `HonestOpeningAccepted` are false, for constant hash
functions for example.

Sums, the rejection sampler, the concatenation of statements and the ball of the
query are recursive functions. What is said of them is proved by induction over a
set of naturals (`NatInduct`: a set of naturals that is not empty has a least
element), because the library's induction rules take an operator as a parameter.

Model-checked only:

- liveness, `EventuallyInLedger`, `CatchesUp` and `EventuallyVerified`: the prover
  handles neither fairness nor ENABLED;
- the three statements that the code does not satisfy.

## Not modelled

- The checks of one record alone (binding hash, LWE parameters, forbidden
  fields): they depend on the record only, and the modelled prover is honest.
- `reset_chain`, the `Transaction` dataclass: nothing calls or imports them.
- Feature arithmetic (logarithms, Benford surprisal, threshold bands), the
  autoencoder and its calibration: numbers that enter `IntentEngine` as inputs.
- The emission loop and the random generators of the simulator: what they can emit
  is the input of `ProverConsumer`, `IntentEngine` and `SanctionsGraph`; the two
  counters are printed and decide nothing.
- The verifier's lag, throughput and chi-squared figures, the decision that
  /anomalies copies into the queued records, `VerifierKafkaConsumer.stop()` (the
  shutdown of a process that keeps nothing) and the endpoints that format what
  others hold.
- Signatures and TLS: cryptography is trusted. Front end and charts: pure functions
  of what the API returns. Certificates, topics, attestation and list download:
  jobs run once, by hand. Training and evaluation: offline numerical code on
  synthetic data, whose result is the threshold `IntentEngine` is given.

## What is left

Everything with state and control of its own is modelled, and every safety and
action property of a passing run is proved, two of them from `SeedsDoNotCollide`.
What remains open:

1. Liveness is checked on the instances only.
2. Without the hypotheses of `StoreImplementsLog` the store does not implement
   `DurableLog`, and the contract has no weaker form that would be worth a module:
   when `load_head` may fail, the chain begins again at genesis and the saved prefix
   is lost, so only the invariants of `Store_faulty` and `CountsConserved` remain,
   which are proved without hypotheses; when the cluster may be unreachable at the
   start, `DurableHeadExtends` still holds, which needs `~LoadMayFail` alone.
3. The composition of `IntentEngine` and `SanctionsGraph` with the prover process.
   They meet it in one value each, the status of a record and a distance, and are
   composed by these inputs only.
