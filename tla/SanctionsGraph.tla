---------------------------- MODULE SanctionsGraph ----------------------------
(***************************************************************************)
(* What the prover screens against: the graph that                         *)
(* scripts/load_sanctions_graph.py loads into Neo4j, statement by          *)
(* statement, and the shortest path that verifier/sanctions_graph.py asks  *)
(* for while the loader may be at work again with a newer list.            *)
(*                                                                         *)
(* The demo accounts of the loader come in tiers, 1 (OFAC), 2 (RBI) and 3  *)
(* (FATF), a tier being the number of hops to a sanctioned entity, and the *)
(* simulator sends transactions of the same accounts.  Each statement is a *)
(* transaction of its own; Neo4j itself is external.                       *)
(***************************************************************************)
EXTENDS Integers, Sequences, FiniteSetsExt, SequencesExt

CONSTANTS Snapshots,  \* the lists of entity numbers that occur
          BatchSize,  \* entities merged by one statement (2000)
          Picked,     \* entities that accounts are wired to (12)
          PerTier,    \* accounts in each tier (4)
          MaxLoads    \* bound: times the loader is started

ASSUME SnapshotsAssumption ==
  /\ Snapshots # {} /\ Snapshots \subseteq Seq(Nat)
  /\ \A rows \in Snapshots : rows # << >> /\ IsInjective(rows)
ASSUME SizesAssumption ==
  /\ BatchSize \in Nat \ {0} /\ Picked \in Nat \ {0} /\ PerTier \in Nat \ {0}
ASSUME BoundAssumption == MaxLoads \in Nat

VARIABLES sample,    \* rng.sample of each list, with its constant seed
          nodes,     \* the nodes of the graph
          edges,     \* the TRANSACTED_WITH relationships
          job,       \* the statements the loader has yet to run
          snapshot,  \* the list it was started with
          loaded,    \* history: the lists that were loaded to the end
          running,   \* is there a prover?
          available, \* SanctionsGraphClient._available
          loads      \* starts of the loader so far (bounds the runs)

graph == <<nodes, edges>>
loader == <<job, snapshot, loaded, loads>>
prover == <<running, available>>
vars == <<sample, graph, loader, prover>>

Tiers == 1 .. 3
MaxHops == 8

Entity(e) == <<"SanctionedEntity", e>>
Account(tier, i) == <<"Account", tier, i>>

(* mutant: the same shells for every tier                                  *)
ProxyShared(tier, n) == <<"Proxy", 0, n>>

Proxy(tier, n) == <<"Proxy", tier, n>>

EntityNodes == {Entity(e) : e \in UNION {ToSet(rows) : rows \in Snapshots}}
DemoAccounts == {Account(tier, i) : tier \in Tiers, i \in 1 .. PerTier}
Proxies == {Proxy(tier, n) : tier \in Tiers, n \in 1 .. 2}

(* One of the accounts of the simulator's pool, unknown to the graph.      *)
PoolAccount == <<"Account", 0, 0>>

Tier(account) == IF account = PoolAccount THEN MaxHops ELSE account[2]

-----------------------------------------------------------------------------
(* The loader as a sequence of statements: what each has to MATCH, and     *)
(* what it MERGEs if it does.                                              *)
MergeNodes(ns) == [match |-> {}, nodes |-> ns, edges |-> {}]

MergeEdge(x, y) ==
  [match |-> {x} \cup ({y} \cap EntityNodes), nodes |-> {y}, edges |-> {<<x, y>>}]

LoadEntities(rows) ==
  [b \in 1 .. (Len(rows) + BatchSize - 1) \div BatchSize |->
     MergeNodes({Entity(rows[k]) : k \in
       {j \in DOMAIN rows : (j - 1) \div BatchSize = b - 1}})]

SeedAccount(tier, i, e) ==
  LET path == << Account(tier, i) >> \o [n \in 1 .. tier - 1 |-> Proxy(tier, n)]
                \o << Entity(e) >>
  IN  << MergeNodes({Account(tier, i)}) >>
        \o [n \in 1 .. tier |-> MergeEdge(path[n], path[n + 1])]

SeedDemoAccounts(chosen) ==
  FlattenSeq([k \in 1 .. 3 * PerTier |->
    SeedAccount(((k - 1) \div PerTier) + 1, ((k - 1) % PerTier) + 1,
                chosen[((k - 1) % Len(chosen)) + 1])])

(* mutant: the accounts before the entities                                *)
LoadSeedingFirst(rows, chosen) == SeedDemoAccounts(chosen) \o LoadEntities(rows)

Load(rows, chosen) == LoadEntities(rows) \o SeedDemoAccounts(chosen)

Samples(rows) ==
  {s \in [1 .. (IF Picked < Len(rows) THEN Picked ELSE Len(rows)) -> ToSet(rows)] :
     IsInjective(s)}

GraphTypeOK ==
  /\ nodes \subseteq EntityNodes \cup DemoAccounts \cup Proxies
  /\ edges \subseteq nodes \X nodes
  /\ loaded \subseteq Snapshots /\ loads \in 0 .. MaxLoads
  /\ \A k \in DOMAIN job : job[k].nodes # {}
  /\ running \in BOOLEAN /\ available \in BOOLEAN /\ (available => running)

Init ==
  /\ sample \in [Snapshots -> UNION {Samples(rows) : rows \in Snapshots}]
  /\ \A rows \in Snapshots : sample[rows] \in Samples(rows)
  /\ nodes = {} /\ edges = {}
  /\ job = << >> /\ snapshot = << >> /\ loaded = {} /\ loads = 0
  /\ running = FALSE /\ available = FALSE

-----------------------------------------------------------------------------
(* mutant: the generator is not seeded                                     *)
BeginLoadUnseeded(rows) ==
  /\ job = << >> /\ loads < MaxLoads
  /\ loads' = loads + 1
  /\ snapshot' = rows
  /\ \E chosen \in Samples(rows) : job' = Load(rows, chosen)
  /\ UNCHANGED <<sample, graph, loaded, prover>>

(* By docker compose before the prover, or by hand after the list was      *)
(* fetched again.                                                          *)
BeginLoad(rows) ==
  /\ job = << >> /\ loads < MaxLoads
  /\ loads' = loads + 1
  /\ snapshot' = rows
  /\ job' = Load(rows, sample[rows])
  /\ UNCHANGED <<sample, graph, loaded, prover>>

RunStatement ==
  /\ job # << >>
  /\ LET s == Head(job)
     IN  IF s.match \subseteq nodes
         THEN nodes' = nodes \cup s.nodes /\ edges' = edges \cup s.edges
         ELSE UNCHANGED graph
  /\ job' = Tail(job)
  /\ loaded' = IF Len(job) = 1 THEN loaded \cup {snapshot} ELSE loaded
  /\ UNCHANGED <<sample, snapshot, loads, prover>>

(* A statement raises, or the process dies.                                *)
LoaderDies ==
  /\ job # << >>
  /\ job' = << >>
  /\ UNCHANGED <<sample, graph, snapshot, loaded, loads, prover>>

(* docker compose waits for a loader that ends well; the client connects   *)
(* when the prover starts, or never.                                       *)
StartProver ==
  /\ ~running /\ loaded # {}
  /\ running' = TRUE
  /\ available' \in BOOLEAN
  /\ UNCHANGED <<sample, graph, loader>>

QueryFails ==
  /\ available
  /\ available' = FALSE
  /\ UNCHANGED <<sample, graph, loader, running>>

(* mutant: the client outlives its process                                 *)
ProverStopsConnected ==
  /\ running
  /\ running' = FALSE
  /\ UNCHANGED <<sample, graph, loader, available>>

ProverStops ==
  /\ running
  /\ running' = FALSE /\ available' = FALSE
  /\ UNCHANGED <<sample, graph, loader>>

Next ==
  \/ \E rows \in Snapshots : BeginLoad(rows)
  \/ RunStatement \/ LoaderDies
  \/ StartProver \/ QueryFails \/ ProverStops

Spec == Init /\ [][Next]_vars

-----------------------------------------------------------------------------
(* The query: relationships are followed either way.                       *)
Within(account, n) ==
  LET ball[k \in 0 .. n] ==
        IF k = 0 THEN {account}
        ELSE LET inner == ball[k - 1]
             IN  inner \cup {e[1] : e \in {f \in edges : f[2] \in inner}}
                       \cup {e[2] : e \in {f \in edges : f[1] \in inner}}
  IN  ball[n]

Distance(account) ==
  Min({MaxHops} \cup {n \in 1 .. MaxHops : Within(account, n) \cap EntityNodes # {}})

(* hops_to_sanctioned(): the nearer of the two accounts.                   *)
HopsToSanctioned(account, counterparty) ==
  IF available
  THEN Min({MaxHops} \cup {Distance(a) : a \in {account, counterparty} \cap nodes})
  ELSE MaxHops

(* The transactions of the simulator: at most one side is a demo account.  *)
Requests ==
  {<<PoolAccount, PoolAccount>>} \cup ({PoolAccount} \X DemoAccounts)
     \cup (DemoAccounts \X {PoolAccount})

-----------------------------------------------------------------------------
(***************************************************************************)
(* Properties.                                                             *)
(***************************************************************************)
(* No false hit: in the middle of any load, after loads that died, and     *)
(* with what older lists left behind, no account is nearer to a sanctioned *)
(* entity than its tier, although accounts share shells and entities and   *)
(* paths run in both directions (load_sanctions_graph.py:120-161,          *)
(* sanctions_graph.py:120-133).                                            *)
NeverTooNear == \A a \in DemoAccounts : Distance(a) >= Tier(a)

(* No hit is missed: a prover that docker compose has started, and whose   *)
(* client is not degraded, is told exactly the tier of the account or of   *)
(* the counterparty, also while the loader runs again or has died again    *)
(* (docker-compose.yml:155-156, README.md:135, 197, bank_sim.py:185-195).  *)
ScreenedExactly ==
  available =>
    \A r \in Requests :
      HopsToSanctioned(r[1], r[2]) = Min({Tier(r[1]), Tier(r[2])})

(* "deterministic across reruns" (load_sanctions_graph.py:122): loading a  *)
(* list again that was once loaded to the end changes nothing, whatever    *)
(* was loaded in between.                                                  *)
ReloadChangesNothing ==
  [][job # << >> /\ snapshot \in loaded => UNCHANGED graph]_vars
=============================================================================
