------------------------- MODULE SanctionsGraph_proofs -------------------------
(***************************************************************************)
(* Proofs about SanctionsGraph, for every set of lists, size of the        *)
(* batches, sample and number of accounts, and however often the loader    *)
(* starts or dies.                                                         *)
(*                                                                         *)
(* The statements of a load are a sequence that FlattenSeq puts together,  *)
(* and the query is a ball that grows hop by hop: both are recursive       *)
(* functions, and what is said of them is proved by induction over a set   *)
(* of naturals.                                                            *)
(***************************************************************************)
EXTENDS SanctionsGraph, WellFoundedInduction, TLAPS

-----------------------------------------------------------------------------
(* Induction: a set of naturals has a least element.                       *)
LEMMA LeastNat ==
  ASSUME NEW T, T \subseteq Nat, T # {}
  PROVE  \E x \in T : \A y \in T : x <= y
<1> DEFINE R == OpToRel(<, Nat)
<1>1. \A x, y \in Nat : <<x, y>> \in R <=> x < y
  BY DEF OpToRel
<1>2. IsWellFoundedOn(R, Nat)
  BY NatLessThanWellFounded
<1> HIDE DEF R
<1>3. PICK x \in T : \A y \in T : ~(<<y, x>> \in R)
  BY <1>2, WFMin
<1>4. ASSUME NEW y \in T PROVE x <= y
  <2>1. x \in Nat /\ y \in Nat
    OBVIOUS
  <2>2. ~(y < x)
    BY <1>1, <1>3, <2>1
  <2> QED BY <2>1, <2>2
<1> QED BY <1>4

LEMMA NatInduct ==
  ASSUME NEW S, 0 \in S, \A n \in Nat : n \in S => n + 1 \in S
  PROVE  Nat \subseteq S
<1> SUFFICES ASSUME Nat \ S # {} PROVE FALSE
  OBVIOUS
<1>1. PICK m \in Nat \ S : \A y \in Nat \ S : m <= y
  BY LeastNat
<1>2. m - 1 \in Nat /\ m - 1 \notin Nat \ S /\ m = (m - 1) + 1
  BY <1>1
<1> QED BY <1>1, <1>2

(* FlattenSeq is defined by recursion over its argument.                   *)
FlattensTo(seqs, f, n) ==
  f = [i \in 1 .. n |-> IF i = 1 THEN seqs[i] ELSE f[i - 1] \o seqs[i]]

LEMMA FlattenExists ==
  ASSUME NEW seqs, NEW n \in Nat
  PROVE  \E f : FlattensTo(seqs, f, n)
<1> DEFINE S == {m \in Nat : \E f : FlattensTo(seqs, f, m)}
<1>1. 0 \in S
  <2> DEFINE f == [i \in 1 .. 0 |-> 0]
  <2>1. f = [i \in 1 .. 0 |-> IF i = 1 THEN seqs[i] ELSE f[i - 1] \o seqs[i]]
    OBVIOUS
  <2> QED BY <2>1 DEF FlattensTo
<1>2. ASSUME NEW m \in Nat, m \in S PROVE m + 1 \in S
  <2>1. PICK f : FlattensTo(seqs, f, m)
    BY <1>2
  <2> DEFINE g == [i \in 1 .. m + 1 |->
                     IF i \in 1 .. m THEN f[i]
                     ELSE IF i = 1 THEN seqs[i] ELSE f[i - 1] \o seqs[i]]
             h == [i \in 1 .. m + 1 |-> IF i = 1 THEN seqs[i] ELSE g[i - 1] \o seqs[i]]
  <2>2. \A i \in 1 .. m : g[i] = f[i]
    OBVIOUS
  <2>3. \A i \in 1 .. m : f[i] = IF i = 1 THEN seqs[i] ELSE f[i - 1] \o seqs[i]
    BY <2>1 DEF FlattensTo
  <2>4. ASSUME NEW i \in 1 .. m + 1 PROVE g[i] = h[i]
    <3>1. i # 1 => g[i - 1] = f[i - 1]
      BY <2>2
    <3>2. CASE i \in 1 .. m
      <4>1. g[i] = IF i = 1 THEN seqs[i] ELSE f[i - 1] \o seqs[i]
        BY <2>2, <2>3, <3>2
      <4> QED BY <3>1, <4>1
    <3>3. CASE i \notin 1 .. m
      BY <3>1, <3>3
    <3> QED BY <3>2, <3>3
  <2>5. g = h
    <3>1. /\ g = [i \in 1 .. m + 1 |-> g[i]]
          /\ h = [i \in 1 .. m + 1 |-> h[i]]
      OBVIOUS
    <3> HIDE DEF g, h
    <3> QED BY <2>4, <3>1, Zenon
  <2>6. FlattensTo(seqs, g, m + 1)
    BY <2>5 DEF FlattensTo
  <2> QED BY <2>6
<1> HIDE DEF S
<1>3. n \in S
  BY <1>1, <1>2, NatInduct
<1> QED BY <1>3 DEF S

LEMMA FlattenRecursion ==
  ASSUME NEW seqs, Len(seqs) \in Nat \ {0}
  PROVE  \E f : /\ FlattensTo(seqs, f, Len(seqs))
                /\ FlattenSeq(seqs) = f[Len(seqs)]
<1> DEFINE f == CHOOSE f : f = [i \in 1 .. Len(seqs) |->
                                  IF i = 1 THEN seqs[i] ELSE f[i - 1] \o seqs[i]]
<1>1. FlattensTo(seqs, f, Len(seqs))
  BY FlattenExists DEF FlattensTo
<1>2. FlattenSeq(seqs) = f[Len(seqs)]
  BY DEF FlattenSeq
<1> QED BY <1>1, <1>2

-----------------------------------------------------------------------------
(* Division by a variable.                                                 *)
LEMMA DivMod ==
  ASSUME NEW a \in Nat, NEW b \in Nat \ {0}
  PROVE  /\ a \div b \in Nat /\ a % b \in 0 .. b - 1
         /\ a = b * (a \div b) + (a % b)
OBVIOUS

LEMMA DivIs ==
  ASSUME NEW a \in Nat, NEW b \in Nat \ {0}, NEW q \in Nat, NEW r \in 0 .. b - 1,
         a = b * q + r
  PROVE  a \div b = q /\ a % b = r
<1>1. /\ a \div b \in Nat /\ a % b \in 0 .. b - 1
      /\ a = b * (a \div b) + (a % b)
  BY DivMod
<1>2. PICK p \in Nat, s \in 0 .. b - 1 : p = a \div b /\ s = a % b
  BY <1>1
<1>3. b * p + s = b * q + r
  BY <1>1, <1>2
<1>4. b * (p - q) = r - s
  BY <1>3
<1>5. ~(p > q)
  <2> SUFFICES ASSUME p > q PROVE FALSE
    OBVIOUS
  <2>1. PICK d \in Nat : p - q = d + 1
    BY p - q - 1 \in Nat
  <2>2. b * (d + 1) = b * d + b /\ b * d >= 0
    OBVIOUS
  <2> QED BY <1>4, <2>1, <2>2
<1>6. ~(p < q)
  <2> SUFFICES ASSUME p < q PROVE FALSE
    OBVIOUS
  <2>1. PICK d \in Nat : q - p = d + 1
    BY q - p - 1 \in Nat
  <2>2. b * (d + 1) = b * d + b /\ b * d >= 0
    OBVIOUS
  <2>3. b * (q - p) = s - r
    BY <1>3
  <2> QED BY <2>1, <2>2, <2>3
<1>7. p = q
  BY <1>5, <1>6
<1> QED BY <1>2, <1>3, <1>7

-----------------------------------------------------------------------------
(* Nodes.  How far one is from an entity at least: the proxies count down  *)
(* from the tier.                                                          *)
Height(x) ==
  IF x[1] = "SanctionedEntity" THEN 0
  ELSE IF x[1] = "Proxy" THEN x[2] - x[3]
  ELSE x[2]

Descends(e) ==
  /\ Height(e[1]) \in Int /\ Height(e[2]) \in Int
  /\ Height(e[1]) = Height(e[2]) + 1

Nodes == EntityNodes \cup DemoAccounts \cup Proxies

LEMMA NodeHeights ==
  /\ \A e : Height(Entity(e)) = 0
  /\ \A tier, i : Height(Account(tier, i)) = tier
  /\ \A tier, n : Height(Proxy(tier, n)) = tier - n
<1>1. \A e : Entity(e)[1] = "SanctionedEntity"
  BY DEF Entity
<1>2. \A tier, i : Account(tier, i)[1] = "Account" /\ Account(tier, i)[2] = tier
  BY DEF Account
<1>3. \A tier, n : /\ Proxy(tier, n)[1] = "Proxy" /\ Proxy(tier, n)[2] = tier
                   /\ Proxy(tier, n)[3] = n
  BY DEF Proxy
<1> QED BY <1>1, <1>2, <1>3 DEF Height

LEMMA EntityNodesAreEntities ==
  /\ \A x \in EntityNodes : Height(x) = 0
  /\ \A tier, n : Proxy(tier, n) \notin EntityNodes
  /\ \A tier, i : Account(tier, i) \notin EntityNodes
<1>1. \A x \in EntityNodes : \E e : x = Entity(e)
  BY DEF EntityNodes
<1>2. \A e : Entity(e)[1] = "SanctionedEntity"
  BY DEF Entity
<1>3. \A tier, n : Proxy(tier, n)[1] = "Proxy"
  BY DEF Proxy
<1>4. \A tier, i : Account(tier, i)[1] = "Account"
  BY DEF Account
<1>5. \A x \in EntityNodes : x[1] = "SanctionedEntity"
  BY <1>1, <1>2
<1> QED BY <1>1, <1>3, <1>4, <1>5, NodeHeights

LEMMA EntityOfList ==
  ASSUME NEW rows \in Snapshots, NEW e \in ToSet(rows)
  PROVE  Entity(e) \in EntityNodes
BY DEF EntityNodes

LEMMA TierIsHeight ==
  ASSUME NEW tier \in Tiers, NEW i \in 1 .. PerTier
  PROVE  /\ Account(tier, i) \in DemoAccounts /\ Tier(Account(tier, i)) = tier
         /\ Account(tier, i) # PoolAccount
<1>1. Account(tier, i)[2] = tier /\ PoolAccount[2] = 0
  BY DEF Account, PoolAccount
<1>2. tier # 0
  BY DEF Tiers
<1> QED BY <1>1, <1>2 DEF DemoAccounts, Tier

-----------------------------------------------------------------------------
(* Statements: one merges something, its edges lead from what it matches   *)
(* to what it merges, and descend.                                         *)
Statements ==
  {s \in [match : SUBSET Nodes, nodes : SUBSET Nodes, edges : SUBSET (Nodes \X Nodes)] :
     /\ s.nodes # {}
     /\ s.edges \subseteq s.match \X s.nodes
     /\ \A e \in s.edges : Descends(e)}

LEMMA MergeNodesIsStatement ==
  ASSUME NEW ns \in SUBSET Nodes, ns # {}
  PROVE  /\ MergeNodes(ns) \in Statements
         /\ MergeNodes(ns).match = {} /\ MergeNodes(ns).nodes = ns
BY DEF MergeNodes, Statements

LEMMA MergeEdgeIsStatement ==
  ASSUME NEW x \in Nodes, NEW y \in Nodes, Descends(<<x, y>>)
  PROVE  /\ MergeEdge(x, y) \in Statements
         /\ MergeEdge(x, y).match = {x} \cup ({y} \cap EntityNodes)
         /\ MergeEdge(x, y).nodes = {y} /\ MergeEdge(x, y).edges = {<<x, y>>}
<1> DEFINE s == MergeEdge(x, y)
<1>1. /\ s.match = {x} \cup ({y} \cap EntityNodes)
      /\ s.nodes = {y} /\ s.edges = {<<x, y>>}
  BY DEF MergeEdge
<1>2. s \in [match : SUBSET Nodes, nodes : SUBSET Nodes, edges : SUBSET (Nodes \X Nodes)]
  BY DEF MergeEdge
<1> HIDE DEF s
<1>3. s.edges \subseteq s.match \X s.nodes
  BY <1>1
<1>4. \A e \in s.edges : Descends(e)
  BY <1>1
<1> QED BY <1>1, <1>2, <1>3, <1>4 DEF Statements, s

-----------------------------------------------------------------------------
(* Sequences of statements.  What each matches is given or merged by one   *)
(* before it.                                                              *)
Merges(stmts, n, x) == \E i \in 1 .. n : x \in stmts[i].nodes

Grounded(stmts, given) ==
  /\ stmts \in Seq(Statements)
  /\ \A k \in 1 .. Len(stmts) : \A x \in stmts[k].match :
       x \in given \/ Merges(stmts, k - 1, x)

Includes(stmts, part) ==
  \A j \in 1 .. Len(part) : \E l \in 1 .. Len(stmts) : stmts[l] = part[j]

LEMMA Concatenated ==
  ASSUME NEW s \in Seq(Statements), NEW t \in Seq(Statements)
  PROVE  /\ s \o t \in Seq(Statements) /\ Len(s \o t) = Len(s) + Len(t)
         /\ \A k \in 1 .. Len(s) : (s \o t)[k] = s[k]
         /\ \A k \in 1 .. Len(t) : (s \o t)[Len(s) + k] = t[k]
OBVIOUS

LEMMA GroundedConcat ==
  ASSUME NEW s, NEW given, Grounded(s, given), NEW t, NEW more, Grounded(t, more),
         \A x \in more : x \in given \/ Merges(s, Len(s), x)
  PROVE  /\ Grounded(s \o t, given)
         /\ Includes(s \o t, s) /\ Includes(s \o t, t)
<1>1. s \in Seq(Statements) /\ t \in Seq(Statements)
  BY DEF Grounded
<1> DEFINE u == s \o t
<1>2. PICK m \in Nat, n \in Nat : m = Len(s) /\ n = Len(t)
  BY <1>1
<1>3. /\ u \in Seq(Statements) /\ Len(u) = m + n
      /\ \A k \in 1 .. m : u[k] = s[k]
      /\ \A k \in 1 .. n : u[m + k] = t[k]
  BY <1>1, <1>2, Concatenated
<1> HIDE DEF u
<1>4. ASSUME NEW k \in 0 .. m, NEW x, Merges(s, k, x) PROVE Merges(u, k, x)
  BY <1>3, <1>4 DEF Merges
<1>5. ASSUME NEW k \in 1 .. m, NEW x \in u[k].match
      PROVE  x \in given \/ Merges(u, k - 1, x)
  <2>1. x \in s[k].match
    BY <1>3
  <2>2. x \in given \/ Merges(s, k - 1, x)
    BY <1>2, <2>1 DEF Grounded
  <2>3. k - 1 \in 0 .. m
    OBVIOUS
  <2> QED BY <1>4, <2>2, <2>3
<1>6. ASSUME NEW k \in 1 .. n, NEW x \in u[m + k].match
      PROVE  x \in given \/ Merges(u, (m + k) - 1, x)
  <2>1. x \in t[k].match
    BY <1>3
  <2>2. x \in more \/ Merges(t, k - 1, x)
    BY <1>2, <2>1 DEF Grounded
  <2>3. CASE x \in given
    BY <2>3
  <2>4. CASE Merges(s, m, x)
    <3>1. Merges(u, m, x)
      BY <1>4, <2>4
    <3>2. PICK i \in 1 .. m : x \in u[i].nodes
      BY <3>1 DEF Merges
    <3>3. i \in 1 .. (m + k) - 1
      OBVIOUS
    <3> QED BY <3>2, <3>3 DEF Merges
  <2>5. CASE Merges(t, k - 1, x)
    <3>1. PICK i \in 1 .. k - 1 : x \in t[i].nodes
      BY <2>5 DEF Merges
    <3>2. i \in 1 .. n /\ m + i \in 1 .. (m + k) - 1
      OBVIOUS
    <3>3. x \in u[m + i].nodes
      BY <1>3, <3>1, <3>2
    <3> QED BY <3>2, <3>3 DEF Merges
  <2> QED BY <1>2, <2>2, <2>3, <2>4, <2>5
<1>7. ASSUME NEW k \in 1 .. m + n, NEW x \in u[k].match
      PROVE  x \in given \/ Merges(u, k - 1, x)
  <2>1. CASE k <= m
    BY <1>5, <2>1
  <2>2. CASE ~(k <= m)
    <3>1. k - m \in 1 .. n /\ m + (k - m) = k
      BY <2>2
    <3> QED BY <1>6, <3>1
  <2> QED BY <2>1, <2>2
<1>8. Grounded(u, given)
  BY <1>3, <1>7 DEF Grounded
<1>9. Includes(u, s)
  <2>1. \A j \in 1 .. m : j \in 1 .. m + n
    OBVIOUS
  <2> QED BY <1>2, <1>3, <2>1 DEF Includes
<1>10. Includes(u, t)
  <2>1. \A j \in 1 .. n : m + j \in 1 .. m + n
    OBVIOUS
  <2> QED BY <1>2, <1>3, <2>1 DEF Includes
<1> QED BY <1>8, <1>9, <1>10 DEF u

LEMMA IncludesThrough ==
  ASSUME NEW s, NEW t, NEW u, Includes(s, t), Includes(t, u)
  PROVE  Includes(s, u)
BY DEF Includes

LEMMA GroundedFlatten ==
  ASSUME NEW seqs, NEW n \in Nat \ {0}, Len(seqs) = n, NEW given,
         \A k \in 1 .. n : Grounded(seqs[k], given)
  PROVE  /\ Grounded(FlattenSeq(seqs), given)
         /\ \A k \in 1 .. n : Includes(FlattenSeq(seqs), seqs[k])
<1>1. PICK f : FlattensTo(seqs, f, n) /\ FlattenSeq(seqs) = f[n]
  BY FlattenRecursion
<1>2. \A i \in 1 .. n : f[i] = IF i = 1 THEN seqs[i] ELSE f[i - 1] \o seqs[i]
  BY <1>1 DEF FlattensTo
<1> DEFINE Done(i) == /\ Grounded(f[i], given)
                      /\ \A k \in 1 .. i : Includes(f[i], seqs[k])
           S == {i \in Nat : i + 1 \in 1 .. n => Done(i + 1)}
<1>3. Done(1)
  <2>1. f[1] = seqs[1]
    BY <1>2
  <2>2. Includes(seqs[1], seqs[1])
    BY DEF Includes
  <2> QED BY <2>1, <2>2
<1>4. ASSUME NEW i \in Nat, i + 1 \in 1 .. n, i # 0, Done(i)
      PROVE  Done(i + 1)
  <2>1. f[i + 1] = f[i] \o seqs[i + 1]
    <3>1. i + 1 # 1 /\ (i + 1) - 1 = i
      BY <1>4
    <3> QED BY <1>2, <1>4, <3>1
  <2>2. Grounded(f[i], given) /\ Grounded(seqs[i + 1], given)
    BY <1>4
  <2>3. /\ Grounded(f[i + 1], given)
        /\ Includes(f[i + 1], f[i]) /\ Includes(f[i + 1], seqs[i + 1])
    BY <2>1, <2>2, GroundedConcat
  <2>4. ASSUME NEW k \in 1 .. i + 1 PROVE Includes(f[i + 1], seqs[k])
    <3>1. CASE k = i + 1
      BY <2>3, <3>1
    <3>2. CASE k # i + 1
      <4>1. k \in 1 .. i
        BY <3>2
      <4>2. Includes(f[i], seqs[k])
        BY <1>4, <4>1
      <4> QED BY <2>3, <4>2, IncludesThrough
    <3> QED BY <3>1, <3>2
  <2> QED BY <2>3, <2>4
<1> HIDE DEF Done
<1>5. 0 \in S
  BY <1>3
<1>6. ASSUME NEW i \in Nat, i \in S PROVE i + 1 \in S
  <2> SUFFICES ASSUME (i + 1) + 1 \in 1 .. n PROVE Done((i + 1) + 1)
    OBVIOUS
  <2>1. Done(i + 1)
    BY <1>6
  <2> QED BY <1>4, <2>1
<1> HIDE DEF S
<1>7. n - 1 \in S
  BY <1>5, <1>6, NatInduct
<1>8. Done(n)
  BY <1>7 DEF S
<1> QED BY <1>1, <1>8 DEF Done

-----------------------------------------------------------------------------
(* The way from a demo account to its entity.                              *)
PathTo(tier, i, e) ==
  << Account(tier, i) >> \o [n \in 1 .. tier - 1 |-> Proxy(tier, n)] \o << Entity(e) >>

LEMMA PathNodes ==
  ASSUME NEW rows \in Snapshots, NEW e \in ToSet(rows),
         NEW tier \in Tiers, NEW i \in 1 .. PerTier
  PROVE  LET path == PathTo(tier, i, e) IN
         /\ path \in Seq(Nodes) /\ Len(path) = tier + 1
         /\ path[1] = Account(tier, i) /\ path[tier + 1] = Entity(e)
         /\ \A n \in 2 .. tier : path[n] = Proxy(tier, n - 1)
<1> DEFINE shells == [n \in 1 .. tier - 1 |-> Proxy(tier, n)]
<1>1. tier \in Nat /\ tier - 1 \in Nat /\ tier \in 1 .. 3
  BY DEF Tiers
<1>2. Account(tier, i) \in Nodes /\ Entity(e) \in Nodes
  BY TierIsHeight, EntityOfList DEF Nodes
<1>3. \A n \in 1 .. tier - 1 : Proxy(tier, n) \in Nodes
  <2> SUFFICES ASSUME NEW n \in 1 .. tier - 1 PROVE Proxy(tier, n) \in Proxies
    BY DEF Nodes
  <2>1. n \in 1 .. 2
    BY <1>1
  <2> QED BY <2>1 DEF Proxies
<1>4. shells \in Seq(Nodes) /\ Len(shells) = tier - 1
  BY <1>1, <1>3
<1>5. \A n \in 1 .. tier - 1 : shells[n] = Proxy(tier, n)
  OBVIOUS
<1> HIDE DEF shells
<1> DEFINE front == << Account(tier, i) >> \o shells
           path == front \o << Entity(e) >>
<1>6. << Account(tier, i) >> \in Seq(Nodes) /\ << Entity(e) >> \in Seq(Nodes)
  BY <1>2
<1>7. /\ front \in Seq(Nodes) /\ Len(front) = tier
      /\ front[1] = Account(tier, i)
      /\ \A n \in 2 .. tier : front[n] = shells[n - 1]
  <2>1. front \in Seq(Nodes) /\ Len(front) = 1 + (tier - 1)
    BY <1>4, <1>6
  <2>2. front[1] = Account(tier, i)
    BY <1>4, <1>6
  <2>3. \A n \in 2 .. tier : front[n] = shells[n - 1]
    BY <1>1, <1>4, <1>6
  <2> QED BY <1>1, <2>1, <2>2, <2>3
<1> HIDE DEF front
<1>8. /\ path \in Seq(Nodes) /\ Len(path) = tier + 1
      /\ path[tier + 1] = Entity(e)
      /\ \A n \in 1 .. tier : path[n] = front[n]
  BY <1>1, <1>6, <1>7
<1>9. path = PathTo(tier, i, e)
  BY DEF PathTo, shells, front
<1> HIDE DEF path
<1>10. \A n \in 2 .. tier : path[n] = Proxy(tier, n - 1)
  <2> SUFFICES ASSUME NEW n \in 2 .. tier PROVE path[n] = Proxy(tier, n - 1)
    OBVIOUS
  <2>1. n \in 1 .. tier /\ n - 1 \in 1 .. tier - 1
    BY <1>1
  <2> QED BY <1>5, <1>7, <1>8, <2>1
<1>11. path[1] = Account(tier, i)
  BY <1>1, <1>7, <1>8
<1> QED BY <1>8, <1>9, <1>10, <1>11

LEMMA PathDescends ==
  ASSUME NEW rows \in Snapshots, NEW e \in ToSet(rows),
         NEW tier \in Tiers, NEW i \in 1 .. PerTier
  PROVE  LET path == PathTo(tier, i, e) IN
         \A n \in 1 .. tier + 1 : Height(path[n]) = (tier + 1) - n
<1> DEFINE path == PathTo(tier, i, e)
<1>1. tier \in 1 .. 3
  BY DEF Tiers
<1>2. /\ path[1] = Account(tier, i) /\ path[tier + 1] = Entity(e)
      /\ \A n \in 2 .. tier : path[n] = Proxy(tier, n - 1)
  BY PathNodes
<1> HIDE DEF path
<1>3. Height(path[1]) = tier /\ Height(path[tier + 1]) = 0
  BY <1>2, NodeHeights
<1>4. \A n \in 2 .. tier : Height(path[n]) = tier - (n - 1)
  BY <1>2, NodeHeights
<1>5. \A n \in 1 .. tier + 1 : Height(path[n]) = (tier + 1) - n
  BY <1>1, <1>3, <1>4
<1> QED BY <1>5 DEF path

(* The statements of an account merge the way, edge by edge.               *)
SeedsPath(stmts, path, tier, account) ==
  /\ Len(stmts) = tier + 1 /\ stmts[1].nodes = {account}
  /\ \A n \in 1 .. tier : stmts[n + 1].edges = {<<path[n], path[n + 1]>>}

LEMMA SeedAccountGrounded ==
  ASSUME NEW rows \in Snapshots, NEW e \in ToSet(rows),
         NEW tier \in Tiers, NEW i \in 1 .. PerTier
  PROVE  /\ Grounded(SeedAccount(tier, i, e), {Entity(e)})
         /\ SeedsPath(SeedAccount(tier, i, e), PathTo(tier, i, e), tier, Account(tier, i))
<1> DEFINE path == PathTo(tier, i, e)
           first == MergeNodes({Account(tier, i)})
           merges == [n \in 1 .. tier |-> MergeEdge(path[n], path[n + 1])]
           stmts == << first >> \o merges
<1>1. tier \in Nat /\ tier \in 1 .. 3
  BY DEF Tiers
<1>2. /\ path \in Seq(Nodes) /\ Len(path) = tier + 1
      /\ path[1] = Account(tier, i) /\ path[tier + 1] = Entity(e)
      /\ \A n \in 2 .. tier : path[n] = Proxy(tier, n - 1)
  BY PathNodes
<1>3. \A n \in 1 .. tier + 1 : Height(path[n]) = (tier + 1) - n
  BY PathDescends
<1>4. stmts = SeedAccount(tier, i, e)
  BY DEF SeedAccount, PathTo
<1> HIDE DEF path
<1>5. ASSUME NEW n \in 1 .. tier
      PROVE  /\ merges[n] \in Statements
             /\ merges[n].match = {path[n]} \cup ({path[n + 1]} \cap EntityNodes)
             /\ merges[n].nodes = {path[n + 1]}
             /\ merges[n].edges = {<<path[n], path[n + 1]>>}
  <2>1. n \in 1 .. tier + 1 /\ n + 1 \in 1 .. tier + 1
    BY <1>1
  <2>2. path[n] \in Nodes /\ path[n + 1] \in Nodes
    BY <1>2, <2>1
  <2>3. Height(path[n]) = (tier + 1) - n /\ Height(path[n + 1]) = (tier + 1) - (n + 1)
    BY <1>3, <2>1
  <2>4. Descends(<<path[n], path[n + 1]>>)
    BY <1>1, <2>3 DEF Descends
  <2>5. merges[n] = MergeEdge(path[n], path[n + 1])
    OBVIOUS
  <2> HIDE DEF merges
  <2> QED BY <2>2, <2>4, <2>5, MergeEdgeIsStatement
<1>6. /\ first \in Statements
      /\ first.match = {} /\ first.nodes = {Account(tier, i)}
  <2>1. {Account(tier, i)} \in SUBSET Nodes /\ {Account(tier, i)} # {}
    BY TierIsHeight DEF Nodes
  <2> QED BY <2>1, MergeNodesIsStatement
<1>7. merges \in Seq(Statements) /\ Len(merges) = tier
  <2>1. merges \in [1 .. tier -> Statements]
    BY <1>5
  <2> QED BY <1>1, <2>1
<1> HIDE DEF first, merges
<1>8. /\ stmts \in Seq(Statements) /\ Len(stmts) = tier + 1
      /\ stmts[1] = first
      /\ \A n \in 1 .. tier : stmts[n + 1] = merges[n]
  <2>1. << first >> \in Seq(Statements) /\ Len(<< first >>) = 1
    BY <1>6
  <2>2. stmts \in Seq(Statements) /\ Len(stmts) = 1 + tier
    BY <1>7, <2>1
  <2>3. stmts[1] = first
    BY <1>6, <1>7
  <2>4. \A n \in 1 .. tier : stmts[n + 1] = merges[n]
    BY <1>1, <1>6, <1>7
  <2> QED BY <1>1, <2>2, <2>3, <2>4
<1> HIDE DEF stmts
<1>9. \A n \in 1 .. tier : path[n] \in stmts[n].nodes
  <2> SUFFICES ASSUME NEW n \in 1 .. tier PROVE path[n] \in stmts[n].nodes
    OBVIOUS
  <2>1. CASE n = 1
    BY <1>2, <1>6, <1>8, <2>1
  <2>2. CASE n # 1
    <3>1. n - 1 \in 1 .. tier /\ (n - 1) + 1 = n
      BY <1>1, <2>2
    <3>2. stmts[n] = merges[n - 1]
      BY <1>8, <3>1
    <3>3. merges[n - 1].nodes = {path[(n - 1) + 1]}
      BY <1>5, <3>1
    <3> QED BY <3>1, <3>2, <3>3
  <2> QED BY <2>1, <2>2
<1>10. ASSUME NEW n \in 1 .. tier, path[n + 1] \in EntityNodes
       PROVE  path[n + 1] = Entity(e)
  <2>1. CASE n = tier
    BY <1>2, <2>1
  <2>2. CASE n # tier
    <3>1. n + 1 \in 2 .. tier
      BY <1>1, <2>2
    <3>2. path[n + 1] = Proxy(tier, (n + 1) - 1)
      BY <1>2, <3>1
    <3> QED BY <1>10, <3>2, EntityNodesAreEntities
  <2> QED BY <2>1, <2>2
<1>11. ASSUME NEW n \in 1 .. tier, NEW x \in stmts[n + 1].match
       PROVE  x \in {Entity(e)} \/ Merges(stmts, (n + 1) - 1, x)
  <2>1. x = path[n] \/ (x = path[n + 1] /\ path[n + 1] \in EntityNodes)
    BY <1>5, <1>8
  <2>2. CASE x = path[n]
    <3>1. n \in 1 .. (n + 1) - 1
      OBVIOUS
    <3> QED BY <1>9, <2>2, <3>1 DEF Merges
  <2>3. CASE x = path[n + 1] /\ path[n + 1] \in EntityNodes
    BY <1>10, <2>3
  <2> QED BY <2>1, <2>2, <2>3
<1>12. ASSUME NEW k \in 1 .. tier + 1, NEW x \in stmts[k].match
       PROVE  x \in {Entity(e)} \/ Merges(stmts, k - 1, x)
  <2>1. CASE k = 1
    BY <1>6, <1>8, <2>1
  <2>2. CASE k # 1
    <3>1. k - 1 \in 1 .. tier /\ (k - 1) + 1 = k
      BY <1>1, <2>2
    <3> QED BY <1>11, <3>1
  <2> QED BY <2>1, <2>2
<1>13. Grounded(stmts, {Entity(e)})
  BY <1>8, <1>12 DEF Grounded
<1>14. \A n \in 1 .. tier : stmts[n + 1].edges = {<<path[n], path[n + 1]>>}
  BY <1>5, <1>8
<1>15. stmts[1].nodes = {Account(tier, i)}
  BY <1>6, <1>8
<1> QED BY <1>4, <1>8, <1>13, <1>14, <1>15 DEF path, SeedsPath

-----------------------------------------------------------------------------
(* The load of a list.                                                     *)
LEMMA TimesMonotone ==
  ASSUME NEW a \in Nat, NEW b \in Nat, NEW c \in Nat, a <= b
  PROVE  c * a <= c * b
<1>1. PICK d \in Nat : d = b - a
  OBVIOUS
<1>2. b = a + d
  BY <1>1
<1>3. c * (a + d) = c * a + c * d /\ c * d >= 0
  OBVIOUS
<1> QED BY <1>2, <1>3

LEMMA BatchesCoverList ==
  ASSUME NEW len \in Nat \ {0}
  PROVE  LET batches == (len + BatchSize - 1) \div BatchSize IN
         /\ batches \in Nat
         /\ \A b \in 1 .. batches : \E j \in 1 .. len : (j - 1) \div BatchSize = b - 1
         /\ \A j \in 1 .. len : ((j - 1) \div BatchSize) + 1 \in 1 .. batches
<1>1. BatchSize \in Nat \ {0} /\ len + BatchSize - 1 \in Nat
  BY SizesAssumption
<1> DEFINE batches == (len + BatchSize - 1) \div BatchSize
<1>2. PICK c \in Nat, r \in 0 .. BatchSize - 1 :
        c = batches /\ len + BatchSize - 1 = BatchSize * c + r
  BY <1>1, DivMod
<1> HIDE DEF batches
<1>3. ASSUME NEW b \in 1 .. c PROVE \E j \in 1 .. len : (j - 1) \div BatchSize = b - 1
  <2>1. BatchSize * b <= BatchSize * c
    BY <1>1, TimesMonotone
  <2>2. PICK a \in Nat : a = b - 1
    OBVIOUS
  <2>3. PICK j \in Nat : j = BatchSize * a + 1
    BY <1>1
  <2>4. BatchSize * b = BatchSize * a + BatchSize
    <3>1. b = a + 1
      BY <2>2
    <3>2. BatchSize * (a + 1) = BatchSize * a + BatchSize
      BY <1>1
    <3> QED BY <3>1, <3>2
  <2>5. j \in 1 .. len
    <3>1. PICK p \in Nat, q \in Nat, s \in Nat :
            p = BatchSize * a /\ q = BatchSize * b /\ s = BatchSize * c
      BY <1>1
    <3>2. q <= s /\ q = p + BatchSize /\ j = p + 1 /\ len + BatchSize - 1 = s + r
      BY <1>2, <2>1, <2>3, <2>4, <3>1
    <3>3. r <= BatchSize - 1
      BY <1>1
    <3> QED BY <1>1, <3>2, <3>3
  <2>6. j - 1 = BatchSize * a + 0 /\ j - 1 \in Nat /\ 0 \in 0 .. BatchSize - 1
    BY <1>1, <2>3
  <2>7. (j - 1) \div BatchSize = a
    BY <1>1, <2>6, DivIs
  <2> QED BY <2>2, <2>5, <2>7
<1>4. ASSUME NEW j \in 1 .. len PROVE ((j - 1) \div BatchSize) + 1 \in 1 .. c
  <2>1. PICK i \in Nat : i = j - 1
    OBVIOUS
  <2>2. PICK b \in Nat, s \in 0 .. BatchSize - 1 :
          b = i \div BatchSize /\ i = BatchSize * b + s
    BY <1>1, DivMod
  <2>3. b + 1 <= c
    <3> SUFFICES ASSUME c <= b PROVE FALSE
      OBVIOUS
    <3>1. BatchSize * c <= BatchSize * b
      BY <1>1, TimesMonotone
    <3>2. PICK p \in Nat, q \in Nat : p = BatchSize * b /\ q = BatchSize * c
      BY <1>1
    <3>3. q <= p /\ i = p + s /\ i <= len - 1 /\ len + BatchSize - 1 = q + r
      BY <1>2, <2>1, <2>2, <3>1, <3>2
    <3> QED BY <1>1, <3>3
  <2> QED BY <2>1, <2>2, <2>3
<1> QED BY <1>2, <1>3, <1>4 DEF batches

LEMMA ListOfEntities ==
  ASSUME NEW rows \in Snapshots
  PROVE  /\ rows \in Seq(Nat) /\ Len(rows) \in Nat \ {0} /\ DOMAIN rows = 1 .. Len(rows)
         /\ ToSet(rows) = {rows[j] : j \in 1 .. Len(rows)}
<1>1. rows \in Seq(Nat) /\ rows # << >>
  BY SnapshotsAssumption
<1>2. DOMAIN rows = 1 .. Len(rows) /\ Len(rows) \in Nat \ {0}
  BY <1>1
<1> QED BY <1>1, <1>2 DEF ToSet

LEMMA LoadEntitiesGrounded ==
  ASSUME NEW rows \in Snapshots
  PROVE  LET stmts == LoadEntities(rows) IN
         /\ Grounded(stmts, {})
         /\ \A e \in ToSet(rows) : Merges(stmts, Len(stmts), Entity(e))
<1> DEFINE batches == (Len(rows) + BatchSize - 1) \div BatchSize
           batch(b) == {Entity(rows[k]) : k \in
                          {j \in DOMAIN rows : (j - 1) \div BatchSize = b - 1}}
           stmts == [b \in 1 .. batches |-> MergeNodes(batch(b))]
<1>1. /\ Len(rows) \in Nat \ {0} /\ DOMAIN rows = 1 .. Len(rows)
      /\ ToSet(rows) = {rows[j] : j \in 1 .. Len(rows)}
  BY ListOfEntities
<1>2. /\ batches \in Nat
      /\ \A b \in 1 .. batches :
           \E j \in 1 .. Len(rows) : (j - 1) \div BatchSize = b - 1
      /\ \A j \in 1 .. Len(rows) : ((j - 1) \div BatchSize) + 1 \in 1 .. batches
  BY <1>1, BatchesCoverList
<1>3. stmts = LoadEntities(rows)
  BY DEF LoadEntities
<1> HIDE DEF batches
<1>4. ASSUME NEW b \in 1 .. batches
      PROVE  batch(b) \in SUBSET Nodes /\ batch(b) # {}
  <2>1. \A k \in DOMAIN rows : Entity(rows[k]) \in Nodes
    BY <1>1, EntityOfList DEF Nodes
  <2> QED BY <1>1, <1>2, <2>1
<1>5. ASSUME NEW b \in 1 .. batches
      PROVE  /\ stmts[b] \in Statements
             /\ stmts[b].match = {} /\ stmts[b].nodes = batch(b)
  <2>1. stmts[b] = MergeNodes(batch(b))
    OBVIOUS
  <2> HIDE DEF batch, stmts
  <2> QED BY <1>4, <2>1, MergeNodesIsStatement
<1>6. stmts \in Seq(Statements) /\ Len(stmts) = batches
  <2>1. stmts \in [1 .. batches -> Statements]
    BY <1>5
  <2> HIDE DEF stmts
  <2> QED BY <1>2, <2>1
<1>7. ASSUME NEW e \in ToSet(rows) PROVE Merges(stmts, Len(stmts), Entity(e))
  <2>1. PICK j \in 1 .. Len(rows) : e = rows[j]
    BY <1>1
  <2>2. PICK b \in 1 .. batches : b = ((j - 1) \div BatchSize) + 1
    BY <1>2
  <2>3. (j - 1) \div BatchSize = b - 1
    <3>1. j - 1 \in Nat /\ BatchSize \in Nat \ {0}
      BY SizesAssumption
    <3>2. (j - 1) \div BatchSize \in Nat
      BY <3>1, DivMod
    <3> QED BY <2>2, <3>2
  <2>4. Entity(e) \in batch(b)
    BY <1>1, <2>1, <2>3
  <2> HIDE DEF batch, stmts
  <2> QED BY <1>5, <1>6, <2>4 DEF Merges
<1> HIDE DEF stmts
<1>8. Grounded(stmts, {})
  BY <1>5, <1>6 DEF Grounded
<1> QED BY <1>3, <1>7, <1>8

LEMMA GroundedMore ==
  ASSUME NEW s, NEW given, NEW more, given \subseteq more, Grounded(s, given)
  PROVE  Grounded(s, more)
BY DEF Grounded

(* Every demo account is wired to an entity of the list.                   *)
Seeds(stmts, rows) ==
  \A tier \in Tiers, i \in 1 .. PerTier :
    \E e \in ToSet(rows) : Includes(stmts, SeedAccount(tier, i, e))

LEMMA SeedDemoAccountsGrounded ==
  ASSUME NEW rows \in Snapshots, NEW chosen \in Samples(rows)
  PROVE  /\ Grounded(SeedDemoAccounts(chosen), {Entity(e) : e \in ToSet(rows)})
         /\ Seeds(SeedDemoAccounts(chosen), rows)
<1> DEFINE tierOf(k) == ((k - 1) \div PerTier) + 1
           number(k) == ((k - 1) % PerTier) + 1
           entity(k) == chosen[((k - 1) % Len(chosen)) + 1]
           seqs == [k \in 1 .. 3 * PerTier |-> SeedAccount(tierOf(k), number(k), entity(k))]
           given == {Entity(e) : e \in ToSet(rows)}
<1>1. PerTier \in Nat \ {0} /\ Picked \in Nat \ {0}
  BY SizesAssumption
<1>2. PICK c \in Nat \ {0} : chosen \in [1 .. c -> ToSet(rows)]
  <2>1. Len(rows) \in Nat \ {0}
    BY ListOfEntities
  <2>2. (IF Picked < Len(rows) THEN Picked ELSE Len(rows)) \in Nat \ {0}
    BY <1>1, <2>1
  <2> QED BY <2>2 DEF Samples
<1>3. Len(chosen) = c
  BY <1>2
<1>4. ASSUME NEW k \in 1 .. 3 * PerTier
      PROVE  /\ tierOf(k) \in Tiers /\ number(k) \in 1 .. PerTier
             /\ entity(k) \in ToSet(rows)
  <2>1. k - 1 \in Nat
    OBVIOUS
  <2>2. PICK q \in Nat, r \in 0 .. PerTier - 1 :
          /\ q = (k - 1) \div PerTier /\ r = (k - 1) % PerTier
          /\ k - 1 = PerTier * q + r
    BY <1>1, <2>1, DivMod
  <2>3. q <= 2
    <3> SUFFICES ASSUME 3 <= q PROVE FALSE
      OBVIOUS
    <3>1. PerTier * 3 <= PerTier * q
      BY <1>1, TimesMonotone
    <3>2. PICK p \in Nat : p = PerTier * q
      BY <1>1
    <3> QED BY <1>1, <2>2, <3>1, <3>2
  <2>4. (k - 1) % c \in 0 .. c - 1
    BY <2>1, DivMod
  <2>5. ((k - 1) % c) + 1 \in 1 .. c
    BY <2>4
  <2>6. entity(k) \in ToSet(rows)
    BY <1>2, <1>3, <2>5
  <2>7. tierOf(k) = q + 1 /\ number(k) = r + 1
    BY <2>2
  <2>8. q + 1 \in Tiers
    BY <2>3 DEF Tiers
  <2>9. r + 1 \in 1 .. PerTier
    BY <1>1
  <2> QED BY <2>6, <2>7, <2>8, <2>9
<1>5. Len(seqs) = 3 * PerTier /\ 3 * PerTier \in Nat \ {0}
  BY <1>1
<1>6. ASSUME NEW k \in 1 .. 3 * PerTier PROVE Grounded(seqs[k], given)
  <2>1. seqs[k] = SeedAccount(tierOf(k), number(k), entity(k))
    OBVIOUS
  <2>2. {Entity(entity(k))} \subseteq given
    BY <1>4
  <2> HIDE DEF tierOf, number, entity, seqs, given
  <2>3. Grounded(SeedAccount(tierOf(k), number(k), entity(k)), {Entity(entity(k))})
    BY <1>4, SeedAccountGrounded
  <2> QED BY <2>1, <2>2, <2>3, GroundedMore
<1>7. SeedDemoAccounts(chosen) = FlattenSeq(seqs)
  BY DEF SeedDemoAccounts
<1> HIDE DEF seqs, given
<1>8. /\ Grounded(FlattenSeq(seqs), given)
      /\ \A k \in 1 .. 3 * PerTier : Includes(FlattenSeq(seqs), seqs[k])
  BY <1>5, <1>6, GroundedFlatten
<1>9. ASSUME NEW tier \in Tiers, NEW i \in 1 .. PerTier
      PROVE  \E e \in ToSet(rows) : Includes(FlattenSeq(seqs), SeedAccount(tier, i, e))
  <2>1. PICK q \in 0 .. 2, r \in 0 .. PerTier - 1 : tier = q + 1 /\ i = r + 1
    <3>1. tier - 1 \in 0 .. 2 /\ i - 1 \in 0 .. PerTier - 1
      BY <1>1 DEF Tiers
    <3>2. tier = (tier - 1) + 1 /\ i = (i - 1) + 1
      BY <1>1 DEF Tiers
    <3> QED BY <3>1, <3>2
  <2>2. PICK p \in Nat : p = PerTier * q
    BY <1>1
  <2>3. p <= 2 * PerTier
    BY <1>1, <2>2
  <2>4. PICK k \in 1 .. 3 * PerTier : k = (p + r) + 1
    BY <1>1, <2>3
  <2>5. k - 1 \in Nat /\ k - 1 = PerTier * q + r
    BY <1>1, <2>2, <2>4
  <2>6. (k - 1) \div PerTier = q /\ (k - 1) % PerTier = r
    BY <1>1, <2>5, DivIs
  <2>7. tierOf(k) = tier /\ number(k) = i
    BY <2>1, <2>6
  <2>8. seqs[k] = SeedAccount(tierOf(k), number(k), entity(k))
    BY DEF seqs
  <2>9. entity(k) \in ToSet(rows)
    BY <1>4
  <2> HIDE DEF tierOf, number, entity
  <2> QED BY <1>8, <2>7, <2>8, <2>9
<1> QED BY <1>7, <1>8, <1>9 DEF given, Seeds

LEMMA LoadGrounded ==
  ASSUME NEW rows \in Snapshots, NEW chosen \in Samples(rows)
  PROVE  /\ Grounded(Load(rows, chosen), {})
         /\ Seeds(Load(rows, chosen), rows)
<1> DEFINE first == LoadEntities(rows)
           rest == SeedDemoAccounts(chosen)
           given == {Entity(e) : e \in ToSet(rows)}
<1>1. Grounded(first, {}) /\ \A e \in ToSet(rows) : Merges(first, Len(first), Entity(e))
  BY LoadEntitiesGrounded
<1>2. Grounded(rest, given) /\ Seeds(rest, rows)
  BY SeedDemoAccountsGrounded
<1>3. \A x \in given : x \in {} \/ Merges(first, Len(first), x)
  BY <1>1
<1>4. Load(rows, chosen) = first \o rest
  BY DEF Load
<1> HIDE DEF first, rest, given
<1>5. Grounded(first \o rest, {}) /\ Includes(first \o rest, rest)
  BY <1>1, <1>2, <1>3, GroundedConcat
<1>6. Seeds(first \o rest, rows)
  BY <1>2, <1>5, IncludesThrough DEF Seeds
<1> QED BY <1>4, <1>5, <1>6

-----------------------------------------------------------------------------
(* The query.  Within is defined by recursion over the number of hops.     *)
Wider(inner) ==
  inner \cup {e[1] : e \in {f \in edges : f[2] \in inner}}
        \cup {e[2] : e \in {f \in edges : f[1] \in inner}}

Grows(account, ball, n) ==
  ball = [k \in 0 .. n |-> IF k = 0 THEN {account} ELSE Wider(ball[k - 1])]

LEMMA BallExists ==
  ASSUME NEW account, NEW n \in Nat
  PROVE  \E ball : Grows(account, ball, n)
<1> DEFINE S == {m \in Nat : \E ball : Grows(account, ball, m)}
<1>1. 0 \in S
  <2> DEFINE ball == [k \in 0 .. 0 |-> {account}]
  <2>1. ball = [k \in 0 .. 0 |-> IF k = 0 THEN {account} ELSE Wider(ball[k - 1])]
    OBVIOUS
  <2> QED BY <2>1 DEF Grows
<1>2. ASSUME NEW m \in Nat, m \in S PROVE m + 1 \in S
  <2>1. PICK f : Grows(account, f, m)
    BY <1>2
  <2> DEFINE g == [k \in 0 .. m + 1 |-> IF k \in 0 .. m THEN f[k] ELSE Wider(f[k - 1])]
             h == [k \in 0 .. m + 1 |-> IF k = 0 THEN {account} ELSE Wider(g[k - 1])]
  <2>2. \A k \in 0 .. m : g[k] = f[k]
    OBVIOUS
  <2>3. \A k \in 0 .. m : f[k] = IF k = 0 THEN {account} ELSE Wider(f[k - 1])
    BY <2>1 DEF Grows
  <2>4. ASSUME NEW k \in 0 .. m + 1 PROVE g[k] = h[k]
    <3>1. k # 0 => g[k - 1] = f[k - 1]
      BY <2>2
    <3>2. CASE k \in 0 .. m
      <4>1. g[k] = IF k = 0 THEN {account} ELSE Wider(f[k - 1])
        BY <2>2, <2>3, <3>2
      <4> QED BY <3>1, <4>1
    <3>3. CASE k \notin 0 .. m
      BY <3>1, <3>3
    <3> QED BY <3>2, <3>3
  <2>5. g = h
    BY <2>4
  <2>6. Grows(account, g, m + 1)
    BY <2>5 DEF Grows
  <2> QED BY <2>6
<1> HIDE DEF S
<1>3. n \in S
  BY <1>1, <1>2, NatInduct
<1> QED BY <1>3 DEF S

Ball(account, n, ball) ==
  /\ Within(account, n) = ball[n] /\ ball[0] = {account}
  /\ \A k \in 1 .. n : ball[k] = Wider(ball[k - 1])

LEMMA WithinRecursion ==
  ASSUME NEW account, NEW n \in Nat
  PROVE  \E ball : Ball(account, n, ball)
<1> DEFINE f == CHOOSE f : f = [k \in 0 .. n |->
                 IF k = 0 THEN {account}
                 ELSE LET inner == f[k - 1]
                      IN  inner \cup {e[1] : e \in {d \in edges : d[2] \in inner}}
                                \cup {e[2] : e \in {d \in edges : d[1] \in inner}}]
<1>1. Grows(account, f, n)
  <2>1. \E g : g = [k \in 0 .. n |->
                     IF k = 0 THEN {account}
                     ELSE LET inner == g[k - 1]
                          IN  inner \cup {e[1] : e \in {d \in edges : d[2] \in inner}}
                                    \cup {e[2] : e \in {d \in edges : d[1] \in inner}}]
    <3>1. PICK g : Grows(account, g, n)
      BY BallExists
    <3>2. g = [k \in 0 .. n |->
                 IF k = 0 THEN {account}
                 ELSE LET inner == g[k - 1]
                      IN  inner \cup {e[1] : e \in {d \in edges : d[2] \in inner}}
                                \cup {e[2] : e \in {d \in edges : d[1] \in inner}}]
      BY <3>1, Zenon DEF Grows, Wider
    <3> QED BY <3>2, Zenon
  <2>2. f = [k \in 0 .. n |->
               IF k = 0 THEN {account}
               ELSE LET inner == f[k - 1]
                    IN  inner \cup {e[1] : e \in {d \in edges : d[2] \in inner}}
                              \cup {e[2] : e \in {d \in edges : d[1] \in inner}}]
    BY <2>1, Zenon
  <2> HIDE DEF f
  <2> QED BY <2>2, Zenon DEF Grows, Wider
<1>2. Within(account, n) = f[n]
  BY DEF Within
<1> HIDE DEF f
<1>3. \A k \in 0 .. n : f[k] = IF k = 0 THEN {account} ELSE Wider(f[k - 1])
  BY <1>1 DEF Grows
<1>4. f[0] = {account} /\ \A k \in 1 .. n : f[k] = Wider(f[k - 1])
  BY <1>3
<1> QED BY <1>2, <1>4 DEF Ball

(* One hop changes the height by one, so that a ball does not reach lower  *)
(* than its number of hops.                                                *)
LEMMA WithinHeights ==
  ASSUME \A e \in edges : Descends(e), NEW account, Height(account) \in Int, NEW n \in Nat
  PROVE  \A x \in Within(account, n) :
           Height(x) \in Int /\ Height(x) >= Height(account) - n
<1>0. PICK ball : Ball(account, n, ball)
  BY WithinRecursion
<1>1. /\ Within(account, n) = ball[n] /\ ball[0] = {account}
      /\ \A k \in 1 .. n : ball[k] = Wider(ball[k - 1])
  BY <1>0 DEF Ball
<1> DEFINE High(k) == \A x \in ball[k] :
                        Height(x) \in Int /\ Height(x) >= Height(account) - k
           S == {k \in Nat : k \in 0 .. n => High(k)}
<1>2. 0 \in S
  BY <1>1
<1>3. ASSUME NEW k \in Nat, k \in S PROVE k + 1 \in S
  <2> SUFFICES ASSUME k + 1 \in 0 .. n PROVE High(k + 1)
    OBVIOUS
  <2>1. High(k) /\ k + 1 \in 1 .. n /\ (k + 1) - 1 = k
    BY <1>3
  <2>2. ball[k + 1] = Wider(ball[k])
    BY <1>1, <2>1
  <2>3. ASSUME NEW x \in Wider(ball[k])
        PROVE  Height(x) \in Int /\ Height(x) >= Height(account) - (k + 1)
    <3>1. CASE x \in ball[k]
      BY <2>1, <3>1
    <3>2. ASSUME NEW e \in edges, e[2] \in ball[k], x = e[1]
          PROVE  Height(x) \in Int /\ Height(x) >= Height(account) - (k + 1)
      <4>1. Descends(e) /\ Height(e[2]) \in Int /\ Height(e[2]) >= Height(account) - k
        BY <2>1, <3>2
      <4> QED BY <3>2, <4>1 DEF Descends
    <3>3. ASSUME NEW e \in edges, e[1] \in ball[k], x = e[2]
          PROVE  Height(x) \in Int /\ Height(x) >= Height(account) - (k + 1)
      <4>1. Descends(e) /\ Height(e[1]) \in Int /\ Height(e[1]) >= Height(account) - k
        BY <2>1, <3>3
      <4> QED BY <3>3, <4>1 DEF Descends
    <3> QED BY <3>1, <3>2, <3>3 DEF Wider
  <2> QED BY <2>2, <2>3
<1> HIDE DEF S
<1>4. n \in S
  BY <1>2, <1>3, NatInduct
<1>5. High(n)
  BY <1>4 DEF S
<1> QED BY <1>1, <1>5

(* The end of a path of n edges is within n hops of its beginning.         *)
LEMMA WithinReaches ==
  ASSUME NEW path, NEW n \in Nat,
         \A k \in 1 .. n : <<path[k], path[k + 1]>> \in edges
  PROVE  path[n + 1] \in Within(path[1], n)
<1>0. PICK ball : Ball(path[1], n, ball)
  BY WithinRecursion
<1>1. /\ Within(path[1], n) = ball[n] /\ ball[0] = {path[1]}
      /\ \A k \in 1 .. n : ball[k] = Wider(ball[k - 1])
  BY <1>0 DEF Ball
<1> DEFINE S == {k \in Nat : k \in 0 .. n => path[k + 1] \in ball[k]}
<1>2. 0 \in S
  BY <1>1
<1>3. ASSUME NEW k \in Nat, k \in S PROVE k + 1 \in S
  <2> SUFFICES ASSUME k + 1 \in 0 .. n PROVE path[(k + 1) + 1] \in ball[k + 1]
    OBVIOUS
  <2>1. path[k + 1] \in ball[k] /\ k + 1 \in 1 .. n /\ (k + 1) - 1 = k
    BY <1>3
  <2>2. ball[k + 1] = Wider(ball[k])
    BY <1>1, <2>1
  <2>3. PICK e \in edges : e = <<path[k + 1], path[(k + 1) + 1]>>
    BY <2>1
  <2>4. e[1] \in ball[k] /\ e[2] = path[(k + 1) + 1]
    BY <2>1, <2>3
  <2>5. e[2] \in Wider(ball[k])
    BY <2>4 DEF Wider
  <2> QED BY <2>2, <2>4, <2>5
<1> HIDE DEF S
<1>4. n \in S
  BY <1>2, <1>3, NatInduct
<1> QED BY <1>1, <1>4 DEF S

LEMMA MinIsLeast ==
  ASSUME NEW T, T \subseteq Nat, T # {}
  PROVE  Min(T) \in T /\ \A y \in T : Min(T) <= y
<1> DEFINE least == CHOOSE x \in T : \A y \in T : x <= y
<1>1. least \in T /\ \A y \in T : least <= y
  BY LeastNat
<1>2. Min(T) = least
  BY DEF Min
<1> QED BY <1>1, <1>2

LEMMA DistanceIsLeast ==
  ASSUME NEW account
  PROVE  /\ Distance(account) \in 1 .. MaxHops
         /\ \/ Distance(account) = MaxHops
            \/ Within(account, Distance(account)) \cap EntityNodes # {}
         /\ \A n \in 1 .. MaxHops :
              Within(account, n) \cap EntityNodes # {} => Distance(account) <= n
<1> DEFINE hops == {n \in 1 .. MaxHops : Within(account, n) \cap EntityNodes # {}}
           T == {MaxHops} \cup hops
<1>1. MaxHops \in Nat /\ MaxHops \in 1 .. MaxHops
  BY DEF MaxHops
<1>2. T \subseteq 1 .. MaxHops /\ T # {}
  BY <1>1
<1>3. Distance(account) = Min(T)
  BY DEF Distance
<1>4. \A n \in hops : n \in 1 .. MaxHops /\ Within(account, n) \cap EntityNodes # {}
  OBVIOUS
<1>5. \A n \in 1 .. MaxHops : Within(account, n) \cap EntityNodes # {} => n \in T
  OBVIOUS
<1>6. Min(T) \in T /\ \A y \in T : Min(T) <= y
  <2> HIDE DEF T
  <2>1. T \subseteq Nat
    BY <1>1, <1>2
  <2> QED BY <1>2, <2>1, MinIsLeast
<1>7. Min(T) = MaxHops \/ Min(T) \in hops
  BY <1>6
<1> HIDE DEF T, hops
<1> QED BY <1>2, <1>3, <1>4, <1>5, <1>6, <1>7

LEMMA DemoAccountTier ==
  ASSUME NEW a \in DemoAccounts
  PROVE  \E tier \in Tiers, i \in 1 .. PerTier :
           /\ a = Account(tier, i) /\ Tier(a) = tier /\ Height(a) = tier
           /\ a # PoolAccount
<1>1. PICK tier \in Tiers, i \in 1 .. PerTier : a = Account(tier, i)
  BY DEF DemoAccounts
<1>2. Tier(a) = tier /\ Height(a) = tier /\ a # PoolAccount
  BY <1>1, TierIsHeight, NodeHeights
<1> QED BY <1>1, <1>2

LEMMA DescendingIsNeverTooNear ==
  ASSUME \A e \in edges : Descends(e)
  PROVE  NeverTooNear
<1> SUFFICES ASSUME NEW a \in DemoAccounts PROVE Distance(a) >= Tier(a)
  BY DEF NeverTooNear
<1>1. PICK tier \in 1 .. 3 : Tier(a) = tier /\ Height(a) = tier
  BY DemoAccountTier DEF Tiers
<1>2. PICK d \in 1 .. MaxHops : d = Distance(a)
  BY DistanceIsLeast
<1>3. CASE d = MaxHops
  BY <1>1, <1>2, <1>3 DEF MaxHops
<1>4. CASE Within(a, d) \cap EntityNodes # {}
  <2>1. PICK x \in Within(a, d) : x \in EntityNodes
    BY <1>4
  <2>2. d \in Nat /\ tier \in Int
    BY DEF MaxHops
  <2>3. Height(x) >= tier - d
    BY <1>1, <2>2, WithinHeights
  <2>4. Height(x) = 0
    BY <2>1, EntityNodesAreEntities
  <2> QED BY <1>1, <1>2, <2>2, <2>3, <2>4
<1> QED BY <1>2, <1>3, <1>4, DistanceIsLeast

-----------------------------------------------------------------------------
(* The inductive invariant.  A load that is under way has applied a prefix *)
(* of its statements, one that was completed all of them, with whatever    *)
(* was loaded since; and every edge descends.                              *)
Full(draw, rows) == Load(rows, draw[rows])

AppliedUpTo(stmts, m, ns, es) ==
  \A k \in 1 .. m : stmts[k].nodes \subseteq ns /\ stmts[k].edges \subseteq es

AppliedAll(stmts, ns, es) == AppliedUpTo(stmts, Len(stmts), ns, es)

Sampled(draw) == \A rows \in Snapshots : draw[rows] \in Samples(rows)

UnderWay(stmts, rest, ns, es) ==
  \E m \in 0 .. Len(stmts) - 1 :
    rest = SubSeq(stmts, m + 1, Len(stmts)) /\ AppliedUpTo(stmts, m, ns, es)

GraphInv ==
  /\ GraphTypeOK /\ Sampled(sample)
  /\ \A e \in edges : Descends(e)
  /\ \A rows \in loaded : AppliedAll(Full(sample, rows), nodes, edges)
  /\ job # << >> =>
       /\ snapshot \in Snapshots
       /\ UnderWay(Full(sample, snapshot), job, nodes, edges)
  /\ running => loaded # {}

LEMMA FullGrounded ==
  ASSUME Sampled(sample), NEW rows \in Snapshots
  PROVE  /\ Grounded(Full(sample, rows), {})
         /\ Full(sample, rows) \in Seq(Statements)
         /\ Seeds(Full(sample, rows), rows)
<1>1. sample[rows] \in Samples(rows)
  BY DEF Sampled
<1>2. Grounded(Load(rows, sample[rows]), {}) /\ Seeds(Load(rows, sample[rows]), rows)
  BY <1>1, LoadGrounded
<1> QED BY <1>2 DEF Full, Grounded

LEMMA StatementFacts ==
  ASSUME NEW s \in Statements
  PROVE  /\ s.match \subseteq Nodes /\ s.nodes \subseteq Nodes /\ s.nodes # {}
         /\ s.edges \subseteq s.match \X s.nodes
         /\ \A e \in s.edges : Descends(e)
BY DEF Statements

LEMMA SuffixStep ==
  ASSUME NEW S, NEW stmts \in Seq(S), NEW m \in 0 .. Len(stmts) - 1,
         NEW rest, rest = SubSeq(stmts, m + 1, Len(stmts))
  PROVE  /\ rest \in Seq(S) /\ Len(rest) = Len(stmts) - m /\ rest # << >>
         /\ Head(rest) = stmts[m + 1]
         /\ Tail(rest) = SubSeq(stmts, (m + 1) + 1, Len(stmts))
         /\ Tail(rest) # << >> => m + 1 \in 0 .. Len(stmts) - 1
<1>1. PICK n \in Nat : n = Len(stmts)
  OBVIOUS
<1>2. m \in 0 .. n - 1
  BY <1>1
<1>3. \A k \in 1 .. n : stmts[k] \in S
  BY <1>1
<1>4. rest \in Seq(S)
  BY <1>1, <1>2, <1>3
<1>5. Len(rest) = n - m
  BY <1>1, <1>2
<1>6. \A k \in 1 .. n - m : rest[k] = stmts[m + k]
  BY <1>1, <1>2
<1>7. rest # << >>
  <2>1. Len(rest) # 0
    BY <1>2, <1>5
  <2> QED BY <2>1
<1>8. Head(rest) = stmts[m + 1]
  BY <1>2, <1>4, <1>5, <1>6
<1> DEFINE after == SubSeq(stmts, (m + 1) + 1, n)
<1>9. /\ Tail(rest) \in Seq(S) /\ Len(Tail(rest)) = (n - m) - 1
      /\ \A k \in 1 .. (n - m) - 1 : Tail(rest)[k] = rest[k + 1]
  BY <1>4, <1>5, <1>7
<1>10. /\ after \in Seq(S) /\ Len(after) = (n - m) - 1
       /\ \A k \in 1 .. (n - m) - 1 : after[k] = stmts[(m + 1) + k]
  <2>1. after \in Seq(S)
    BY <1>1, <1>2, <1>3
  <2>2. Len(after) = (n - m) - 1
    BY <1>1, <1>2
  <2>3. \A k \in 1 .. (n - m) - 1 : after[k] = stmts[(m + 1) + k]
    BY <1>1, <1>2
  <2> QED BY <2>1, <2>2, <2>3
<1>11. ASSUME NEW k \in 1 .. (n - m) - 1 PROVE Tail(rest)[k] = after[k]
  <2>1. k + 1 \in 1 .. n - m /\ m + (k + 1) = (m + 1) + k
    BY <1>2
  <2>2. rest[k + 1] = stmts[(m + 1) + k]
    BY <1>6, <2>1
  <2> QED BY <1>9, <1>10, <2>2
<1> HIDE DEF after
<1>12. Tail(rest) = after
  <2> DEFINE left == Tail(rest)
  <2>1. /\ left \in Seq(S) /\ after \in Seq(S) /\ Len(left) = Len(after)
        /\ Len(after) = (n - m) - 1
    BY <1>9, <1>10
  <2>2. \A k \in 1 .. Len(after) : left[k] = after[k]
    BY <1>11, <2>1
  <2> HIDE DEF left
  <2>3. left = after
    BY <2>1, <2>2
  <2> QED BY <2>3 DEF left
<1>13. Tail(rest) # << >> => m + 1 \in 0 .. n - 1
  BY <1>2, <1>9
<1> QED BY <1>1, <1>4, <1>5, <1>7, <1>8, <1>12, <1>13 DEF after

(* The next statement finds what it matches.                               *)
LEMMA NextApplies ==
  ASSUME NEW stmts, Grounded(stmts, {}), NEW m \in 0 .. Len(stmts) - 1,
         NEW ns, NEW es, AppliedUpTo(stmts, m, ns, es)
  PROVE  stmts[m + 1].match \subseteq ns
<1> SUFFICES ASSUME NEW x \in stmts[m + 1].match PROVE x \in ns
  OBVIOUS
<1>1. m + 1 \in 1 .. Len(stmts) /\ (m + 1) - 1 = m
  BY DEF Grounded
<1>2. Merges(stmts, m, x)
  BY <1>1 DEF Grounded
<1> QED BY <1>2 DEF Merges, AppliedUpTo

LEMMA AppliedMore ==
  ASSUME NEW stmts, NEW m, NEW ns, NEW es, AppliedUpTo(stmts, m, ns, es),
         NEW more, NEW mores, ns \subseteq more, es \subseteq mores
  PROVE  AppliedUpTo(stmts, m, more, mores)
BY DEF AppliedUpTo

LEMMA GraphInit == Init => GraphInv
<1> SUFFICES ASSUME Init PROVE GraphInv
  OBVIOUS
<1>1. /\ nodes = {} /\ edges = {} /\ job = << >> /\ loaded = {} /\ loads = 0
      /\ running = FALSE /\ available = FALSE
      /\ \A rows \in Snapshots : sample[rows] \in Samples(rows)
  BY DEF Init
<1>2. GraphTypeOK
  <2>1. loads \in 0 .. MaxLoads
    BY <1>1, BoundAssumption
  <2>2. DOMAIN job = {} /\ edges \subseteq nodes \X nodes
    BY <1>1
  <2>3. running \in BOOLEAN /\ available \in BOOLEAN /\ (available => running)
    BY <1>1
  <2> QED BY <1>1, <2>1, <2>2, <2>3 DEF GraphTypeOK
<1> QED BY <1>1, <1>2 DEF GraphInv, Sampled

LEMMA StatementKeeps ==
  ASSUME GraphInv, RunStatement
  PROVE  GraphInv'
<1> DEFINE stmts == Full(sample, snapshot)
<1>1. /\ job # << >> /\ job' = Tail(job)
      /\ loaded' = IF Len(job) = 1 THEN loaded \cup {snapshot} ELSE loaded
      /\ sample' = sample /\ snapshot' = snapshot /\ loads' = loads
      /\ running' = running /\ available' = available
  BY DEF RunStatement, prover
<1>2. /\ GraphTypeOK /\ Sampled(sample) /\ \A e \in edges : Descends(e)
      /\ \A rows \in loaded : AppliedAll(Full(sample, rows), nodes, edges)
      /\ running => loaded # {}
      /\ snapshot \in Snapshots /\ UnderWay(stmts, job, nodes, edges)
  BY <1>1 DEF GraphInv
<1>3. Grounded(stmts, {}) /\ stmts \in Seq(Statements)
  BY <1>2, FullGrounded
<1> HIDE DEF stmts
<1>4. PICK m \in 0 .. Len(stmts) - 1 :
        job = SubSeq(stmts, m + 1, Len(stmts)) /\ AppliedUpTo(stmts, m, nodes, edges)
  BY <1>2 DEF UnderWay
<1>5. /\ Len(job) = Len(stmts) - m
      /\ Head(job) = stmts[m + 1]
      /\ Tail(job) = SubSeq(stmts, (m + 1) + 1, Len(stmts))
      /\ Tail(job) # << >> => m + 1 \in 0 .. Len(stmts) - 1
      /\ job \in Seq(Statements)
  BY <1>3, <1>4, SuffixStep
<1>6. PICK s \in Statements : s = stmts[m + 1] /\ s = Head(job)
  <2>1. m + 1 \in 1 .. Len(stmts)
    BY <1>3
  <2> QED BY <1>3, <1>5, <2>1
<1>7. s.match \subseteq nodes
  BY <1>3, <1>4, <1>6, NextApplies
<1>8. nodes' = nodes \cup s.nodes /\ edges' = edges \cup s.edges
  BY <1>6, <1>7 DEF RunStatement
<1>9. /\ s.match \subseteq Nodes /\ s.nodes \subseteq Nodes /\ s.nodes # {}
      /\ s.edges \subseteq s.match \X s.nodes
      /\ \A e \in s.edges : Descends(e)
  BY StatementFacts
<1>10. \A e \in edges' : Descends(e)
  BY <1>2, <1>8, <1>9
<1>11. AppliedUpTo(stmts, m + 1, nodes', edges')
  <2>1. AppliedUpTo(stmts, m, nodes', edges')
    BY <1>4, <1>8, AppliedMore
  <2>2. stmts[m + 1].nodes \subseteq nodes' /\ stmts[m + 1].edges \subseteq edges'
    BY <1>6, <1>8
  <2>3. \A k \in 1 .. m + 1 : k \in 1 .. m \/ k = m + 1
    OBVIOUS
  <2> QED BY <2>1, <2>2, <2>3 DEF AppliedUpTo
<1>12. \A rows \in loaded' : AppliedAll(Full(sample', rows), nodes', edges')
  <2> SUFFICES ASSUME NEW rows \in loaded'
               PROVE  AppliedAll(Full(sample', rows), nodes', edges')
    OBVIOUS
  <2>1. CASE rows \in loaded
    <3>1. AppliedAll(Full(sample, rows), nodes, edges)
      BY <1>2, <2>1
    <3> QED BY <1>1, <1>8, <3>1, AppliedMore DEF AppliedAll
  <2>2. CASE rows \notin loaded
    <3>1. rows = snapshot /\ Len(job) = 1
      BY <1>1, <2>2
    <3>2. m + 1 = Len(stmts)
      <4>1. PICK n \in Nat : n = Len(stmts)
        BY <1>3
      <4>2. n - m = 1
        BY <1>5, <3>1, <4>1
      <4> QED BY <4>1, <4>2
    <3> QED BY <1>1, <1>11, <3>1, <3>2 DEF AppliedAll, stmts
  <2> QED BY <2>1, <2>2
<1>13. job' # << >> => UnderWay(Full(sample', snapshot'), job', nodes', edges')
  <2> SUFFICES ASSUME job' # << >>
               PROVE  UnderWay(stmts, job', nodes', edges')
    BY <1>1 DEF stmts
  <2>1. m + 1 \in 0 .. Len(stmts) - 1 /\ job' = SubSeq(stmts, (m + 1) + 1, Len(stmts))
    BY <1>1, <1>5
  <2> QED BY <1>11, <2>1 DEF UnderWay
<1>14. GraphTypeOK'
  <2>1. nodes' \subseteq Nodes /\ edges' \subseteq nodes' \X nodes'
    <3>1. nodes \subseteq Nodes /\ edges \subseteq nodes \X nodes
      BY <1>2 DEF GraphTypeOK, Nodes
    <3> QED BY <1>7, <1>8, <1>9, <3>1
  <2>2. \A k \in DOMAIN job' : job'[k].nodes # {}
    <3>1. job' \in Seq(Statements)
      BY <1>1, <1>5
    <3>2. \A k \in DOMAIN job' : job'[k] \in Statements
      BY <3>1
    <3> QED BY <3>2, StatementFacts
  <2>3. loaded' \subseteq Snapshots
    BY <1>1, <1>2 DEF GraphTypeOK
  <2> QED BY <1>1, <1>2, <2>1, <2>2, <2>3 DEF GraphTypeOK, Nodes
<1>15. running' => loaded' # {}
  BY <1>1, <1>2
<1> QED BY <1>1, <1>2, <1>10, <1>12, <1>13, <1>14, <1>15 DEF GraphInv

LEMMA LoadBegins ==
  ASSUME GraphInv, NEW rows \in Snapshots, BeginLoad(rows)
  PROVE  GraphInv'
<1> DEFINE stmts == Full(sample, rows)
<1>1. /\ job' = stmts /\ snapshot' = rows /\ loads < MaxLoads /\ loads' = loads + 1
      /\ sample' = sample /\ nodes' = nodes /\ edges' = edges /\ loaded' = loaded
      /\ running' = running /\ available' = available
  BY DEF BeginLoad, Full, graph, prover
<1>2. stmts \in Seq(Statements)
  BY FullGrounded DEF GraphInv
<1> HIDE DEF stmts
<1>3. job' # << >> => UnderWay(stmts, job', nodes', edges')
  <2> SUFFICES ASSUME stmts # << >> PROVE UnderWay(stmts, stmts, nodes', edges')
    BY <1>1
  <2>1. 0 \in 0 .. Len(stmts) - 1 /\ stmts = SubSeq(stmts, 0 + 1, Len(stmts))
    BY <1>2
  <2>2. AppliedUpTo(stmts, 0, nodes', edges')
    BY DEF AppliedUpTo
  <2> QED BY <2>1, <2>2 DEF UnderWay
<1>4. GraphTypeOK'
  <2>1. \A k \in DOMAIN job' : job'[k].nodes # {}
    <3>1. \A k \in DOMAIN job' : job'[k] \in Statements
      BY <1>1, <1>2
    <3> QED BY <3>1, StatementFacts
  <2>2. loads' \in 0 .. MaxLoads
    <3>1. loads \in 0 .. MaxLoads /\ MaxLoads \in Nat
      BY BoundAssumption DEF GraphInv, GraphTypeOK
    <3> QED BY <1>1, <3>1
  <2> QED BY <1>1, <2>1, <2>2 DEF GraphInv, GraphTypeOK
<1> QED BY <1>1, <1>3, <1>4 DEF GraphInv, stmts

LEMMA GraphNext == GraphInv /\ [Next]_vars => GraphInv'
<1> SUFFICES ASSUME GraphInv, [Next]_vars PROVE GraphInv'
  OBVIOUS
<1>1. ASSUME NEW rows \in Snapshots, BeginLoad(rows) PROVE GraphInv'
  BY <1>1, LoadBegins
<1>2. CASE RunStatement
  BY <1>2, StatementKeeps
<1>3. CASE LoaderDies
  <2>1. /\ job' = << >> /\ sample' = sample /\ nodes' = nodes /\ edges' = edges
        /\ loaded' = loaded /\ loads' = loads
        /\ running' = running /\ available' = available
    BY <1>3 DEF LoaderDies, graph, prover
  <2>2. GraphTypeOK'
    BY <2>1 DEF GraphInv, GraphTypeOK
  <2> QED BY <2>1, <2>2 DEF GraphInv
<1>4. CASE StartProver \/ QueryFails \/ ProverStops
  <2>1. /\ sample' = sample /\ nodes' = nodes /\ edges' = edges /\ job' = job
        /\ snapshot' = snapshot /\ loaded' = loaded /\ loads' = loads
    BY <1>4 DEF StartProver, QueryFails, ProverStops, graph, loader
  <2>2. /\ running' \in BOOLEAN /\ available' \in BOOLEAN /\ (available' => running')
        /\ (running' => loaded' # {})
    <3>1. CASE StartProver
      BY <3>1 DEF StartProver, loader
    <3>2. CASE QueryFails
      BY <3>2 DEF QueryFails, loader, GraphInv, GraphTypeOK
    <3>3. CASE ProverStops
      BY <3>3 DEF ProverStops
    <3> QED BY <1>4, <3>1, <3>2, <3>3
  <2>3. GraphTypeOK'
    BY <2>1, <2>2 DEF GraphInv, GraphTypeOK
  <2> QED BY <2>1, <2>2, <2>3 DEF GraphInv
<1>5. CASE UNCHANGED vars
  <2>1. /\ sample' = sample /\ nodes' = nodes /\ edges' = edges /\ job' = job
        /\ snapshot' = snapshot /\ loaded' = loaded /\ loads' = loads
        /\ running' = running /\ available' = available
    BY <1>5 DEF vars, graph, loader, prover
  <2>2. GraphTypeOK'
    BY <2>1 DEF GraphInv, GraphTypeOK
  <2> QED BY <2>1, <2>2 DEF GraphInv
<1> QED BY <1>1, <1>2, <1>3, <1>4, <1>5 DEF Next

-----------------------------------------------------------------------------
(* What a completed load is good for.                                      *)
LEMMA LoadedDistance ==
  ASSUME GraphInv, loaded # {}, NEW tier \in Tiers, NEW i \in 1 .. PerTier
  PROVE  Account(tier, i) \in nodes /\ Distance(Account(tier, i)) = tier
<1> DEFINE a == Account(tier, i)
<1>1. PICK rows \in Snapshots : rows \in loaded
  BY DEF GraphInv, GraphTypeOK
<1>2. AppliedAll(Full(sample, rows), nodes, edges) /\ Sampled(sample)
  BY <1>1 DEF GraphInv
<1>3. PICK e \in ToSet(rows) : Includes(Full(sample, rows), SeedAccount(tier, i, e))
  BY <1>2, FullGrounded DEF Seeds
<1> DEFINE stmts == SeedAccount(tier, i, e)
           path == PathTo(tier, i, e)
<1>4. /\ Len(stmts) = tier + 1 /\ stmts[1].nodes = {a}
      /\ \A n \in 1 .. tier : stmts[n + 1].edges = {<<path[n], path[n + 1]>>}
  <2>1. SeedsPath(stmts, path, tier, a)
    BY SeedAccountGrounded
  <2> QED BY <2>1 DEF SeedsPath
<1>5. path[1] = a /\ path[tier + 1] = Entity(e)
  BY PathNodes
<1> HIDE DEF stmts, path
<1>6. tier \in 1 .. 3
  BY DEF Tiers
<1>7. ASSUME NEW n \in 1 .. tier + 1
      PROVE  stmts[n].nodes \subseteq nodes /\ stmts[n].edges \subseteq edges
  <2>1. PICK l \in 1 .. Len(Full(sample, rows)) : Full(sample, rows)[l] = stmts[n]
    BY <1>3, <1>4 DEF Includes, stmts
  <2> QED BY <1>2, <2>1 DEF AppliedAll, AppliedUpTo
<1>8. a \in nodes
  <2>1. 1 \in 1 .. tier + 1
    BY <1>6
  <2> QED BY <1>4, <1>7, <2>1
<1>9. \A n \in 1 .. tier : <<path[n], path[n + 1]>> \in edges
  <2> SUFFICES ASSUME NEW n \in 1 .. tier PROVE <<path[n], path[n + 1]>> \in edges
    OBVIOUS
  <2>1. n + 1 \in 1 .. tier + 1
    BY <1>6
  <2> QED BY <1>4, <1>7, <2>1
<1>10. Entity(e) \in Within(a, tier)
  <2>1. path[tier + 1] \in Within(path[1], tier)
    BY <1>6, <1>9, WithinReaches
  <2> QED BY <1>5, <2>1
<1>11. Entity(e) \in EntityNodes
  BY EntityOfList
<1>12. Distance(a) <= tier
  <2>1. tier \in 1 .. MaxHops
    BY <1>6 DEF MaxHops
  <2> HIDE DEF a
  <2> QED BY <1>10, <1>11, <2>1, DistanceIsLeast
<1>13. Distance(a) >= tier
  <2>1. NeverTooNear
    BY DescendingIsNeverTooNear DEF GraphInv
  <2>2. a \in DemoAccounts /\ Tier(a) = tier
    BY TierIsHeight
  <2> QED BY <2>1, <2>2 DEF NeverTooNear
<1>14. Distance(a) \in 1 .. MaxHops
  BY DistanceIsLeast
<1> HIDE DEF a
<1>15. Distance(a) = tier
  BY <1>6, <1>12, <1>13, <1>14 DEF MaxHops
<1> QED BY <1>8, <1>15 DEF a

LEMMA PoolAccountUnknown ==
  ASSUME GraphInv
  PROVE  PoolAccount \notin nodes /\ Tier(PoolAccount) = MaxHops
<1>1. PoolAccount[1] = "Account"
  BY DEF PoolAccount
<1>2. \A x \in EntityNodes : x[1] = "SanctionedEntity"
  BY DEF EntityNodes, Entity
<1>3. \A x \in Proxies : x[1] = "Proxy"
  BY DEF Proxies, Proxy
<1>4. PoolAccount \notin DemoAccounts
  BY DemoAccountTier
<1>5. nodes \subseteq EntityNodes \cup DemoAccounts \cup Proxies
  BY DEF GraphInv, GraphTypeOK
<1>6. PoolAccount \notin EntityNodes /\ PoolAccount \notin Proxies
  BY <1>1, <1>2, <1>3
<1> QED BY <1>4, <1>5, <1>6 DEF Tier

LEMMA LoadedScreensExactly == GraphInv => ScreenedExactly
<1> SUFFICES ASSUME GraphInv, available, NEW r \in Requests
             PROVE  HopsToSanctioned(r[1], r[2]) = Min({Tier(r[1]), Tier(r[2])})
  BY DEF ScreenedExactly
<1>1. loaded # {}
  BY DEF GraphInv, GraphTypeOK
<1>2. PoolAccount \notin nodes /\ Tier(PoolAccount) = MaxHops
  BY PoolAccountUnknown
<1>3. ASSUME NEW a \in DemoAccounts
      PROVE  a \in nodes /\ Distance(a) = Tier(a)
  <2>1. PICK tier \in Tiers, i \in 1 .. PerTier : a = Account(tier, i) /\ Tier(a) = tier
    BY DemoAccountTier
  <2> QED BY <1>1, <2>1, LoadedDistance
<1> DEFINE known == {r[1], r[2]} \cap nodes
           asked == {MaxHops} \cup {Distance(a) : a \in known}
<1>4. HopsToSanctioned(r[1], r[2]) = Min(asked)
  BY DEF HopsToSanctioned
<1>5. asked = {Tier(r[1]), Tier(r[2])}
  <2>1. CASE r = <<PoolAccount, PoolAccount>>
    <3>1. known = {} /\ r[1] = PoolAccount /\ r[2] = PoolAccount
      BY <1>2, <2>1
    <3> HIDE DEF known
    <3> QED BY <1>2, <3>1
  <2>2. ASSUME NEW a \in DemoAccounts, r = <<PoolAccount, a>>
        PROVE  asked = {Tier(r[1]), Tier(r[2])}
    <3>1. known = {a} /\ r[1] = PoolAccount /\ r[2] = a
      BY <1>2, <1>3, <2>2
    <3> HIDE DEF known
    <3> QED BY <1>2, <1>3, <3>1
  <2>3. ASSUME NEW a \in DemoAccounts, r = <<a, PoolAccount>>
        PROVE  asked = {Tier(r[1]), Tier(r[2])}
    <3>1. known = {a} /\ r[1] = a /\ r[2] = PoolAccount
      BY <1>2, <1>3, <2>3
    <3> HIDE DEF known
    <3> QED BY <1>2, <1>3, <3>1
  <2>4. \/ r = <<PoolAccount, PoolAccount>>
        \/ \E a \in DemoAccounts : r = <<PoolAccount, a>>
        \/ \E a \in DemoAccounts : r = <<a, PoolAccount>>
    BY DEF Requests
  <2> HIDE DEF asked
  <2> QED BY <2>1, <2>2, <2>3, <2>4
<1> HIDE DEF asked
<1> QED BY <1>4, <1>5

(* A statement of a list that was loaded before finds all that it merges.  *)
LEMMA ReloadStep ==
  ASSUME GraphInv, [Next]_vars, job # << >>, snapshot \in loaded
  PROVE  UNCHANGED graph
<1> DEFINE stmts == Full(sample, snapshot)
<1>1. /\ AppliedAll(stmts, nodes, edges) /\ UnderWay(stmts, job, nodes, edges)
      /\ Sampled(sample) /\ snapshot \in Snapshots
  BY DEF GraphInv
<1>2. stmts \in Seq(Statements)
  BY <1>1, FullGrounded
<1> HIDE DEF stmts
<1>3. PICK m \in 0 .. Len(stmts) - 1 : job = SubSeq(stmts, m + 1, Len(stmts))
  BY <1>1 DEF UnderWay
<1>4. Head(job) = stmts[m + 1] /\ m + 1 \in 1 .. Len(stmts)
  BY <1>2, <1>3, SuffixStep
<1>5. Head(job).nodes \subseteq nodes /\ Head(job).edges \subseteq edges
  BY <1>1, <1>4 DEF AppliedAll, AppliedUpTo
<1>6. CASE RunStatement
  <2>1. \/ nodes' = nodes \cup Head(job).nodes /\ edges' = edges \cup Head(job).edges
        \/ UNCHANGED graph
    BY <1>6 DEF RunStatement
  <2> QED BY <1>5, <2>1 DEF graph
<1>7. CASE ~RunStatement
  BY <1>7 DEF Next, vars, BeginLoad, LoaderDies, StartProver, QueryFails, ProverStops,
            graph
<1> QED BY <1>6, <1>7

-----------------------------------------------------------------------------
(* The invariant holds in every reachable state.                           *)
THEOREM GraphInvariance == Spec => []GraphInv
<1> QED BY GraphInit, GraphNext, PTL DEF Spec

(* The graph holds nodes of the known kinds and no dangling relationship,  *)
(* and only a running prover has a client.                                 *)
THEOREM GraphTypeCorrect == Spec => []GraphTypeOK
<1>1. GraphInv => GraphTypeOK
  BY DEF GraphInv
<1> QED BY <1>1, GraphInvariance, PTL

(* No false hit, whatever lists there are, however large the batches and   *)
(* however often a loader starts or dies: no account is nearer to a        *)
(* sanctioned entity than its tier (load_sanctions_graph.py:120-161,       *)
(* sanctions_graph.py:120-133).                                            *)
THEOREM NoFalseHit == Spec => []NeverTooNear
<1>1. GraphInv => NeverTooNear
  BY DescendingIsNeverTooNear DEF GraphInv
<1> QED BY <1>1, GraphInvariance, PTL

(* No hit is missed by a prover that docker compose has started and whose  *)
(* client is not degraded, whatever the loader does meanwhile              *)
(* (docker-compose.yml:155-156, README.md:135, 197).                       *)
THEOREM NoHitMissed == Spec => []ScreenedExactly
<1>1. GraphInv => ScreenedExactly
  BY LoadedScreensExactly
<1> QED BY <1>1, GraphInvariance, PTL

(* Loading a list again that was once loaded to the end changes nothing,   *)
(* whatever was loaded in between (load_sanctions_graph.py:122).           *)
THEOREM ReloadIsDeterministic == Spec => ReloadChangesNothing
<1>1. GraphInv /\ [Next]_vars => [job # << >> /\ snapshot \in loaded => UNCHANGED graph]_vars
  BY ReloadStep
<1> QED BY <1>1, GraphInvariance, PTL DEF Spec, ReloadChangesNothing
=============================================================================
