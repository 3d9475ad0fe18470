--------------------------- MODULE FoldersProofs ---------------------------
(***************************************************************************)
(* Proofs about the folders, for any number of items, connections,         *)
(* listings, purges, failures and power losses: every item leads to the    *)
(* root; a purge destroys only what its client asked for, in the trash,    *)
(* and leaves nothing when it says so; and, when the clients take turns,   *)
(* the one directory handle of the platform is never taken from the agent  *)
(* that uses it, and a listing shows every item of its folder.             *)
(*                                                                         *)
(* The path of an item is computed by recursion, on as many turns as there *)
(* are items.  What it yields is proved by induction: the numbers of which *)
(* it is true are a set, and the least number outside it would follow one  *)
(* inside it (Counting).                                                   *)
(***************************************************************************)
EXTENDS Folders, SequenceTheorems, FiniteSetTheorems, WellFoundedInduction, TLAPS

USE FoldersAssumption
-----------------------------------------------------------------------------
(***************************************************************************)
(* Numbers.                                                                *)
(***************************************************************************)
Below == {pair \in Nat \X Nat : pair[1] < pair[2]}

\* Numbers are well founded below one another.
LEMMA BelowWellFounded == IsWellFoundedOn(Below, Nat)
BY NatLessThanWellFounded DEF OpToRel, Below

\* A set of numbers that is not empty has a least one.
LEMMA LeastNumber ==
  ASSUME NEW T \in SUBSET Nat, T # {}
  PROVE  \E m \in T : \A k \in T : m <= k
<1>1. \E m \in T : \A k \in T : <<k, m>> \notin Below
  BY BelowWellFounded, WFMin
<1>2. PICK m \in T : \A k \in T : <<k, m>> \notin Below
  BY <1>1
<1>3. \A k \in T : k \in Nat /\ m \in Nat /\ ~(k < m)
  BY <1>2 DEF Below
<1>4. \A k \in T : m <= k
  BY <1>3
<1> QED BY <1>4

\* Induction, over a set of numbers.
LEMMA Counting ==
  ASSUME NEW S, 0 \in S, \A k \in Nat : k \in S => k + 1 \in S
  PROVE  \A k \in Nat : k \in S
<1> SUFFICES ASSUME Nat \ S # {} PROVE FALSE
  OBVIOUS
<1>1. PICK m \in Nat \ S : \A k \in Nat \ S : m <= k
  BY LeastNumber
<1>2. m # 0 /\ m - 1 \in Nat /\ ~(m <= m - 1)
  BY <1>1
<1>3. m - 1 \in S
  BY <1>1, <1>2
<1>4. (m - 1) + 1 \in S
  BY <1>2, <1>3
<1> QED BY <1>1, <1>4
-----------------------------------------------------------------------------
(***************************************************************************)
(* Paths.  A climb goes from a node to the folder it is in; a chain is a   *)
(* climb that ends at the root.                                            *)
(***************************************************************************)
Trees == [Node -> Folder \cup {Root, Gone}]

Climb(t, p) == p \in Seq(Node) /\ Len(p) >= 1 /\ \A i \in 1..(Len(p) - 1) : t[p[i]] = p[i + 1]
Chain(t, p) == Climb(t, p) /\ t[p[Len(p)]] = Root

\* One turn of the recursion that makes a path.
Higher(t, p) == IF t[Last(p)] \in Node THEN Append(p, t[Last(p)]) ELSE p
IsClimber(f, t, n, m) == f = [k \in 0..m |-> IF k = 0 THEN <<n>> ELSE Higher(t, f[k - 1])]

\* Items are numbers, and neither the root nor what is gone is one of them.
LEMMA NodesAreNumbers ==
  /\ Node \subseteq Nat \ {0} /\ Nodes \in Nat
  /\ Root \notin Node /\ Gone \notin Node /\ Root # Gone
  /\ Folder \subseteq Node /\ Trash \in Node /\ Trash \in Folder
BY DEF Node, Root, Gone

\* The recursion of PathOf has a value, whatever the number of its turns.
LEMMA ClimberExists ==
  ASSUME NEW t, NEW n, NEW m \in Nat
  PROVE  \E f : IsClimber(f, t, n, m)
<1> DEFINE S == {j \in Nat : \E f : IsClimber(f, t, n, j)}
<1>1. 0 \in S
  <2> DEFINE f == [k \in 0..0 |-> <<n>>]
  <2>1. f = [k \in 0..0 |-> IF k = 0 THEN <<n>> ELSE Higher(t, f[k - 1])]
    OBVIOUS
  <2> QED BY <2>1 DEF IsClimber
<1>2. ASSUME NEW j \in Nat, j \in S PROVE j + 1 \in S
  <2>1. PICK f : IsClimber(f, t, n, j)
    BY <1>2
  <2> DEFINE g == [k \in 0..(j + 1) |-> IF k <= j THEN f[k] ELSE Higher(t, f[j])]
             h == [k \in 0..(j + 1) |-> IF k = 0 THEN <<n>> ELSE Higher(t, g[k - 1])]
  <2>2. \A k \in 0..j : f[k] = IF k = 0 THEN <<n>> ELSE Higher(t, f[k - 1])
    BY <2>1 DEF IsClimber
  <2>3. ASSUME NEW k \in 0..(j + 1) PROVE g[k] = h[k]
    <3>1. CASE k = 0
      BY <2>2, <3>1
    <3>2. CASE k \in 1..j
      <4>1. k \in 0..j /\ k - 1 \in 0..(j + 1) /\ k - 1 <= j /\ k <= j /\ k # 0
        BY <3>2
      <4> QED BY <2>2, <4>1
    <3>3. CASE k = j + 1
      <4>1. k - 1 = j /\ j \in 0..(j + 1) /\ k # 0 /\ ~(k <= j) /\ j <= j
        BY <3>3
      <4> QED BY <4>1
    <3> QED BY <3>1, <3>2, <3>3
  <2>4. g = h
    BY <2>3
  <2> HIDE DEF g
  <2>5. IsClimber(g, t, n, j + 1)
    BY <2>4 DEF IsClimber
  <2> QED BY <2>5
<1> HIDE DEF S
<1>3. m \in S
  BY <1>1, <1>2, Counting
<1> QED BY <1>3 DEF S

\* PathOf takes as many turns as there are nodes.
LEMMA PathClimbs ==
  ASSUME NEW t, NEW n, n # Root
  PROVE  \E f : IsClimber(f, t, n, Nodes) /\ PathOf(t, n) = f[Nodes]
<1> DEFINE f == CHOOSE g : IsClimber(g, t, n, Nodes)
<1>1. IsClimber(f, t, n, Nodes)
  BY ClimberExists
<1>2. PathOf(t, n) = f[Nodes]
  BY DEF PathOf, IsClimber, Higher
<1> QED BY <1>1, <1>2

\* Every turn of the recursion yields a climb from n.
LEMMA TurnsClimb ==
  ASSUME NEW t \in Trees, NEW n \in Node, NEW f, IsClimber(f, t, n, Nodes), NEW m \in 0..Nodes
  PROVE  Climb(t, f[m]) /\ f[m][1] = n
<1> USE NodesAreNumbers
<1> DEFINE S == {k \in Nat : k \in 0..Nodes => Climb(t, f[k]) /\ f[k][1] = n}
<1>1. \A k \in 0..Nodes : f[k] = IF k = 0 THEN <<n>> ELSE Higher(t, f[k - 1])
  BY DEF IsClimber
<1>2. 0 \in S
  <2>1. f[0] = <<n>>
    <3>1. 0 \in 0..Nodes
      OBVIOUS
    <3> QED BY <1>1, <3>1
  <2>2. Climb(t, <<n>>) /\ <<n>>[1] = n
    <3>1. <<n>> \in Seq(Node) /\ Len(<<n>>) = 1
      OBVIOUS
    <3>2. \A i \in 1..(1 - 1) : FALSE
      OBVIOUS
    <3> QED BY <3>1, <3>2 DEF Climb
  <2> QED BY <2>1, <2>2
<1>3. ASSUME NEW k \in Nat, k \in S PROVE k + 1 \in S
  <2> SUFFICES ASSUME k + 1 \in 0..Nodes PROVE Climb(t, f[k + 1]) /\ f[k + 1][1] = n
    OBVIOUS
  <2> DEFINE p == f[k]
             up == t[p[Len(p)]]
  <2>1. Climb(t, p) /\ p[1] = n
    BY <1>3
  <2>2. f[k + 1] = IF up \in Node THEN Append(p, up) ELSE p
    <3>1. (k + 1) - 1 = k /\ k + 1 # 0
      OBVIOUS
    <3> QED BY <1>1, <3>1 DEF Higher, Last
  <2> HIDE DEF p
  <2>3. CASE up \in Node
    <3> DEFINE q == Append(p, up)
    <3>1. p \in Seq(Node) /\ Len(p) \in Nat /\ Len(p) >= 1
      BY <2>1, LenProperties DEF Climb
    <3>2. /\ q \in Seq(Node) /\ Len(q) = Len(p) + 1
          /\ \A i \in 1..Len(p) : q[i] = p[i]
          /\ q[Len(p) + 1] = up
      BY <2>3, <3>1, AppendProperties
    <3> HIDE DEF q
    <3>3. ASSUME NEW i \in 1..(Len(q) - 1) PROVE t[q[i]] = q[i + 1]
      <4>1. i \in 1..Len(p)
        BY <3>1, <3>2
      <4>2. CASE i = Len(p)
        BY <3>2, <4>1, <4>2
      <4>3. CASE i # Len(p)
        <5>1. i \in 1..(Len(p) - 1) /\ i + 1 \in 1..Len(p)
          BY <3>1, <4>1, <4>3
        <5> QED BY <2>1, <3>2, <4>1, <5>1 DEF Climb
      <4> QED BY <4>2, <4>3
    <3>4. q[1] = n /\ Len(q) >= 1
      BY <2>1, <3>1, <3>2
    <3> QED BY <2>2, <2>3, <3>2, <3>3, <3>4 DEF Climb, q
  <2>4. CASE up \notin Node
    BY <2>1, <2>2, <2>4
  <2> QED BY <2>3, <2>4
<1> HIDE DEF S
<1>4. m \in S
  BY <1>2, <1>3, Counting
<1> QED BY <1>4 DEF S

\* The path of an item is a climb from it.
LEMMA PathClimb ==
  ASSUME NEW t \in Trees, NEW n \in Node
  PROVE  Climb(t, PathOf(t, n)) /\ PathOf(t, n)[1] = n
<1>1. PICK f : IsClimber(f, t, n, Nodes) /\ PathOf(t, n) = f[Nodes]
  BY PathClimbs, NodesAreNumbers
<1>2. Nodes \in 0..Nodes
  BY NodesAreNumbers
<1> QED BY <1>1, <1>2, TurnsClimb

\* A chain meets no node twice: it would never come to the root.
LEMMA ChainInjective ==
  ASSUME NEW t \in Trees, NEW p, Chain(t, p), NEW i \in 1..Len(p), NEW j \in 1..Len(p), p[i] = p[j]
  PROVE  i = j
<1> USE NodesAreNumbers
<1>1. p \in Seq(Node) /\ Len(p) \in Nat /\ \A k \in 1..Len(p) : p[k] \in Node
  BY LenProperties, ElementOfSeq DEF Chain, Climb
<1>2. ASSUME NEW a \in 1..Len(p), NEW b \in 1..Len(p), a < b, p[a] = p[b] PROVE FALSE
  <2> DEFINE S == {d \in Nat : b + d <= Len(p) => p[a + d] = p[b + d]}
             e == Len(p) - b
  <2>1. 0 \in S
    BY <1>1, <1>2
  <2>2. ASSUME NEW d \in Nat, d \in S PROVE d + 1 \in S
    <3> SUFFICES ASSUME b + (d + 1) <= Len(p) PROVE p[a + (d + 1)] = p[b + (d + 1)]
      OBVIOUS
    <3>1. /\ b + d <= Len(p) /\ a + d \in 1..(Len(p) - 1) /\ b + d \in 1..(Len(p) - 1)
          /\ a + (d + 1) = (a + d) + 1 /\ b + (d + 1) = (b + d) + 1
      BY <1>1, <1>2
    <3>2. p[a + d] = p[b + d]
      BY <2>2, <3>1
    <3> QED BY <3>1, <3>2 DEF Chain, Climb
  <2> HIDE DEF S
  <2>3. e \in Nat /\ b + e = Len(p) /\ a + e \in 1..(Len(p) - 1) /\ (a + e) + 1 \in 1..Len(p)
    BY <1>1, <1>2
  <2>4. e \in S
    BY <2>1, <2>2, <2>3, Counting
  <2>5. p[a + e] = p[Len(p)]
    BY <2>3, <2>4, <1>1 DEF S
  <2> QED BY <1>1, <2>3, <2>5 DEF Chain, Climb
<1> QED BY <1>2, <1>1

\* So a chain has at most as many items as there are.
LEMMA ChainShort ==
  ASSUME NEW t \in Trees, NEW p, Chain(t, p)
  PROVE  Len(p) <= Nodes
<1> USE NodesAreNumbers
<1>1. Len(p) \in Nat /\ p \in [1..Len(p) -> 1..Nodes]
  BY LenProperties DEF Chain, Climb, Node
<1>2. ASSUME NEW k \in Nat PROVE IsFiniteSet(1..k) /\ Cardinality(1..k) = k
  <2>1. 1 \in Int /\ k \in Int /\ (1 > k => k = 0) /\ (k - 1) + 1 = k
    OBVIOUS
  <2> QED BY <2>1, FS_Interval
<1> SUFFICES ASSUME Nodes < Len(p) PROVE FALSE
  BY <1>1
<1>3. IsFiniteSet(1..Len(p)) /\ IsFiniteSet(1..Nodes) /\ Cardinality(1..Nodes) < Cardinality(1..Len(p))
  BY <1>1, <1>2
<1>4. \E i, j \in 1..Len(p) : i # j /\ p[i] = p[j]
  BY ONLY <1>1, <1>3, FS_PigeonHole
<1> QED BY <1>4, ChainInjective

\* The only climb that ends at the root is the one PathOf makes.
LEMMA ChainIsPath ==
  ASSUME NEW t \in Trees, NEW p, Chain(t, p)
  PROVE  PathOf(t, p[1]) = p /\ p[1] \in Node
<1> USE NodesAreNumbers
<1> DEFINE L == Len(p)
<1>1. /\ p \in Seq(Node) /\ L \in Nat /\ L >= 1 /\ L <= Nodes
      /\ \A i \in 1..L : p[i] \in Node
  BY LenProperties, ElementOfSeq, ChainShort DEF Chain, Climb
<1>2. /\ \A i \in 1..(L - 1) : t[p[i]] = p[i + 1]
      /\ t[p[L]] = Root
  BY DEF Chain, Climb
<1> HIDE DEF L
<1>3. p[1] \in Node
  BY <1>1
<1>4. PICK f : IsClimber(f, t, p[1], Nodes) /\ PathOf(t, p[1]) = f[Nodes]
  BY <1>3, PathClimbs
<1>5. \A k \in 0..Nodes : f[k] = IF k = 0 THEN <<p[1]>> ELSE Higher(t, f[k - 1])
  BY <1>4 DEF IsClimber
<1> DEFINE S == {k \in Nat : k \in 0..Nodes =>
                   /\ f[k] \in Seq(Node)
                   /\ Len(f[k]) = IF k + 1 <= L THEN k + 1 ELSE L
                   /\ \A i \in 1..Len(f[k]) : f[k][i] = p[i]}
<1>6. 0 \in S
  <2>1. f[0] = <<p[1]>>
    <3>1. 0 \in 0..Nodes
      OBVIOUS
    <3> QED BY <1>5, <3>1
  <2>2. <<p[1]>> \in Seq(Node) /\ Len(<<p[1]>>) = 1 /\ <<p[1]>>[1] = p[1]
    BY <1>3
  <2>3. \A i \in 1..1 : i = 1
    OBVIOUS
  <2>4. 0 + 1 <= L /\ 0 + 1 = 1
    BY <1>1
  <2> QED BY <2>1, <2>2, <2>3, <2>4
<1>7. ASSUME NEW k \in Nat, k \in S PROVE k + 1 \in S
  <2> SUFFICES ASSUME k + 1 \in 0..Nodes
               PROVE  /\ f[k + 1] \in Seq(Node)
                      /\ Len(f[k + 1]) = IF (k + 1) + 1 <= L THEN (k + 1) + 1 ELSE L
                      /\ \A i \in 1..Len(f[k + 1]) : f[k + 1][i] = p[i]
    OBVIOUS
  <2> DEFINE q == f[k]
             l == Len(q)
             up == t[q[l]]
  <2>1. q \in Seq(Node) /\ l = (IF k + 1 <= L THEN k + 1 ELSE L) /\ \A i \in 1..l : q[i] = p[i]
    BY <1>7
  <2>2. f[k + 1] = IF up \in Node THEN Append(q, up) ELSE q
    <3>1. (k + 1) - 1 = k /\ k + 1 # 0
      OBVIOUS
    <3> QED BY <1>5, <3>1 DEF Higher, Last
  <2>3. l \in Nat /\ l >= 1 /\ l <= L
    BY <1>1, <2>1
  <2> HIDE DEF q, l
  <2>4. q[l] = p[l]
    BY <2>1, <2>3
  <2>5. CASE k + 1 < L
    <3>1. l = k + 1 /\ l \in 1..(L - 1)
      BY <1>1, <2>1, <2>5
    <3>2. up = p[l + 1] /\ p[l + 1] \in Node
      BY <1>1, <1>2, <2>4, <3>1
    <3>3. f[k + 1] = Append(q, p[l + 1])
      BY <2>2, <3>2
    <3>4. /\ f[k + 1] \in Seq(Node) /\ Len(f[k + 1]) = l + 1
          /\ \A i \in 1..l : f[k + 1][i] = q[i]
          /\ f[k + 1][l + 1] = p[l + 1]
      BY <2>1, <3>2, <3>3, AppendProperties DEF l
    <3>5. \A i \in 1..(l + 1) : i \in 1..l \/ i = l + 1
      BY <2>3
    <3> QED BY <1>1, <2>1, <2>5, <3>1, <3>4, <3>5
  <2>6. CASE ~(k + 1 < L)
    <3>1. l = L
      BY <1>1, <2>1, <2>6
    <3>2. up \notin Node
      BY <1>2, <2>4, <3>1
    <3>3. f[k + 1] = q /\ Len(q) = L
      BY <2>2, <3>1, <3>2 DEF l
    <3>4. ~((k + 1) + 1 <= L)
      BY <1>1, <2>6
    <3> QED BY <2>1, <3>1, <3>3, <3>4
  <2> QED BY <2>5, <2>6
<1> HIDE DEF S
<1>8. Nodes \in S
  BY <1>6, <1>7, Counting
<1>9. /\ f[Nodes] \in Seq(Node)
      /\ Len(f[Nodes]) = IF Nodes + 1 <= L THEN Nodes + 1 ELSE L
      /\ \A i \in 1..Len(f[Nodes]) : f[Nodes][i] = p[i]
  <2>1. Nodes \in 0..Nodes
    OBVIOUS
  <2> QED BY <1>8, <2>1 DEF S
<1>10. Len(f[Nodes]) = Len(p)
  BY <1>1, <1>9 DEF L
<1>11. f[Nodes] = p
  BY <1>1, <1>9, <1>10, SeqEqual
<1> QED BY <1>3, <1>4, <1>11

\* A path that is present is a chain, and there is no other chain from its item.
LEMMA PresentIsChain ==
  ASSUME NEW t \in Trees, NEW p \in Seq(Node), p # <<>>
  PROVE  Present(t, p) <=> Chain(t, p)
<1>1. Len(p) \in Nat /\ Len(p) >= 1 /\ p[1] \in Node /\ Head(p) = p[1]
  BY LenProperties, ElementOfSeq, EmptySeq
<1>2. ASSUME Present(t, p) PROVE Chain(t, p)
  <2>1. PathOf(t, p[1]) = p /\ t[p[Len(p)]] = Root
    BY <1>1, <1>2 DEF Present, Last
  <2>2. Climb(t, p)
    BY <1>1, <2>1, PathClimb
  <2> QED BY <2>1, <2>2 DEF Chain
<1>3. ASSUME Chain(t, p) PROVE Present(t, p)
  BY <1>1, <1>3, ChainIsPath DEF Present, Last, Chain
<1> QED BY <1>2, <1>3

\* What PathOf yields for an item: its chain, if it has one.
LEMMA PathIsChain ==
  ASSUME NEW t \in Trees, NEW n \in Node
  PROVE  /\ PathOf(t, n) \in Seq(Node) /\ PathOf(t, n) # <<>> /\ Head(PathOf(t, n)) = n
         /\ Present(t, PathOf(t, n)) <=> \E p : Chain(t, p) /\ p[1] = n
         /\ Present(t, PathOf(t, n)) => Chain(t, PathOf(t, n)) /\ PathOf(t, n)[1] = n
<1>1. Climb(t, PathOf(t, n)) /\ PathOf(t, n)[1] = n
  BY PathClimb
<1>2. /\ PathOf(t, n) \in Seq(Node) /\ PathOf(t, n) # <<>> /\ Head(PathOf(t, n)) = n
  <2>1. PathOf(t, n) \in Seq(Node) /\ Len(PathOf(t, n)) >= 1
    BY <1>1 DEF Climb
  <2>2. PathOf(t, n) # <<>>
    BY <2>1, EmptySeq
  <2> QED BY <1>1, <2>1, <2>2
<1>3. Present(t, PathOf(t, n)) <=> Chain(t, PathOf(t, n))
  BY <1>2, PresentIsChain
<1>4. ASSUME NEW p, Chain(t, p), p[1] = n PROVE PathOf(t, n) = p
  BY <1>4, ChainIsPath
<1> QED BY <1>1, <1>2, <1>3, <1>4
-----------------------------------------------------------------------------
\* A tree in which every item leads to the root.
Rooted(t) == \A n \in Node : t[n] # Gone => \E p : Chain(t, p) /\ p[1] = n

\* What a chain is, item by item.
LEMMA ChainFacts ==
  ASSUME NEW t \in Trees, NEW p, Chain(t, p)
  PROVE  /\ p \in Seq(Node) /\ p # <<>> /\ Len(p) \in Nat /\ Len(p) >= 1
         /\ \A i \in 1..Len(p) : p[i] \in Node /\ t[p[i]] # Gone
         /\ \A i \in 1..(Len(p) - 1) : t[p[i]] = p[i + 1]
         /\ t[p[Len(p)]] = Root
<1> USE NodesAreNumbers
<1>1. p \in Seq(Node) /\ Len(p) \in Nat /\ Len(p) >= 1 /\ \A i \in 1..Len(p) : p[i] \in Node
  BY LenProperties, ElementOfSeq DEF Chain, Climb
<1>2. p # <<>>
  BY <1>1, EmptySeq
<1>3. (\A i \in 1..(Len(p) - 1) : t[p[i]] = p[i + 1]) /\ t[p[Len(p)]] = Root
  BY DEF Chain, Climb
<1>4. ASSUME NEW i \in 1..Len(p) PROVE t[p[i]] # Gone
  <2>1. CASE i = Len(p)
    BY <1>3, <2>1
  <2>2. CASE i # Len(p)
    <3>1. i \in 1..(Len(p) - 1) /\ i + 1 \in 1..Len(p)
      BY <1>1, <2>2
    <3> QED BY <1>1, <1>3, <3>1
  <2> QED BY <2>1, <2>2
<1> QED BY <1>1, <1>2, <1>3, <1>4

\* p comes to n first at i; q leads to the root without n, from d.
ComesTo(t, p, i, n) ==
  /\ p \in Seq(Node) /\ i \in 1..Len(p) /\ p[i] = n
  /\ \A j \in 1..(i - 1) : p[j] # n /\ t[p[j]] = p[j + 1]
LeadsWithout(t, q, d, n) ==
  /\ q \in Seq(Node) /\ \A j \in 1..Len(q) : q[j] # n
  /\ IF q = <<>> THEN d = Root ELSE Chain(t, q) /\ q[1] = d

\* The way up to n, then the chain of its new folder, is a chain when n moves there.
LEMMA Grafted ==
  ASSUME NEW t \in Trees, NEW n \in Node, NEW d,
         NEW p, NEW i, ComesTo(t, p, i, n), NEW q, LeadsWithout(t, q, d, n)
  PROVE  \E r : Chain([t EXCEPT ![n] = d], r) /\ r[1] = p[1]
<1> USE NodesAreNumbers
<1>0. /\ p \in Seq(Node) /\ i \in 1..Len(p) /\ p[i] = n
      /\ \A j \in 1..(i - 1) : p[j] # n /\ t[p[j]] = p[j + 1]
      /\ q \in Seq(Node) /\ \A j \in 1..Len(q) : q[j] # n
      /\ q = <<>> => d = Root
      /\ q # <<>> => Chain(t, q) /\ q[1] = d
  BY DEF ComesTo, LeadsWithout
<1> DEFINE u == [t EXCEPT ![n] = d]
           K == i + Len(q)
           r == [k \in 1..K |-> IF k <= i THEN p[k] ELSE q[k - i]]
<1>1. /\ Len(p) \in Nat /\ Len(q) \in Nat /\ i \in Nat /\ i >= 1
      /\ \A j \in 1..Len(p) : p[j] \in Node
      /\ \A j \in 1..Len(q) : q[j] \in Node
  BY <1>0, LenProperties, ElementOfSeq
<1>2. \A m \in Node : u[m] = IF m = n THEN d ELSE t[m]
  BY DEF Trees
<1>3. K \in Nat /\ K >= i /\ K >= 1
  BY <1>1
<1>4. \A k \in 1..K : (k <= i => k \in 1..Len(p)) /\ (~(k <= i) => k - i \in 1..Len(q))
  BY <1>0, <1>1
<1>5. r \in Seq(Node) /\ Len(r) = K
  <2>1. \A k \in 1..K : r[k] \in Node
    BY <1>1, <1>4
  <2>2. r \in [1..K -> Node]
    BY <2>1
  <2> HIDE DEF r, K
  <2>3. r \in Seq(Node)
    BY <1>3, <2>2, SeqDef
  <2> QED BY <1>3, <2>2, <2>3, LenProperties
<1>6. \A k \in 1..K : r[k] = IF k <= i THEN p[k] ELSE q[k - i]
  OBVIOUS
<1>7. 1 \in 1..K /\ r[1] = p[1]
  BY <1>1, <1>3
<1> HIDE DEF r, K, u
<1>8. ASSUME NEW k \in 1..(K - 1) PROVE u[r[k]] = r[k + 1]
  <2>1. k \in 1..K /\ k + 1 \in 1..K
    BY <1>3
  <2>2. CASE k < i
    <3>1. k \in 1..(i - 1) /\ k <= i /\ k + 1 <= i /\ k \in 1..Len(p)
      BY <1>0, <1>1, <2>2
    <3>2. r[k] = p[k] /\ r[k + 1] = p[k + 1] /\ p[k] # n /\ p[k] \in Node
      BY <1>0, <1>1, <1>6, <2>1, <3>1
    <3> QED BY <1>0, <1>2, <3>1, <3>2
  <2>3. CASE k = i
    <3>1. ~(k + 1 <= i) /\ (k + 1) - i = 1 /\ Len(q) >= 1
      BY <1>1, <2>3 DEF K
    <3>2. r[k] = n /\ r[k + 1] = q[1]
      BY <1>0, <1>6, <2>1, <2>3, <3>1
    <3>3. q # <<>>
      BY <3>1, EmptySeq
    <3> QED BY <1>0, <1>2, <3>2, <3>3
  <2>4. CASE k > i
    <3>1. ~(k <= i) /\ ~(k + 1 <= i) /\ (k + 1) - i = (k - i) + 1 /\ k - i \in 1..(Len(q) - 1)
      BY <1>1, <2>4 DEF K
    <3>2. q # <<>> /\ k - i \in 1..Len(q)
      BY <1>1, <3>1, EmptySeq
    <3>3. t[q[k - i]] = q[(k - i) + 1]
      BY <1>0, <3>1, <3>2, ChainFacts
    <3>4. r[k] = q[k - i] /\ r[k + 1] = q[(k - i) + 1] /\ q[k - i] \in Node /\ q[k - i] # n
      BY <1>0, <1>1, <1>6, <2>1, <3>1, <3>2
    <3> QED BY <1>2, <3>3, <3>4
  <2> QED BY <2>2, <2>3, <2>4, <1>1
<1>9. u[r[K]] = Root
  <2>1. K \in 1..K
    BY <1>3
  <2>2. CASE q = <<>>
    <3>1. Len(q) = 0 /\ d = Root
      <4>1. Len(q) = 0
        BY <2>2, EmptySeq
      <4> QED BY <1>0, <2>2, <4>1
    <3>2. r[K] = n
      BY <1>0, <1>1, <1>6, <2>1, <3>1 DEF K
    <3> QED BY <1>2, <3>1, <3>2
  <2>3. CASE q # <<>>
    <3>1. t[q[Len(q)]] = Root /\ Len(q) >= 1
      BY <1>0, <2>3, ChainFacts
    <3>2. ~(K <= i) /\ K - i = Len(q) /\ Len(q) \in 1..Len(q)
      BY <1>1, <3>1 DEF K
    <3>3. r[K] = q[Len(q)] /\ q[Len(q)] \in Node /\ q[Len(q)] # n
      BY <1>0, <1>1, <1>6, <2>1, <3>2
    <3> QED BY <1>2, <3>1, <3>3
  <2> QED BY <2>2, <2>3
<1> QED BY <1>3, <1>5, <1>7, <1>8, <1>9 DEF Chain, Climb, u

\* A chain that does not meet n stays one whatever becomes of n.
LEMMA ChainElsewhere ==
  ASSUME NEW t \in Trees, NEW p, Chain(t, p), NEW n, \A i \in 1..Len(p) : p[i] # n, NEW d
  PROVE  Chain([t EXCEPT ![n] = d], p)
<1>1. /\ p \in Seq(Node) /\ Len(p) \in Nat /\ Len(p) >= 1
      /\ \A i \in 1..Len(p) : p[i] \in Node
      /\ \A i \in 1..(Len(p) - 1) : t[p[i]] = p[i + 1]
      /\ t[p[Len(p)]] = Root
  BY ChainFacts
<1>2. \A i \in 1..Len(p) : [t EXCEPT ![n] = d][p[i]] = t[p[i]]
  BY <1>1 DEF Trees
<1>3. Len(p) \in 1..Len(p) /\ \A i \in 1..(Len(p) - 1) : i \in 1..Len(p)
  BY <1>1
<1> QED BY <1>1, <1>2, <1>3 DEF Chain, Climb

\* A move into a folder that exists, and that the moved item does not lead to.
LEMMA MoveKeepsRooted ==
  ASSUME NEW t \in Trees, Rooted(t), NEW n \in Node, NEW d,
         NEW q, LeadsWithout(t, q, d, n)
  PROVE  Rooted([t EXCEPT ![n] = d])
<1> DEFINE u == [t EXCEPT ![n] = d]
<1> SUFFICES ASSUME NEW m \in Node, u[m] # Gone PROVE \E r : Chain(u, r) /\ r[1] = m
  BY DEF Rooted
<1>1. CASE m = n
  <2> DEFINE p == <<n>>
  <2>1. p \in Seq(Node) /\ 1 \in 1..Len(p) /\ p[1] = n /\ 1..(1 - 1) = {}
    OBVIOUS
  <2> HIDE DEF p
  <2>2. ComesTo(t, p, 1, n)
    BY <2>1 DEF ComesTo
  <2>3. \E r : Chain([t EXCEPT ![n] = d], r) /\ r[1] = p[1]
    BY <2>2, Grafted
  <2> QED BY <1>1, <2>1, <2>3
<1>2. CASE m # n
  <2>1. t[m] # Gone
    BY <1>2 DEF Trees
  <2>2. PICK p : Chain(t, p) /\ p[1] = m
    BY <2>1 DEF Rooted
  <2>3. CASE \A i \in 1..Len(p) : p[i] # n
    BY <2>2, <2>3, ChainElsewhere
  <2>4. CASE \E i \in 1..Len(p) : p[i] = n
    <3>1. PICK i \in 1..Len(p) : p[i] = n
      BY <2>4
    <3>2. p \in Seq(Node) /\ Len(p) \in Nat /\ \A j \in 1..(Len(p) - 1) : t[p[j]] = p[j + 1]
      BY <2>2, ChainFacts
    <3>3. ASSUME NEW j \in 1..(i - 1) PROVE p[j] # n /\ t[p[j]] = p[j + 1]
      <4>1. j \in 1..Len(p) /\ j \in 1..(Len(p) - 1) /\ j # i
        BY <3>2
      <4> QED BY <2>2, <3>1, <3>2, <4>1, ChainInjective
    <3>4. ComesTo(t, p, i, n)
      BY <3>1, <3>2, <3>3 DEF ComesTo
    <3>5. \E r : Chain([t EXCEPT ![n] = d], r) /\ r[1] = p[1]
      BY <3>4, Grafted
    <3> QED BY <2>2, <3>5
  <2> QED BY <2>3, <2>4
<1> QED BY <1>1, <1>2

\* The removal of an item that holds nothing.
LEMMA RemoveKeepsRooted ==
  ASSUME NEW t \in Trees, Rooted(t), NEW n \in Node, Children(t, n) = {}
  PROVE  /\ Rooted([t EXCEPT ![n] = Gone])
         /\ \A p : Chain(t, p) /\ p[1] # n => Chain([t EXCEPT ![n] = Gone], p)
<1> DEFINE u == [t EXCEPT ![n] = Gone]
<1>1. ASSUME NEW p, Chain(t, p), p[1] # n PROVE Chain(u, p)
  <2>1. /\ Len(p) \in Nat /\ \A i \in 1..Len(p) : p[i] \in Node
        /\ \A i \in 1..(Len(p) - 1) : t[p[i]] = p[i + 1]
    BY <1>1, ChainFacts
  <2>2. ASSUME NEW i \in 1..Len(p) PROVE p[i] # n
    <3>1. CASE i = 1
      BY <1>1, <3>1
    <3>2. CASE i # 1
      <4>1. i - 1 \in 1..(Len(p) - 1) /\ i - 1 \in 1..Len(p) /\ (i - 1) + 1 = i
        BY <2>1, <3>2
      <4>2. t[p[i - 1]] = p[i] /\ p[i - 1] \in Node
        BY <2>1, <4>1
      <4> QED BY <4>2 DEF Children
    <3> QED BY <3>1, <3>2
  <2> QED BY <1>1, <2>2, ChainElsewhere
<1>2. ASSUME NEW m \in Node, u[m] # Gone PROVE \E r : Chain(u, r) /\ r[1] = m
  <2>1. m # n /\ t[m] # Gone
    BY <1>2 DEF Trees
  <2>2. PICK p : Chain(t, p) /\ p[1] = m
    BY <2>1 DEF Rooted
  <2> QED BY <1>1, <2>1, <2>2
<1>3. Rooted(u)
  BY <1>2 DEF Rooted
<1> QED BY <1>1, <1>3
-----------------------------------------------------------------------------
(***************************************************************************)
(* Suffixes.                                                               *)
(***************************************************************************)

\* A suffix is the same from the end on.
LEMMA SuffixIs ==
  ASSUME NEW s \in Seq(Node), NEW t \in Seq(Node)
  PROVE  IsSuffix(s, t) <=> /\ Len(s) <= Len(t)
                            /\ \A k \in 1..Len(s) : s[k] = t[k + (Len(t) - Len(s))]
<1> DEFINE a == Reverse(s)
           b == Reverse(t)
           D == Len(t) - Len(s)
<1>1. Len(s) \in Nat /\ Len(t) \in Nat
  BY LenProperties
<1>2. \A v \in Seq(Node) : /\ Reverse(v) \in Seq(Node) /\ Len(Reverse(v)) = Len(v)
                           /\ \A i \in 1..Len(v) : Reverse(v)[i] = v[(Len(v) - i) + 1]
  <2> SUFFICES ASSUME NEW v \in Seq(Node)
               PROVE  /\ Reverse(v) \in Seq(Node) /\ Len(Reverse(v)) = Len(v)
                      /\ \A i \in 1..Len(v) : Reverse(v)[i] = v[(Len(v) - i) + 1]
    OBVIOUS
  <2>1. Len(v) \in Nat /\ \A i \in 1..Len(v) : v[i] \in Node
    BY LenProperties, ElementOfSeq
  <2>2. \A i \in 1..Len(v) : (Len(v) - i) + 1 \in 1..Len(v)
    BY <2>1
  <2>3. Reverse(v) \in [1..Len(v) -> Node]
    BY <2>1, <2>2 DEF Reverse
  <2>4. Reverse(v) \in Seq(Node)
    BY <2>1, <2>3, SeqDef
  <2>5. DOMAIN Reverse(v) = 1..Len(v)
    BY DEF Reverse
  <2>6. Len(Reverse(v)) = Len(v)
    BY <2>1, <2>4, <2>5, LenProperties
  <2> QED BY <2>4, <2>6 DEF Reverse
<1>3. /\ a \in Seq(Node) /\ Len(a) = Len(s) /\ \A i \in 1..Len(s) : a[i] = s[(Len(s) - i) + 1]
      /\ b \in Seq(Node) /\ Len(b) = Len(t) /\ \A i \in 1..Len(t) : b[i] = t[(Len(t) - i) + 1]
  BY <1>2
<1>4. IsSuffix(s, t) <=> Len(s) <= Len(t) /\ SubSeq(a, 1, Len(s)) = SubSeq(b, 1, Len(s))
  BY <1>3 DEF IsSuffix, IsPrefix
<1> HIDE DEF a, b
<1> SUFFICES ASSUME Len(s) <= Len(t)
             PROVE  SubSeq(a, 1, Len(s)) = SubSeq(b, 1, Len(s)) <=> \A k \in 1..Len(s) : s[k] = t[k + D]
  BY <1>4
<1>5. ASSUME NEW v \in Seq(Node), Len(s) <= Len(v)
      PROVE  /\ SubSeq(v, 1, Len(s)) \in Seq(Node) /\ Len(SubSeq(v, 1, Len(s))) = Len(s)
             /\ \A i \in 1..Len(s) : SubSeq(v, 1, Len(s))[i] = v[i]
  <2>1. Len(v) \in Nat /\ \A i \in 1..Len(s) : v[i] \in Node
    BY <1>1, <1>5, LenProperties, ElementOfSeq
  <2>2. 1 \in Int /\ Len(s) \in Int /\ (1 <= Len(s) => (Len(s) - 1) + 1 = Len(s)) /\ (~(1 <= Len(s)) => Len(s) = 0)
        /\ \A i \in 1..Len(s) : i \in 1..((Len(s) - 1) + 1) /\ (1 + i) - 1 = i
    BY <1>1
  <2>3. /\ SubSeq(v, 1, Len(s)) \in Seq(Node)
        /\ Len(SubSeq(v, 1, Len(s))) = IF 1 <= Len(s) THEN (Len(s) - 1) + 1 ELSE 0
        /\ \A i \in 1..((Len(s) - 1) + 1) : SubSeq(v, 1, Len(s))[i] = v[(1 + i) - 1]
    BY <2>1, <2>2, SubSeqProperties
  <2> QED BY <2>2, <2>3
<1>6. SubSeq(a, 1, Len(s)) = SubSeq(b, 1, Len(s)) <=> \A i \in 1..Len(s) : a[i] = b[i]
  <2> DEFINE x == SubSeq(a, 1, Len(s))
             y == SubSeq(b, 1, Len(s))
  <2>1. /\ x \in Seq(Node) /\ Len(x) = Len(s) /\ \A i \in 1..Len(s) : x[i] = a[i]
        /\ y \in Seq(Node) /\ Len(y) = Len(s) /\ \A i \in 1..Len(s) : y[i] = b[i]
    BY <1>1, <1>3, <1>5
  <2> HIDE DEF x, y
  <2>2. (\A i \in 1..Len(s) : x[i] = y[i]) => x = y
    BY <2>1, SeqEqual
  <2>3. x = y <=> \A i \in 1..Len(s) : a[i] = b[i]
    BY <2>1, <2>2
  <2> QED BY <2>3 DEF x, y
<1>7. (\A i \in 1..Len(s) : a[i] = b[i]) <=> \A k \in 1..Len(s) : s[k] = t[k + D]
  <2>1. ASSUME NEW i \in 1..Len(s)
        PROVE  /\ (Len(s) - i) + 1 \in 1..Len(s)
               /\ a[i] = s[(Len(s) - i) + 1] /\ b[i] = t[((Len(s) - i) + 1) + D]
               /\ (Len(s) - ((Len(s) - i) + 1)) + 1 = i
    <3>1. /\ i \in 1..Len(t) /\ (Len(s) - i) + 1 \in 1..Len(s)
          /\ (Len(t) - i) + 1 = ((Len(s) - i) + 1) + D
          /\ (Len(s) - ((Len(s) - i) + 1)) + 1 = i
      BY <1>1
    <3> HIDE DEF D
    <3> QED BY <1>3, <3>1
  <2> HIDE DEF D
  <2>2. ASSUME \A i \in 1..Len(s) : a[i] = b[i], NEW k \in 1..Len(s) PROVE s[k] = t[k + D]
    <3> DEFINE i == (Len(s) - k) + 1
    <3>1. i \in 1..Len(s) /\ (Len(s) - i) + 1 = k
      BY <2>1
    <3> HIDE DEF i
    <3> QED BY <2>1, <2>2, <3>1
  <2> QED BY <2>1, <2>2
<1> QED BY <1>6, <1>7

\* A path is inside itself,
LEMMA SuffixOfItself ==
  ASSUME NEW s \in Seq(Node)
  PROVE  IsSuffix(s, s)
<1>1. Len(s) \in Nat /\ \A k \in 1..Len(s) : k + (Len(s) - Len(s)) = k
  BY LenProperties
<1> QED BY <1>1, SuffixIs

\* and being inside is transitive.
LEMMA SuffixOfSuffix ==
  ASSUME NEW s \in Seq(Node), NEW t \in Seq(Node), NEW v \in Seq(Node), IsSuffix(s, t), IsSuffix(t, v)
  PROVE  IsSuffix(s, v)
<1>1. Len(s) \in Nat /\ Len(t) \in Nat /\ Len(v) \in Nat
  BY LenProperties
<1>2. /\ Len(s) <= Len(t) /\ \A k \in 1..Len(s) : s[k] = t[k + (Len(t) - Len(s))]
      /\ Len(t) <= Len(v) /\ \A k \in 1..Len(t) : t[k] = v[k + (Len(v) - Len(t))]
  BY SuffixIs
<1>3. ASSUME NEW k \in 1..Len(s) PROVE s[k] = v[k + (Len(v) - Len(s))]
  <2> DEFINE j == k + (Len(t) - Len(s))
  <2>1. j \in 1..Len(t) /\ j + (Len(v) - Len(t)) = k + (Len(v) - Len(s))
    BY <1>1, <1>2
  <2> HIDE DEF j
  <2>2. s[k] = t[j] /\ t[j] = v[j + (Len(v) - Len(t))]
    BY <1>2, <2>1 DEF j
  <2> QED BY <2>1, <2>2
<1>4. Len(s) <= Len(v)
  BY <1>1, <1>2
<1> QED BY <1>3, <1>4, SuffixIs

\* The path of a folder is a suffix of the paths of what it holds.
LEMMA SuffixOfChild ==
  ASSUME NEW s \in Seq(Node), NEW n \in Node
  PROVE  /\ <<n>> \o s \in Seq(Node) /\ Len(<<n>> \o s) = Len(s) + 1
         /\ (<<n>> \o s)[1] = n /\ Head(<<n>> \o s) = n
         /\ \A k \in 1..Len(s) : (<<n>> \o s)[k + 1] = s[k]
         /\ IsSuffix(s, <<n>> \o s)
<1> DEFINE v == <<n>> \o s
<1>1. Len(s) \in Nat /\ <<n>> \in Seq(Node) /\ Len(<<n>>) = 1 /\ <<n>>[1] = n
  BY LenProperties
<1>2. /\ v \in Seq(Node) /\ Len(v) = 1 + Len(s)
      /\ \A i \in 1..(1 + Len(s)) : v[i] = IF i <= 1 THEN <<n>>[i] ELSE s[i - 1]
  BY <1>1, ConcatProperties
<1>3. v[1] = n
  <2>1. 1 \in 1..(1 + Len(s))
    BY <1>1
  <2> QED BY <1>1, <1>2, <2>1
<1>4. ASSUME NEW k \in 1..Len(s) PROVE v[k + 1] = s[k]
  <2>1. k + 1 \in 1..(1 + Len(s)) /\ ~(k + 1 <= 1) /\ (k + 1) - 1 = k
    BY <1>1
  <2> QED BY <1>2, <2>1
<1> HIDE DEF v
<1>5. Head(v) = n
  <2>1. v # <<>>
    BY <1>1, <1>2, EmptySeq
  <2> QED BY <1>2, <1>3, <2>1
<1>6. IsSuffix(s, v)
  <2>1. Len(s) <= Len(v) /\ \A k \in 1..Len(s) : k + (Len(v) - Len(s)) = k + 1
    BY <1>1, <1>2
  <2> QED BY <1>2, <1>4, <2>1, SuffixIs
<1>7. Len(v) = Len(s) + 1
  BY <1>1, <1>2
<1> QED BY <1>2, <1>3, <1>4, <1>5, <1>6, <1>7 DEF v

\* A proper suffix is one of the tail.
LEMMA SuffixOfTail ==
  ASSUME NEW s \in Seq(Node), NEW t \in Seq(Node), IsSuffix(s, t), s # t, s # <<>>
  PROVE  /\ Tail(t) \in Seq(Node) /\ Tail(t) # <<>> /\ IsSuffix(s, Tail(t))
         /\ t # <<>> /\ Len(Tail(t)) = Len(t) - 1 /\ Head(Tail(t)) = t[2]
         /\ \A k \in 1..Len(Tail(t)) : Tail(t)[k] = t[k + 1]
<1>1. Len(s) \in Nat /\ Len(t) \in Nat /\ Len(s) >= 1
  BY LenProperties, EmptySeq
<1>2. Len(s) <= Len(t) /\ \A k \in 1..Len(s) : s[k] = t[k + (Len(t) - Len(s))]
  BY SuffixIs
<1>3. Len(s) # Len(t)
  <2> SUFFICES ASSUME Len(s) = Len(t) PROVE s = t
    OBVIOUS
  <2>1. \A k \in 1..Len(s) : k + (Len(t) - Len(s)) = k
    BY <1>1
  <2> QED BY <1>2, <2>1, SeqEqual
<1>4. t # <<>>
  BY <1>1, <1>2, EmptySeq
<1> DEFINE v == Tail(t)
<1>5. v \in Seq(Node) /\ Len(v) = Len(t) - 1 /\ \A k \in 1..Len(v) : v[k] = t[k + 1]
  BY <1>4, HeadTailProperties
<1> HIDE DEF v
<1>6. Len(s) <= Len(v) /\ Len(v) >= 1
  BY <1>1, <1>2, <1>3, <1>5
<1>7. ASSUME NEW k \in 1..Len(s) PROVE s[k] = v[k + (Len(v) - Len(s))]
  <2> DEFINE j == k + (Len(v) - Len(s))
  <2>1. j \in 1..Len(v) /\ j + 1 = k + (Len(t) - Len(s))
    BY <1>1, <1>5, <1>6
  <2> HIDE DEF j
  <2>2. v[j] = t[j + 1]
    BY <1>5, <2>1
  <2> QED BY <1>2, <2>1, <2>2 DEF j
<1>8. v # <<>>
  BY <1>5, <1>6, EmptySeq
<1>9. Head(v) = t[2]
  <2>1. 1 \in 1..Len(v)
    BY <1>1, <1>5, <1>6
  <2>2. v[1] = t[1 + 1]
    BY <1>5, <2>1
  <2> QED BY <1>5, <1>8, <2>2
<1> QED BY <1>4, <1>5, <1>6, <1>7, <1>8, <1>9, SuffixIs DEF v

\* A suffix of a chain is one.
LEMMA SuffixOfChain ==
  ASSUME NEW t \in Trees, NEW p, Chain(t, p), NEW s \in Seq(Node), s # <<>>, IsSuffix(s, p)
  PROVE  Chain(t, s)
<1> DEFINE D == Len(p) - Len(s)
<1>1. /\ p \in Seq(Node) /\ Len(p) \in Nat
      /\ \A i \in 1..(Len(p) - 1) : t[p[i]] = p[i + 1]
      /\ t[p[Len(p)]] = Root
  BY ChainFacts
<1>2. Len(s) \in Nat /\ Len(s) >= 1
  BY LenProperties, EmptySeq
<1>3. Len(s) <= Len(p) /\ \A k \in 1..Len(s) : s[k] = p[k + D]
  BY <1>1, SuffixIs
<1>4. t[s[Len(s)]] = Root
  <2>1. Len(s) \in 1..Len(s) /\ Len(s) + D = Len(p)
    BY <1>1, <1>2
  <2> HIDE DEF D
  <2> QED BY <1>1, <1>3, <2>1
<1>5. ASSUME NEW i \in 1..(Len(s) - 1) PROVE t[s[i]] = s[i + 1]
  <2>1. i \in 1..Len(s) /\ i + 1 \in 1..Len(s) /\ i + D \in 1..(Len(p) - 1) /\ (i + 1) + D = (i + D) + 1
    BY <1>1, <1>2, <1>3
  <2> HIDE DEF D
  <2> QED BY <1>1, <1>3, <2>1
<1> QED BY <1>2, <1>4, <1>5 DEF Chain, Climb

\* A chain leads through the chain of every item it meets.
LEMMA ChainThrough ==
  ASSUME NEW t \in Trees, NEW p, Chain(t, p), NEW i \in 1..Len(p)
  PROVE  \E s \in Seq(Node) : Chain(t, s) /\ s[1] = p[i] /\ IsSuffix(s, p)
<1>1. p \in Seq(Node) /\ Len(p) \in Nat /\ \A j \in 1..Len(p) : p[j] \in Node
  BY ChainFacts
<1> DEFINE s == SubSeq(p, i, Len(p))
<1>2. /\ s \in Seq(Node)
      /\ Len(s) = IF i <= Len(p) THEN Len(p) - i + 1 ELSE 0
      /\ \A j \in 1..(Len(p) - i + 1) : s[j] = p[i + j - 1]
  <2>1. i \in Int /\ Len(p) \in Int /\ \A j \in i..Len(p) : p[j] \in Node
    BY <1>1
  <2> QED BY <2>1, SubSeqProperties
<1> HIDE DEF s
<1>3. Len(s) = Len(p) - i + 1 /\ Len(s) \in Nat /\ Len(s) >= 1 /\ Len(s) <= Len(p)
  BY <1>1, <1>2
<1>4. IsSuffix(s, p)
  <2>1. \A k \in 1..Len(s) : k \in 1..(Len(p) - i + 1) /\ i + k - 1 = k + (Len(p) - Len(s))
    BY <1>1, <1>3
  <2>2. \A k \in 1..Len(s) : s[k] = p[k + (Len(p) - Len(s))]
    BY <1>2, <2>1
  <2> QED BY <1>1, <1>2, <1>3, <2>2, SuffixIs
<1>5. s[1] = p[i]
  <2>1. 1 \in 1..(Len(p) - i + 1) /\ i + 1 - 1 = i
    BY <1>1
  <2> QED BY <1>2, <2>1
<1>6. s # <<>>
  BY <1>3, EmptySeq
<1> QED BY <1>2, <1>4, <1>5, <1>6, SuffixOfChain
-----------------------------------------------------------------------------
\* What Min and Max of a set of numbers are.
LEMMA LeastOf ==
  ASSUME NEW S \in SUBSET Nat, S # {}
  PROVE  Min(S) \in S /\ \A x \in S : Min(S) <= x
<1>1. \E m \in S : \A x \in S : m <= x
  BY LeastNumber
<1> QED BY <1>1 DEF Min

\* The greatest number of a set that has a bound.
LEMMA GreatestOf ==
  ASSUME NEW N \in Nat, NEW S \in SUBSET (0..N), S # {}
  PROVE  Max(S) \in S /\ \A x \in S : Max(S) >= x
<1> DEFINE T == {k \in Nat : \E x \in S : k = N - x}
<1>1. T \in SUBSET Nat /\ T # {}
  <2>1. PICK x \in S : TRUE
    OBVIOUS
  <2>2. x \in 0..N /\ N - x \in Nat
    OBVIOUS
  <2>3. N - x \in T
    BY <2>2
  <2> QED BY <2>3
<1>2. PICK m \in T : \A k \in T : m <= k
  BY <1>1, LeastNumber
<1>3. PICK x \in S : m = N - x
  BY <1>2
<1>4. ASSUME NEW y \in S PROVE x >= y
  <2>1. N - y \in T
    OBVIOUS
  <2>2. m <= N - y
    BY <1>2, <2>1
  <2> QED BY <1>3, <2>2
<1> QED BY <1>4 DEF Max

\* A set of items is finite, and no larger than all of them.
LEMMA NodesAreFinite ==
  ASSUME NEW S \in SUBSET Node
  PROVE  IsFiniteSet(S) /\ Cardinality(S) \in 0..Nodes
<1>1. Nodes \in Nat
  OBVIOUS
<1>2. IsFiniteSet(Node) /\ Cardinality(Node) = Nodes
  <2>1. 1 \in Int /\ Nodes \in Int /\ (1 > Nodes => Nodes = 0) /\ Nodes - 1 + 1 = Nodes
    BY <1>1
  <2> QED BY <2>1, FS_Interval DEF Node
<1>3. IsFiniteSet(S) /\ Cardinality(S) <= Nodes
  BY <1>2, FS_Subset
<1>4. Cardinality(S) \in Nat
  BY <1>3, FS_CardinalityType
<1> QED BY <1>1, <1>3, <1>4

\* The path of an item, or of the root, leads to it.
LEMMA NodeAtPath ==
  ASSUME NEW t \in Trees, NEW n \in Node \cup {Root}
  PROVE  PathOf(t, n) \in Seq(Node) /\ NodeAt(PathOf(t, n)) = n
<1>1. CASE n = Root
  BY <1>1, EmptySeq DEF PathOf, NodeAt
<1>2. CASE n \in Node
  BY <1>2, PathIsChain DEF NodeAt
<1> QED BY <1>1, <1>2
-----------------------------------------------------------------------------
(***************************************************************************)
(* Types.                                                                  *)
(***************************************************************************)
Streams == [open : BOOLEAN, of : Folder \cup {Root}, last : 0..Nodes]
Dirs == [open : BOOLEAN, path : Seq(Node), pos : 0..Nodes]
Listings == [phase : {"off", "asking", "complete"}, path : Seq(Node), cursor : 0..Nodes,
             seen : SUBSET Node, changed : BOOLEAN]
Purges == [phase : {"off", "asking", "complete"}, path : Seq(Node)]
Works == [slot : Slot, cur : Seq(Node), budget : 0..Budget]

\* What a listing lists is a folder.
ListsFolders == \A l \in Lister : NodeAt(listing[l].path) \in Folder \cup {Root}

TypeInv == TypeOK /\ ListsFolders

\* What is closed, over or idle has its type.
LEMMA Nothing ==
  /\ NoStream \in Streams /\ NoDir \in Dirs /\ NoListing \in Listings /\ NoPurge \in Purges /\ NoWork \in Works
  /\ NodeAt(NoListing.path) = Root
  /\ NoWork.cur = <<>>
<1>1. <<>> \in Seq(Node) /\ Nodes \in Nat /\ 0 \in 0..Nodes /\ Budget \in Nat /\ 0 \in 0..Budget
  BY EmptySeq
<1>2. (CHOOSE s \in Slot : TRUE) \in Slot
  OBVIOUS
<1> QED BY <1>1, <1>2 DEF NoStream, NoDir, NoListing, NoPurge, NoWork, Streams, Dirs, Listings, Purges, Works, NodeAt

\* The type invariant, by the names of its sets.
LEMMA TypesAre ==
  TypeOK <=> /\ tree \in Trees /\ stream \in Streams /\ dir \in [Slot -> Dirs]
             /\ listing \in [Lister -> Listings] /\ purging \in [Slot -> Purges] /\ work \in Works
             /\ moves \in 0..MaxMoves /\ faults \in 0..MaxFaults
BY DEF TypeOK, Trees, Streams, Dirs, Listings, Purges, Works

\* Every variable has its type when the agents start.
LEMMA TypeInit == Init => TypeInv
<1> SUFFICES ASSUME Init PROVE TypeInv
  OBVIOUS
<1>1. MaxMoves \in Nat /\ MaxFaults \in Nat /\ 0 \in 0..MaxMoves /\ 0 \in 0..MaxFaults
  OBVIOUS
<1>2. TypeOK
  BY <1>1, Nothing, TypesAre DEF Init, Trees
<1>3. ListsFolders
  BY Nothing DEF Init, ListsFolders
<1> QED BY <1>2, <1>3 DEF TypeInv

\* A card that becomes t keeps what listings ask and have been told.
LEMMA BecomesIs ==
  ASSUME TypeOK, NEW t, Becomes(t)
  PROVE  /\ tree' = t /\ listing' \in [Lister -> Listings]
         /\ \A l \in Lister :
              /\ listing'[l].phase = listing[l].phase /\ listing'[l].path = listing[l].path
              /\ listing'[l].cursor = listing[l].cursor /\ listing'[l].seen = listing[l].seen
              /\ listing[l].changed => listing'[l].changed
              /\ listing[l].phase = "asking" /\ ~listing'[l].changed =>
                   /\ Present(t, listing[l].path) = Present(tree, listing[l].path)
                   /\ Children(t, NodeAt(listing[l].path)) = Children(tree, NodeAt(listing[l].path))
<1>1. listing \in [Lister -> Listings]
  BY TypesAre
<1>2. ASSUME NEW l \in Lister
      PROVE  /\ listing'[l] \in Listings
             /\ listing'[l].phase = listing[l].phase /\ listing'[l].path = listing[l].path
             /\ listing'[l].cursor = listing[l].cursor /\ listing'[l].seen = listing[l].seen
             /\ listing[l].changed => listing'[l].changed
             /\ listing[l].phase = "asking" /\ ~listing'[l].changed =>
                  /\ Present(t, listing[l].path) = Present(tree, listing[l].path)
                  /\ Children(t, NodeAt(listing[l].path)) = Children(tree, NodeAt(listing[l].path))
  <2> DEFINE p == listing[l].path
             same == Present(t, p) = Present(tree, p) /\ Children(t, NodeAt(p)) = Children(tree, NodeAt(p))
  <2>1. listing'[l] = [listing[l] EXCEPT !.changed = @ \/ (listing[l].phase = "asking" /\ ~same)]
    BY DEF Becomes
  <2>2. listing[l] \in Listings
    BY <1>1
  <2>3. /\ listing'[l] \in Listings
        /\ listing'[l].phase = listing[l].phase /\ listing'[l].path = listing[l].path
        /\ listing'[l].cursor = listing[l].cursor /\ listing'[l].seen = listing[l].seen
        /\ listing'[l].changed = (listing[l].changed \/ (listing[l].phase = "asking" /\ ~same))
    <3> HIDE DEF same
    <3> QED BY <2>1, <2>2 DEF Listings
  <2> QED BY <2>3
<1>3. listing' = [l \in Lister |-> listing'[l]]
  BY DEF Becomes
<1>4. tree' = t
  BY DEF Becomes
<1> HIDE DEF Becomes
<1>5. listing' \in [Lister -> Listings]
  BY <1>2, <1>3
<1> QED BY <1>2, <1>4, <1>5

\* A card that becomes t keeps the types of the tree and of the listings.
LEMMA BecomesKeepsTypes ==
  ASSUME TypeInv, NEW t \in Trees, Becomes(t)
  PROVE  tree' \in Trees /\ listing' \in [Lister -> Listings] /\ ListsFolders'
BY BecomesIs DEF TypeInv, ListsFolders

\* Names of a folder.
LEMMA ReadsAre ==
  ASSUME NEW h, NEW d, NEW read \in Reads(h, d)
  PROVE  read \in SUBSET Node
BY DEF Reads, Read, Left, Children

\* A page keeps the types of the handle, the folders kept open and the listings.
LEMMA PageKeepsTypes ==
  ASSUME TypeInv, NEW l \in Lister, NEW h, h \in Streams, NEW pos \in 0..Nodes, Page(l, h, pos)
  PROVE  /\ stream' \in Streams /\ dir' \in [Slot -> Dirs]
         /\ listing' \in [Lister -> Listings] /\ ListsFolders'
<1> DEFINE s == SlotOf[l]
           p == listing[l].path
           d == NodeAt(p)
           after(read) == Min({pos + Cardinality(read), Nodes})
           seen(read) == listing[l].seen \cup {n \in read : Shown(d, n)}
<1>1. s \in Slot /\ dir \in [Slot -> Dirs] /\ listing \in [Lister -> Listings] /\ Nodes \in Nat
  BY TypesAre DEF TypeInv
<1>2. PICK read, end :
        /\ read \in Reads(h, d)
        /\ listing' = [listing EXCEPT ![l] =
             IF end THEN [NoListing EXCEPT !.phase = "complete", !.cursor = after(read), !.seen = seen(read)]
             ELSE [@ EXCEPT !.cursor = after(read), !.seen = seen(read)]]
        /\ dir' = [dir EXCEPT ![s] = IF end THEN NoDir ELSE [open |-> TRUE, path |-> p, pos |-> after(read)]]
        /\ stream' = IF end \/ ~h.open THEN NoStream ELSE [h EXCEPT !.last = Max(read \cup {@})]
  BY DEF Page
<1>3. after(read) \in 0..Nodes
  <2>1. Cardinality(read) \in 0..Nodes
    BY <1>2, ReadsAre, NodesAreFinite
  <2>2. pos + Cardinality(read) \in Nat
    BY <1>1, <2>1
  <2> DEFINE two == {pos + Cardinality(read), Nodes}
  <2>3. two \in SUBSET Nat /\ two # {} /\ Nodes \in two
    BY <1>1, <2>2
  <2> HIDE DEF two
  <2>4. Min(two) \in two /\ Min(two) <= Nodes
    BY <2>3, LeastOf
  <2>5. Min(two) \in Nat
    BY <2>3, <2>4
  <2>6. Min(two) \in 0..Nodes
    BY <1>1, <2>4, <2>5
  <2> QED BY <2>6 DEF two
<1>4. Max(read \cup {h.last}) \in 0..Nodes
  <2>1. h.last \in 0..Nodes /\ read \cup {h.last} \in SUBSET (0..Nodes)
    BY <1>2, ReadsAre DEF Streams, Node
  <2>2. Max(read \cup {h.last}) \in read \cup {h.last}
    BY <1>1, <2>1, GreatestOf
  <2> QED BY <2>1, <2>2
<1>5. seen(read) \in SUBSET Node
  BY <1>1, <1>2, ReadsAre DEF Listings
<1> HIDE DEF after, seen
<1>6. listing[l] \in Listings /\ p \in Seq(Node)
  BY <1>1 DEF Listings
<1>7. stream' \in Streams
  BY <1>2, <1>4, Nothing DEF Streams
<1>8. dir' \in [Slot -> Dirs]
  BY <1>1, <1>2, <1>3, <1>6, Nothing DEF Dirs
<1>9. /\ [NoListing EXCEPT !.phase = "complete", !.cursor = after(read), !.seen = seen(read)] \in Listings
      /\ [listing[l] EXCEPT !.cursor = after(read), !.seen = seen(read)] \in Listings
      /\ [NoListing EXCEPT !.phase = "complete", !.cursor = after(read), !.seen = seen(read)].path = NoListing.path
      /\ [listing[l] EXCEPT !.cursor = after(read), !.seen = seen(read)].path = p
  BY <1>3, <1>5, <1>6, Nothing DEF Listings, NoListing
<1>10. listing' \in [Lister -> Listings]
  BY <1>1, <1>2, <1>9
<1>11. \A k \in Lister : listing'[k].path = listing[k].path \/ listing'[k].path = NoListing.path
  BY <1>1, <1>2, <1>9
<1>12. ListsFolders'
  BY <1>11, Nothing DEF TypeInv, ListsFolders
<1> QED BY <1>7, <1>8, <1>10, <1>12
-----------------------------------------------------------------------------
(***************************************************************************)
(* The tree of the card, and the purge that runs in it.                    *)
(***************************************************************************)
TreeInv == Rooted(tree) /\ tree[Trash] \in {Root, Gone}

\* The folder a purge has come to is in the one its client asked to purge, and that
\* one is in the trash.
WorkInv ==
  ~Idle => LET p == purging[work.slot].path
           IN  /\ purging[work.slot].phase = "asking"
               /\ Inside(p, TrashPath) /\ Inside(work.cur, p) /\ Chain(tree, work.cur)

CardInv == TypeInv /\ TreeInv /\ WorkInv

\* What a step may destroy, and what it may call purged.
DestroysAsked ==
  \A n \in Node : tree[n] # Gone /\ tree'[n] = Gone =>
    LET p == PathOf(tree, n)
    IN  Inside(p, TrashPath) /\ \E s \in Slot : purging[s].phase = "asking" /\ Inside(p, purging[s].path)
CompletesEmpty ==
  \A s \in Slot : purging[s].phase = "asking" /\ purging'[s].phase = "complete" =>
    LET p == purging[s].path
    IN  IF p = TrashPath THEN Children(tree', Trash) = {} ELSE tree'[NodeAt(p)] = Gone

\* The trash path has one item.
LEMMA TrashIsPath == TrashPath \in Seq(Node) /\ TrashPath # <<>> /\ Len(TrashPath) = 1 /\ TrashPath[1] = Trash
BY NodesAreNumbers DEF TrashPath

\* Where the trash is in the root, its path is the trash path.
LEMMA TrashChain ==
  ASSUME NEW t \in Trees, t[Trash] = Root
  PROVE  Chain(t, TrashPath) /\ PathOf(t, Trash) = TrashPath
<1>1. \A i \in 1..(1 - 1) : FALSE
  OBVIOUS
<1>2. Chain(t, TrashPath)
  BY <1>1, TrashIsPath DEF Chain, Climb
<1> QED BY <1>2, TrashIsPath, ChainIsPath

\* An item of the path of d is one d is inside of.
LEMMA MeetsSwallows ==
  ASSUME NEW t \in Trees, NEW p, Chain(t, p), NEW i \in 1..Len(p), NEW n, p[i] = n
  PROVE  IsSuffix(PathOf(t, n), p)
<1>1. PICK s \in Seq(Node) : Chain(t, s) /\ s[1] = p[i] /\ IsSuffix(s, p)
  BY ChainThrough
<1>2. PathOf(t, s[1]) = s
  BY <1>1, ChainIsPath
<1> QED BY <1>1, <1>2

\* The folder something moves into leads to the root.
LEMMA PlaceLeads ==
  ASSUME NEW t \in Trees, NEW d \in Folder \cup {Root}, Present(t, PathOf(t, d)), NEW n \in Node,
         t[n] = Gone \/ ~IsSuffix(PathOf(t, n), PathOf(t, d))
  PROVE  LeadsWithout(t, PathOf(t, d), d, n)
<1>1. CASE d = Root
  <2>1. PathOf(t, d) = <<>> /\ <<>> \in Seq(Node) /\ 1..Len(<<>>) = {}
    BY <1>1, EmptySeq DEF PathOf
  <2> QED BY <1>1, <2>1 DEF LeadsWithout
<1>2. CASE d \in Folder
  <2> DEFINE q == PathOf(t, d)
  <2>1. q \in Seq(Node) /\ q # <<>> /\ Chain(t, q) /\ q[1] = d
    BY <1>2, PathIsChain, NodesAreNumbers
  <2> HIDE DEF q
  <2>2. ASSUME NEW j \in 1..Len(q) PROVE q[j] # n
    <3>1. t[q[j]] # Gone
      BY <2>1, ChainFacts
    <3>2. q[j] = n => IsSuffix(PathOf(t, n), q)
      BY <2>1, MeetsSwallows
    <3> QED BY <3>1, <3>2 DEF q
  <2>3. LeadsWithout(t, q, d, n)
    BY <2>1, <2>2 DEF LeadsWithout
  <2> QED BY <2>3 DEF q
<1> QED BY <1>1, <1>2

\* A card whose tree becomes t, while no purge runs, and none is over.
LEMMA MoveKeepsCard ==
  ASSUME CardInv, Move, NEW t \in Trees, Rooted(t), t[Trash] \in {Root, Gone}, Becomes(t),
         \A m \in Node : tree[m] # Gone => t[m] # Gone, faults' \in 0..MaxFaults
  PROVE  CardInv' /\ DestroysAsked /\ CompletesEmpty
<1>1. /\ Idle /\ moves < MaxMoves /\ moves' = moves + 1
      /\ stream' = stream /\ dir' = dir /\ purging' = purging /\ work' = work
  BY DEF Move
<1>2. tree' = t
  BY BecomesIs DEF CardInv, TypeInv
<1>3. listing' \in [Lister -> Listings] /\ ListsFolders'
  BY BecomesKeepsTypes DEF CardInv
<1>4. moves' \in 0..MaxMoves
  BY <1>1, TypesAre DEF CardInv, TypeInv
<1>5. TypeInv'
  BY <1>1, <1>2, <1>3, <1>4, TypesAre DEF CardInv, TypeInv, TypeOK, Trees, Streams, Dirs, Listings, Purges, Works
<1>6. WorkInv'
  BY <1>1 DEF WorkInv, Idle
<1>7. DestroysAsked
  BY <1>2 DEF DestroysAsked
<1>8. CompletesEmpty
  BY <1>1 DEF CompletesEmpty
<1> QED BY <1>2, <1>5, <1>6, <1>7, <1>8 DEF CardInv, TreeInv

\* A call that fails is counted.
LEMMA FaultsBounded ==
  ASSUME CardInv, NEW n \in {0, 1}, Failing(n)
  PROVE  faults' \in 0..MaxFaults
<1>1. faults \in 0..MaxFaults /\ MaxFaults \in Nat
  BY TypesAre DEF CardInv, TypeInv
<1> QED BY <1>1 DEF Failing

\* FS_MKDIR: the new folder leads where its folder does.
LEMMA MkdirKeepsCard ==
  ASSUME CardInv, NEW n \in Folder, NEW d \in Folder \cup {Root}, Mkdir(n, d)
  PROVE  CardInv' /\ DestroysAsked /\ CompletesEmpty
<1> DEFINE t == [tree EXCEPT ![n] = d]
<1>1. /\ Move /\ n # Trash /\ tree[n] = Gone /\ Present(tree, PathOf(tree, d))
      /\ Failing(0) /\ Becomes(t)
  BY DEF Mkdir
<1>2. tree \in Trees /\ Rooted(tree) /\ tree[Trash] \in {Root, Gone} /\ n \in Node
  BY TypesAre, NodesAreNumbers DEF CardInv, TypeInv, TreeInv
<1>3. t \in Trees /\ t[Trash] = tree[Trash] /\ \A m \in Node : tree[m] # Gone => t[m] # Gone
  BY <1>1, <1>2, NodesAreNumbers DEF Trees
<1>4. LeadsWithout(tree, PathOf(tree, d), d, n)
  BY <1>1, <1>2, PlaceLeads
<1>5. Rooted(t)
  BY <1>2, <1>4, MoveKeepsRooted
<1>6. faults' \in 0..MaxFaults
  BY <1>1, FaultsBounded
<1> HIDE DEF t
<1> QED BY <1>1, <1>2, <1>3, <1>5, <1>6, MoveKeepsCard

\* FS_RENAME: what moves never leads to the folder it moves into.
LEMMA RenameKeepsCard ==
  ASSUME CardInv, NEW n \in Node, NEW d \in Folder \cup {Root}, Rename(n, d)
  PROVE  CardInv' /\ DestroysAsked /\ CompletesEmpty
<1> DEFINE t == [tree EXCEPT ![n] = d]
<1>1. /\ Move /\ n # Trash /\ Present(tree, PathOf(tree, d))
      /\ ~IsSuffix(PathOf(tree, n), PathOf(tree, d))
      /\ Failing(0) /\ Becomes(t)
  BY DEF Rename, Swallows, Inside
<1>2. tree \in Trees /\ Rooted(tree) /\ tree[Trash] \in {Root, Gone}
  BY TypesAre DEF CardInv, TypeInv, TreeInv
<1>3. t \in Trees /\ t[Trash] = tree[Trash] /\ \A m \in Node : tree[m] # Gone => t[m] # Gone
  BY <1>1, <1>2, NodesAreNumbers DEF Trees
<1>4. LeadsWithout(tree, PathOf(tree, d), d, n)
  BY <1>1, <1>2, PlaceLeads
<1>5. Rooted(t)
  BY <1>2, <1>4, MoveKeepsRooted
<1>6. faults' \in 0..MaxFaults
  BY <1>1, FaultsBounded
<1> HIDE DEF t
<1> QED BY <1>1, <1>2, <1>3, <1>5, <1>6, MoveKeepsCard

\* FS_DELETE: into the trash, that is in the root by then.
LEMMA DeleteKeepsCard ==
  ASSUME CardInv, NEW n \in Node, Delete(n)
  PROVE  CardInv' /\ DestroysAsked /\ CompletesEmpty
<1> DEFINE t == [tree EXCEPT ![Trash] = Root]
           u == [tree EXCEPT ![Trash] = Root, ![n] = Trash]
<1>1. /\ Move /\ Present(tree, PathOf(tree, n)) /\ ~Inside(PathOf(tree, n), TrashPath)
      /\ (Failing(0) /\ Becomes(u)) \/ (Failing(1) /\ Becomes(t))
  BY DEF Delete
<1>2. /\ tree \in Trees /\ Rooted(tree) /\ tree[Trash] \in {Root, Gone}
      /\ Trash \in Node /\ Trash \in Folder /\ Root # Gone /\ Trash # Gone /\ Trash # Root
  BY TypesAre, NodesAreNumbers DEF CardInv, TypeInv, TreeInv
<1>3. n # Trash
  <2> SUFFICES ASSUME n = Trash PROVE FALSE
    OBVIOUS
  <2>1. Chain(tree, PathOf(tree, n)) /\ PathOf(tree, n)[1] = n
    BY <1>1, <1>2, PathIsChain
  <2>2. tree[Trash] # Gone
    <3>1. 1 \in 1..Len(PathOf(tree, n))
      BY <1>2, <2>1, ChainFacts
    <3> QED BY <1>2, <2>1, <3>1, ChainFacts
  <2>3. PathOf(tree, n) = TrashPath
    BY <1>2, <2>2, TrashChain
  <2> QED BY <1>1, <2>3, TrashIsPath, SuffixOfItself DEF Inside
<1>4. /\ t \in Trees /\ t[Trash] = Root /\ \A m \in Node : tree[m] # Gone => t[m] # Gone
      /\ u \in Trees /\ u[Trash] = Root /\ \A m \in Node : tree[m] # Gone => u[m] # Gone
  BY <1>2, <1>3 DEF Trees
<1>5. u = [t EXCEPT ![n] = Trash]
  BY <1>2, <1>3 DEF Trees
<1>6. Rooted(t)
  <2>1. LeadsWithout(tree, <<>>, Root, Trash)
    <3>1. <<>> \in Seq(Node) /\ 1..Len(<<>>) = {}
      BY EmptySeq
    <3> QED BY <3>1 DEF LeadsWithout
  <2> QED BY <1>2, <2>1, MoveKeepsRooted
<1> HIDE DEF t, u
<1>7. Rooted(u)
  <2>1. LeadsWithout(t, TrashPath, Trash, n)
    BY <1>3, <1>4, TrashIsPath, TrashChain DEF LeadsWithout
  <2> QED BY <1>4, <1>5, <1>6, <2>1, MoveKeepsRooted
<1>8. faults' \in 0..MaxFaults
  BY <1>1, FaultsBounded
<1> QED BY <1>1, <1>4, <1>6, <1>7, <1>8, MoveKeepsCard
-----------------------------------------------------------------------------
(***************************************************************************)
(* FS_PURGE.                                                               *)
(***************************************************************************)

\* What Stop and Finish make of a purge.
LEMMA PurgeOut ==
  ASSUME TypeOK, NEW s \in Slot, Stop(s) \/ Finish(s)
  PROVE  /\ purging' \in [Slot -> Purges]
         /\ \A r \in Slot \ {s} : purging'[r] = purging[r]
         /\ Stop(s) => purging'[s].phase = "off"
         /\ Finish(s) => purging'[s].phase = "complete"
<1>1. purging \in [Slot -> Purges] /\ NoPurge \in Purges /\ [NoPurge EXCEPT !.phase = "complete"] \in Purges
  BY TypesAre, Nothing DEF NoPurge, Purges
<1> QED BY <1>1 DEF Stop, Finish, NoPurge

\* An item of which nothing is left, and the purge that asked for it.
LEMMA RemovalIsAsked ==
  ASSUME CardInv, NEW p, Chain(tree, p), Children(tree, p[1]) = {}, Inside(p, TrashPath),
         NEW s \in Slot, purging[s].phase = "asking", Inside(p, purging[s].path),
         Becomes([tree EXCEPT ![p[1]] = Gone])
  PROVE  /\ tree' \in Trees /\ TreeInv' /\ DestroysAsked
         /\ listing' \in [Lister -> Listings] /\ ListsFolders'
         /\ tree' = [tree EXCEPT ![p[1]] = Gone]
         /\ \A q : Chain(tree, q) /\ q[1] # p[1] => Chain(tree', q)
<1> DEFINE n == p[1]
           t == [tree EXCEPT ![n] = Gone]
<1>1. TypeOK /\ tree \in Trees /\ Rooted(tree) /\ tree[Trash] \in {Root, Gone} /\ n \in Node /\ PathOf(tree, n) = p
  BY TypesAre, ChainIsPath DEF CardInv, TypeInv, TreeInv
<1>2. t \in Trees /\ t[Trash] \in {Root, Gone} /\ \A m \in Node \ {n} : t[m] = tree[m]
  BY <1>1, NodesAreNumbers DEF Trees
<1>3. Rooted(t) /\ \A q : Chain(tree, q) /\ q[1] # n => Chain(t, q)
  BY <1>1, RemoveKeepsRooted
<1> HIDE DEF t
<1>4. tree' = t
  BY <1>1, BecomesIs DEF t
<1>5. listing' \in [Lister -> Listings] /\ ListsFolders'
  BY <1>2, BecomesKeepsTypes DEF CardInv, t
<1>6. DestroysAsked
  <2> SUFFICES ASSUME NEW m \in Node, tree[m] # Gone, tree'[m] = Gone
               PROVE  /\ Inside(PathOf(tree, m), TrashPath)
                      /\ \E r \in Slot : purging[r].phase = "asking" /\ Inside(PathOf(tree, m), purging[r].path)
    BY DEF DestroysAsked
  <2>1. m = n
    BY <1>2, <1>4
  <2> QED BY <1>1, <2>1
<1> QED BY <1>2, <1>3, <1>4, <1>5, <1>6 DEF TreeInv, t

\* FS_PURGE: refused, a file removed, or a folder begun.
LEMMA PurgeKeepsCard ==
  ASSUME CardInv, NEW s \in Slot, Purge(s)
  PROVE  CardInv' /\ DestroysAsked /\ CompletesEmpty
<1> DEFINE p == purging[s].path
           n == NodeAt(p)
<1>1. Idle /\ purging[s].phase = "asking" /\ stream' = stream /\ dir' = dir /\ moves' = moves
  BY DEF Purge
<1>2. faults' \in 0..MaxFaults
  BY FaultsBounded DEF Purge
<1>3. /\ TypeOK /\ ListsFolders /\ tree \in Trees /\ stream \in Streams /\ dir \in [Slot -> Dirs]
      /\ listing \in [Lister -> Listings] /\ purging \in [Slot -> Purges] /\ work \in Works /\ moves \in 0..MaxMoves
  BY TypesAre DEF CardInv, TypeInv
<1>4. p \in Seq(Node)
  BY <1>3 DEF Purges
<1>5. CASE Stop(s) /\ UNCHANGED <<tree, listing, work>>
  <2>1. /\ purging' \in [Slot -> Purges]
        /\ \A r \in Slot : purging'[r].phase # "complete" \/ purging'[r] = purging[r]
    BY <1>3, <1>5, PurgeOut
  <2>2. TypeInv'
    BY <1>1, <1>2, <1>3, <1>5, <2>1 DEF TypeInv, TypeOK, ListsFolders, Trees, Streams, Dirs, Listings, Purges, Works
  <2>3. TreeInv' /\ WorkInv'
    BY <1>1, <1>5 DEF CardInv, TreeInv, WorkInv, Idle
  <2>4. DestroysAsked /\ CompletesEmpty
    BY <1>5, <2>1 DEF DestroysAsked, CompletesEmpty
  <2> QED BY <2>2, <2>3, <2>4 DEF CardInv
<1>6. ASSUME Purgeable(p), Present(tree, p)
      PROVE  p # <<>> /\ Chain(tree, p) /\ n = p[1] /\ n \in Node /\ Inside(p, TrashPath) /\ Inside(p, p)
  <2>1. p # <<>>
    <3>1. Len(TrashPath) <= Len(p)
      BY <1>4, <1>6, TrashIsPath, SuffixIs DEF Purgeable, Inside
    <3>2. Len(<<>>) = 0
      BY EmptySeq
    <3> QED BY <3>1, <3>2, TrashIsPath
  <2>2. Chain(tree, p)
    BY <1>3, <1>4, <1>6, <2>1, PresentIsChain
  <2>3. n = p[1]
    BY <1>4, <2>1 DEF NodeAt
  <2>4. p[1] \in Node
    BY <1>3, <2>2, ChainIsPath
  <2> QED BY <1>4, <1>6, <2>1, <2>2, <2>3, <2>4, SuffixOfItself DEF Purgeable, Inside
<1>7. CASE /\ Purgeable(p) /\ Present(tree, p) /\ n \notin Folder
           /\ Finish(s) /\ Becomes([tree EXCEPT ![n] = Gone]) /\ UNCHANGED work
  <2>1. Chain(tree, p) /\ n = p[1] /\ n \in Node /\ Inside(p, TrashPath) /\ Inside(p, p)
    BY <1>6, <1>7
  <2>2. Children(tree, p[1]) = {}
    BY <1>3, <1>7, <2>1, NodesAreNumbers DEF Children, Trees
  <2>3. /\ tree' \in Trees /\ TreeInv' /\ DestroysAsked
        /\ listing' \in [Lister -> Listings] /\ ListsFolders'
        /\ tree' = [tree EXCEPT ![n] = Gone]
    BY <1>1, <1>7, <2>1, <2>2, RemovalIsAsked
  <2>4. /\ purging' \in [Slot -> Purges]
        /\ \A r \in Slot \ {s} : purging'[r] = purging[r]
    BY <1>3, <1>7, PurgeOut
  <2>5. TypeInv'
    BY <1>1, <1>2, <1>3, <1>7, <2>3, <2>4 DEF TypeInv, TypeOK, Trees, Streams, Dirs, Listings, Purges, Works
  <2>6. WorkInv'
    BY <1>1, <1>7 DEF WorkInv, Idle
  <2>7. p # TrashPath
    BY <1>7, <2>1, TrashIsPath
  <2>8. tree'[n] = Gone
    BY <1>3, <2>1, <2>3 DEF Trees
  <2>9. CompletesEmpty
    BY <2>4, <2>7, <2>8 DEF CompletesEmpty
  <2> QED BY <2>3, <2>5, <2>6, <2>9 DEF CardInv
<1>8. CASE /\ Purgeable(p) /\ Present(tree, p)
           /\ work' = [slot |-> s, cur |-> p, budget |-> Budget] /\ UNCHANGED <<tree, listing, purging>>
  <2>1. Chain(tree, p) /\ Inside(p, TrashPath) /\ Inside(p, p)
    BY <1>6, <1>8
  <2>2. Budget \in 0..Budget
    OBVIOUS
  <2>3. work' \in Works
    BY <1>4, <1>8, <2>2 DEF Works
  <2>4. TypeInv'
    BY <1>1, <1>2, <1>3, <1>8, <2>3 DEF TypeInv, TypeOK, ListsFolders, Trees, Streams, Dirs, Listings, Purges, Works
  <2>5. TreeInv' /\ WorkInv'
    BY <1>1, <1>8, <2>1 DEF CardInv, TreeInv, WorkInv
  <2>6. DestroysAsked /\ CompletesEmpty
    BY <1>8 DEF DestroysAsked, CompletesEmpty
  <2> QED BY <2>4, <2>5, <2>6 DEF CardInv
<1> QED BY <1>5, <1>7, <1>8 DEF Purge
-----------------------------------------------------------------------------
\* The turns of the loop, one by one.
LEMMA TurnIs ==
  ASSUME Turn
  PROVE  LET s == work.slot
             p == purging[s].path
             d == NodeAt(work.cur)
             here == Children(tree, d)
         IN  /\ ~Idle /\ work.budget > 0 /\ stream' = NoStream /\ dir' = dir /\ moves' = moves
             /\ Failing(0) \/ Failing(1)
             /\ \/ /\ here # {} /\ work' = [work EXCEPT !.cur = <<Min(here)>> \o @]
                   /\ UNCHANGED <<tree, listing, purging>>
                \/ /\ here # {} /\ Min(here) \notin Folder
                   /\ Becomes([tree EXCEPT ![Min(here)] = Gone]) /\ work' = Spend /\ UNCHANGED purging
                \/ Stop(s) /\ work' = NoWork /\ UNCHANGED <<tree, listing>>
                \/ /\ here = {} /\ work.cur = p /\ p = TrashPath
                   /\ Finish(s) /\ work' = NoWork /\ UNCHANGED <<tree, listing>>
                \/ /\ here = {} /\ work.cur = p /\ p # TrashPath
                   /\ Becomes([tree EXCEPT ![d] = Gone]) /\ Finish(s) /\ work' = NoWork
                \/ /\ here = {} /\ work.cur # p
                   /\ Becomes([tree EXCEPT ![d] = Gone]) /\ work' = [Spend EXCEPT !.cur = Tail(@)] /\ UNCHANGED purging
BY DEF Turn, AnswerDone

\* Every turn of the loop keeps the purge inside what was asked for.
LEMMA TurnKeepsCard ==
  ASSUME CardInv, Turn
  PROVE  CardInv' /\ DestroysAsked /\ CompletesEmpty
<1> DEFINE s == work.slot
           p == purging[s].path
           c == work.cur
           d == NodeAt(c)
           here == Children(tree, d)
<1>1. /\ TypeOK /\ ListsFolders /\ tree \in Trees /\ stream \in Streams /\ dir \in [Slot -> Dirs]
      /\ listing \in [Lister -> Listings] /\ purging \in [Slot -> Purges] /\ work \in Works /\ moves \in 0..MaxMoves
  BY TypesAre DEF CardInv, TypeInv
<1>2. ~Idle /\ work.budget > 0 /\ stream' = NoStream /\ dir' = dir /\ moves' = moves /\ (Failing(0) \/ Failing(1))
  BY TurnIs
<1>3. stream' \in Streams /\ dir' \in [Slot -> Dirs] /\ moves' \in 0..MaxMoves /\ faults' \in 0..MaxFaults
  BY <1>1, <1>2, FaultsBounded, Nothing
<1>4. /\ s \in Slot /\ p \in Seq(Node) /\ c \in Seq(Node) /\ purging[s].phase = "asking"
      /\ Inside(p, TrashPath) /\ Inside(c, p) /\ Chain(tree, c)
  BY <1>1, <1>2 DEF Works, Purges, CardInv, WorkInv
<1>5. /\ c # <<>> /\ d = c[1] /\ d \in Node /\ Inside(c, TrashPath) /\ p # <<>> /\ Inside(p, p)
  <2>1. c # <<>> /\ c[1] \in Node
    BY <1>1, <1>4, ChainFacts, ChainIsPath
  <2>2. d = c[1]
    BY <1>4, <2>1 DEF NodeAt
  <2>3. Inside(c, TrashPath)
    BY <1>4, TrashIsPath, SuffixOfSuffix DEF Inside
  <2>4. p # <<>>
    <3>1. Len(TrashPath) <= Len(p)
      BY <1>4, TrashIsPath, SuffixIs DEF Inside
    <3>2. Len(<<>>) = 0
      BY EmptySeq
    <3> QED BY <3>1, <3>2, TrashIsPath
  <2> QED BY <1>4, <2>1, <2>2, <2>3, <2>4, SuffixOfItself DEF Inside
<1>6. ASSUME tree' \in Trees, TreeInv', listing' \in [Lister -> Listings], ListsFolders',
             purging' \in [Slot -> Purges], work' \in Works
      PROVE  TypeInv' /\ TreeInv'
  BY <1>3, <1>6 DEF TypeInv, TypeOK, Trees, Streams, Dirs, Listings, Purges, Works
<1>7. \A f : f = [work EXCEPT !.cur = f.cur, !.budget = f.budget] /\ f.cur \in Seq(Node) /\ f.budget \in 0..Budget
             => f \in Works /\ f.slot = s
  BY <1>1 DEF Works
<1>8. work.budget \in 0..Budget /\ work.budget - 1 \in 0..Budget
  BY <1>1, <1>2 DEF Works
<1>9. ASSUME NEW n \in here PROVE Chain(tree, <<n>> \o c) /\ Inside(<<n>> \o c, p)
  <2> DEFINE q == <<n>> \o c
  <2>1. n \in Node /\ tree[n] = c[1]
    BY <1>5 DEF Children
  <2>2. /\ q \in Seq(Node) /\ Len(q) = Len(c) + 1 /\ q[1] = n
        /\ \A k \in 1..Len(c) : q[k + 1] = c[k]
        /\ IsSuffix(c, q)
    BY <1>4, <2>1, SuffixOfChild
  <2> HIDE DEF q
  <2>3. /\ Len(c) \in Nat /\ Len(c) >= 1 /\ \A i \in 1..(Len(c) - 1) : tree[c[i]] = c[i + 1]
        /\ tree[c[Len(c)]] = Root
    BY <1>1, <1>4, ChainFacts
  <2>4. ASSUME NEW i \in 1..(Len(q) - 1) PROVE tree[q[i]] = q[i + 1]
    <3>1. CASE i = 1
      <4>1. 1 \in 1..Len(c)
        BY <2>3
      <4> QED BY <2>1, <2>2, <3>1, <4>1
    <3>2. CASE i # 1
      <4>1. i - 1 \in 1..(Len(c) - 1) /\ i - 1 \in 1..Len(c) /\ i \in 1..Len(c) /\ (i - 1) + 1 = i
        BY <2>2, <2>3, <3>2
      <4>2. q[i] = c[i - 1] /\ q[i + 1] = c[i]
        BY <2>2, <4>1
      <4> QED BY <2>3, <4>1, <4>2
    <3> QED BY <3>1, <3>2
  <2>5. tree[q[Len(q)]] = Root
    <3>1. Len(c) \in 1..Len(c)
      BY <2>3
    <3> QED BY <2>2, <2>3, <3>1
  <2>6. Chain(tree, q)
    BY <2>2, <2>3, <2>4, <2>5 DEF Chain, Climb
  <2>7. Inside(q, p)
    BY <1>4, <2>2, SuffixOfSuffix DEF Inside
  <2> QED BY <2>6, <2>7 DEF q
<1>10. here # {} => Min(here) \in here /\ Min(here) \in Node
  <2>1. here \in SUBSET Nat /\ here \in SUBSET Node
    BY NodesAreNumbers DEF Children
  <2> HIDE DEF here
  <2> QED BY <2>1, LeastOf
\* Into a folder.
<1>11. CASE here # {} /\ work' = [work EXCEPT !.cur = <<Min(here)>> \o @] /\ UNCHANGED <<tree, listing, purging>>
  <2> DEFINE q == <<Min(here)>> \o c
  <2>1. q \in Seq(Node) /\ Chain(tree, q) /\ Inside(q, p)
    BY <1>4, <1>9, <1>10, <1>11, SuffixOfChild
  <2> HIDE DEF q
  <2>2. work' \in Works /\ work'.slot = s /\ work'.cur = q
    BY <1>1, <1>11, <2>1 DEF Works, q
  <2>3. TypeInv' /\ TreeInv'
    BY <1>1, <1>6, <1>11, <2>2 DEF CardInv, TreeInv, ListsFolders
  <2>4. WorkInv'
    BY <1>4, <1>11, <2>1, <2>2 DEF WorkInv
  <2>5. DestroysAsked /\ CompletesEmpty
    BY <1>11 DEF DestroysAsked, CompletesEmpty
  <2> QED BY <2>3, <2>4, <2>5 DEF CardInv
\* A file.
<1>12. CASE /\ here # {} /\ Min(here) \notin Folder
            /\ Becomes([tree EXCEPT ![Min(here)] = Gone]) /\ work' = Spend /\ UNCHANGED purging
  <2> DEFINE n == Min(here)
             q == <<n>> \o c
  <2>1. q \in Seq(Node) /\ Chain(tree, q) /\ Inside(q, p) /\ q[1] = n /\ n \in Node /\ n \notin Folder /\ n # c[1]
    <3>1. q \in Seq(Node) /\ Chain(tree, q) /\ Inside(q, p) /\ q[1] = n /\ n \in Node /\ n \notin Folder
      BY <1>4, <1>9, <1>10, <1>12, SuffixOfChild
    <3>2. n \in here
      BY <1>10, <1>12
    <3>3. c[1] \in Folder
      BY <1>1, <1>5, <3>1, <3>2, NodesAreNumbers DEF Children, Trees
    <3> QED BY <3>1, <3>3
  <2> HIDE DEF q, n, here
  <2>2. Children(tree, q[1]) = {}
    BY <1>1, <2>1, NodesAreNumbers DEF Children, Trees
  <2>3. Inside(q, TrashPath)
    BY <1>4, <2>1, TrashIsPath, SuffixOfSuffix DEF Inside
  <2>4. Becomes([tree EXCEPT ![q[1]] = Gone])
    BY <1>12, <2>1 DEF n
  <2>5. /\ tree' \in Trees /\ TreeInv' /\ DestroysAsked
        /\ listing' \in [Lister -> Listings] /\ ListsFolders'
        /\ \A r : Chain(tree, r) /\ r[1] # q[1] => Chain(tree', r)
    BY <1>4, <2>1, <2>2, <2>3, <2>4, RemovalIsAsked
  <2>6. work' \in Works /\ work'.slot = s /\ work'.cur = c
    BY <1>1, <1>8, <1>12 DEF Works, Spend
  <2>7. TypeInv' /\ TreeInv'
    BY <1>1, <1>6, <1>12, <2>5, <2>6
  <2>8. Chain(tree', c)
    BY <1>4, <2>1, <2>5
  <2>9. WorkInv'
    BY <1>4, <1>12, <2>6, <2>8 DEF WorkInv
  <2>10. CompletesEmpty
    BY <1>12 DEF CompletesEmpty
  <2> QED BY <2>5, <2>7, <2>9, <2>10 DEF CardInv
\* A folder or a file of the file system fails.
<1>13. CASE Stop(s) /\ work' = NoWork /\ UNCHANGED <<tree, listing>>
  <2>1. /\ purging' \in [Slot -> Purges]
        /\ \A r \in Slot : purging'[r].phase # "complete" \/ purging'[r] = purging[r]
    BY <1>1, <1>4, <1>13, PurgeOut
  <2>2. TypeInv' /\ TreeInv'
    BY <1>1, <1>6, <1>13, <2>1, Nothing DEF CardInv, TreeInv, ListsFolders
  <2>3. WorkInv' /\ DestroysAsked /\ CompletesEmpty
    BY <1>13, <2>1 DEF WorkInv, Idle, NoWork, DestroysAsked, CompletesEmpty
  <2> QED BY <2>2, <2>3 DEF CardInv
\* The trash is empty.
<1>14. CASE /\ here = {} /\ c = p /\ p = TrashPath
            /\ Finish(s) /\ work' = NoWork /\ UNCHANGED <<tree, listing>>
  <2>1. /\ purging' \in [Slot -> Purges]
        /\ \A r \in Slot \ {s} : purging'[r] = purging[r]
    BY <1>1, <1>4, <1>14, PurgeOut
  <2>2. TypeInv' /\ TreeInv'
    BY <1>1, <1>6, <1>14, <2>1, Nothing DEF CardInv, TreeInv, ListsFolders
  <2>3. WorkInv' /\ DestroysAsked
    BY <1>14 DEF WorkInv, Idle, NoWork, DestroysAsked
  <2>4. Children(tree', Trash) = {}
    BY <1>5, <1>14, TrashIsPath DEF Children
  <2>5. CompletesEmpty
    BY <1>14, <2>1, <2>4 DEF CompletesEmpty
  <2> QED BY <2>2, <2>3, <2>5 DEF CardInv
\* What was asked for is removed itself.
<1>15. CASE /\ here = {} /\ c = p /\ p # TrashPath
            /\ Becomes([tree EXCEPT ![d] = Gone]) /\ Finish(s) /\ work' = NoWork
  <2>1. /\ purging' \in [Slot -> Purges]
        /\ \A r \in Slot \ {s} : purging'[r] = purging[r]
    BY <1>1, <1>4, <1>15, PurgeOut
  <2>2. /\ tree' \in Trees /\ TreeInv' /\ DestroysAsked
        /\ listing' \in [Lister -> Listings] /\ ListsFolders'
        /\ tree' = [tree EXCEPT ![d] = Gone]
    BY <1>4, <1>5, <1>15, RemovalIsAsked
  <2>3. TypeInv' /\ TreeInv'
    BY <1>1, <1>6, <1>15, <2>1, <2>2, Nothing
  <2>4. WorkInv'
    BY <1>15 DEF WorkInv, Idle, NoWork
  <2>5. tree'[NodeAt(p)] = Gone
    BY <1>1, <1>5, <1>15, <2>2 DEF Trees
  <2>6. CompletesEmpty
    BY <1>15, <2>1, <2>5 DEF CompletesEmpty
  <2> QED BY <2>2, <2>3, <2>4, <2>6 DEF CardInv
\* A folder on the way is removed, and the purge goes up.
<1>16. CASE /\ here = {} /\ c # p
            /\ Becomes([tree EXCEPT ![d] = Gone]) /\ work' = [Spend EXCEPT !.cur = Tail(@)] /\ UNCHANGED purging
  <2> DEFINE q == Tail(c)
  <2>1. /\ q \in Seq(Node) /\ q # <<>> /\ Inside(q, p) /\ Len(q) = Len(c) - 1
        /\ Head(q) = c[2] /\ \A k \in 1..Len(q) : q[k] = c[k + 1]
    BY <1>4, <1>5, <1>16, SuffixOfTail DEF Inside
  <2>2. /\ tree' \in Trees /\ TreeInv' /\ DestroysAsked
        /\ listing' \in [Lister -> Listings] /\ ListsFolders'
        /\ \A r : Chain(tree, r) /\ r[1] # c[1] => Chain(tree', r)
    BY <1>4, <1>5, <1>16, RemovalIsAsked
  <2> HIDE DEF q
  <2>3. work' \in Works /\ work'.slot = s /\ work'.cur = q
    BY <1>1, <1>8, <1>16, <2>1 DEF Works, Spend, q
  <2>4. TypeInv' /\ TreeInv'
    BY <1>1, <1>6, <1>16, <2>2, <2>3
  <2>5. Len(c) \in Nat /\ Len(q) \in Nat /\ Len(q) >= 1
    BY <1>4, <2>1, LenProperties, EmptySeq
  <2>6. IsSuffix(q, c)
    <3>1. Len(q) <= Len(c) /\ \A k \in 1..Len(q) : k + (Len(c) - Len(q)) = k + 1
      BY <2>1, <2>5
    <3>2. \A k \in 1..Len(q) : q[k] = c[k + (Len(c) - Len(q))]
      BY <2>1, <3>1
    <3> QED BY <1>4, <2>1, <3>1, <3>2, SuffixIs
  <2>7. Chain(tree, q)
    BY <1>1, <1>4, <2>1, <2>6, SuffixOfChain
  <2>8. q[1] # c[1]
    <3>1. 1 \in 1..Len(q) /\ 1 \in 1..Len(c) /\ 2 \in 1..Len(c) /\ 1 + 1 = 2
      BY <2>1, <2>5
    <3>2. q[1] = c[2]
      BY <2>1, <3>1
    <3> QED BY <1>1, <1>4, <3>1, <3>2, ChainInjective
  <2>9. Chain(tree', q)
    BY <2>2, <2>7, <2>8
  <2>10. WorkInv'
    BY <1>4, <1>16, <2>1, <2>3, <2>9 DEF WorkInv
  <2>11. CompletesEmpty
    BY <1>16 DEF CompletesEmpty
  <2> QED BY <2>2, <2>4, <2>10, <2>11 DEF CardInv
<1> QED BY TurnIs, <1>11, <1>12, <1>13, <1>14, <1>15, <1>16
-----------------------------------------------------------------------------
\* A page of an agent's own handle or of one it opens.
LEMMA ListKeepsTypes ==
  ASSUME TypeInv, NEW l \in Lister, List(l)
  PROVE  /\ stream' \in Streams /\ dir' \in [Slot -> Dirs]
         /\ listing' \in [Lister -> Listings] /\ ListsFolders'
<1> DEFINE s == SlotOf[l]
           p == listing[l].path
           d == NodeAt(p)
           cursor == listing[l].cursor
<1>1. /\ s \in Slot /\ stream \in Streams /\ dir \in [Slot -> Dirs] /\ listing \in [Lister -> Listings]
      /\ cursor \in 0..Nodes /\ d \in Folder \cup {Root} /\ Nodes \in Nat
  BY TypesAre DEF TypeInv, Listings, ListsFolders
<1>2. CASE Refuse(l)
  <2>1. stream' \in Streams /\ dir' \in [Slot -> Dirs] /\ listing' = [listing EXCEPT ![l] = NoListing]
    BY <1>1, <1>2, Nothing DEF Refuse, Closed, Released
  <2>2. listing' \in [Lister -> Listings] /\ ListsFolders'
    BY <1>1, <2>1, Nothing DEF TypeInv, ListsFolders
  <2> QED BY <2>1, <2>2
<1>3. CASE Page(l, stream, cursor)
  BY <1>1, <1>3, PageKeepsTypes
<1>4. CASE Page(l, Reopened(d, cursor), Skipped(d, cursor))
  <2> DEFINE cs == Children(tree, d)
             skipped == {n \in cs : Cardinality({m \in cs : m < n}) < cursor}
             top == skipped \cup {0}
             two == {cursor, Cardinality(cs)}
  <2>1. cs \in SUBSET Node /\ skipped \in SUBSET Node
    BY DEF Children
  <2>2. top \in SUBSET (0..Nodes) /\ top # {} /\ two \in SUBSET Nat /\ two # {} /\ cursor \in two
    BY <1>1, <2>1, NodesAreFinite DEF Node
  <2> HIDE DEF top, two
  <2>3. Max(top) \in 0..Nodes
    BY <1>1, <2>2, GreatestOf
  <2>4. Min(two) \in Nat /\ Min(two) <= cursor
    BY <2>2, LeastOf
  <2>5. Reopened(d, cursor) = [open |-> TRUE, of |-> d, last |-> Max(top)] /\ Skipped(d, cursor) = Min(two)
    BY DEF Reopened, Skipped, top, two
  <2>6. Reopened(d, cursor) \in Streams
    BY <1>1, <2>3, <2>5 DEF Streams
  <2>7. Skipped(d, cursor) \in 0..Nodes
    BY <1>1, <2>4, <2>5
  <2> QED BY <1>4, <2>6, <2>7, PageKeepsTypes
<1> QED BY <1>2, <1>3, <1>4 DEF List

\* Everything a client, its connection or the power does beside moving and purging.
LEMMA OthersKeepCard ==
  ASSUME CardInv, tree' = tree, moves' = moves, faults' \in 0..MaxFaults,
         stream' \in Streams, dir' \in [Slot -> Dirs], listing' \in [Lister -> Listings], ListsFolders',
         purging' \in [Slot -> Purges], work' = NoWork \/ UNCHANGED <<work, purging>>,
         \A s \in Slot : purging'[s].phase # "complete" \/ purging'[s] = purging[s]
  PROVE  CardInv' /\ DestroysAsked /\ CompletesEmpty
<1>1. TypeOK /\ tree \in Trees /\ moves \in 0..MaxMoves /\ work \in Works
  BY TypesAre DEF CardInv, TypeInv
<1>2. TypeInv'
  BY <1>1, Nothing DEF TypeInv, TypeOK, Trees, Streams, Dirs, Listings, Purges, Works
<1>3. TreeInv' /\ WorkInv'
  BY DEF CardInv, TreeInv, WorkInv, Idle, NoWork
<1>4. DestroysAsked /\ CompletesEmpty
  BY DEF DestroysAsked, CompletesEmpty
<1> QED BY <1>2, <1>3, <1>4 DEF CardInv

\* The invariant holds when the agents start, on a sound card.
LEMMA CardInit == Init => CardInv
<1> SUFFICES ASSUME Init PROVE CardInv
  OBVIOUS
<1>1. TypeInv /\ tree = Start /\ tree \in Trees /\ work = NoWork
  BY TypeInit, TypesAre DEF Init, TypeInv
<1>2. ASSUME NEW n \in Node, tree[n] # Gone PROVE \E p : Chain(tree, p) /\ p[1] = n
  BY <1>1, <1>2, PathIsChain, StartAssumption
<1> QED BY <1>1, <1>2 DEF CardInv, TreeInv, WorkInv, Rooted, Idle

\* Every step keeps it, destroys only what was asked for, and completes only what is done.
LEMMA CardStep ==
  ASSUME CardInv, [Next]_vars
  PROVE  CardInv' /\ ((DestroysAsked /\ CompletesEmpty) \/ UNCHANGED vars)
<1>1. /\ TypeOK /\ TypeInv /\ ListsFolders /\ tree \in Trees /\ stream \in Streams /\ dir \in [Slot -> Dirs]
      /\ listing \in [Lister -> Listings] /\ purging \in [Slot -> Purges] /\ work \in Works
      /\ moves \in 0..MaxMoves /\ faults \in 0..MaxFaults
  BY TypesAre DEF CardInv, TypeInv
<1>2. ASSUME NEW l \in Lister, List(l) PROVE CardInv' /\ DestroysAsked /\ CompletesEmpty
  <2>1. UNCHANGED <<tree, purging, work, moves>> /\ (Failing(0) \/ Failing(1))
    BY <1>2 DEF List
  <2>2. faults' \in 0..MaxFaults
    BY <2>1, FaultsBounded
  <2> QED BY <1>1, <1>2, <2>1, <2>2, ListKeepsTypes, OthersKeepCard
<1>3. ASSUME NEW l \in Lister, NEW d \in Wanted[l], BeginListing(l, d) PROVE CardInv' /\ DestroysAsked /\ CompletesEmpty
  <2> DEFINE new == [NoListing EXCEPT !.phase = "asking", !.path = PathOf(tree, d)]
  <2>1. listing' = [listing EXCEPT ![l] = new] /\ UNCHANGED <<tree, stream, dir, purging, work, moves, faults>>
    BY <1>3 DEF BeginListing
  <2>2. d \in Folder \cup {Root} /\ d \in Node \cup {Root}
    BY NodesAreNumbers
  <2>3. PathOf(tree, d) \in Seq(Node) /\ NodeAt(PathOf(tree, d)) = d
    BY <1>1, <2>2, NodeAtPath
  <2>4. new \in Listings /\ new.path = PathOf(tree, d)
    BY <2>3, Nothing DEF Listings, NoListing
  <2> HIDE DEF new
  <2>5. listing' \in [Lister -> Listings]
    BY <1>1, <2>1, <2>4
  <2>6. ListsFolders'
    BY <1>1, <2>1, <2>2, <2>3, <2>4 DEF ListsFolders
  <2> QED BY <1>1, <2>1, <2>5, <2>6, OthersKeepCard
<1>4. ASSUME NEW d \in Folder \cup {Root}, NEW n \in Folder, Mkdir(n, d) PROVE CardInv' /\ DestroysAsked /\ CompletesEmpty
  BY <1>4, MkdirKeepsCard
<1>5. ASSUME NEW d \in Folder \cup {Root}, NEW n \in Node, Rename(n, d) PROVE CardInv' /\ DestroysAsked /\ CompletesEmpty
  BY <1>5, RenameKeepsCard
<1>6. ASSUME NEW n \in Node, Delete(n) PROVE CardInv' /\ DestroysAsked /\ CompletesEmpty
  BY <1>6, DeleteKeepsCard
<1>7. ASSUME NEW s \in Purger, Purge(s) PROVE CardInv' /\ DestroysAsked /\ CompletesEmpty
  BY <1>7, PurgeKeepsCard
<1>8. ASSUME NEW s \in Purger, NEW n \in Node, BeginPurge(s, n) PROVE CardInv' /\ DestroysAsked /\ CompletesEmpty
  <2> DEFINE new == [phase |-> "asking", path |-> PathOf(tree, n)]
  <2>1. /\ purging[s].phase # "asking" /\ purging' = [purging EXCEPT ![s] = new]
        /\ UNCHANGED <<tree, stream, dir, listing, work, moves, faults>>
    BY <1>8 DEF BeginPurge
  <2>2. new \in Purges /\ s \in Slot /\ new.phase = "asking"
    BY <1>1, NodeAtPath DEF Purges
  <2> HIDE DEF new
  <2>3. purging' \in [Slot -> Purges] /\ \A r \in Slot : r # s => purging'[r] = purging[r]
    BY <1>1, <2>1, <2>2
  <2>4. purging'[s].phase = "asking"
    BY <1>1, <2>1, <2>2
  <2>5. WorkInv'
    BY <1>1, <2>1, <2>3 DEF CardInv, WorkInv, Idle, Works
  <2>6. TypeInv'
    BY <1>1, <2>1, <2>3 DEF TypeInv, TypeOK, ListsFolders, Trees, Streams, Dirs, Listings, Purges, Works
  <2>7. TreeInv' /\ DestroysAsked
    BY <2>1 DEF CardInv, TreeInv, DestroysAsked
  <2>8. CompletesEmpty
    BY <2>3, <2>4 DEF CompletesEmpty
  <2> QED BY <2>5, <2>6, <2>7, <2>8 DEF CardInv
<1>9. ASSUME NEW s \in Slot, Disconnect(s) PROVE CardInv' /\ DestroysAsked /\ CompletesEmpty
  <2>1. /\ Idle /\ stream' = Closed(s) /\ dir' = Released(s)
        /\ listing' = [l \in Lister |-> IF SlotOf[l] = s THEN NoListing ELSE listing[l]]
        /\ Stop(s) /\ UNCHANGED <<tree, work, moves, faults>>
    BY <1>9 DEF Disconnect
  <2>2. stream' \in Streams /\ dir' \in [Slot -> Dirs] /\ listing' \in [Lister -> Listings]
    BY <1>1, <2>1, Nothing DEF Closed, Released
  <2>3. ListsFolders'
    BY <1>1, <2>1, Nothing DEF ListsFolders
  <2>4. purging' \in [Slot -> Purges] /\ \A r \in Slot : purging'[r].phase # "complete" \/ purging'[r] = purging[r]
    BY <1>1, <2>1, PurgeOut
  <2>5. work' = NoWork
    BY <2>1 DEF Idle
  <2> QED BY <1>1, <2>1, <2>2, <2>3, <2>4, <2>5, OthersKeepCard
<1>10. CASE Turn
  BY <1>10, TurnKeepsCard
<1>11. CASE Pause
  <2>1. work' = NoWork /\ UNCHANGED <<purging, tree, stream, dir, listing, moves, faults>>
    BY <1>11 DEF Pause, Repeat
  <2>2. ListsFolders'
    BY <1>1, <2>1 DEF ListsFolders
  <2> QED BY <1>1, <2>1, <2>2, OthersKeepCard
<1>12. CASE Crash
  <2>1. /\ stream' = NoStream /\ dir' = [s \in Slot |-> NoDir] /\ listing' = [l \in Lister |-> NoListing]
        /\ purging' = [s \in Slot |-> NoPurge] /\ work' = NoWork /\ UNCHANGED <<tree, moves, faults>>
    BY <1>12 DEF Crash
  <2>2. stream' \in Streams /\ dir' \in [Slot -> Dirs] /\ listing' \in [Lister -> Listings] /\ purging' \in [Slot -> Purges]
    BY <2>1, Nothing
  <2>3. ListsFolders' /\ \A s \in Slot : purging'[s].phase # "complete"
    BY <2>1, Nothing DEF ListsFolders, NoPurge
  <2> QED BY <1>1, <2>1, <2>2, <2>3, OthersKeepCard
<1>13. CASE UNCHANGED vars
  <2>1. CardInv'
    BY <1>13 DEF vars, CardInv, TypeInv, TypeOK, ListsFolders, TreeInv, WorkInv, Idle
  <2> QED BY <1>13, <2>1
<1> QED
  BY <1>2, <1>3, <1>4, <1>5, <1>6, <1>7, <1>8, <1>9, <1>10, <1>11, <1>12, <1>13 DEF Next

(***************************************************************************)
(* Every variable has its type, every item leads to the root, and a purge  *)
(* that runs is in what its client asked it to destroy, in the trash.      *)
(***************************************************************************)
THEOREM FoldersInvariant == Spec => []CardInv
<1>1. Init => CardInv
  BY CardInit
<1>2. CardInv /\ [Next]_vars => CardInv'
  BY CardStep
<1> QED BY <1>1, <1>2, PTL DEF Spec

(***************************************************************************)
(* Every item that exists can be reached from the root: no move, removal,  *)
(* failure or power loss detaches a folder, or leaves what was in one that *)
(* is gone.                                                                *)
(***************************************************************************)
THEOREM NothingIsOrphaned == Spec => []NoOrphans
<1>1. CardInv => NoOrphans
  <2> SUFFICES ASSUME CardInv, NEW n \in Node, tree[n] # Gone PROVE Present(tree, PathOf(tree, n))
    BY DEF NoOrphans
  <2>1. tree \in Trees /\ \E p : Chain(tree, p) /\ p[1] = n
    BY TypesAre DEF CardInv, TypeInv, TreeInv, Rooted
  <2> QED BY <2>1, PathIsChain
<1> QED BY <1>1, FoldersInvariant, PTL

(***************************************************************************)
(* A step destroys only what is in the trash, inside what a client asks to *)
(* purge, although items leave and enter the trash between the requests.   *)
(***************************************************************************)
THEOREM OnlyTheTrashIsPurged == Spec => OnlyTrashPurged
<1>1. CardInv /\ [Next]_vars => [DestroysAsked]_vars
  BY CardStep
<1>2. Spec => [][DestroysAsked]_vars
  BY <1>1, FoldersInvariant, PTL DEF Spec
<1> QED BY <1>2 DEF OnlyTrashPurged, DestroysAsked

(***************************************************************************)
(* A purge whose client is told that nothing is left has left nothing.     *)
(***************************************************************************)
THEOREM PurgesAreComplete == Spec => PurgeComplete
<1>1. CardInv /\ [Next]_vars => [CompletesEmpty]_vars
  BY CardStep
<1>2. Spec => [][CompletesEmpty]_vars
  BY <1>1, FoldersInvariant, PTL DEF Spec
<1> QED BY <1>2 DEF PurgeComplete, CompletesEmpty
-----------------------------------------------------------------------------
(***************************************************************************)
(* Listings: the names of a folder up to one of them.                      *)
(***************************************************************************)
UpTo(S, x) == {n \in S : n <= x}
After(S, x) == {n \in S : n > x}

\* The names of a folder are finitely many, and so are those of a part of it.
LEMMA NamesAre ==
  ASSUME NEW S \in SUBSET Node
  PROVE  /\ S \subseteq 1..Nodes /\ IsFiniteSet(S) /\ Cardinality(S) \in Nat /\ Cardinality(S) <= Nodes
         /\ \A T \in SUBSET S : /\ IsFiniteSet(T) /\ Cardinality(T) \in Nat /\ Cardinality(T) <= Cardinality(S)
                                /\ Cardinality(T) = Cardinality(S) => T = S
<1>1. Nodes \in Nat /\ S \subseteq 1..Nodes
  BY DEF Node
<1>2. \A T \in SUBSET Node : IsFiniteSet(T) /\ Cardinality(T) \in Nat /\ Cardinality(T) <= Nodes
  BY <1>1, NodesAreFinite
<1>3. ASSUME NEW T \in SUBSET S
      PROVE  /\ IsFiniteSet(T) /\ Cardinality(T) \in Nat /\ Cardinality(T) <= Cardinality(S)
             /\ Cardinality(T) = Cardinality(S) => T = S
  <2>1. T \in SUBSET Node /\ IsFiniteSet(S)
    BY <1>2
  <2> QED BY <1>2, <2>1, FS_Subset
<1> QED BY <1>1, <1>2, <1>3

\* As many names from the start are the same names.
LEMMA SameCount ==
  ASSUME NEW S \in SUBSET Node, NEW x \in Nat, NEW y \in Nat, Cardinality(UpTo(S, x)) = Cardinality(UpTo(S, y))
  PROVE  UpTo(S, x) = UpTo(S, y)
<1>1. \A n \in S : n \in Nat
  BY NodesAreNumbers
<1>2. ASSUME NEW a \in Nat, NEW b \in Nat, a <= b, Cardinality(UpTo(S, a)) = Cardinality(UpTo(S, b))
      PROVE  UpTo(S, a) = UpTo(S, b)
  <2>1. UpTo(S, a) \in SUBSET UpTo(S, b) /\ UpTo(S, b) \in SUBSET Node
    BY <1>1, <1>2 DEF UpTo
  <2> QED BY <1>2, <2>1, NamesAre
<1> QED BY <1>2

\* The first names of a set, in order.
Segment(T, S) == T \in SUBSET S /\ \A n \in T : \A m \in S : m < n => m \in T

\* A count of names before an item grows with the item.
LEMMA CountsGrow ==
  ASSUME NEW S \in SUBSET Node, NEW n \in S, NEW m \in S, m < n
  PROVE  /\ {k \in S : k < m} \in SUBSET {k \in S : k < n} /\ {k \in S : k < n} \in SUBSET S
         /\ Cardinality({k \in S : k < m}) <= Cardinality({k \in S : k < n})
<1>1. \A k \in S : k \in Nat
  BY NodesAreNumbers
<1>2. {k \in S : k < m} \in SUBSET {k \in S : k < n} /\ {k \in S : k < n} \in SUBSET S
  BY <1>1
<1> QED BY <1>2, NamesAre

\* The names a page reads are the next ones.
LEMMA ReadIsSegment ==
  ASSUME NEW h, NEW d
  PROVE  /\ Left(h) \in SUBSET Node /\ Segment(Read(h, d), Left(h))
         /\ Left(h) # {} => Read(h, d) # {}
         /\ Left(h) = {} => Room(h, d, {})
<1> DEFINE L == Left(h)
<1>1. L \in SUBSET Node
  BY DEF Left, Children
<1>2. \A k \in L : k \in Nat
  BY <1>1, NodesAreNumbers
<1>3. ASSUME NEW S \in SUBSET Node, NEW T \in SUBSET S, Room(h, d, S) PROVE Room(h, d, T)
  <2> DEFINE ss == {n \in S : Shown(d, n)}
             ts == {n \in T : Shown(d, n)}
  <2>1. ts \in SUBSET ss /\ ss \in SUBSET Node
    OBVIOUS
  <2> HIDE DEF ss, ts
  <2>2. /\ Cardinality(ts) \in Nat /\ Cardinality(ss) \in Nat /\ Cardinality(ts) <= Cardinality(ss)
        /\ Cardinality(T) \in Nat /\ Cardinality(S) \in Nat /\ Cardinality(T) <= Cardinality(S)
    BY <2>1, NamesAre
  <2>3. Cardinality(ss) < PageMax /\ (d \in Ways => Cardinality(S) < ScanMax)
    BY <1>3 DEF Room, ss
  <2>4. Cardinality(ts) < PageMax /\ (d \in Ways => Cardinality(T) < ScanMax)
    BY <2>2, <2>3
  <2> QED BY <2>4 DEF Room, ts
<1> HIDE DEF L
<1>4. Read(h, d) = {n \in L : Room(h, d, {m \in L : m < n})}
  BY DEF Read, L
<1>5. ASSUME NEW n \in Read(h, d), NEW m \in L, m < n PROVE m \in Read(h, d)
  <2>1. n \in L /\ Room(h, d, {k \in L : k < n})
    BY <1>4
  <2>2. {k \in L : k < m} \in SUBSET {k \in L : k < n} /\ {k \in L : k < n} \in SUBSET Node
    BY <1>1, <1>5, <2>1, CountsGrow
  <2>3. Room(h, d, {k \in L : k < m})
    BY <1>3, <2>1, <2>2
  <2> QED BY <1>4, <2>3
<1>6. Room(h, d, {})
  <2>1. {n \in {} : Shown(d, n)} = {} /\ Cardinality({}) = 0
    BY FS_EmptySet
  <2> QED BY <2>1 DEF Room
<1>7. ASSUME L # {} PROVE Read(h, d) # {}
  <2>1. L \in SUBSET Nat
    BY <1>2
  <2>2. Min(L) \in L /\ \A x \in L : Min(L) <= x
    BY <1>7, <2>1, LeastOf
  <2>3. {m \in L : m < Min(L)} = {}
    BY <1>2, <2>2
  <2> QED BY <1>4, <1>6, <2>2, <2>3
<1>8. Segment(Read(h, d), L)
  BY <1>4, <1>5 DEF Segment
<1> QED BY <1>1, <1>6, <1>7, <1>8 DEF L

\* A handle that has given the names up to one gives the next ones.
LEMMA ReadsOn ==
  ASSUME NEW S \in SUBSET Node, NEW x \in 0..Nodes, NEW R, Segment(R, After(S, x)),
         NEW y, y = Max(R \cup {x})
  PROVE  /\ y \in 0..Nodes /\ x <= y
         /\ UpTo(S, y) = UpTo(S, x) \cup R
         /\ Cardinality(UpTo(S, y)) = Cardinality(UpTo(S, x)) + Cardinality(R)
         /\ Cardinality(UpTo(S, y)) <= Nodes
         /\ R = After(S, x) => UpTo(S, y) = S
<1>1. /\ Nodes \in Nat /\ S \subseteq 1..Nodes /\ R \in SUBSET S /\ R \in SUBSET Node
      /\ \A n \in R : n > x
      /\ \A n \in R : \A m \in S : m > x /\ m < n => m \in R
  BY NamesAre DEF Segment, After
<1>2. R \cup {x} \in SUBSET (0..Nodes) /\ R \cup {x} # {}
  BY <1>1
<1>3. y \in R \cup {x} /\ \A n \in R \cup {x} : y >= n
  BY <1>1, <1>2, GreatestOf
<1>4. y \in 0..Nodes /\ x <= y /\ x \in Nat
  BY <1>1, <1>2, <1>3
<1>5. UpTo(S, y) = UpTo(S, x) \cup R
  <2>1. ASSUME NEW n \in S, n <= y, ~(n <= x) PROVE n \in R
    <3>1. n > x /\ n \in Nat
      BY <1>1, <1>4, <2>1
    <3>2. y \in R
      BY <1>3, <1>4, <2>1, <3>1
    <3> QED BY <1>1, <1>4, <2>1, <3>1, <3>2
  <2>2. ASSUME NEW n \in S, n <= x PROVE n <= y
    BY <1>1, <1>4, <2>2
  <2>3. \A n \in R : n \in S /\ n <= y
    BY <1>1, <1>2, <1>3, <1>4
  <2> QED BY <2>1, <2>2, <2>3 DEF UpTo
<1>6. Cardinality(UpTo(S, y)) = Cardinality(UpTo(S, x)) + Cardinality(R)
  <2>1. UpTo(S, x) \cap R = {}
    <3>1. \A n \in R : n \in Nat /\ n > x
      BY <1>1
    <3>2. \A n \in R : ~(n <= x)
      BY <1>4, <3>1
    <3>3. \A n \in UpTo(S, x) : n <= x
      BY DEF UpTo
    <3> QED BY <3>2, <3>3
  <2>2. UpTo(S, x) \in SUBSET Node
    BY DEF UpTo
  <2>3. IsFiniteSet(UpTo(S, x)) /\ IsFiniteSet(R) /\ Cardinality(UpTo(S, x)) \in Nat /\ Cardinality(R) \in Nat
    BY <1>1, <2>2, NamesAre
  <2>4. Cardinality(UpTo(S, x) \cup R) = Cardinality(UpTo(S, x)) + Cardinality(R) - Cardinality(UpTo(S, x) \cap R)
    BY <2>3, FS_Union
  <2>5. Cardinality(UpTo(S, x) \cap R) = 0
    BY <2>1, FS_EmptySet
  <2> HIDE DEF UpTo
  <2> QED BY ONLY <1>5, <2>3, <2>4, <2>5
<1>7. UpTo(S, y) \in SUBSET Node
  BY DEF UpTo
<1>8. Cardinality(UpTo(S, y)) <= Nodes
  BY <1>7, NamesAre
<1>9. R = After(S, x) => UpTo(S, y) = S
  <2>1. \A n \in S : n \in Nat
    BY <1>1
  <2>2. \A n \in S : n <= x \/ n > x
    BY <1>4, <2>1
  <2> QED BY <1>5, <2>2 DEF UpTo, After
<1> QED BY <1>4, <1>5, <1>6, <1>8, <1>9

\* One item and those before it.
LEMMA CountBefore ==
  ASSUME NEW S \in SUBSET Node, NEW n \in S
  PROVE  Cardinality(UpTo(S, n)) = Cardinality({m \in S : m < n}) + 1
<1> DEFINE T == {m \in S : m < n}
<1>0. \A m \in S : m \in Nat
  BY NodesAreNumbers
<1>1. T \in SUBSET Node /\ n \notin T /\ n \in Nat
  BY <1>0
<1>2. UpTo(S, n) = T \cup {n}
  <2>1. \A m \in S : m <= n <=> m < n \/ m = n
    BY <1>0
  <2> QED BY <2>1 DEF UpTo
<1> HIDE DEF T
<1>3. IsFiniteSet(T)
  BY <1>1, NamesAre
<1>4. Cardinality(T \cup {n}) = Cardinality(T) + 1
  BY <1>1, <1>3, FS_AddElement
<1> QED BY <1>2, <1>4 DEF T

\* The first names of a folder are those up to the last of them.
LEMMA FirstNames ==
  ASSUME NEW S \in SUBSET Node, NEW T, Segment(T, S), NEW y, y = Max(T \cup {0})
  PROVE  y \in 0..Nodes /\ UpTo(S, y) = T
<1>1. Nodes \in Nat /\ S \subseteq 1..Nodes /\ 0 \in 0..Nodes
  BY NamesAre
<1>2. UpTo(S, 0) = {} /\ After(S, 0) = S
  <2>1. \A n \in S : n > 0 /\ ~(n <= 0)
    BY <1>1
  <2> QED BY <2>1 DEF UpTo, After
<1>3. y \in 0..Nodes /\ UpTo(S, y) = UpTo(S, 0) \cup T
  <2>1. Segment(T, After(S, 0))
    BY <1>2
  <2> QED BY ONLY <1>1, <2>1, S \in SUBSET Node, y = Max(T \cup {0}), ReadsOn
<1> QED BY <1>2, <1>3

\* A folder read again up to a cursor: as many names are skipped.
LEMMA ReopenedIs ==
  ASSUME NEW d, NEW cursor \in Nat
  PROVE  LET h == Reopened(d, cursor)
             S == Children(tree, d)
         IN  /\ h.open = TRUE /\ h.of = d /\ h.last \in 0..Nodes
             /\ h = [open |-> h.open, of |-> h.of, last |-> h.last]
             /\ Skipped(d, cursor) = Cardinality(UpTo(S, h.last))
             /\ cursor <= Cardinality(S) => Skipped(d, cursor) = cursor
<1> DEFINE S == Children(tree, d)
           T == {n \in S : Cardinality({m \in S : m < n}) < cursor}
           x == Max(T \cup {0})
           two == {cursor, Cardinality(S)}
<1>1. S \in SUBSET Node /\ T \in SUBSET S /\ T \in SUBSET Node
  BY DEF Children
<1>2. \A n \in T : Cardinality({m \in S : m < n}) < cursor
  OBVIOUS
<1>3. \A n \in S \ T : ~(Cardinality({m \in S : m < n}) < cursor)
  OBVIOUS
<1>4. Reopened(d, cursor) = [open |-> TRUE, of |-> d, last |-> x] /\ Skipped(d, cursor) = Min(two)
  BY DEF Reopened, Skipped
<1> HIDE DEF S, T, x, two
<1>5. /\ Nodes \in Nat /\ S \subseteq 1..Nodes /\ Cardinality(S) \in Nat /\ Cardinality(T) \in Nat
      /\ Cardinality(T) <= Cardinality(S)
  BY <1>1, NamesAre
<1>6. ASSUME NEW n \in T, NEW m \in S, m < n PROVE m \in T
  <2>1. Cardinality({k \in S : k < m}) <= Cardinality({k \in S : k < n})
    BY <1>1, <1>6, CountsGrow
  <2>2. /\ {k \in S : k < m} \in SUBSET S /\ {k \in S : k < n} \in SUBSET S
    OBVIOUS
  <2>3. Cardinality({k \in S : k < m}) \in Nat /\ Cardinality({k \in S : k < n}) \in Nat
    BY <1>1, <2>2, NamesAre
  <2>4. Cardinality({k \in S : k < m}) < cursor
    BY <1>2, <2>1, <2>3
  <2> QED BY <1>3, <2>4
<1>7. Segment(T, S) /\ x = Max(T \cup {0})
  BY <1>1, <1>6 DEF Segment, x
<1>8. x \in 0..Nodes /\ UpTo(S, x) = T
  BY <1>1, <1>7, FirstNames
<1>9. ASSUME NEW n \in T, \A m \in T : n >= m PROVE Cardinality(T) <= cursor
  <2>1. UpTo(S, n) = T
    <3>1. \A m \in S : m \in Nat
      BY <1>5
    <3>2. n \in S /\ n \in Nat
      BY <1>1, <3>1
    <3>3. \A m \in S : m <= n => m < n \/ m = n
      BY <3>1, <3>2
    <3>4. \A m \in T : m <= n /\ m \in S
      BY <1>1, <1>9, <3>1
    <3> QED BY <1>6, <3>3, <3>4 DEF UpTo
  <2>2. Cardinality(T) = Cardinality({m \in S : m < n}) + 1
    BY <1>1, <2>1, CountBefore
  <2>3. Cardinality({m \in S : m < n}) \in Nat
    <3>1. {m \in S : m < n} \in SUBSET S
      OBVIOUS
    <3> QED BY <1>1, <3>1, NamesAre
  <2> QED BY <1>2, <2>2, <2>3
<1>10. Cardinality(T) <= cursor
  <2>1. CASE T = {}
    <3>1. Cardinality(T) = 0
      BY <2>1, FS_EmptySet
    <3> QED BY <3>1
  <2>2. CASE T # {}
    <3>1. T \in SUBSET (0..Nodes)
      BY <1>1, <1>5
    <3>2. Max(T) \in T /\ \A m \in T : Max(T) >= m
      BY <1>5, <2>2, <3>1, GreatestOf
    <3> QED BY <1>9, <3>2
  <2> QED BY <2>1, <2>2
<1>11. ASSUME T # S PROVE cursor <= Cardinality(T)
  <2> DEFINE U == S \ T
  <2>1. U \in SUBSET Nat /\ U # {}
    <3>1. \A n \in S : n \in Nat
      BY <1>5
    <3> QED BY <1>1, <1>11, <3>1
  <2> HIDE DEF U
  <2>2. PICK n \in U : \A m \in U : n <= m
    BY <2>1, LeastNumber
  <2>3. n \in S /\ n \notin T /\ n \in Nat /\ \A m \in S : m \in Nat
    BY <1>5, <2>2 DEF U
  <2>4. {m \in S : m < n} = T
    <3>1. ASSUME NEW m \in S, m < n PROVE m \in T
      <4>1. ~(n <= m)
        BY <2>3, <3>1
      <4> QED BY <2>2, <4>1 DEF U
    <3>2. ASSUME NEW m \in T PROVE m \in S /\ m < n
      <4>1. m \in S /\ m # n /\ ~(n < m)
        BY <1>1, <1>6, <2>3
      <4> QED BY <2>3, <4>1
    <3> QED BY <3>1, <3>2
  <2>5. ~(Cardinality(T) < cursor)
    BY <1>3, <2>3, <2>4
  <2> QED BY <1>5, <2>5
<1>12. Cardinality(T) = IF cursor <= Cardinality(S) THEN cursor ELSE Cardinality(S)
  <2>1. CASE T = S
    BY <1>5, <1>10, <2>1
  <2>2. CASE T # S
    BY <1>5, <1>10, <1>11, <2>2
  <2> QED BY <2>1, <2>2
<1>13. Min(two) = IF cursor <= Cardinality(S) THEN cursor ELSE Cardinality(S)
  <2>1. two \in SUBSET Nat /\ two # {}
    BY <1>5 DEF two
  <2>2. Min(two) \in two /\ \A k \in two : Min(two) <= k
    BY <2>1, LeastOf
  <2> QED BY <1>5, <2>2 DEF two
<1> QED BY <1>4, <1>8, <1>12, <1>13 DEF S
-----------------------------------------------------------------------------
(***************************************************************************)
(* The inductive invariant: an open handle is some agent's, no purge is    *)
(* asked for while there is one, and a purge that runs was asked for.      *)
(***************************************************************************)
HandleShapes ==
  /\ stream.open \in BOOLEAN
  /\ stream = [open |-> stream.open, of |-> stream.of, last |-> stream.last]
  /\ dir = [s \in Slot |-> dir[s]]
  /\ purging = [s \in Slot |-> purging[s]]
  /\ work = [slot |-> work.slot, cur |-> work.cur, budget |-> work.budget]

HandleOwned == stream.open => \E s \in Slot : dir[s].open
PurgesAlone == stream.open => \A s \in Slot : purging[s].phase # "asking"
WorkAsked == ~Idle => work.slot \in Slot /\ purging[work.slot].phase = "asking"

HandleInv == HandleShapes /\ HandleSound /\ HandleOwned /\ PurgesAlone /\ WorkAsked


\* What Stop and Finish leave of the purges: those of other connections.
LEMMA PurgeOver ==
  ASSUME HandleShapes, NEW s \in Slot, Stop(s) \/ Finish(s)
  PROVE  /\ purging' = [r \in Slot |-> purging'[r]]
         /\ \A r \in Slot : purging'[r].phase = "asking" => purging[r].phase = "asking"
BY DEF HandleShapes, Stop, Finish, NoPurge

\* A page read from an open handle leaves it to the agent, or closes it.
LEMMA PageKeepsHandle ==
  ASSUME HandleShapes, NEW l \in Lister, NEW h, NEW pos,
         h.open = TRUE, h.of = NodeAt(listing[l].path),
         h = [open |-> h.open, of |-> h.of, last |-> h.last],
         \A o \in Slot \ {SlotOf[l]} : ~dir[o].open,
         Page(l, h, pos)
  PROVE  /\ dir' = [s \in Slot |-> dir'[s]]
         /\ stream'.open \in BOOLEAN
         /\ stream' = [open |-> stream'.open, of |-> stream'.of, last |-> stream'.last]
         /\ HandleSound' /\ HandleOwned'
<1> DEFINE s == SlotOf[l]
           p == listing[l].path
<1>1. s \in Slot
  OBVIOUS
<1>2. PICK after, last :
        \/ dir' = [dir EXCEPT ![s] = NoDir] /\ stream' = NoStream
        \/ /\ dir' = [dir EXCEPT ![s] = [open |-> TRUE, path |-> p, pos |-> after]]
           /\ stream' = [h EXCEPT !.last = last]
  BY DEF Page
<1>3. CASE dir' = [dir EXCEPT ![s] = NoDir] /\ stream' = NoStream
  BY <1>1, <1>3 DEF HandleShapes, HandleSound, HandleOwned, NoDir, NoStream
<1>4. CASE /\ dir' = [dir EXCEPT ![s] = [open |-> TRUE, path |-> p, pos |-> after]]
           /\ stream' = [h EXCEPT !.last = last]
  <2>1. stream' = [open |-> TRUE, of |-> NodeAt(p), last |-> last]
    BY <1>4
  <2>2. dir'[s].open /\ dir'[s].path = p /\ \A o \in Slot \ {s} : ~dir'[o].open
    BY <1>1, <1>4 DEF HandleShapes
  <2> QED
    BY <1>1, <1>4, <2>1, <2>2 DEF HandleShapes, HandleSound, HandleOwned
<1> QED
  BY <1>2, <1>3, <1>4

\* No folder is open and no purge runs when the agents start.
LEMMA HandleInit == Init => HandleInv
BY DEF Init, HandleInv, HandleShapes, HandleSound, HandleOwned, PurgesAlone, WorkAsked,
       Idle, NoWork, NoStream, NoDir, NoPurge

\* While clients take turns, every request, purge, failure and power loss keeps the
\* invariant of the handle.
LEMMA HandleStep ==
  ASSUME Apart, HandleInv, [Next]_vars
  PROVE  HandleInv'
<1> USE DEF HandleInv
<1>1. ASSUME NEW l \in Lister, List(l) PROVE HandleInv'
  <2> DEFINE s == SlotOf[l]
             p == listing[l].path
             cursor == listing[l].cursor
  <2>1. /\ s \in Slot /\ Idle /\ UNCHANGED <<purging, work>>
        /\ \A o \in Slot : purging[o].phase # "asking" /\ (dir[o].open => o = s)
    BY <1>1 DEF List
  <2>2. PurgesAlone' /\ WorkAsked'
    BY <2>1 DEF PurgesAlone, WorkAsked, Idle
  <2>3. CASE Refuse(l)
    BY <2>1, <2>2, <2>3 DEF Refuse, Closed, Released, HandleShapes, HandleSound, HandleOwned, NoDir, NoStream
  <2>4. CASE Keeps(s, p, cursor) /\ Page(l, stream, cursor)
    <3>1. stream.open = TRUE /\ stream.of = NodeAt(p)
      BY <2>1, <2>4 DEF Keeps, HandleSound, HandleShapes
    <3> QED
      BY <2>1, <2>2, <2>4, <3>1, PageKeepsHandle DEF HandleShapes
  <2>5. CASE Page(l, Reopened(NodeAt(p), cursor), Skipped(NodeAt(p), cursor))
    <3> DEFINE h == Reopened(NodeAt(p), cursor)
    <3>1. h.open = TRUE /\ h.of = NodeAt(p) /\ h = [open |-> h.open, of |-> h.of, last |-> h.last]
      BY DEF Reopened
    <3> HIDE DEF h
    <3> QED
      BY <2>1, <2>2, <2>5, <3>1, PageKeepsHandle DEF HandleShapes, h
  <2> QED
    BY <1>1, <2>3, <2>4, <2>5 DEF List
<1>2. ASSUME NEW s \in Purger, NEW n \in Node, BeginPurge(s, n) PROVE HandleInv'
  BY <1>2 DEF BeginPurge, HandleShapes, HandleSound, HandleOwned, PurgesAlone, WorkAsked, Idle
<1>3. ASSUME NEW s \in Purger, Purge(s) PROVE HandleInv'
  <2>1. s \in Slot /\ Idle /\ purging[s].phase = "asking" /\ UNCHANGED <<stream, dir>>
    BY <1>3 DEF Purge
  <2>2. CASE (Stop(s) \/ Finish(s)) /\ UNCHANGED work
    BY <2>1, <2>2, PurgeOver
       DEF HandleShapes, HandleSound, HandleOwned, PurgesAlone, WorkAsked, Idle, NoWork
  <2>3. CASE work' = [slot |-> s, cur |-> purging[s].path, budget |-> Budget] /\ UNCHANGED purging
    BY <2>1, <2>3 DEF HandleShapes, HandleSound, HandleOwned, PurgesAlone, WorkAsked
  <2> QED
    BY <1>3, <2>2, <2>3 DEF Purge
<1>4. CASE Turn
  <2> DEFINE s == work.slot
  <2>1. s \in Slot /\ purging[s].phase = "asking" /\ stream' = NoStream /\ dir' = dir
    BY <1>4 DEF Turn, WorkAsked
  <2>2. \A o \in Slot : ~dir[o].open
    BY <2>1 DEF PurgesAlone, HandleSound
  <2>3. \/ (Stop(s) \/ Finish(s)) /\ work' = NoWork
        \/ /\ purging' = purging /\ work'.slot = s
           /\ work' = [slot |-> work'.slot, cur |-> work'.cur, budget |-> work'.budget]
    <3> DEFINE d == NodeAt(work.cur)
               here == Children(tree, d)
    <3>1. \/ (Stop(s) \/ Finish(s)) /\ work' = NoWork
          \/ purging' = purging /\ work' = [work EXCEPT !.cur = <<Min(here)>> \o @]
          \/ purging' = purging /\ work' = Spend
          \/ purging' = purging /\ work' = [Spend EXCEPT !.cur = Tail(@)]
      BY <1>4 DEF Turn, AnswerDone
    <3> QED
      BY <3>1 DEF HandleShapes, Spend
  <2>4. HandleSound' /\ HandleOwned' /\ PurgesAlone'
    BY <2>1, <2>2 DEF HandleSound, HandleOwned, PurgesAlone, NoStream
  <2>5. CASE (Stop(s) \/ Finish(s)) /\ work' = NoWork
    BY <2>1, <2>4, <2>5, PurgeOver DEF HandleShapes, WorkAsked, Idle, NoWork, NoStream
  <2>6. CASE /\ purging' = purging /\ work'.slot = s
             /\ work' = [slot |-> work'.slot, cur |-> work'.cur, budget |-> work'.budget]
    BY <2>1, <2>4, <2>6 DEF HandleShapes, WorkAsked, NoStream
  <2> QED
    BY <2>3, <2>5, <2>6
<1>5. CASE Pause
  BY <1>5 DEF Pause, Repeat, HandleShapes, HandleSound, HandleOwned, PurgesAlone, WorkAsked, Idle, NoWork
<1>6. ASSUME NEW s \in Slot, Disconnect(s) PROVE HandleInv'
  <2>1. Idle /\ UNCHANGED work /\ Stop(s) /\ stream' = Closed(s) /\ dir' = Released(s)
    BY <1>6 DEF Disconnect
  <2>2. /\ purging' = [r \in Slot |-> purging'[r]]
        /\ \A r \in Slot : purging'[r].phase = "asking" => purging[r].phase = "asking"
    BY <2>1, PurgeOver
  <2>3. HandleSound' /\ HandleOwned' /\ PurgesAlone'
    BY <2>1, <2>2 DEF Closed, Released, HandleShapes, HandleSound, HandleOwned, PurgesAlone, NoDir, NoStream
  <2> QED
    BY <2>1, <2>2, <2>3 DEF Closed, Released, HandleShapes, WorkAsked, Idle, NoWork, NoStream
<1>7. CASE Crash
  BY <1>7 DEF Crash, HandleShapes, HandleSound, HandleOwned, PurgesAlone, WorkAsked, Idle, NoWork,
              NoStream, NoDir, NoPurge
<1>8. ASSUME UNCHANGED <<stream, dir, purging, work>> PROVE HandleInv'
  BY <1>8 DEF HandleShapes, HandleSound, HandleOwned, PurgesAlone, WorkAsked, Idle
<1>9. ASSUME NEW l \in Lister, NEW d, BeginListing(l, d) PROVE HandleInv'
  BY <1>8, <1>9 DEF BeginListing
<1>10. ASSUME NEW n, NEW d, Mkdir(n, d) \/ Rename(n, d) \/ Delete(n) PROVE HandleInv'
  BY <1>8, <1>10 DEF Mkdir, Rename, Delete, Move
<1> QED
  BY <1>1, <1>2, <1>3, <1>4, <1>5, <1>6, <1>7, <1>8, <1>9, <1>10 DEF Next, vars

(***************************************************************************)
(* When the clients take turns, the handle of the platform is always the   *)
(* one of the agent that keeps a folder open, on that folder.              *)
(***************************************************************************)
THEOREM HandleIsSound ==
  ASSUME Apart
  PROVE  Spec => []HandleSound
<1>1. HandleInv /\ [Next]_vars => HandleInv'
  BY HandleStep
<1>2. HandleInv => HandleSound
  BY DEF HandleInv
<1> QED
  BY HandleInit, <1>1, <1>2, PTL DEF Spec
-----------------------------------------------------------------------------
(***************************************************************************)
(* When the clients take turns: what a listing has shown, and the handle   *)
(* it finds again, while its folder does not change.                       *)
(***************************************************************************)
Steady(l) == listing[l].phase = "asking" /\ ~listing[l].changed
Content(l) == Children(tree, NodeAt(listing[l].path))

\* What a listing has shown is what its folder holds up to some name.
ListsInOrder ==
  \A l \in Lister : Steady(l) =>
    \E x \in 0..Nodes : /\ listing[l].seen = {n \in UpTo(Content(l), x) : Shown(NodeAt(listing[l].path), n)}
                        /\ listing[l].cursor = Cardinality(UpTo(Content(l), x))

\* The handle kept open has read as many names as the agent remembers.
HandleExact ==
  \A l \in Lister : Steady(l) /\ listing[l].cursor # 0 =>
    LET s == SlotOf[l]
    IN  dir[s].open /\ dir[s].path = listing[l].path => dir[s].pos = Cardinality(UpTo(Content(l), stream.last))

\* An agent keeps a folder open only after it has read a name.
HandleMoved == \A s \in Slot : dir[s].open => dir[s].pos # 0

ListInv == ListsInOrder /\ HandleExact /\ HandleMoved

\* What a listing that completes has shown.
CompletesExactly ==
  \A l \in Lister :
    LET d == NodeAt(listing[l].path)
    IN  /\ listing[l].phase = "asking" /\ listing'[l].phase = "complete" /\ ~listing[l].changed
        => /\ listing'[l].seen = {n \in Children(tree, d) : Shown(d, n)}
           /\ listing'[l].cursor = Cardinality(Children(tree, d))

\* No listing has begun when the agents start.
LEMMA ListInit == Init => ListInv
BY DEF Init, ListInv, ListsInOrder, HandleExact, HandleMoved, Steady, NoListing, NoDir

\* A page of an open handle: the names R are read, up to last, and the cursor goes on.
PageDone(l, h, pos, R, last, after) ==
  /\ Segment(R, After(Content(l), h.last)) /\ last = Max(R \cup {h.last})
  /\ after = Min({pos + Cardinality(R), Nodes})
  /\ \A k \in Lister \ {l} : listing'[k] = listing[k]
  /\ \A o \in Slot \ {SlotOf[l]} : dir'[o] = dir[o]
  /\ listing'[l].cursor = after
  /\ listing'[l].seen = listing[l].seen \cup {n \in R : Shown(NodeAt(listing[l].path), n)}
  /\ \/ /\ listing'[l].phase = "complete" /\ ~dir'[SlotOf[l]].open
        /\ R = After(Content(l), h.last)
     \/ /\ listing'[l].phase = listing[l].phase /\ listing'[l].path = listing[l].path
        /\ listing'[l].changed = listing[l].changed
        /\ dir'[SlotOf[l]] = [open |-> TRUE, path |-> listing[l].path, pos |-> after]
        /\ stream'.last = last
        /\ R # {}

\* A page of an open handle reads the next names, and some if there are any.
LEMMA PageIs ==
  ASSUME TypeInv, NEW l \in Lister, NEW h, h \in Streams, h.open = TRUE, h.of = NodeAt(listing[l].path),
         NEW pos \in 0..Nodes, Page(l, h, pos)
  PROVE  \E R, last, after : PageDone(l, h, pos, R, last, after)
<1> DEFINE s == SlotOf[l]
           p == listing[l].path
           d == NodeAt(p)
           after(read) == Min({pos + Cardinality(read), Nodes})
           seen(read) == listing[l].seen \cup {n \in read : Shown(d, n)}
<1>1. s \in Slot /\ dir \in [Slot -> Dirs] /\ listing \in [Lister -> Listings]
  BY TypesAre DEF TypeInv
<1>2. Left(h) = After(Content(l), h.last)
  BY DEF Left, After, Content
<1>3. PICK R, end :
        /\ R = Read(h, d) /\ end = (R = Left(h) /\ Room(h, d, R))
        /\ listing' = [listing EXCEPT ![l] =
             IF end THEN [NoListing EXCEPT !.phase = "complete", !.cursor = after(R), !.seen = seen(R)]
             ELSE [@ EXCEPT !.cursor = after(R), !.seen = seen(R)]]
        /\ dir' = [dir EXCEPT ![s] = IF end THEN NoDir ELSE [open |-> TRUE, path |-> p, pos |-> after(R)]]
        /\ stream' = IF end \/ ~h.open THEN NoStream ELSE [h EXCEPT !.last = Max(R \cup {@})]
  BY DEF Page, Reads, Ends
<1>4. Segment(R, After(Content(l), h.last)) /\ (Left(h) # {} => R # {}) /\ (Left(h) = {} => Room(h, d, {}))
  BY <1>2, <1>3, ReadIsSegment
<1>5. /\ \A k \in Lister \ {l} : listing'[k] = listing[k]
      /\ \A o \in Slot \ {s} : dir'[o] = dir[o]
      /\ listing[l] \in Listings
  BY <1>1, <1>3
<1> HIDE DEF after, seen
<1>6. CASE end
  <2>1. listing'[l] = [NoListing EXCEPT !.phase = "complete", !.cursor = after(R), !.seen = seen(R)] /\ dir'[s] = NoDir
    BY <1>1, <1>3, <1>6
  <2>2. listing'[l].cursor = after(R) /\ listing'[l].seen = seen(R) /\ listing'[l].phase = "complete" /\ ~dir'[s].open
    BY <2>1 DEF NoListing, NoDir
  <2>3. R = After(Content(l), h.last)
    BY <1>2, <1>3, <1>6
  <2> QED BY <1>4, <1>5, <2>2, <2>3 DEF after, seen, PageDone
<1>7. CASE ~end
  <2>1. /\ listing'[l] = [listing[l] EXCEPT !.cursor = after(R), !.seen = seen(R)]
        /\ dir'[s] = [open |-> TRUE, path |-> p, pos |-> after(R)]
        /\ stream' = [h EXCEPT !.last = Max(R \cup {@})]
    BY <1>1, <1>3, <1>7
  <2>2. /\ listing'[l].cursor = after(R) /\ listing'[l].seen = seen(R) /\ listing'[l].phase = listing[l].phase
        /\ listing'[l].path = p /\ listing'[l].changed = listing[l].changed
    BY <1>5, <2>1 DEF Listings
  <2>3. stream'.last = Max(R \cup {h.last})
    BY <2>1 DEF Streams
  <2>4. R # {}
    <3> SUFFICES ASSUME R = {} PROVE FALSE
      OBVIOUS
    <3>1. Left(h) = {}
      BY <1>4
    <3> QED BY <1>3, <1>4, <1>7, <3>1
  <2> QED BY <1>4, <1>5, <2>1, <2>2, <2>3, <2>4 DEF after, seen, PageDone
<1> QED BY <1>6, <1>7

\* The handle has read pos names of the folder, if a steady listing lists it.
StandsAt(l, h, pos) ==
  /\ Steady(l) => pos = listing[l].cursor
  /\ \A k \in Lister :
       Steady(k) /\ SlotOf[k] = SlotOf[l] /\ listing[k].path = listing[l].path /\ (k = l \/ listing[k].cursor # 0)
         => pos = Cardinality(UpTo(Content(k), h.last))

\* A page of a handle that stands where the agent says, if the folder is one that a
\* steady listing lists.
LEMMA PageKeepsLists ==
  ASSUME TypeInv, ListInv, NEW l \in Lister, NEW h, h \in Streams, h.open = TRUE, h.of = NodeAt(listing[l].path),
         NEW pos \in 0..Nodes, Page(l, h, pos), tree' = tree, listing[l].phase = "asking",
         \A o \in Slot : dir[o].open => o = SlotOf[l], StandsAt(l, h, pos)
  PROVE  ListInv' /\ CompletesExactly
<1> DEFINE s == SlotOf[l]
           p == listing[l].path
           d == NodeAt(p)
           S == Content(l)
<1>0. PICK R, last, after : PageDone(l, h, pos, R, last, after)
  BY PageIs
<1>1. /\ Segment(R, After(S, h.last)) /\ last = Max(R \cup {h.last})
      /\ after = Min({pos + Cardinality(R), Nodes})
      /\ \A k \in Lister \ {l} : listing'[k] = listing[k]
      /\ \A o \in Slot \ {s} : dir'[o] = dir[o]
      /\ listing'[l].cursor = after
      /\ listing'[l].seen = listing[l].seen \cup {n \in R : Shown(d, n)}
      /\ \/ /\ listing'[l].phase = "complete" /\ ~dir'[s].open
            /\ R = After(S, h.last)
         \/ /\ listing'[l].phase = listing[l].phase /\ listing'[l].path = p
            /\ listing'[l].changed = listing[l].changed
            /\ dir'[s] = [open |-> TRUE, path |-> p, pos |-> after]
            /\ stream'.last = last
            /\ R # {}
  BY <1>0 DEF PageDone
<1>2. S \in SUBSET Node /\ h.last \in 0..Nodes /\ Nodes \in Nat /\ R \in SUBSET Node /\ s \in Slot /\ pos \in Nat
  BY <1>1 DEF Content, Children, Streams, Segment, After
<1>3. /\ last \in 0..Nodes
      /\ UpTo(S, last) = UpTo(S, h.last) \cup R
      /\ Cardinality(UpTo(S, last)) = Cardinality(UpTo(S, h.last)) + Cardinality(R)
      /\ Cardinality(UpTo(S, last)) <= Nodes
      /\ R = After(S, h.last) => UpTo(S, last) = S
  <2>1. Segment(R, After(S, h.last)) /\ last = Max(R \cup {h.last}) /\ S \in SUBSET Node /\ h.last \in 0..Nodes
    BY <1>1, <1>2
  <2> HIDE DEF S
  <2> QED BY ONLY <2>1, ReadsOn
<1>4. Cardinality(R) \in Nat /\ (R # {} => Cardinality(R) # 0)
  BY <1>2, NamesAre, FS_EmptySet
<1>5. after = IF pos + Cardinality(R) <= Nodes THEN pos + Cardinality(R) ELSE Nodes
  <2> DEFINE two == {pos + Cardinality(R), Nodes}
  <2>1. two \in SUBSET Nat /\ two # {}
    BY <1>2, <1>4
  <2> HIDE DEF two
  <2>2. Min(two) \in two /\ \A k \in two : Min(two) <= k
    BY <2>1, LeastOf
  <2> QED BY <1>1, <1>2, <1>4, <2>2 DEF two
<1>6. pos = Cardinality(UpTo(S, h.last)) => after = Cardinality(UpTo(S, last))
  BY <1>2, <1>3, <1>4, <1>5
<1>7. R # {} => after # 0
  <2> SUFFICES ASSUME R # {} PROVE after # 0
    OBVIOUS
  <2>1. Cardinality(R) <= Nodes
    BY <1>2, NamesAre
  <2> QED BY <1>2, <1>4, <1>5, <2>1
<1>8. HandleMoved'
  BY <1>1, <1>7 DEF ListInv, HandleMoved
<1>9. \A k \in Lister \ {l} : (Steady(k) <=> Steady(k)') /\ Content(k)' = Content(k)
  BY <1>1 DEF Steady, Content, Children
<1>10. ASSUME Steady(l)
       PROVE  /\ listing'[l].seen = {n \in UpTo(S, last) : Shown(d, n)}
              /\ listing'[l].cursor = Cardinality(UpTo(S, last))
  <2>1. pos = listing[l].cursor /\ pos = Cardinality(UpTo(S, h.last))
    BY <1>10 DEF StandsAt
  <2>2. PICK x \in 0..Nodes : /\ listing[l].seen = {n \in UpTo(S, x) : Shown(d, n)}
                              /\ listing[l].cursor = Cardinality(UpTo(S, x))
    BY <1>10 DEF ListInv, ListsInOrder
  <2>3. UpTo(S, x) = UpTo(S, h.last)
    <3>1. x \in Nat /\ h.last \in Nat /\ S \in SUBSET Node
      BY <1>2
    <3>2. Cardinality(UpTo(S, x)) = Cardinality(UpTo(S, h.last))
      BY <2>1, <2>2
    <3> HIDE DEF S
    <3> QED BY ONLY <3>1, <3>2, SameCount
  <2>4. listing'[l].seen = {n \in UpTo(S, h.last) : Shown(d, n)} \cup {n \in R : Shown(d, n)}
    BY <1>1, <2>2, <2>3
  <2>5. listing'[l].seen = {n \in UpTo(S, last) : Shown(d, n)}
    BY <1>3, <2>4
  <2> QED BY <1>1, <1>6, <2>1, <2>5
<1>11. CASE listing'[l].phase = "complete"
  <2>1. ~dir'[s].open /\ R = After(S, h.last)
    BY <1>1, <1>11
  <2>2. \A o \in Slot : ~dir'[o].open
    BY <1>1, <2>1
  <2>3. ~Steady(l)'
    BY <1>11 DEF Steady
  <2>4. ListsInOrder'
    <3> SUFFICES ASSUME NEW k \in Lister, Steady(k)'
                 PROVE  \E x \in 0..Nodes : /\ listing'[k].seen = {n \in UpTo(Content(k)', x) : Shown(NodeAt(listing'[k].path), n)}
                                            /\ listing'[k].cursor = Cardinality(UpTo(Content(k)', x))
      BY DEF ListsInOrder, UpTo, Shown, NodeAt
    <3>1. k # l /\ listing'[k] = listing[k] /\ Steady(k) /\ Content(k)' = Content(k)
      BY <1>1, <1>9, <2>3
    <3> QED BY <3>1 DEF ListInv, ListsInOrder
  <2>5. HandleExact'
    BY <2>2 DEF HandleExact
  <2>6. CompletesExactly
    <3> SUFFICES ASSUME NEW k \in Lister, listing[k].phase = "asking", listing'[k].phase = "complete", ~listing[k].changed
                 PROVE  /\ listing'[k].seen = {n \in Children(tree, NodeAt(listing[k].path)) : Shown(NodeAt(listing[k].path), n)}
                        /\ listing'[k].cursor = Cardinality(Children(tree, NodeAt(listing[k].path)))
      BY DEF CompletesExactly
    <3>1. k = l
      BY <1>1
    <3>2. Steady(l) /\ S = Children(tree, d) /\ UpTo(S, last) = S
      BY <1>3, <2>1, <3>1 DEF Steady, Content
    <3> QED BY <1>10, <3>1, <3>2
  <2> QED BY <1>8, <2>4, <2>5, <2>6 DEF ListInv
<1>12. CASE listing'[l].phase # "complete"
  <2>1. /\ listing'[l].phase = listing[l].phase /\ listing'[l].path = p
        /\ listing'[l].changed = listing[l].changed
        /\ dir'[s] = [open |-> TRUE, path |-> p, pos |-> after]
        /\ stream'.last = last
    BY <1>1, <1>12
  <2>2. (Steady(l)' <=> Steady(l)) /\ Content(l)' = S
    BY <2>1 DEF Steady, Content, Children
  <2>3. ListsInOrder'
    <3> SUFFICES ASSUME NEW k \in Lister, Steady(k)'
                 PROVE  \E x \in 0..Nodes : /\ listing'[k].seen = {n \in UpTo(Content(k)', x) : Shown(NodeAt(listing'[k].path), n)}
                                            /\ listing'[k].cursor = Cardinality(UpTo(Content(k)', x))
      BY DEF ListsInOrder, UpTo, Shown, NodeAt
    <3>1. CASE k # l
      <4>1. listing'[k] = listing[k] /\ Steady(k) /\ Content(k)' = Content(k)
        BY <1>1, <1>9, <3>1
      <4> QED BY <4>1 DEF ListInv, ListsInOrder
    <3>2. CASE k = l
      BY <1>3, <1>10, <2>1, <2>2, <3>2
    <3> QED BY <3>1, <3>2
  <2>4. HandleExact'
    <3> SUFFICES ASSUME NEW k \in Lister, Steady(k)', listing'[k].cursor # 0,
                        dir'[SlotOf[k]].open, dir'[SlotOf[k]].path = listing'[k].path
                 PROVE  dir'[SlotOf[k]].pos = Cardinality(UpTo(Content(k)', stream'.last))
      BY DEF HandleExact, UpTo
    <3>1. SlotOf[k] = s
      BY <1>1
    <3>2. CASE k # l
      <4>1. listing'[k] = listing[k] /\ Steady(k) /\ Content(k)' = Content(k)
        BY <1>1, <1>9, <3>2
      <4>2. listing[k].path = p /\ Content(k) = S
        BY <2>1, <3>1, <4>1 DEF Content
      <4>3. pos = Cardinality(UpTo(S, h.last))
        BY <3>1, <4>1, <4>2 DEF StandsAt
      <4> QED BY <1>6, <2>1, <3>1, <4>1, <4>2, <4>3
    <3>3. CASE k = l
      <4>1. pos = Cardinality(UpTo(S, h.last))
        BY <2>2, <3>3 DEF StandsAt
      <4> QED BY <1>6, <2>1, <2>2, <3>3, <4>1
    <3> QED BY <3>2, <3>3
  <2>5. CompletesExactly
    BY <1>1, <1>12 DEF CompletesExactly
  <2> QED BY <1>8, <2>3, <2>4, <2>5 DEF ListInv
<1> QED BY <1>11, <1>12

\* A card that changes leaves the listings of other folders.
LEMMA BecomesKeepsLists ==
  ASSUME TypeInv, ListInv, NEW t, Becomes(t), dir' = dir,
         stream' = stream \/ \A s \in Slot : ~dir[s].open
  PROVE  ListInv' /\ CompletesExactly
<1>1. /\ tree' = t
      /\ \A l \in Lister :
           /\ listing'[l].phase = listing[l].phase /\ listing'[l].path = listing[l].path
           /\ listing'[l].cursor = listing[l].cursor /\ listing'[l].seen = listing[l].seen
           /\ Steady(l)' => Steady(l) /\ Content(l)' = Content(l)
  BY BecomesIs DEF TypeInv, Steady, Content, Children
<1>2. ListsInOrder'
  <2> SUFFICES ASSUME NEW k \in Lister, Steady(k)'
               PROVE  \E x \in 0..Nodes : /\ listing'[k].seen = {n \in UpTo(Content(k)', x) : Shown(NodeAt(listing'[k].path), n)}
                                          /\ listing'[k].cursor = Cardinality(UpTo(Content(k)', x))
    BY DEF ListsInOrder, UpTo, Shown, NodeAt
  <2> QED BY <1>1 DEF ListInv, ListsInOrder
<1>3. HandleExact'
  <2> SUFFICES ASSUME NEW k \in Lister, Steady(k)', listing'[k].cursor # 0,
                      dir'[SlotOf[k]].open, dir'[SlotOf[k]].path = listing'[k].path
               PROVE  dir'[SlotOf[k]].pos = Cardinality(UpTo(Content(k)', stream'.last))
    BY DEF HandleExact, UpTo
  <2> QED BY <1>1 DEF ListInv, HandleExact
<1>4. HandleMoved'
  BY DEF ListInv, HandleMoved
<1>5. CompletesExactly
  BY <1>1 DEF CompletesExactly
<1> QED BY <1>2, <1>3, <1>4, <1>5 DEF ListInv

\* Listings that are over, or begin, and handles that are closed.
LEMMA EndsKeepLists ==
  ASSUME TypeInv, ListInv, tree' = tree, stream' = stream \/ \A s \in Slot : ~dir'[s].open,
         \A s \in Slot : dir'[s] = dir[s] \/ ~dir'[s].open,
         \A l \in Lister : \/ listing'[l] = listing[l]
                           \/ listing'[l].phase = "off"
                           \/ listing'[l].phase = "asking" /\ listing'[l].cursor = 0 /\ listing'[l].seen = {}
  PROVE  ListInv' /\ CompletesExactly
<1>1. \A l \in Lister : listing'[l] = listing[l] => (Steady(l)' <=> Steady(l)) /\ Content(l)' = Content(l)
  BY DEF Steady, Content, Children
<1>2. ListsInOrder'
  <2> SUFFICES ASSUME NEW k \in Lister, Steady(k)'
               PROVE  \E x \in 0..Nodes : /\ listing'[k].seen = {n \in UpTo(Content(k)', x) : Shown(NodeAt(listing'[k].path), n)}
                                          /\ listing'[k].cursor = Cardinality(UpTo(Content(k)', x))
    BY DEF ListsInOrder, UpTo, Shown, NodeAt
  <2>1. CASE listing'[k] = listing[k]
    BY <1>1, <2>1 DEF ListInv, ListsInOrder
  <2>2. CASE listing'[k].phase = "asking" /\ listing'[k].cursor = 0 /\ listing'[k].seen = {}
    <3> DEFINE S == Content(k)'
    <3>1. S \in SUBSET Node /\ Nodes \in Nat /\ 0 \in 0..Nodes
      BY DEF Content, Children
    <3> HIDE DEF S
    <3>2. \A n \in S : ~(n <= 0)
      <4>1. \A n \in S : n \in Nat \ {0}
        BY <3>1, NodesAreNumbers
      <4> QED BY <4>1
    <3>3. UpTo(S, 0) = {} /\ Cardinality(UpTo(S, 0)) = 0
      BY <3>2, FS_EmptySet DEF UpTo
    <3> QED BY <2>2, <3>1, <3>3 DEF S
  <2>3. CASE listing'[k].phase = "off"
    BY <2>3 DEF Steady
  <2> QED BY <2>1, <2>2, <2>3
<1>3. HandleExact'
  <2> SUFFICES ASSUME NEW k \in Lister, Steady(k)', listing'[k].cursor # 0,
                      dir'[SlotOf[k]].open, dir'[SlotOf[k]].path = listing'[k].path
               PROVE  dir'[SlotOf[k]].pos = Cardinality(UpTo(Content(k)', stream'.last))
    BY DEF HandleExact, UpTo
  <2>1. listing'[k] = listing[k] /\ SlotOf[k] \in Slot
    BY DEF Steady
  <2> QED BY <1>1, <2>1 DEF ListInv, HandleExact
<1>4. HandleMoved'
  BY DEF ListInv, HandleMoved
<1>5. CompletesExactly
  BY DEF CompletesExactly
<1> QED BY <1>2, <1>3, <1>4, <1>5 DEF ListInv
-----------------------------------------------------------------------------
\* FS_LIST: refused, from the handle kept open, or from one that is opened again.
LEMMA ListKeepsLists ==
  ASSUME Apart, HandleInv, TypeInv, ListInv, NEW l \in Lister, List(l)
  PROVE  ListInv' /\ CompletesExactly
<1> DEFINE s == SlotOf[l]
           p == listing[l].path
           d == NodeAt(p)
           cursor == listing[l].cursor
           h == Reopened(d, cursor)
           S == Content(l)
<1>1. /\ s \in Slot /\ stream \in Streams /\ dir \in [Slot -> Dirs] /\ listing \in [Lister -> Listings]
      /\ cursor \in 0..Nodes /\ cursor \in Nat /\ d \in Folder \cup {Root} /\ Nodes \in Nat
  BY TypesAre DEF TypeInv, Listings, ListsFolders
<1>2. /\ listing[l].phase = "asking" /\ tree' = tree
      /\ \A o \in Slot : dir[o].open => o = s
  BY DEF List
<1>3. CASE Refuse(l)
  <2>1. stream' = Closed(s) /\ dir' = [dir EXCEPT ![s] = NoDir] /\ listing' = [listing EXCEPT ![l] = NoListing]
    BY <1>3 DEF Refuse, Released
  <2>2. stream' = stream \/ \A o \in Slot : ~dir'[o].open
    BY <1>1, <1>2, <2>1 DEF Closed, NoDir
  <2>3. \A o \in Slot : dir'[o] = dir[o] \/ ~dir'[o].open
    BY <1>1, <2>1 DEF NoDir
  <2>4. \A k \in Lister : listing'[k] = listing[k] \/ listing'[k].phase = "off"
    BY <1>1, <2>1 DEF NoListing
  <2> QED BY <1>2, <2>2, <2>3, <2>4, EndsKeepLists
<1>4. CASE Keeps(s, p, cursor) /\ Page(l, stream, cursor)
  <2>1. dir[s].open /\ dir[s].pos = cursor /\ dir[s].path = p
    BY <1>4 DEF Keeps
  <2>2. stream.open = TRUE /\ stream.of = d
    BY <1>1, <2>1 DEF HandleInv, HandleSound, HandleShapes
  <2>3. cursor # 0
    BY <1>1, <2>1 DEF ListInv, HandleMoved
  <2>4. StandsAt(l, stream, cursor)
    <3>1. ASSUME NEW k \in Lister, Steady(k), SlotOf[k] = s, listing[k].path = p, k = l \/ listing[k].cursor # 0
          PROVE  cursor = Cardinality(UpTo(Content(k), stream.last))
      <4>1. listing[k].cursor # 0
        BY <2>3, <3>1
      <4>2. dir[SlotOf[k]].open /\ dir[SlotOf[k]].path = listing[k].path
        BY <2>1, <3>1
      <4>3. dir[SlotOf[k]].pos = Cardinality(UpTo(Content(k), stream.last))
        BY <3>1, <4>1, <4>2 DEF ListInv, HandleExact
      <4> QED BY <2>1, <3>1, <4>3
    <3> QED BY <3>1 DEF StandsAt
  <2> QED BY <1>1, <1>2, <1>4, <2>2, <2>4, PageKeepsLists
<1>5. CASE Page(l, h, Skipped(d, cursor))
  <2>1. /\ h.open = TRUE /\ h.of = d /\ h.last \in 0..Nodes
        /\ h = [open |-> h.open, of |-> h.of, last |-> h.last]
        /\ Skipped(d, cursor) = Cardinality(UpTo(S, h.last))
        /\ cursor <= Cardinality(S) => Skipped(d, cursor) = cursor
    BY <1>1, ReopenedIs DEF Content
  <2> HIDE DEF h
  <2>2. h \in Streams
    BY <1>1, <2>1 DEF Streams
  <2>3. S \in SUBSET Node /\ UpTo(S, h.last) \in SUBSET Node /\ \A x : UpTo(S, x) \in SUBSET S
    BY DEF Content, Children, UpTo
  <2>4. Skipped(d, cursor) \in 0..Nodes
    BY <2>1, <2>3, NodesAreFinite
  <2>5. Steady(l) => Skipped(d, cursor) = cursor
    <3> SUFFICES ASSUME Steady(l) PROVE cursor <= Cardinality(S)
      BY <2>1
    <3>1. PICK x \in 0..Nodes : cursor = Cardinality(UpTo(S, x))
      BY DEF ListInv, ListsInOrder
    <3> QED BY <2>3, <3>1, NamesAre
  <2>6. StandsAt(l, h, Skipped(d, cursor))
    <3>1. ASSUME NEW k \in Lister, listing[k].path = p PROVE Content(k) = S
      BY <3>1 DEF Content
    <3> HIDE DEF S
    <3> QED BY <2>1, <2>5, <3>1 DEF StandsAt
  <2> QED BY <1>1, <1>2, <1>5, <2>1, <2>2, <2>4, <2>6, PageKeepsLists
<1> QED BY <1>3, <1>4, <1>5 DEF List

\* Every step keeps what the listings have shown, and completes only those that showed it all.
LEMMA ListsStep ==
  ASSUME Apart, HandleInv, CardInv, ListInv, [Next]_vars
  PROVE  ListInv' /\ (CompletesExactly \/ UNCHANGED vars)
<1>1. TypeInv /\ TypeOK /\ listing \in [Lister -> Listings] /\ dir \in [Slot -> Dirs]
  BY TypesAre DEF CardInv, TypeInv
<1>2. ASSUME UNCHANGED <<tree, stream, dir, listing>> PROVE ListInv' /\ CompletesExactly
  <2>1. \A l \in Lister : listing'[l] = listing[l]
    BY <1>2
  <2>2. \A s \in Slot : dir'[s] = dir[s]
    BY <1>2
  <2> QED BY <1>1, <1>2, <2>1, <2>2, EndsKeepLists
<1>3. ASSUME NEW t, Becomes(t), UNCHANGED <<stream, dir>> PROVE ListInv' /\ CompletesExactly
  BY <1>1, <1>3, BecomesKeepsLists
<1>4. ASSUME NEW l \in Lister, List(l) PROVE ListInv' /\ CompletesExactly
  BY <1>1, <1>4, ListKeepsLists
<1>5. ASSUME NEW l \in Lister, NEW d, BeginListing(l, d) PROVE ListInv' /\ CompletesExactly
  <2> DEFINE new == [NoListing EXCEPT !.phase = "asking", !.path = PathOf(tree, d)]
  <2>1. listing' = [listing EXCEPT ![l] = new] /\ UNCHANGED <<tree, stream, dir>>
    BY <1>5 DEF BeginListing
  <2>2. new.phase = "asking" /\ new.cursor = 0 /\ new.seen = {}
    BY DEF NoListing
  <2> HIDE DEF new
  <2>3. \A k \in Lister : \/ listing'[k] = listing[k]
                          \/ listing'[k].phase = "asking" /\ listing'[k].cursor = 0 /\ listing'[k].seen = {}
    BY <1>1, <2>1, <2>2
  <2>4. \A s \in Slot : dir'[s] = dir[s]
    BY <2>1
  <2> QED BY <1>1, <2>1, <2>3, <2>4, EndsKeepLists
<1>6. ASSUME NEW n, NEW d, Mkdir(n, d) \/ Rename(n, d) \/ Delete(n) PROVE ListInv' /\ CompletesExactly
  BY <1>3, <1>6 DEF Mkdir, Rename, Delete, Move
<1>7. ASSUME NEW s, Purge(s) PROVE ListInv' /\ CompletesExactly
  BY <1>2, <1>3, <1>7 DEF Purge
<1>8. ASSUME NEW s, NEW n, BeginPurge(s, n) PROVE ListInv' /\ CompletesExactly
  BY <1>2, <1>8 DEF BeginPurge
<1>9. CASE Turn
  <2>1. stream' = NoStream /\ dir' = dir /\ (UNCHANGED <<tree, listing>> \/ \E t : Becomes(t))
    BY <1>9, TurnIs
  <2>2. \A s \in Slot : ~dir[s].open
    <3>1. work.slot \in Slot /\ purging[work.slot].phase = "asking"
      BY <1>9 DEF Turn, HandleInv, WorkAsked
    <3> QED BY <3>1 DEF HandleInv, PurgesAlone, HandleSound
  <2>3. CASE UNCHANGED <<tree, listing>>
    <3>1. (\A l \in Lister : listing'[l] = listing[l]) /\ \A s \in Slot : dir'[s] = dir[s] /\ ~dir'[s].open
      BY <2>1, <2>2, <2>3
    <3> QED BY <1>1, <2>1, <2>3, <3>1, EndsKeepLists
  <2>4. CASE \E t : Becomes(t)
    BY <1>1, <2>1, <2>2, <2>4, BecomesKeepsLists
  <2> QED BY <2>1, <2>3, <2>4
<1>10. CASE Pause
  BY <1>2, <1>10 DEF Pause
<1>11. ASSUME NEW s \in Slot, Disconnect(s) PROVE ListInv' /\ CompletesExactly
  <2>1. /\ tree' = tree /\ stream' = Closed(s) /\ dir' = [dir EXCEPT ![s] = NoDir]
        /\ listing' = [l \in Lister |-> IF SlotOf[l] = s THEN NoListing ELSE listing[l]]
    BY <1>11 DEF Disconnect, Released
  <2>2. stream' = stream \/ \A o \in Slot : ~dir'[o].open
    <3>1. dir[s].open => \A o \in Slot \ {s} : ~dir[o].open
      BY DEF HandleInv, HandleSound
    <3> QED BY <1>1, <2>1, <3>1 DEF Closed, NoDir
  <2>3. \A o \in Slot : dir'[o] = dir[o] \/ ~dir'[o].open
    BY <1>1, <2>1 DEF NoDir
  <2>4. \A k \in Lister : listing'[k] = listing[k] \/ listing'[k].phase = "off"
    BY <2>1 DEF NoListing
  <2> QED BY <1>1, <2>1, <2>2, <2>3, <2>4, EndsKeepLists
<1>12. CASE Crash
  <2>1. /\ tree' = tree /\ dir' = [s \in Slot |-> NoDir] /\ listing' = [l \in Lister |-> NoListing]
    BY <1>12 DEF Crash
  <2>2. (\A o \in Slot : ~dir'[o].open) /\ \A k \in Lister : listing'[k].phase = "off"
    BY <2>1 DEF NoDir, NoListing
  <2> QED BY <1>1, <2>1, <2>2, EndsKeepLists
<1>13. CASE UNCHANGED vars
  BY <1>2, <1>13 DEF vars
<1> QED
  BY <1>4, <1>5, <1>6, <1>7, <1>8, <1>9, <1>10, <1>11, <1>12, <1>13 DEF Next

(***************************************************************************)
(* When the clients take turns, a listing that completes has shown every   *)
(* item of its folder that may be seen, each once and nothing else, however *)
(* many requests it took, if the folder did not change meanwhile.          *)
(***************************************************************************)
THEOREM ListingsAreExact ==
  ASSUME Apart
  PROVE  Spec => ListingExact
<1>1. Init => ListInv /\ HandleInv
  BY ListInit, HandleInit
<1>2. HandleInv /\ CardInv /\ ListInv /\ [Next]_vars => HandleInv' /\ ListInv' /\ [CompletesExactly]_vars
  BY HandleStep, ListsStep
<1>3. CompletesExactly <=>
        \A l \in Lister :
          LET d == NodeAt(listing[l].path)
          IN  /\ listing[l].phase = "asking" /\ listing'[l].phase = "complete" /\ ~listing[l].changed
              => /\ listing'[l].seen = {n \in Children(tree, d) : Shown(d, n)}
                 /\ listing'[l].cursor = Cardinality(Children(tree, d))
  BY DEF CompletesExactly
<1> QED BY <1>1, <1>2, <1>3, FoldersInvariant, PTL DEF Spec, ListingExact
=============================================================================
