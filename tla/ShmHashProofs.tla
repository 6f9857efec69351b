---------------------------- MODULE ShmHashProofs ----------------------------
(***************************************************************************)
(* Proofs about ShmHash, for any processes and keys, any first number of   *)
(* buckets and memory of any size.                                         *)
(***************************************************************************)
EXTENDS ShmHash, FiniteSetTheorems, SequenceTheorems, WellFoundedInduction, TLAPS

-----------------------------------------------------------------------------
(* Numbers *)

\* A set of numbers that is not empty has a least one.
LEMMA Least ==
  ASSUME NEW T \in SUBSET Nat, T # {}
  PROVE  \E x \in T : \A y \in T : x <= y
<1>1. PICK x \in T : \A y \in T : ~(<<y, x>> \in OpToRel(<, Nat))
  BY NatLessThanWellFounded, WFMin
<1>2. \A y \in T : ~(y < x)
  BY <1>1 DEF OpToRel
<1> QED
  BY <1>2

\* Induction, for a set of numbers.
LEMMA Inductive ==
  ASSUME NEW T \in SUBSET Nat, 0 \in T, \A n \in T : n + 1 \in T
  PROVE  T = Nat
<1> SUFFICES ASSUME Nat \ T # {} PROVE FALSE
  OBVIOUS
<1>1. PICK x \in Nat \ T : \A y \in Nat \ T : x <= y
  BY Least
<1>2. x - 1 \in T
  BY <1>1
<1> QED
  BY <1>1, <1>2

\* A set of numbers with a bound that is not empty has a greatest one.
LEMMA Greatest ==
  ASSUME NEW T \in SUBSET Nat, T # {}, NEW top \in Nat, \A x \in T : x <= top
  PROVE  \E x \in T : \A y \in T : y <= x
<1> DEFINE D == {n \in Nat : top - n \in T}
<1>1. D # {}
  <2>1. PICK x \in T : TRUE
    OBVIOUS
  <2>2. top - x \in D
    BY top - (top - x) = x
  <2> QED
    BY <2>2
<1>2. PICK n \in D : \A m \in D : n <= m
  BY <1>1, Least
<1>3. ASSUME NEW y \in T PROVE y <= top - n
  <2>1. top - y \in D
    BY top - (top - y) = y
  <2> QED
    BY <1>2, <2>1
<1> QED
  BY <1>2, <1>3

-----------------------------------------------------------------------------
(* The walk along a list *)

Row(next, stop, from, k) ==
  [n \in Link |-> IF k = 0 \/ n = End \/ n \in stop THEN {}
                  ELSE {n} \cup from[k - 1][next[n]]]

\* f is what the recursion of Nodes defines.
Walk(next, stop, f) == f = [k \in 0..MaxNodes |-> Row(next, stop, f, k)]

\* f keeps to the recursion of Nodes in its first rows.
Upto(next, stop, f, j) ==
  /\ f = [k \in 0..MaxNodes |-> f[k]]
  /\ \A k \in 0..MaxNodes : k <= j => f[k] = Row(next, stop, f, k)

\* There is a function that this recursion defines.
LEMMA WalkExists ==
  ASSUME NEW next, NEW stop
  PROVE  \E f : Walk(next, stop, f)
<1> DEFINE T == {j \in Nat : \E f : Upto(next, stop, f, j)}
<1>1. 0 \in T
  <2> DEFINE f == [k \in 0..MaxNodes |-> [n \in Link |-> {}]]
  <2>1. Upto(next, stop, f, 0)
    BY NodesAssumption DEF Row, Upto
  <2> QED
    BY <2>1
<1>2. ASSUME NEW j \in T PROVE j + 1 \in T
  <2>1. PICK f : Upto(next, stop, f, j)
    BY <1>2
  <2> DEFINE g == [k \in 0..MaxNodes |-> IF k = j + 1 THEN Row(next, stop, f, k) ELSE f[k]]
  <2>2. g = [k \in 0..MaxNodes |-> g[k]]
    OBVIOUS
  <2>3. ASSUME NEW k \in 0..MaxNodes, k <= j + 1 PROVE g[k] = Row(next, stop, g, k)
    <3>1. k # 0 => g[k - 1] = f[k - 1]
      BY <2>3, NodesAssumption
    <3>2. Row(next, stop, g, k) = Row(next, stop, f, k)
      BY <3>1, NodesAssumption DEF Row
    <3>3. g[k] = Row(next, stop, f, k)
      BY <2>1, <2>3, NodesAssumption DEF Upto
    <3> QED
      BY <3>2, <3>3
  <2> HIDE DEF g
  <2>4. Upto(next, stop, g, j + 1)
    BY <2>2, <2>3 DEF Upto
  <2> QED
    BY <1>2, <2>4
<1> HIDE DEF T
<1>3. T = Nat
  BY <1>1, <1>2, Inductive DEF T
<1>4. PICK f : Upto(next, stop, f, MaxNodes)
  BY <1>3, NodesAssumption DEF T
<1>5. Walk(next, stop, f)
  BY <1>4, NodesAssumption DEF Upto, Walk
<1> QED
  BY <1>5

\* What Nodes collects, without its recursion.
LEMMA NodesRows ==
  ASSUME NEW h, NEW stop
  PROVE  \E f : /\ Walk(m_datas.next, stop, f)
                /\ Nodes(h, stop) = f[MaxNodes][h]
<1> DEFINE g == CHOOSE f : Walk(m_datas.next, stop, f)
<1>1. Walk(m_datas.next, stop, g)
  BY WalkExists DEF Walk
<1>2. Nodes(h, stop) = g[MaxNodes][h]
  BY DEF Nodes, Row, Walk
<1> QED
  BY <1>1, <1>2

-----------------------------------------------------------------------------
(* How the lists lie *)

\* The nodes of N hang in the lists: at[n] says in which, rank[n] how many
\* nodes of it come after n.
Laid(N, hashs, next, at, rank) ==
  /\ \A n \in N : at[n] < hashs.size
  /\ \A n, m \in N : at[n] = at[m] /\ rank[n] = rank[m] => n = m
  /\ \A b \in 0..hashs.size - 1 :
       \/ hashs.cell[b] = End /\ \A n \in N : at[n] # b
       \/ /\ hashs.cell[b] \in N /\ at[hashs.cell[b]] = b
          /\ \A n \in N : at[n] = b => rank[n] <= rank[hashs.cell[b]]
  /\ \A n \in N :
       \/ next[n] = End /\ rank[n] = 0
       \/ next[n] \in N /\ at[next[n]] = at[n] /\ rank[n] = rank[next[n]] + 1

HashRange == [size : 0..InitialBuckets + MaxNodes + 1, cell : [Cell -> Link]]
DataRange == [size : 0..MaxNodes, next : [Node -> Link], data : [Node -> Key]]

\* The list heads and the nodes are in their ranges, the nodes of N are nodes.
Ranges(N, hashs, next, at, rank) ==
  /\ N \subseteq Node
  /\ hashs \in HashRange /\ next \in [Node -> Link]
  /\ at \in [Node -> Nat] /\ rank \in [Node -> Nat]

\* No rank up to that of the head is left out.
LEMMA Filled ==
  ASSUME NEW N, NEW hashs, NEW next, NEW at, NEW rank,
         Ranges(N, hashs, next, at, rank), Laid(N, hashs, next, at, rank),
         NEW m \in N, NEW r \in Nat, r <= rank[m]
  PROVE  \E n \in N : at[n] = at[m] /\ rank[n] = r
<1> DEFINE T == {i \in Nat : i <= rank[m] => \E n \in N : at[n] = at[m] /\ rank[n] = rank[m] - i}
<1>0. rank[m] \in Nat
  BY DEF Ranges
<1>1. 0 \in T
  BY <1>0
<1>2. ASSUME NEW i \in T PROVE i + 1 \in T
  <2> SUFFICES ASSUME i + 1 <= rank[m]
               PROVE  \E n \in N : at[n] = at[m] /\ rank[n] = rank[m] - (i + 1)
    OBVIOUS
  <2>1. PICK n \in N : at[n] = at[m] /\ rank[n] = rank[m] - i
    BY <1>0
  <2>2. rank[n] # 0
    BY <2>1, <1>0
  <2>3. next[n] \in N /\ at[next[n]] = at[n] /\ rank[n] = rank[next[n]] + 1
    BY <2>2 DEF Laid
  <2>4. rank[next[n]] \in Nat
    BY <2>3 DEF Ranges
  <2> QED
    BY <1>0, <2>1, <2>3, <2>4
<1>3. T = Nat
  <2> HIDE DEF T
  <2> QED
    BY <1>1, <1>2, Inductive DEF T
<1>4. rank[m] - r \in T
  BY <1>0, <1>3
<1>5. rank[m] - (rank[m] - r) = r
  BY <1>0
<1> QED
  BY <1>0, <1>4, <1>5

LEMMA NodeCount == IsFiniteSet(Node) /\ Cardinality(Node) = MaxNodes
<1>1. IsFiniteSet(0..MaxNodes - 1) /\ Cardinality(0..MaxNodes - 1) = (MaxNodes - 1) - 0 + 1
  BY NodesAssumption, FS_Interval
<1> QED
  BY <1>1, NodesAssumption DEF Node

\* A list is no longer than the memory.
LEMMA RankBound ==
  ASSUME NEW N, NEW hashs, NEW next, NEW at, NEW rank,
         Ranges(N, hashs, next, at, rank), Laid(N, hashs, next, at, rank),
         NEW m \in N
  PROVE  rank[m] < MaxNodes
<1>1. rank[m] \in Nat
  BY DEF Ranges
<1> SUFFICES ASSUME MaxNodes <= rank[m] PROVE FALSE
  BY <1>1, NodesAssumption
<1> DEFINE f == [r \in 0..rank[m] |-> CHOOSE n \in N : at[n] = at[m] /\ rank[n] = r]
<1>2. \A r \in 0..rank[m] : f[r] \in N /\ rank[f[r]] = r
  BY <1>1, Filled
<1>3. f \in [0..rank[m] -> Node]
  BY <1>2 DEF Ranges
<1>4. IsFiniteSet(0..rank[m]) /\ Cardinality(0..rank[m]) = rank[m] - 0 + 1
  BY <1>1, FS_Interval
<1>5. Cardinality(Node) < Cardinality(0..rank[m])
  BY <1>1, <1>4, NodeCount, NodesAssumption
<1>6. \E x, y \in 0..rank[m] : x # y /\ f[x] = f[y]
  <2> HIDE DEF f
  <2> QED
    BY <1>3, <1>4, <1>5, NodeCount, FS_PigeonHole
<1> HIDE DEF f
<1> QED
  BY <1>2, <1>6

\* The nodes of the list at b of a greater rank than floor and one up to top.
Between(N, at, rank, b, floor, top) ==
  {x \in N : at[x] = b /\ floor < rank[x] /\ rank[x] <= top}

\* Where the walk is to stop: at the end, or at a node s of the list.
Stopping(N, at, rank, b, stop, floor) ==
  \/ stop = {} /\ floor = -1
  \/ \E s \in N : at[s] = b /\ stop = {s} /\ floor = rank[s]

\* What k steps from a node collect, if that is far enough to stop.
LEMMA RowsCollect ==
  ASSUME NEW N, NEW hashs, NEW next, NEW at, NEW rank,
         Ranges(N, hashs, next, at, rank), Laid(N, hashs, next, at, rank),
         NEW b, NEW stop, NEW floor \in Int, Stopping(N, at, rank, b, stop, floor),
         NEW f, Walk(next, stop, f),
         NEW k \in 0..MaxNodes,
         NEW m \in N, at[m] = b, floor <= rank[m], rank[m] - floor <= k
  PROVE  f[k][m] = Between(N, at, rank, b, floor, rank[m])
<1> DEFINE Right(j, x) ==
             at[x] = b /\ floor <= rank[x] /\ rank[x] - floor <= j
               => f[j][x] = Between(N, at, rank, b, floor, rank[x])
           T == {j \in Nat : j <= MaxNodes => \A x \in N : Right(j, x)}
<1>0. /\ \A x \in N : x \in Node /\ x \in Link /\ x # End /\ rank[x] \in Nat
      /\ End \in Link /\ MaxNodes \in Nat
  BY NodesAssumption DEF Ranges, Node, Link, End
<1>1. \A j \in 0..MaxNodes : \A x \in Link :
        f[j][x] = IF j = 0 \/ x = End \/ x \in stop THEN {}
                  ELSE {x} \cup f[j - 1][next[x]]
  <2> SUFFICES ASSUME NEW j \in 0..MaxNodes, NEW x \in Link
               PROVE  f[j][x] = IF j = 0 \/ x = End \/ x \in stop THEN {}
                                ELSE {x} \cup f[j - 1][next[x]]
    OBVIOUS
  <2>1. f[j] = Row(next, stop, f, j)
    BY DEF Walk
  <2> QED
    BY <2>1 DEF Row
\* Where the walk stops nothing is left.
<1>2. ASSUME NEW x \in N, at[x] = b, rank[x] = floor
      PROVE  x \in stop /\ Between(N, at, rank, b, floor, rank[x]) = {}
  <2>1. PICK s \in N : at[s] = b /\ stop = {s} /\ floor = rank[s]
    BY <1>0, <1>2 DEF Stopping
  <2>2. x = s
    BY <1>2, <2>1 DEF Laid
  <2> QED
    BY <1>0, <1>2, <2>1, <2>2 DEF Between
<1>3. ASSUME NEW x \in N, at[x] = b, floor < rank[x]
      PROVE  x \notin stop
  BY <1>0, <1>3 DEF Stopping
<1>4. 0 \in T
  <2> SUFFICES ASSUME NEW x \in N, at[x] = b, floor <= rank[x], rank[x] - floor <= 0
               PROVE  f[0][x] = Between(N, at, rank, b, floor, rank[x])
    OBVIOUS
  <2>1. rank[x] = floor
    BY <1>0
  <2>2. f[0][x] = {}
    <3>1. 0 \in 0..MaxNodes /\ x \in Link
      BY <1>0
    <3> QED
      BY <1>1, <3>1
  <2>3. Between(N, at, rank, b, floor, rank[x]) = {}
    BY <1>2, <2>1
  <2> QED
    BY <2>2, <2>3
<1>5. ASSUME NEW j \in T PROVE j + 1 \in T
  <2> SUFFICES ASSUME j + 1 <= MaxNodes,
                      NEW x \in N, at[x] = b, floor <= rank[x], rank[x] - floor <= j + 1
               PROVE  f[j + 1][x] = Between(N, at, rank, b, floor, rank[x])
    OBVIOUS
  <2>0. j + 1 \in 0..MaxNodes /\ j \in 0..MaxNodes /\ (j + 1) - 1 = j
    BY <1>0
  <2>1. CASE rank[x] = floor
    BY <1>0, <1>1, <1>2, <2>0, <2>1
  <2>2. CASE rank[x] # floor
    <3>1. floor < rank[x] /\ x \notin stop
      BY <1>0, <1>3, <2>2
    <3>2. f[j + 1][x] = {x} \cup f[j][next[x]]
      <4>1. j + 1 # 0 /\ x \in Link /\ x # End
        BY <1>0, <2>0
      <4>2. f[j + 1][x] = {x} \cup f[(j + 1) - 1][next[x]]
        BY <1>1, <2>0, <3>1, <4>1, Zenon
      <4> QED
        BY <2>0, <4>2
    <3>3. CASE next[x] = End /\ rank[x] = 0
      <4>1. f[j][End] = {}
        BY <1>0, <1>1, <2>0
      <4>2. \A y \in N : at[y] = b /\ rank[y] <= rank[x] => y = x
        BY <1>0, <3>3 DEF Laid
      <4>3. Between(N, at, rank, b, floor, rank[x]) = {x}
        BY <1>0, <3>1, <4>2 DEF Between
      <4> QED
        BY <3>2, <3>3, <4>1, <4>3
    <3>4. CASE next[x] \in N /\ at[next[x]] = at[x] /\ rank[x] = rank[next[x]] + 1
      <4>1. rank[next[x]] \in Nat /\ floor <= rank[next[x]] /\ rank[next[x]] - floor <= j
        BY <1>0, <3>1, <3>4
      <4>2. Right(j, next[x])
        BY <2>0, <3>4
      <4>3. f[j][next[x]] = Between(N, at, rank, b, floor, rank[next[x]])
        BY <3>4, <4>1, <4>2
      <4>4. \A y \in N : at[y] = b /\ rank[y] <= rank[x]
                           => y = x \/ rank[y] <= rank[next[x]]
        BY <1>0, <3>4, <4>1 DEF Laid
      <4>5. Between(N, at, rank, b, floor, rank[x])
              = {x} \cup Between(N, at, rank, b, floor, rank[next[x]])
        BY <1>0, <3>1, <3>4, <4>1, <4>4 DEF Between
      <4> QED
        BY <3>2, <4>3, <4>5
    <3> QED
      BY <3>3, <3>4 DEF Laid
  <2> QED
    BY <2>1, <2>2
<1>6. T = Nat
  <2> HIDE DEF T
  <2> QED
    BY <1>4, <1>5, Inductive DEF T
<1>7. k \in T /\ k <= MaxNodes
  <2> HIDE DEF T
  <2> QED
    BY <1>0, <1>6
<1> QED
  BY <1>7

\* The list at b is walked in full, and has an end.
LEMMA ChainIs ==
  ASSUME NEW N, NEW at, NEW rank,
         Ranges(N, m_hashs, m_datas.next, at, rank), Laid(N, m_hashs, m_datas.next, at, rank),
         NEW b \in 0..m_hashs.size - 1
  PROVE  /\ Chain(m_hashs.cell[b]) = {n \in N : at[n] = b}
         /\ ~Endless(m_hashs.cell[b])
<1> DEFINE h == m_hashs.cell[b]
<1>0. PICK f : /\ Walk(m_datas.next, {}, f)
               /\ Chain(h) = f[MaxNodes][h]
  BY NodesRows DEF Chain
<1>1. CASE h = End /\ \A n \in N : at[n] # b
  <2>1. f[MaxNodes] = Row(m_datas.next, {}, f, MaxNodes)
    BY <1>0, NodesAssumption DEF Walk
  <2>2. f[MaxNodes][End] = {}
    BY <2>1 DEF Row, Link
  <2> QED
    BY <1>0, <1>1, <2>2 DEF Endless
<1>2. CASE /\ h \in N /\ at[h] = b
           /\ \A n \in N : at[n] = b => rank[n] <= rank[h]
  <2>1. \A n \in N : rank[n] \in Nat
    BY DEF Ranges
  <2>2. rank[h] < MaxNodes
    BY <1>2, RankBound
  <2>3. MaxNodes \in 0..MaxNodes /\ -1 <= rank[h] /\ rank[h] - (-1) <= MaxNodes
    BY <1>2, <2>1, <2>2, NodesAssumption
  <2>4. Stopping(N, at, rank, b, {}, -1)
    BY DEF Stopping
  <2>5. f[MaxNodes][h] = Between(N, at, rank, b, -1, rank[h])
    BY <1>0, <1>2, <2>3, <2>4, RowsCollect
  <2>6. Chain(h) = {n \in N : at[n] = b}
    BY <1>0, <1>2, <2>1, <2>5 DEF Between
  <2>7. PICK n \in N : at[n] = at[h] /\ rank[n] = 0
    BY <1>2, <2>1, Filled
  <2>8. m_datas.next[n] = End
    <3>1. CASE m_datas.next[n] \in N /\ rank[n] = rank[m_datas.next[n]] + 1
      BY <2>1, <2>7, <3>1
    <3> QED
      BY <3>1 DEF Laid
  <2> QED
    BY <1>2, <2>6, <2>7, <2>8 DEF Endless
<1> QED
  BY <1>1, <1>2 DEF Laid

\* The walk up to a node of the list finds the one before it.
LEMMA BeforeIs ==
  ASSUME NEW N, NEW at, NEW rank,
         Ranges(N, m_hashs, m_datas.next, at, rank), Laid(N, m_hashs, m_datas.next, at, rank),
         NEW b \in 0..m_hashs.size - 1,
         NEW n \in N, at[n] = b, m_hashs.cell[b] # n
  PROVE  LET m == Before(m_hashs.cell[b], n)
         IN m \in N /\ at[m] = b /\ m_datas.next[m] = n /\ rank[m] = rank[n] + 1
<1> DEFINE h == m_hashs.cell[b]
<1>0. \A x \in N : rank[x] \in Nat
  BY DEF Ranges
<1>1. /\ h \in N /\ at[h] = b
      /\ \A x \in N : at[x] = b => rank[x] <= rank[h]
  BY DEF Laid
<1>2. rank[n] < rank[h]
  BY <1>0, <1>1 DEF Laid
<1>3. PICK f : /\ Walk(m_datas.next, {n}, f)
               /\ Nodes(h, {n}) = f[MaxNodes][h]
  BY NodesRows
<1>4. Stopping(N, at, rank, b, {n}, rank[n])
  BY DEF Stopping
<1>5. rank[h] < MaxNodes
  BY <1>1, RankBound
<1>6. /\ MaxNodes \in 0..MaxNodes /\ rank[n] \in Int
      /\ rank[n] <= rank[h] /\ rank[h] - rank[n] <= MaxNodes
  BY <1>0, <1>1, <1>2, <1>5, NodesAssumption
<1>7. f[MaxNodes][h] = Between(N, at, rank, b, rank[n], rank[h])
  BY <1>1, <1>3, <1>4, <1>6, RowsCollect
<1>8. \A x \in N : at[x] = b /\ rank[n] < rank[x] => x \in Nodes(h, {n})
  BY <1>1, <1>3, <1>7 DEF Between
<1>9. \A x \in Nodes(h, {n}) : x \in N /\ at[x] = b
  BY <1>3, <1>7 DEF Between
<1>10. PICK m \in N : at[m] = b /\ rank[m] = rank[n] + 1
  <2>1. rank[n] + 1 \in Nat /\ rank[n] + 1 <= rank[h]
    BY <1>0, <1>1, <1>2
  <2> QED
    BY <1>1, <2>1, Filled
<1>11. ASSUME NEW x \in N, at[x] = b
       PROVE  m_datas.next[x] = n <=> rank[x] = rank[n] + 1
  <2>1. CASE m_datas.next[x] = End /\ rank[x] = 0
    <3>1. n # End
      BY DEF Ranges, Node, End
    <3> QED
      BY <1>0, <2>1, <3>1
  <2>2. CASE /\ m_datas.next[x] \in N /\ at[m_datas.next[x]] = at[x]
             /\ rank[x] = rank[m_datas.next[x]] + 1
    BY <1>0, <1>11, <2>2 DEF Laid
  <2> QED
    BY <2>1, <2>2 DEF Laid
<1>12. m \in Nodes(h, {n}) /\ m_datas.next[m] = n
  <2>1. rank[n] < rank[m]
    BY <1>0, <1>10
  <2>2. m \in Nodes(h, {n})
    BY <1>8, <1>10, <2>1
  <2> QED
    BY <1>10, <1>11, <2>2
<1>13. Before(h, n) \in Nodes(h, {n}) /\ m_datas.next[Before(h, n)] = n
  BY <1>12 DEF Before
<1> QED
  BY <1>9, <1>11, <1>13

-----------------------------------------------------------------------------
(* What the operations on the lists do to them *)

\* New list heads are empty lists.
LEMMA GrownLaid ==
  ASSUME NEW N, NEW hashs, NEW next, NEW at, NEW rank,
         Ranges(N, hashs, next, at, rank), Laid(N, hashs, next, at, rank),
         NEW b \in Cell
  PROVE  LET grown == Grown(hashs, b)
         IN /\ grown.size = IF b < hashs.size THEN hashs.size ELSE b + 1
            /\ \A c \in 0..hashs.size - 1 : grown.cell[c] = hashs.cell[c]
            /\ Ranges(N, grown, next, at, rank) /\ Laid(N, grown, next, at, rank)
<1> DEFINE grown == Grown(hashs, b)
<1>0. /\ hashs.size \in Nat /\ hashs.size <= InitialBuckets + MaxNodes + 1
      /\ b \in Nat /\ b <= InitialBuckets + MaxNodes
      /\ MaxNodes \in Nat /\ InitialBuckets \in Nat
      /\ End \in Link
  BY NodesAssumption, BucketsAssumption DEF Ranges, HashRange, Cell, Link
<1>1. CASE b < hashs.size
  BY <1>1 DEF Grown
<1>2. CASE hashs.size <= b
  <2>1. /\ grown.size = b + 1
        /\ grown.cell = [c \in Cell |-> IF c \in hashs.size..b THEN End ELSE hashs.cell[c]]
    BY <1>0, <1>2 DEF Grown
  <2>2. grown \in HashRange
    BY <1>0, <1>2 DEF Grown, HashRange, Ranges
  <2>3. \A c \in 0..b : c \in Cell
    BY <1>0 DEF Cell
  <2>4. \A c \in 0..hashs.size - 1 : grown.cell[c] = hashs.cell[c]
    BY <1>0, <1>2, <2>1, <2>3
  <2>5. \A c \in 0..b : hashs.size <= c => grown.cell[c] = End
    BY <1>0, <2>1, <2>3
  <2>6. \A n \in N : at[n] \in Nat
    BY DEF Ranges
  <2> HIDE DEF grown
  <2>7. Laid(N, grown, next, at, rank)
    <3>1. \A n \in N : at[n] < grown.size
      BY <1>0, <1>2, <2>1, <2>6 DEF Laid
    <3>2. ASSUME NEW c \in 0..grown.size - 1
          PROVE  \/ grown.cell[c] = End /\ \A n \in N : at[n] # c
                 \/ /\ grown.cell[c] \in N /\ at[grown.cell[c]] = c
                    /\ \A n \in N : at[n] = c => rank[n] <= rank[grown.cell[c]]
      <4>1. CASE c < hashs.size
        BY <1>0, <2>4, <4>1 DEF Laid
      <4>2. CASE hashs.size <= c
        BY <1>0, <2>1, <2>5, <2>6, <4>2 DEF Laid
      <4> QED
        BY <1>0, <2>1, <4>1, <4>2
    <3> QED
      BY <3>1, <3>2 DEF Laid
  <2> QED
    BY <1>0, <1>2, <2>1, <2>2, <2>4, <2>7 DEF Ranges, grown
<1> QED
  BY <1>0, <1>1, <1>2

\* A node put before a list is of the highest rank there.
TopRank(hashs, rank, b) == IF hashs.cell[b] = End THEN 0 ELSE rank[hashs.cell[b]] + 1

Put(f, n, v) == [f EXCEPT ![n] = v]

LEMMA AddedLaid ==
  ASSUME NEW N, NEW hashs, NEW datas \in DataRange, NEW at, NEW rank,
         Ranges(N, hashs, datas.next, at, rank), Laid(N, hashs, datas.next, at, rank),
         NEW b \in 0..hashs.size - 1, NEW n \in Node \ N, NEW d \in Key,
         n <= datas.size
  PROVE  LET added == AddHead(hashs, datas, b, n, d)
             at2   == Put(at, n, b)
             rank2 == Put(rank, n, TopRank(hashs, rank, b))
         IN /\ added.hashs.size = hashs.size
            /\ added.datas \in DataRange
            /\ added.datas.size = IF n = datas.size THEN n + 1 ELSE datas.size
            /\ added.datas.data = Put(datas.data, n, d)
            /\ added.datas.next = Put(datas.next, n, hashs.cell[b])
            /\ Ranges(N \cup {n}, added.hashs, added.datas.next, at2, rank2)
            /\ Laid(N \cup {n}, added.hashs, added.datas.next, at2, rank2)
<1> DEFINE added == AddHead(hashs, datas, b, n, d)
           at2   == Put(at, n, b)
           rank2 == Put(rank, n, TopRank(hashs, rank, b))
           next2 == added.datas.next
           cell2 == added.hashs.cell
<1>0. /\ N \subseteq Node /\ n \in Node /\ n \notin N /\ n \in Nat /\ n < MaxNodes
      /\ hashs.size \in Nat /\ hashs.cell \in [Cell -> Link]
      /\ b \in Cell /\ b \in Nat
      /\ at \in [Node -> Nat] /\ rank \in [Node -> Nat]
      /\ MaxNodes \in Nat /\ End \notin Node /\ n \in Link
      /\ datas.size \in 0..MaxNodes /\ datas.next \in [Node -> Link]
      /\ datas.data \in [Node -> Key]
  <2>1. MaxNodes \in Nat /\ InitialBuckets \in Nat
    BY NodesAssumption, BucketsAssumption
  <2>2. hashs.size \in 0..InitialBuckets + MaxNodes + 1 /\ hashs.cell \in [Cell -> Link]
    BY DEF Ranges, HashRange
  <2>3. b \in Cell /\ b \in Nat
    BY <2>1, <2>2 DEF Cell
  <2>4. n \in Nat /\ n < MaxNodes /\ End \notin Node
    BY <2>1 DEF Node, End
  <2> QED
    BY <2>1, <2>2, <2>3, <2>4 DEF Ranges, DataRange, Link
<1>1. /\ added.hashs = [hashs EXCEPT !.cell[b] = n]
      /\ added.datas = [size |-> IF n = datas.size THEN n + 1 ELSE datas.size,
                        next |-> [datas.next EXCEPT ![n] = hashs.cell[b]],
                        data |-> [datas.data EXCEPT ![n] = d]]
  BY DEF AddHead
<1>2. hashs.cell[b] \in Link
  BY <1>0
<1>3. added.datas \in DataRange
  <2>1. [datas.next EXCEPT ![n] = hashs.cell[b]] \in [Node -> Link]
    BY <1>0, <1>2
  <2>2. [datas.data EXCEPT ![n] = d] \in [Node -> Key]
    BY <1>0
  <2>3. (IF n = datas.size THEN n + 1 ELSE datas.size) \in 0..MaxNodes
    BY <1>0
  <2> QED
    BY <1>1, <2>1, <2>2, <2>3 DEF DataRange
<1>4. /\ added.hashs \in HashRange /\ added.hashs.size = hashs.size
      /\ cell2 = [hashs.cell EXCEPT ![b] = n]
  BY <1>0, <1>1 DEF Ranges, HashRange
<1>5. next2 = [datas.next EXCEPT ![n] = hashs.cell[b]]
  BY <1>1
<1>6. hashs.cell[b] = End \/ hashs.cell[b] \in N
  BY DEF Laid
<1>7. TopRank(hashs, rank, b) \in Nat
  <2> DEFINE first == hashs.cell[b]
  <2>1. first = End \/ rank[first] \in Nat
    BY <1>0, <1>6
  <2>2. TopRank(hashs, rank, b) = IF first = End THEN 0 ELSE rank[first] + 1
    BY DEF TopRank
  <2> HIDE DEF first
  <2> QED
    BY <2>1, <2>2
<1>8. at2 \in [Node -> Nat] /\ rank2 \in [Node -> Nat]
  BY <1>0, <1>7 DEF Put
<1>9. /\ at2[n] = b /\ rank2[n] = TopRank(hashs, rank, b)
      /\ next2[n] = hashs.cell[b] /\ cell2[b] = n
      /\ \A m \in N : at2[m] = at[m] /\ rank2[m] = rank[m] /\ next2[m] = datas.next[m]
      /\ \A c \in 0..hashs.size - 1 : c # b => cell2[c] = hashs.cell[c]
      /\ \A m \in N : rank[m] \in Nat /\ at[m] \in Nat
  <2>1. \A c \in 0..hashs.size - 1 : c \in Cell
    BY NodesAssumption, BucketsAssumption DEF Ranges, HashRange, Cell
  <2>2. \A m \in N : m \in Node /\ m # n
    BY <1>0
  <2>3. at2 = [at EXCEPT ![n] = b] /\ rank2 = [rank EXCEPT ![n] = TopRank(hashs, rank, b)]
    BY DEF Put
  <2>4. /\ at2[n] = b /\ rank2[n] = TopRank(hashs, rank, b)
        /\ \A m \in N : at2[m] = at[m] /\ rank2[m] = rank[m]
    <3> HIDE DEF at2, rank2, next2, cell2
    <3> QED
      BY <1>0, <2>2, <2>3
  <2>5. next2[n] = hashs.cell[b] /\ \A m \in N : next2[m] = datas.next[m]
    <3> HIDE DEF at2, rank2, next2, cell2
    <3> QED
      BY <1>0, <1>5, <2>2
  <2>6. cell2[b] = n /\ \A c \in 0..hashs.size - 1 : c # b => cell2[c] = hashs.cell[c]
    <3> HIDE DEF at2, rank2, next2, cell2
    <3> QED
      BY <1>0, <1>4, <2>1
  <2>7. \A m \in N : rank[m] \in Nat /\ at[m] \in Nat
    BY <1>0
  <2> HIDE DEF at2, rank2, next2, cell2
  <2> QED
    BY <2>4, <2>5, <2>6, <2>7
\* It is above all that were there.
<1>10. \A m \in N : at[m] = b => rank[m] < TopRank(hashs, rank, b)
  <2> DEFINE first == hashs.cell[b]
  <2>1. TopRank(hashs, rank, b) = IF first = End THEN 0 ELSE rank[first] + 1
    BY DEF TopRank
  <2>2. \/ first = End /\ \A m \in N : at[m] # b
        \/ /\ first \in N /\ first # End
           /\ \A m \in N : at[m] = b => rank[m] <= rank[first]
    BY <1>0 DEF Laid
  <2>3. \A m \in N : rank[m] \in Nat
    BY <1>9
  <2> HIDE DEF first
  <2>4. CASE first = End /\ \A m \in N : at[m] # b
    BY <2>4
  <2>5. CASE /\ first \in N /\ first # End
             /\ \A m \in N : at[m] = b => rank[m] <= rank[first]
    <3> SUFFICES ASSUME NEW m \in N, at[m] = b PROVE rank[m] < rank[first] + 1
      BY <2>1, <2>5
    <3> QED
      BY <2>3, <2>5
  <2> QED
    BY <2>2, <2>4, <2>5
<1>11. Laid(N \cup {n}, added.hashs, next2, at2, rank2)
  <2> HIDE DEF added, at2, rank2, next2, cell2
  <2>1. \A m \in N \cup {n} : at2[m] < hashs.size
    <3>1. \A m \in N : at[m] < hashs.size
      BY DEF Laid
    <3>2. b < hashs.size
      BY <1>0
    <3>3. at2[n] = b /\ \A m \in N : at2[m] = at[m]
      BY <1>9
    <3> QED
      BY <3>1, <3>2, <3>3
  <2>2. \A m, o \in N \cup {n} : at2[m] = at2[o] /\ rank2[m] = rank2[o] => m = o
    BY <1>9, <1>7, <1>10 DEF Laid
  <2>3. ASSUME NEW c \in 0..hashs.size - 1
        PROVE  \/ cell2[c] = End /\ \A m \in N \cup {n} : at2[m] # c
               \/ /\ cell2[c] \in N \cup {n} /\ at2[cell2[c]] = c
                  /\ \A m \in N \cup {n} : at2[m] = c => rank2[m] <= rank2[cell2[c]]
    <3>1. CASE c = b
      BY <1>7, <1>9, <1>10, <3>1
    <3>2. CASE c # b
      BY <1>9, <3>2 DEF Laid
    <3> QED
      BY <3>1, <3>2
  <2>4. ASSUME NEW m \in N \cup {n}
        PROVE  \/ next2[m] = End /\ rank2[m] = 0
               \/ /\ next2[m] \in N \cup {n} /\ at2[next2[m]] = at2[m]
                  /\ rank2[m] = rank2[next2[m]] + 1
    <3>1. CASE m = n
      BY <1>6, <1>9, <3>1 DEF Laid, TopRank
    <3>2. CASE m \in N
      BY <1>9, <3>2 DEF Laid
    <3> QED
      BY <3>1, <3>2
  <2> QED
    BY <1>4, <2>1, <2>2, <2>3, <2>4 DEF Laid, cell2
<1>12. Ranges(N \cup {n}, added.hashs, next2, at2, rank2)
  BY <1>0, <1>3, <1>4, <1>8 DEF Ranges, DataRange
<1> QED
  BY <1>1, <1>3, <1>4, <1>11, <1>12 DEF Put

\* A node taken out leaves the nodes before it one rank lower.
Lowered(at, rank, b, n) ==
  [m \in Node |-> IF at[m] = b /\ rank[n] < rank[m] THEN rank[m] - 1 ELSE rank[m]]

LEMMA DeletedLaid ==
  ASSUME NEW N, NEW at, NEW rank, m_datas \in DataRange,
         Ranges(N, m_hashs, m_datas.next, at, rank), Laid(N, m_hashs, m_datas.next, at, rank),
         NEW b \in 0..m_hashs.size - 1, NEW n \in N, at[n] = b
  PROVE  LET out   == DeleteListOne(b, n)
             rank2 == Lowered(at, rank, b, n)
         IN /\ out.hashs.size = m_hashs.size
            /\ out.datas \in DataRange /\ out.datas.size = m_datas.size
            /\ out.datas.data = m_datas.data
            /\ Ranges(N \ {n}, out.hashs, out.datas.next, at, rank2)
            /\ Laid(N \ {n}, out.hashs, out.datas.next, at, rank2)
<1> DEFINE out   == DeleteListOne(b, n)
           rank2 == Lowered(at, rank, b, n)
           next  == m_datas.next
           next2 == out.datas.next
           cell2 == out.hashs.cell
           p     == Before(m_hashs.cell[b], n)
           size  == m_hashs.size
<1>0. /\ N \subseteq Node /\ n \in Node /\ End \notin N /\ b \in Nat
      /\ b \in Cell /\ size \in Nat /\ \A c \in 0..size - 1 : c \in Cell
      /\ m_hashs \in HashRange /\ m_hashs.cell \in [Cell -> Link]
      /\ next \in [Node -> Link] /\ next[n] \in Link
      /\ at \in [Node -> Nat] /\ rank \in [Node -> Nat]
  <2>1. MaxNodes \in Nat /\ InitialBuckets \in Nat
    BY NodesAssumption, BucketsAssumption
  <2>2. /\ size \in 0..InitialBuckets + MaxNodes + 1
        /\ m_hashs.cell \in [Cell -> Link] /\ m_hashs \in HashRange
    BY DEF Ranges, HashRange
  <2>3. b \in Cell /\ b \in Nat /\ \A c \in 0..size - 1 : c \in Cell
    BY <2>1, <2>2 DEF Cell
  <2>4. End \notin Node
    BY <2>1 DEF Node, End
  <2> QED
    BY <2>1, <2>2, <2>3, <2>4 DEF Ranges
<1>1. rank2 \in [Node -> Nat]
  <2>1. ASSUME NEW m \in Node
        PROVE  (IF at[m] = b /\ rank[n] < rank[m] THEN rank[m] - 1 ELSE rank[m]) \in Nat
    <3>1. rank[m] \in Nat /\ rank[n] \in Nat
      BY <1>0
    <3> QED
      BY <3>1
  <2> QED
    BY <2>1 DEF Lowered
<1>2. \A m \in N : /\ rank[m] \in Nat
                   /\ rank2[m] = IF at[m] = b /\ rank[n] < rank[m] THEN rank[m] - 1 ELSE rank[m]
  BY <1>0 DEF Lowered
\* The head is taken out: the next node is the head.
<1>3. CASE m_hashs.cell[b] = n
  <2>1. out.hashs = [m_hashs EXCEPT !.cell[b] = next[n]] /\ out.datas = m_datas
    BY <1>3 DEF DeleteListOne
  <2>2. /\ out.hashs \in HashRange /\ out.hashs.size = size
        /\ cell2 = [m_hashs.cell EXCEPT ![b] = next[n]] /\ next2 = next
    BY <1>0, <2>1 DEF HashRange
  <2>3. cell2[b] = next[n] /\ \A c \in 0..size - 1 : c # b => cell2[c] = m_hashs.cell[c]
    BY <1>0, <2>2
  <2>4. \A m \in N \ {n} : at[m] = b => rank[m] < rank[n]
    BY <1>2, <1>3 DEF Laid
  <2>5. \A m \in N \ {n} : rank2[m] = rank[m]
    BY <1>2, <2>4
  <2> HIDE DEF out, rank2, cell2
  <2>6. ASSUME NEW m \in N \ {n}
        PROVE  \/ next[m] = End /\ rank[m] = 0
               \/ next[m] \in N \ {n} /\ at[next[m]] = at[m] /\ rank[m] = rank[next[m]] + 1
    <3>1. CASE next[m] = n /\ at[n] = at[m] /\ rank[m] = rank[n] + 1
      BY <1>2, <2>4, <3>1
    <3> QED
      BY <3>1 DEF Laid
  <2>7. ASSUME NEW c \in 0..size - 1
        PROVE  \/ cell2[c] = End /\ \A m \in N \ {n} : at[m] # c
               \/ /\ cell2[c] \in N \ {n} /\ at[cell2[c]] = c
                  /\ \A m \in N \ {n} : at[m] = c => rank[m] <= rank[cell2[c]]
    <3>1. CASE c # b
      <4>1. cell2[c] = m_hashs.cell[c]
        BY <2>3, <3>1
      <4> QED
        BY <3>1, <4>1 DEF Laid
    <3>2. CASE c = b /\ next[n] = End /\ rank[n] = 0
      BY <1>2, <2>3, <2>4, <3>2
    <3>3. CASE c = b /\ next[n] \in N /\ at[next[n]] = at[n] /\ rank[n] = rank[next[n]] + 1
      <4>1. next[n] # n
        BY <1>2, <3>3
      <4> QED
        BY <1>2, <2>3, <2>4, <3>3, <4>1
    <3> QED
      BY <3>1, <3>2, <3>3 DEF Laid
  <2>8. Laid(N \ {n}, out.hashs, next, at, rank2)
    <3>1. /\ \A m \in N \ {n} : at[m] < size
          /\ \A m, o \in N \ {n} : at[m] = at[o] /\ rank2[m] = rank2[o] => m = o
      BY <2>5 DEF Laid
    <3>2. \A c \in 0..size - 1 :
            \/ cell2[c] = End /\ \A m \in N \ {n} : at[m] # c
            \/ /\ cell2[c] \in N \ {n} /\ at[cell2[c]] = c
               /\ \A m \in N \ {n} : at[m] = c => rank2[m] <= rank2[cell2[c]]
      BY <2>5, <2>7
    <3>3. \A m \in N \ {n} :
            \/ next[m] = End /\ rank2[m] = 0
            \/ next[m] \in N \ {n} /\ at[next[m]] = at[m] /\ rank2[m] = rank2[next[m]] + 1
      BY <2>5, <2>6
    <3> QED
      BY <2>2, <3>1, <3>2, <3>3 DEF Laid, cell2
  <2>9. Ranges(N \ {n}, out.hashs, next, at, rank2)
    BY <1>0, <1>1, <2>2 DEF Ranges
  <2> QED
    BY <2>1, <2>2, <2>8, <2>9 DEF out, rank2
\* Another is taken out: the node before it is tied to the next.
<1>4. CASE m_hashs.cell[b] # n
  <2>1. out.hashs = m_hashs /\ out.datas = [m_datas EXCEPT !.next[p] = next[n]]
    BY <1>4 DEF DeleteListOne
  <2>2. p \in N /\ at[p] = b /\ next[p] = n /\ rank[p] = rank[n] + 1
    BY <1>4, BeforeIs
  <2>3. /\ next2 = [next EXCEPT ![p] = next[n]] /\ out.datas \in DataRange
        /\ out.datas.size = m_datas.size /\ out.datas.data = m_datas.data
    <3>1. p \in Node /\ [next EXCEPT ![p] = next[n]] \in [Node -> Link]
      BY <1>0, <2>2
    <3> QED
      BY <2>1, <3>1 DEF DataRange
  <2>4. next2[p] = next[n] /\ \A m \in N : m # p => next2[m] = next[m]
    BY <1>0, <2>2, <2>3
  <2>5. next2 \in [Node -> Link]
    BY <2>3 DEF DataRange
  <2> DEFINE h == m_hashs.cell[b]
  <2>6. h \in N /\ at[h] = b /\ \A m \in N : at[m] = b => rank[m] <= rank[h]
    BY DEF Laid
  <2> HIDE DEF out, rank2, next2, p, next
  <2>7. \A m \in N \ {n} : at[m] = b => rank[m] # rank[n]
    BY DEF Laid
  <2>8. rank[n] < rank[h]
    BY <1>2, <1>4, <2>6, <2>7
  <2>9. ASSUME NEW m \in N \ {n}
        PROVE  \/ next2[m] = End /\ rank2[m] = 0
               \/ /\ next2[m] \in N \ {n} /\ at[next2[m]] = at[m]
                  /\ rank2[m] = rank2[next2[m]] + 1
    <3>0. \A x \in N : \/ next[x] = End /\ rank[x] = 0
                       \/ next[x] \in N /\ at[next[x]] = at[x] /\ rank[x] = rank[next[x]] + 1
      BY DEF Laid, next
    <3>1. CASE m = p
      <4>1. rank2[p] = rank[n]
        BY <1>2, <2>2
      <4>2. CASE next[n] = End /\ rank[n] = 0
        BY <2>4, <3>1, <4>1, <4>2
      <4>3. CASE next[n] \in N /\ at[next[n]] = b /\ rank[n] = rank[next[n]] + 1
        <5>1. next[n] # n /\ rank2[next[n]] = rank[next[n]]
          BY <1>2, <4>3
        <5> QED
          BY <2>2, <2>4, <3>1, <4>1, <4>3, <5>1
      <4> QED
        BY <3>0, <4>2, <4>3
    <3>2. CASE m # p /\ next[m] = End /\ rank[m] = 0
      <4>1. rank2[m] = 0
        BY <1>2, <3>2
      <4> QED
        BY <2>4, <3>2, <4>1
    <3>3. CASE m # p /\ next[m] \in N /\ at[next[m]] = at[m] /\ rank[m] = rank[next[m]] + 1
      <4>1. next[m] # n
        BY <2>2, <3>3 DEF Laid
      <4>2. at[m] = b => rank[next[m]] # rank[n]
        BY <2>7, <3>3, <4>1
      <4>3. rank2[m] = rank2[next[m]] + 1
        BY <1>2, <3>3, <4>2
      <4> QED
        BY <2>4, <3>3, <4>1, <4>3
    <3> QED
      BY <3>0, <3>1, <3>2, <3>3
  <2>10. \A m, o \in N \ {n} : at[m] = at[o] /\ rank2[m] = rank2[o] => m = o
    <3>1. \A m, o \in N \ {n} : at[m] = at[o] /\ rank2[m] = rank2[o] => rank[m] = rank[o]
      BY <1>2, <2>7
    <3> QED
      BY <3>1 DEF Laid
  <2>11. ASSUME NEW c \in 0..size - 1
         PROVE  \/ m_hashs.cell[c] = End /\ \A m \in N \ {n} : at[m] # c
                \/ /\ m_hashs.cell[c] \in N \ {n} /\ at[m_hashs.cell[c]] = c
                   /\ \A m \in N \ {n} : at[m] = c => rank2[m] <= rank2[m_hashs.cell[c]]
    <3>1. CASE c = b
      <4>1. rank2[h] = rank[h] - 1
        BY <1>2, <2>6, <2>8
      <4>2. \A m \in N \ {n} : at[m] = b => rank2[m] <= rank2[h]
        BY <1>2, <2>6, <2>7, <2>8, <4>1
      <4> QED
        BY <1>4, <2>6, <3>1, <4>2
    <3>2. CASE c # b
      <4>1. \A m \in N \ {n} : at[m] = c => rank2[m] = rank[m]
        BY <1>2, <3>2
      <4> QED
        BY <3>2, <4>1 DEF Laid
    <3> QED
      BY <3>1, <3>2
  <2>12. Laid(N \ {n}, m_hashs, next2, at, rank2)
    <3>1. \A m \in N \ {n} : at[m] < size
      BY DEF Laid
    <3> QED
      BY <2>9, <2>10, <2>11, <3>1 DEF Laid
  <2>13. Ranges(N \ {n}, m_hashs, next2, at, rank2)
    BY <1>0, <1>1, <2>5 DEF Ranges
  <2> QED
    BY <2>1, <2>3, <2>12, <2>13 DEF out, rank2, next2
<1> QED
  BY <1>3, <1>4

-----------------------------------------------------------------------------
(* How many buckets an extension makes *)

Double(l, f, n) == IF n < l THEN f[n * 2] ELSE n

\* f keeps to the recursion of Extended from k on.
Downto(l, f, k) ==
  /\ f = [n \in Nat |-> f[n]]
  /\ \A n \in Nat : n = 0 \/ k <= n => f[n] = Double(l, f, n)

LEMMA DoubledExists ==
  ASSUME NEW l \in Nat
  PROVE  \E f : f = [n \in Nat |-> Double(l, f, n)]
<1> DEFINE T == {j \in Nat : j < l => \E f : Downto(l, f, l - j)}
<1>1. Downto(l, [n \in Nat |-> n], l)
  BY DEF Downto, Double
<1>2. ASSUME NEW j \in T PROVE j + 1 \in T
  <2> SUFFICES ASSUME j + 1 < l PROVE \E f : Downto(l, f, l - (j + 1))
    OBVIOUS
  <2>1. PICK f : Downto(l, f, l - j)
    BY <1>2
  <2> DEFINE k == l - (j + 1)
             g == [n \in Nat |-> IF n = k THEN f[n * 2] ELSE f[n]]
  <2>2. k \in Nat /\ 0 < k /\ k < l /\ l - j = k + 1
    BY <1>2
  <2>3. g = [n \in Nat |-> g[n]]
    OBVIOUS
  <2> HIDE DEF k
  <2>4. ASSUME NEW n \in Nat, n = 0 \/ k <= n PROVE g[n] = Double(l, g, n)
    <3>0. n * 2 \in Nat /\ n * 2 # k
      BY <2>2, <2>4
    <3>1. g[n * 2] = f[n * 2]
      BY <3>0
    <3>2. CASE n = k
      BY <2>2, <3>1, <3>2 DEF Double
    <3>3. CASE n # k
      <4>1. f[n] = Double(l, f, n)
        BY <2>1, <2>2, <2>4, <3>3 DEF Downto
      <4>2. g[n] = f[n]
        BY <3>3
      <4> QED
        BY <3>1, <4>1, <4>2 DEF Double
    <3> QED
      BY <3>2, <3>3
  <2> HIDE DEF g
  <2>5. Downto(l, g, k)
    BY <2>3, <2>4 DEF Downto
  <2> QED
    BY <2>5 DEF k
<1>3. T = Nat
  <2>1. 0 \in T
    BY <1>1
  <2> HIDE DEF T
  <2> QED
    BY <1>2, <2>1, Inductive DEF T
<1>4. \E f : Downto(l, f, 1)
  <2>1. CASE l = 0
    <3>1. Downto(l, [n \in Nat |-> n], 1)
      BY <2>1 DEF Downto, Double
    <3> QED
      BY <3>1
  <2>2. CASE l # 0
    <3>1. l - 1 \in T /\ l - 1 < l /\ l - (l - 1) = 1
      <4> HIDE DEF T
      <4> QED
        BY <1>3, <2>2
    <3> QED
      BY <3>1
  <2> QED
    BY <2>1, <2>2
<1>5. PICK f : Downto(l, f, 1)
  BY <1>4
<1>6. \A n \in Nat : n = 0 \/ 1 <= n
  OBVIOUS
<1>7. f = [n \in Nat |-> Double(l, f, n)]
  BY <1>5, <1>6 DEF Downto
<1> QED
  BY <1>7

\* Doubling stops at the first number that is not below l.
LEMMA DoubledIs ==
  ASSUME NEW l \in Nat, NEW f, f = [n \in Nat |-> Double(l, f, n)],
         NEW c \in Nat \ {0}
  PROVE  /\ f[c] \in Nat /\ c <= f[c] /\ l <= f[c]
         /\ c < l => f[c] < 2 * l
         /\ \A S \in SUBSET Nat : c \in S /\ (\A n \in S : 2 * n \in S) => f[c] \in S
<1> DEFINE Right(n) ==
             /\ f[n] \in Nat /\ n <= f[n] /\ l <= f[n]
             /\ n < l => f[n] < 2 * l
             /\ l <= n => f[n] = n
             /\ \A S \in SUBSET Nat : n \in S /\ (\A m \in S : 2 * m \in S) => f[n] \in S
           Bad == {n \in Nat \ {0} : ~Right(n)}
<1>1. \A n \in Nat : f[n] = IF n < l THEN f[n * 2] ELSE n
  BY DEF Double
<1>2. ASSUME NEW n \in Nat, l <= n PROVE Right(n)
  BY <1>1, <1>2
<1>3. ASSUME NEW n \in Nat \ {0}, n < l, Right(n * 2) PROVE Right(n)
  <2>0. n * 2 \in Nat /\ n < n * 2 /\ n * 2 < 2 * l /\ f[n] = f[n * 2] /\ n * 2 = 2 * n
    BY <1>1, <1>3
  <2>1. f[n] \in Nat /\ n <= f[n] /\ l <= f[n]
    BY <1>3, <2>0
  <2>2. f[n] < 2 * l
    BY <1>3, <2>0
  <2>3. ASSUME NEW S \in SUBSET Nat, n \in S, \A m \in S : 2 * m \in S
        PROVE  f[n] \in S
    <3>1. n * 2 \in S
      BY <2>0, <2>3
    <3> QED
      BY <1>3, <2>0, <2>3, <3>1
  <2> QED
    BY <1>3, <2>1, <2>2, <2>3
<1> HIDE DEF Right
<1>4. Bad = {}
  <2> SUFFICES ASSUME Bad # {} PROVE FALSE
    OBVIOUS
  <2>1. \A n \in Bad : n \in Nat /\ n <= l
    BY <1>2
  <2>2. PICK n \in Bad : \A m \in Bad : m <= n
    <3> HIDE DEF Bad
    <3>1. Bad \in SUBSET Nat
      BY <2>1
    <3> QED
      BY <2>1, <3>1, Greatest
  <2>3. n * 2 \in Nat \ {0} /\ ~(n * 2 <= n) /\ n < l
    BY <1>2
  <2>4. Right(n * 2)
    BY <2>2, <2>3
  <2> QED
    BY <1>3, <2>3, <2>4
<1>5. Right(c)
  BY <1>4
<1> QED
  BY <1>5 DEF Right

\* An extension makes more buckets, and not more than there are entries.
LEMMA ExtendedIs ==
  ASSUME head.count \in Nat \ {0}, m_datas.size \in 0..MaxNodes
  PROVE  /\ ~MayExtend => Extended = head
         /\ MayExtend =>
              /\ Extended.old = head.count /\ Extended.moved = 0
              /\ Extended = [old |-> head.count, moved |-> 0, count |-> Extended.count]
              /\ Extended.count \in Nat /\ head.count < Extended.count
              /\ Extended.count <= MaxNodes /\ head.count < MaxNodes \div 2
              /\ \A S \in SUBSET Nat :
                   head.count \in S /\ (\A n \in S : 2 * n \in S) => Extended.count \in S
<1> DEFINE l == m_datas.size \div 2
           f == CHOOSE f : f = [n \in Nat |-> Double(l, f, n)]
<1>0. l \in Nat /\ 2 * l <= MaxNodes /\ l <= MaxNodes \div 2
  BY NodesAssumption
<1>1. ~MayExtend => Extended = head
  BY DEF Extended
<1>2. MayExtend => Extended = [old |-> head.count, moved |-> 0, count |-> f[head.count]]
  BY DEF Extended, Double
<1>3. f = [n \in Nat |-> Double(l, f, n)]
  BY <1>0, DoubledExists
<1>4. MayExtend => head.count < l
  BY DEF MayExtend
<1> HIDE DEF l, f
<1>5. /\ f[head.count] \in Nat /\ head.count <= f[head.count] /\ l <= f[head.count]
      /\ head.count < l => f[head.count] < 2 * l
      /\ \A S \in SUBSET Nat :
           head.count \in S /\ (\A n \in S : 2 * n \in S) => f[head.count] \in S
  BY <1>0, <1>3, DoubledIs
<1> QED
  BY <1>0, <1>1, <1>2, <1>4, <1>5, NodesAssumption

-----------------------------------------------------------------------------
(* The table before the processes start *)

Load(f, i) == IF i = 0 THEN Fresh ELSE Added(f[i - 1], Preload[i])

\* f keeps to the recursion of Init in its first places.
LoadedUpto(f, j) ==
  /\ f = [i \in 0..Len(Preload) |-> f[i]]
  /\ \A i \in 0..Len(Preload) : i <= j => f[i] = Load(f, i)

LEMMA LoadedExists ==
  \E f : f = [i \in 0..Len(Preload) |-> Load(f, i)]
<1> DEFINE T == {j \in Nat : \E f : LoadedUpto(f, j)}
<1>0. Len(Preload) \in Nat
  BY PreloadAssumption
<1>1. 0 \in T
  <2>1. LoadedUpto([i \in 0..Len(Preload) |-> Fresh], 0)
    BY <1>0 DEF LoadedUpto, Load
  <2> QED
    BY <2>1
<1>2. ASSUME NEW j \in T PROVE j + 1 \in T
  <2>1. PICK f : LoadedUpto(f, j)
    BY <1>2
  <2> DEFINE g == [i \in 0..Len(Preload) |-> IF i = j + 1 THEN Load(f, i) ELSE f[i]]
  <2>2. g = [i \in 0..Len(Preload) |-> g[i]]
    OBVIOUS
  <2>3. ASSUME NEW i \in 0..Len(Preload), i <= j + 1 PROVE g[i] = Load(g, i)
    <3>1. i # 0 => g[i - 1] = f[i - 1]
      BY <1>0, <2>3
    <3>2. Load(g, i) = Load(f, i)
      BY <3>1 DEF Load
    <3>3. g[i] = Load(f, i)
      BY <1>0, <2>1, <2>3 DEF LoadedUpto
    <3> QED
      BY <3>2, <3>3
  <2> HIDE DEF g
  <2>4. LoadedUpto(g, j + 1)
    BY <2>2, <2>3 DEF LoadedUpto
  <2> QED
    BY <1>2, <2>4
<1>3. T = Nat
  <2> HIDE DEF T
  <2> QED
    BY <1>1, <1>2, Inductive DEF T
<1>4. PICK f : LoadedUpto(f, Len(Preload))
  BY <1>0, <1>3
<1>5. f = [i \in 0..Len(Preload) |-> Load(f, i)]
  BY <1>0, <1>4 DEF LoadedUpto
<1> QED
  BY <1>5

\* The nodes 0..i - 1 hang in their lists, as the first i entries want it.
Filling(t, i) ==
  /\ t.hashs \in HashRange /\ t.hashs.size <= InitialBuckets
  /\ t.datas \in DataRange /\ t.datas.size = i
  /\ \A n \in 0..i - 1 : t.datas.data[n] = Preload[n + 1]
  /\ \E at, rank :
       /\ Ranges(0..i - 1, t.hashs, t.datas.next, at, rank)
       /\ Laid(0..i - 1, t.hashs, t.datas.next, at, rank)
       /\ \A n \in 0..i - 1 : at[n] = KeyHashToBucket(t.datas.data[n], InitialBuckets)

LEMMA BucketIs ==
  ASSUME NEW d \in Nat, NEW c \in Nat \ {0}
  PROVE  KeyHashToBucket(d, c) \in Nat /\ KeyHashToBucket(d, c) < c
BY DEF KeyHashToBucket

LEMMA FreshFilling == Filling(Fresh, 0)
<1>1. 0 \in Link /\ 0 \in Node /\ InitialBuckets \in Nat /\ MaxNodes \in Nat
  BY NodesAssumption, BucketsAssumption DEF Link, Node
<1>2. (CHOOSE k \in Key : TRUE) \in Key
  BY KeyAssumption
<1>3. Fresh.hashs \in HashRange /\ Fresh.hashs.size = 0
  BY <1>1 DEF Fresh, HashRange
<1>4. Fresh.datas \in DataRange /\ Fresh.datas.size = 0
  BY <1>1, <1>2 DEF Fresh, DataRange
<1> DEFINE zero == [n \in Node |-> 0]
<1>5. Fresh.datas.next \in [Node -> Link]
  BY <1>4 DEF DataRange
<1>6. 0..0 - 1 = {}
  OBVIOUS
<1>7. /\ Ranges({}, Fresh.hashs, Fresh.datas.next, zero, zero)
      /\ Laid({}, Fresh.hashs, Fresh.datas.next, zero, zero)
  BY <1>3, <1>5 DEF Ranges, Laid
<1> QED
  BY <1>1, <1>3, <1>4, <1>6, <1>7 DEF Filling

LEMMA AddedFilling ==
  ASSUME NEW i \in Nat, i < Len(Preload), NEW t, Filling(t, i)
  PROVE  Filling(Added(t, Preload[i + 1]), i + 1)
<1> DEFINE d == Preload[i + 1]
           b == KeyHashToBucket(d, InitialBuckets)
           grown == Grown(t.hashs, b)
           new == Added(t, d)
<1>0. /\ d \in Key /\ d \in Nat /\ i \in Node /\ i < MaxNodes
      /\ InitialBuckets \in Nat \ {0} /\ MaxNodes \in Nat
      /\ t.hashs.size \in Nat /\ t.hashs.size <= InitialBuckets
      /\ t.datas \in DataRange /\ t.datas.size = i
  <2>1. Preload \in Seq(Key) /\ Len(Preload) <= MaxNodes
    BY PreloadAssumption
  <2>2. i + 1 \in 1..Len(Preload) /\ Len(Preload) \in Nat
    BY <2>1
  <2>3. d \in Key /\ d \in Nat
    <3>1. Preload[i + 1] \in Key
      BY <2>1, <2>2
    <3> QED
      BY <3>1, KeyAssumption
  <2> QED
    BY <2>1, <2>2, <2>3, NodesAssumption, BucketsAssumption DEF Filling, HashRange, Node
<1>1. b \in Nat /\ b < InitialBuckets /\ b \in Cell
  <2> HIDE DEF d
  <2>1. b \in Nat /\ b < InitialBuckets
    BY <1>0, BucketIs
  <2> HIDE DEF b
  <2> QED
    BY <1>0, <2>1 DEF Cell
<1>2. new = AddHead(grown, t.datas, b, i, d)
  BY <1>0 DEF Added
<1>3. PICK at, rank :
        /\ Ranges(0..i - 1, t.hashs, t.datas.next, at, rank)
        /\ Laid(0..i - 1, t.hashs, t.datas.next, at, rank)
        /\ \A n \in 0..i - 1 : at[n] = KeyHashToBucket(t.datas.data[n], InitialBuckets)
  BY DEF Filling
<1> HIDE DEF d, b, grown, new
<1>4. /\ grown.size = IF b < t.hashs.size THEN t.hashs.size ELSE b + 1
      /\ Ranges(0..i - 1, grown, t.datas.next, at, rank)
      /\ Laid(0..i - 1, grown, t.datas.next, at, rank)
  BY <1>1, <1>3, GrownLaid DEF grown
<1>5. b \in 0..grown.size - 1 /\ grown.size <= InitialBuckets /\ i \in Node \ (0..i - 1)
  BY <1>0, <1>1, <1>4
<1> DEFINE at2 == Put(at, i, b)
           rank2 == Put(rank, i, TopRank(grown, rank, b))
           N2 == (0..i - 1) \cup {i}
<1>6. /\ new.hashs.size = grown.size
      /\ new.datas \in DataRange /\ new.datas.size = i + 1
      /\ new.datas.data = Put(t.datas.data, i, d)
      /\ Ranges(N2, new.hashs, new.datas.next, at2, rank2)
      /\ Laid(N2, new.hashs, new.datas.next, at2, rank2)
  <2> DEFINE N == 0..i - 1
  <2>1. /\ i <= t.datas.size /\ i \in Node \ N
        /\ Ranges(N, grown, t.datas.next, at, rank)
        /\ Laid(N, grown, t.datas.next, at, rank)
    BY <1>0, <1>4, <1>5
  <2> HIDE DEF N
  <2>2. /\ new.hashs.size = grown.size
        /\ new.datas \in DataRange
        /\ new.datas.size = IF i = t.datas.size THEN i + 1 ELSE t.datas.size
        /\ new.datas.data = Put(t.datas.data, i, d)
        /\ Ranges(N \cup {i}, new.hashs, new.datas.next, at2, rank2)
        /\ Laid(N \cup {i}, new.hashs, new.datas.next, at2, rank2)
    <3> HIDE DEF at2, rank2
    <3>1. t.datas \in DataRange /\ b \in 0..grown.size - 1 /\ d \in Key
      BY <1>0, <1>5
    <3>2. LET added == AddHead(grown, t.datas, b, i, d)
          IN /\ added.hashs.size = grown.size
             /\ added.datas \in DataRange
             /\ added.datas.size = IF i = t.datas.size THEN i + 1 ELSE t.datas.size
             /\ added.datas.data = Put(t.datas.data, i, d)
             /\ added.datas.next = Put(t.datas.next, i, grown.cell[b])
             /\ Ranges(N \cup {i}, added.hashs, added.datas.next, at2, rank2)
             /\ Laid(N \cup {i}, added.hashs, added.datas.next, at2, rank2)
      BY <2>1, <3>1, AddedLaid, Zenon DEF at2, rank2
    <3> QED
      BY <1>2, <3>2
  <2> QED
    BY <1>0, <2>2 DEF N
<1>7. N2 = 0..(i + 1) - 1
  OBVIOUS
<1>8. \A n \in 0..i : new.datas.data[n] = IF n = i THEN d ELSE t.datas.data[n]
  <2>1. t.datas.data \in [Node -> Key] /\ 0..i \subseteq Node
    BY <1>0 DEF DataRange, Node
  <2> QED
    BY <1>6, <2>1 DEF Put
<1>9. \A n \in 0..i : at2[n] = IF n = i THEN b ELSE at[n]
  <2>1. at \in [Node -> Nat] /\ 0..i \subseteq Node
    BY <1>0, <1>3 DEF Ranges, Node
  <2> QED
    BY <2>1 DEF Put
<1>10. \A n \in 0..i : new.datas.data[n] = Preload[n + 1]
  BY <1>8 DEF Filling, d
<1>11. \A n \in 0..i : at2[n] = KeyHashToBucket(new.datas.data[n], InitialBuckets)
  BY <1>3, <1>8, <1>9 DEF b
<1>12. new.hashs \in HashRange
  BY <1>6 DEF Ranges
<1> HIDE DEF at2, rank2
<1>13. /\ Ranges(0..(i + 1) - 1, new.hashs, new.datas.next, at2, rank2)
       /\ Laid(0..(i + 1) - 1, new.hashs, new.datas.next, at2, rank2)
  BY <1>6, <1>7
<1>14. (i + 1) - 1 = i
  OBVIOUS
<1>15. Filling(new, i + 1)
  BY <1>5, <1>6, <1>10, <1>11, <1>12, <1>13, <1>14 DEF Filling
<1> QED
  BY <1>15 DEF new, d

LEMMA InitFilling ==
  Init => Filling([hashs |-> m_hashs, datas |-> m_datas], Len(Preload))
<1> SUFFICES ASSUME Init
             PROVE  Filling([hashs |-> m_hashs, datas |-> m_datas], Len(Preload))
  OBVIOUS
<1> DEFINE f == CHOOSE f : f = [i \in 0..Len(Preload) |-> Load(f, i)]
           T == {i \in Nat : i <= Len(Preload) => Filling(f[i], i)}
<1>0. Len(Preload) \in Nat
  BY PreloadAssumption
<1>1. f = [i \in 0..Len(Preload) |-> Load(f, i)]
  BY LoadedExists
<1>2. m_hashs = f[Len(Preload)].hashs /\ m_datas = f[Len(Preload)].datas
  BY DEF Init, Load
<1> HIDE DEF f
<1>3. f[0] = Fresh /\ \A i \in Nat : i < Len(Preload) => f[i + 1] = Added(f[i], Preload[i + 1])
  BY <1>0, <1>1 DEF Load
<1>4. T = Nat
  <2>1. 0 \in T
    BY <1>3, FreshFilling
  <2>2. ASSUME NEW i \in T PROVE i + 1 \in T
    BY <1>0, <1>3, AddedFilling
  <2> HIDE DEF T
  <2> QED
    BY <2>1, <2>2, Inductive DEF T
<1>5. Filling(f[Len(Preload)], Len(Preload))
  BY <1>0, <1>4
<1> QED
  BY <1>2, <1>5 DEF Filling

-----------------------------------------------------------------------------
(* Every variable stays in its range *)

\* While a helper is inside, the bucket it walks is one of those to be moved.
Within == \A p \in Process : lock = Helper(p) => head.moved <= bucket /\ bucket < head.old

TypeInv == TypeOK /\ head.count <= InitialBuckets + MaxNodes /\ Within

LEMMA TypeFacts ==
  ASSUME TypeInv
  PROVE  /\ m_hashs \in HashRange /\ m_datas \in DataRange
         /\ head.old \in Nat /\ head.moved \in Nat /\ head.count \in Nat \ {0}
         /\ head.moved <= head.old /\ head.old <= head.count
         /\ head.count <= InitialBuckets + MaxNodes
         /\ m_hashs.size \in Nat /\ m_hashs.size <= head.count
         /\ \A d \in Key : d \in Nat
         /\ InitialBuckets \in Nat /\ MaxNodes \in Nat
<1>1. InitialBuckets \in Nat /\ MaxNodes \in Nat
  BY NodesAssumption, BucketsAssumption
<1>2. /\ head.old \in Nat /\ head.moved \in Nat /\ head.count \in Nat \ {0}
      /\ m_hashs \in [size : 0..head.count, cell : [Cell -> Link]]
      /\ head.moved <= head.old /\ head.old <= head.count
      /\ head.count <= InitialBuckets + MaxNodes
  BY DEF TypeInv, TypeOK
<1>3. m_hashs \in HashRange /\ m_datas \in DataRange
  BY <1>1, <1>2 DEF TypeInv, TypeOK, HashRange, DataRange
<1> QED
  BY <1>1, <1>2, <1>3, KeyAssumption

LEMMA GrownRange ==
  ASSUME NEW hashs \in HashRange, NEW b \in Cell
  PROVE  /\ Grown(hashs, b) \in HashRange
         /\ Grown(hashs, b).size = IF b < hashs.size THEN hashs.size ELSE b + 1
<1>1. MaxNodes \in Nat /\ InitialBuckets \in Nat /\ End \in Link
  BY NodesAssumption, BucketsAssumption DEF Link
<1> QED
  BY <1>1 DEF Grown, HashRange, Cell

LEMMA AddedRange ==
  ASSUME NEW hashs \in HashRange, NEW datas \in DataRange,
         NEW b \in Cell, NEW n \in Node, NEW d \in Key
  PROVE  LET added == AddHead(hashs, datas, b, n, d)
         IN added.hashs \in HashRange /\ added.hashs.size = hashs.size
            /\ added.datas \in DataRange
<1>1. n \in Link /\ n \in Nat /\ n + 1 <= MaxNodes /\ MaxNodes \in Nat
  BY NodesAssumption DEF Node, Link
<1>2. hashs.cell[b] \in Link
  BY DEF HashRange
<1>3. [datas.next EXCEPT ![n] = hashs.cell[b]] \in [Node -> Link]
  BY <1>2 DEF DataRange
<1>4. [datas.data EXCEPT ![n] = d] \in [Node -> Key]
  BY DEF DataRange
<1>5. (IF n = datas.size THEN n + 1 ELSE datas.size) \in 0..MaxNodes
  BY <1>1 DEF DataRange
<1>6. AddHead(hashs, datas, b, n, d).datas \in DataRange
  BY <1>3, <1>4, <1>5 DEF AddHead, DataRange
<1>7. [hashs EXCEPT !.cell[b] = n] \in HashRange /\ [hashs EXCEPT !.cell[b] = n].size = hashs.size
  BY <1>1 DEF HashRange
<1> QED
  BY <1>6, <1>7 DEF AddHead

LEMMA DeletedRange ==
  ASSUME m_hashs \in HashRange, m_datas \in DataRange, NEW b \in Cell, NEW n \in Node
  PROVE  LET out == DeleteListOne(b, n)
         IN out.hashs \in HashRange /\ out.hashs.size = m_hashs.size
            /\ out.datas \in DataRange
<1>1. m_datas.next[n] \in Link
  BY DEF DataRange
<1>2. [m_hashs EXCEPT !.cell[b] = m_datas.next[n]] \in HashRange
  BY <1>1 DEF HashRange
<1>3. [m_hashs EXCEPT !.cell[b] = m_datas.next[n]].size = m_hashs.size
  BY DEF HashRange
<1> DEFINE m == Before(m_hashs.cell[b], n)
<1> HIDE DEF m
<1>4. [m_datas EXCEPT !.next[m] = m_datas.next[n]] \in DataRange
  BY <1>1 DEF DataRange
<1> QED
  BY <1>2, <1>3, <1>4 DEF DeleteListOne, m

LEMMA ExtendedRange ==
  ASSUME TypeInv
  PROVE  /\ Extended \in [old : Nat, moved : Nat, count : Nat \ {0}]
         /\ Extended.moved <= Extended.old /\ Extended.old <= Extended.count
         /\ head.count <= Extended.count /\ Extended.count <= InitialBuckets + MaxNodes
<1>1. head \in [old : Nat, moved : Nat, count : Nat \ {0}] /\ m_datas.size \in 0..MaxNodes
  BY DEF TypeInv, TypeOK
<1> QED
  BY <1>1, ExtendedIs, TypeFacts

LEMMA InitTypes == Init => TypeInv
<1> SUFFICES ASSUME Init PROVE TypeInv
  OBVIOUS
<1>1. /\ m_hashs \in HashRange /\ m_hashs.size <= InitialBuckets
      /\ m_datas \in DataRange
  BY InitFilling DEF Filling
<1>2. /\ head = [old |-> 0, moved |-> 0, count |-> InitialBuckets]
      /\ lock = Free /\ bucket = 0 /\ it = End
      /\ helper = [p \in Process |-> "none"] /\ joining = {} /\ alive = Process
  BY DEF Init
<1>3. /\ InitialBuckets \in Nat \ {0} /\ MaxNodes \in Nat
      /\ 0 \in Cell /\ End \in Link
  BY NodesAssumption, BucketsAssumption DEF Cell, Link
<1>4. Within
  BY <1>2 DEF Within, Free, Helper
<1>5. m_hashs \in [size : 0..head.count, cell : [Cell -> Link]]
  BY <1>1, <1>2, <1>3 DEF HashRange
<1>6. m_datas \in [size : 0..MaxNodes, next : [Node -> Link], data : [Node -> Key]]
  BY <1>1 DEF DataRange
<1> QED
  BY <1>2, <1>3, <1>4, <1>5, <1>6 DEF TypeInv, TypeOK

\* The locks are three things apart.
LEMMA Locks ==
  ASSUME NEW p, NEW q
  PROVE  /\ Free # Helper(p) /\ Free # Caller(p) /\ Caller(p) # Helper(q)
         /\ Helper(p) = Helper(q) => p = q
<1>1. Free.by = "nobody" /\ Helper(p).by = "helper" /\ Helper(q).by = "helper"
      /\ Caller(p).by = "caller" /\ Helper(p).of = p /\ Helper(q).of = q
  BY DEF Free, Helper, Caller
<1> QED
  BY <1>1

LEMMA ActiveRange ==
  ASSUME TypeInv, NEW p \in Process
  PROVE  Active(p) \in [Process -> {"none", "running", "exited"}]
BY DEF TypeInv, TypeOK, Active

\* The bucket an entry wants is one there is room for.
LEMMA WantedBucket ==
  ASSUME NEW d \in Key, NEW c \in Nat \ {0}, c <= InitialBuckets + MaxNodes
  PROVE  /\ KeyHashToBucket(d, c) \in Nat /\ KeyHashToBucket(d, c) < c
         /\ KeyHashToBucket(d, c) \in Cell
<1>1. d \in Nat /\ InitialBuckets \in Nat /\ MaxNodes \in Nat
  BY KeyAssumption, NodesAssumption, BucketsAssumption
<1> DEFINE b == KeyHashToBucket(d, c)
<1>2. b \in Nat /\ b < c
  BY <1>1, BucketIs
<1> HIDE DEF b
<1>3. b \in Cell
  BY <1>1, <1>2 DEF Cell
<1> QED
  BY <1>2, <1>3 DEF b

LEMMA AddDataTypes ==
  ASSUME TypeInv, NEW p \in Process, NEW d \in Key, AddData(p, d)
  PROVE  TypeInv'
<1> DEFINE b     == KeyHashToBucket(d, Extended.count)
           grown == Grown(m_hashs, b)
           added == AddHead(grown, m_datas, b, m_datas.size, d)
<1>1. /\ head' = Extended /\ lock = Free /\ UNCHANGED <<lock, walk, joining, alive>>
      /\ helper' = IF MayExtend THEN Active(p) ELSE helper
      /\ IF m_datas.size < MaxNodes
         THEN m_hashs' = added.hashs /\ m_datas' = added.datas
         ELSE m_hashs' = grown /\ m_datas' = m_datas
  BY DEF AddData, Calls
<1>2. b \in Nat /\ b < Extended.count /\ b \in Cell
  BY ExtendedRange, WantedBucket
<1> HIDE DEF b
<1>3. grown \in HashRange /\ grown.size \in 0..Extended.count
  BY <1>2, GrownRange, TypeFacts, ExtendedRange
<1>4. m_datas.size < MaxNodes =>
        added.hashs \in HashRange /\ added.hashs.size = grown.size /\ added.datas \in DataRange
  <2>1. m_datas.size < MaxNodes => m_datas.size \in Node
    BY TypeFacts DEF DataRange, Node
  <2> QED
    BY <1>2, <1>3, <2>1, AddedRange, TypeFacts
<1> HIDE DEF grown, added
<1>5. /\ m_hashs' \in HashRange /\ m_hashs'.size \in 0..Extended.count
      /\ m_datas' \in DataRange
  BY <1>1, <1>3, <1>4, TypeFacts
<1>6. /\ m_hashs' \in [size : 0..head'.count, cell : [Cell -> Link]]
      /\ m_datas' \in [size : 0..MaxNodes, next : [Node -> Link], data : [Node -> Key]]
  BY <1>1, <1>5 DEF HashRange, DataRange
<1>7. helper' \in [Process -> {"none", "running", "exited"}]
  BY <1>1, ActiveRange DEF TypeInv, TypeOK
<1>8. Within'
  BY <1>1, Locks DEF Within
<1> QED
  BY <1>1, <1>6, <1>7, <1>8, ExtendedRange DEF TypeInv, TypeOK, walk

LEMMA OtherCallTypes ==
  ASSUME TypeInv, NEW p \in Process,
         Extend(p) \/ Extend_Join(p) \/ (\E d \in Key : GetData(p, d))
  PROVE  TypeInv'
<1>1. CASE Extend(p)
  <2>1. /\ head' = Extended /\ lock = Free /\ UNCHANGED <<m_hashs, m_datas, lock, walk>>
        /\ helper' = IF MayExtend THEN Active(p) ELSE helper
        /\ joining' \subseteq joining \cup {p} /\ alive' \subseteq alive
    BY <1>1 DEF Extend, Calls
  <2>2. m_hashs' \in [size : 0..head'.count, cell : [Cell -> Link]]
    BY <2>1, ExtendedRange, TypeFacts DEF TypeInv, TypeOK
  <2>3. helper' \in [Process -> {"none", "running", "exited"}]
    BY <2>1, ActiveRange DEF TypeInv, TypeOK
  <2>4. Within'
    BY <2>1, Locks DEF Within
  <2> QED
    BY <2>1, <2>2, <2>3, <2>4, ExtendedRange DEF TypeInv, TypeOK, walk
<1>2. CASE Extend_Join(p)
  BY <1>2 DEF Extend_Join, TypeInv, TypeOK, Within, walk, table
<1>3. CASE \E d \in Key : GetData(p, d)
  <2>1. /\ UNCHANGED <<head, m_hashs, m_datas, walk, joining, alive>>
        /\ lock' = Free \/ lock' = Caller(p)
        /\ helper' = Active(p) \/ helper' = helper
    BY <1>3 DEF GetData, table
  <2>2. helper' \in [Process -> {"none", "running", "exited"}]
    BY <2>1, ActiveRange DEF TypeInv, TypeOK
  <2>3. Within'
    BY <2>1, Locks DEF Within
  <2> QED
    BY <2>1, <2>2, <2>3 DEF TypeInv, TypeOK, walk
<1> QED
  BY <1>1, <1>2, <1>3

\* The bucket a helper begins with.
LEMMA BeginsWith ==
  ASSUME TypeInv, NEW p \in Process, Move_Begin(p)
  PROVE  /\ bucket' \in Pending /\ \A j \in Pending : bucket' <= j
         /\ it' = m_hashs.cell[bucket']
         /\ bucket' \in Nat /\ head.moved <= bucket' /\ bucket' < head.old
         /\ bucket' \in Cell /\ it' \in Link /\ it' # End
<1>1. Pending \in SUBSET Nat /\ Pending # {}
  BY TypeFacts DEF Pending, Move_Begin
<1>2. \E i \in Pending : \A j \in Pending : i <= j
  BY <1>1, Least
<1>3. bucket' = CHOOSE i \in Pending : \A j \in Pending : i <= j
  BY DEF Move_Begin
<1>4. bucket' \in Pending /\ \A j \in Pending : bucket' <= j
  BY <1>2, <1>3
<1>5. /\ bucket' \in Nat /\ head.moved <= bucket' /\ bucket' < head.old
      /\ m_hashs.cell[bucket'] # End
  BY <1>4, TypeFacts DEF Pending
<1>6. bucket' \in Cell
  BY <1>5, TypeFacts DEF Cell
<1>7. it' = m_hashs.cell[bucket'] /\ it' \in Link
  BY <1>6, TypeFacts DEF Move_Begin, HashRange
<1> QED
  BY <1>4, <1>5, <1>6, <1>7

LEMMA MoveTypes ==
  ASSUME TypeInv, NEW p \in Process,
         Move_Begin(p) \/ Move_Exit(p) \/ Move_Keep(p) \/ Move_End(p) \/ Leave(p)
  PROVE  TypeInv'
<1>1. CASE Move_Begin(p)
  <2>1. UNCHANGED <<head, m_hashs, m_datas, helper, joining, alive>> /\ lock' = Helper(p)
    BY <1>1 DEF Move_Begin, table
  <2>2. Within'
    BY <1>1, <2>1, BeginsWith DEF Within
  <2> QED
    BY <1>1, <2>1, <2>2, BeginsWith DEF TypeInv, TypeOK
<1>2. CASE Move_Exit(p)
  BY <1>2 DEF Move_Exit, TypeInv, TypeOK, Within, walk, table
<1>3. CASE Move_Keep(p)
  <2>1. /\ UNCHANGED <<head, m_hashs, m_datas, lock, bucket, helper, joining, alive>>
        /\ it \in Node /\ it' = m_datas.next[it]
    BY <1>3 DEF Move_Keep, table, TypeInv, TypeOK, Link
  <2>2. it' \in Link
    BY <2>1, TypeFacts DEF DataRange
  <2> QED
    BY <2>1, <2>2 DEF TypeInv, TypeOK, Within
<1>4. CASE Move_End(p)
  <2>1. /\ UNCHANGED <<m_hashs, m_datas, it, helper, joining, alive>>
        /\ head' = [head EXCEPT !.moved = head.moved + 1] /\ lock' = Free /\ bucket' = 0
        /\ lock = Helper(p)
    BY <1>4 DEF Move_End, Moved
  <2>2. head.moved < head.old
    BY <2>1, TypeFacts DEF TypeInv, TypeOK, Within, Cell
  <2>3. /\ head' \in [old : Nat, moved : Nat, count : Nat \ {0}]
        /\ head'.old = head.old /\ head'.count = head.count /\ head'.moved = head.moved + 1
    BY <2>1 DEF TypeInv, TypeOK
  <2>4. 0 \in Cell
    BY TypeFacts DEF Cell
  <2>5. Within'
    BY <2>1, Locks DEF Within
  <2>6. head'.moved <= head'.old
    BY <2>2, <2>3, TypeFacts
  <2>7. m_hashs' \in [size : 0..head'.count, cell : [Cell -> Link]]
    BY <2>1, <2>3 DEF TypeInv, TypeOK
  <2> QED
    BY <2>1, <2>3, <2>4, <2>5, <2>6, <2>7 DEF TypeInv, TypeOK
<1>5. CASE Leave(p)
  BY <1>5 DEF Leave, TypeInv, TypeOK, Within, walk, table
<1> QED
  BY <1>1, <1>2, <1>3, <1>4, <1>5

LEMMA MoveOneTypes ==
  ASSUME TypeInv, NEW p \in Process, Move_One(p)
  PROVE  TypeInv'
<1> DEFINE out   == IF Deletable(bucket, it) THEN DeleteListOne(bucket, it)
                    ELSE [hashs |-> m_hashs, datas |-> m_datas]
           d     == m_datas.data[it]
           b     == NewBucket(it)
           grown == Grown(out.hashs, b)
           added == AddHead(grown, out.datas, b, Reused(it), d)
<1>1. /\ it \in Node /\ it' = m_datas.next[it]
      /\ IF Reused(it) < MaxNodes
         THEN m_hashs' = added.hashs /\ m_datas' = added.datas
         ELSE m_hashs' = grown /\ m_datas' = out.datas
      /\ UNCHANGED <<head, lock, bucket, helper, joining, alive>>
  BY DEF Move_One, TypeInv, TypeOK, Link
<1>2. d \in Key /\ it' \in Link /\ bucket \in Cell
  BY <1>1, TypeFacts DEF DataRange, TypeInv, TypeOK
<1>3. b \in Nat /\ b < head.count /\ b \in Cell
  BY <1>2, WantedBucket, TypeFacts DEF NewBucket
<1>4. /\ out.hashs \in HashRange /\ out.hashs.size = m_hashs.size
      /\ out.datas \in DataRange
  BY <1>1, <1>2, DeletedRange, TypeFacts
<1> HIDE DEF out, b, d
<1>5. grown \in HashRange /\ grown.size \in 0..head.count
  BY <1>3, <1>4, GrownRange, TypeFacts
<1> HIDE DEF grown
<1>6. Reused(it) \in Nat
  BY <1>1, TypeFacts DEF Reused, DataRange, Node
<1>7. Reused(it) < MaxNodes =>
        added.hashs \in HashRange /\ added.hashs.size = grown.size /\ added.datas \in DataRange
  <2>1. Reused(it) < MaxNodes => Reused(it) \in Node
    BY <1>6, TypeFacts DEF Node
  <2> QED
    BY <1>2, <1>3, <1>4, <1>5, <2>1, AddedRange
<1> HIDE DEF added
<1>8. /\ m_hashs' \in HashRange /\ m_hashs'.size \in 0..head.count /\ m_datas' \in DataRange
  BY <1>1, <1>4, <1>5, <1>7
<1>9. /\ m_hashs' \in [size : 0..head'.count, cell : [Cell -> Link]]
      /\ m_datas' \in [size : 0..MaxNodes, next : [Node -> Link], data : [Node -> Key]]
  BY <1>1, <1>8 DEF HashRange, DataRange
<1>10. Within'
  <2>1. head' = head /\ lock' = lock /\ bucket' = bucket
    BY <1>1
  <2>2. Within
    BY DEF TypeInv
  <2> QED
    BY <2>1, <2>2 DEF Within
<1> QED
  BY <1>1, <1>2, <1>9, <1>10 DEF TypeInv, TypeOK

LEMMA StepTypes == TypeInv /\ [Next]_vars => TypeInv'
<1> SUFFICES ASSUME TypeInv, [Next]_vars PROVE TypeInv'
  OBVIOUS
<1>1. CASE UNCHANGED vars
  BY <1>1 DEF TypeInv, TypeOK, Within, vars, table, walk
<1>2. ASSUME NEW p \in Process, Call(p) PROVE TypeInv'
  BY <1>2, AddDataTypes, OtherCallTypes DEF Call
<1>3. ASSUME NEW p \in Process, Move(p) PROVE TypeInv'
  BY <1>3, MoveTypes, MoveOneTypes DEF Move
<1>4. ASSUME NEW p \in Process, Leave(p) PROVE TypeInv'
  BY <1>4, MoveTypes
<1> QED
  BY <1>1, <1>2, <1>3, <1>4 DEF Next

\* Every variable stays in its range, whatever the helpers make of the list
\* heads (_Extend, _AddData, _Thread_MoveOneData).
THEOREM TypeCorrect == Spec => []TypeOK
<1>1. TypeInv => TypeOK
  BY DEF TypeInv
<1>2. Spec => []TypeInv
  BY InitTypes, StepTypes, PTL DEF Spec
<1> QED
  BY <1>1, <1>2, PTL

-----------------------------------------------------------------------------
(* The lists while they are being moved *)

\* The list heads of all the buckets an extension is to move have been made
\* (finding 2: nothing in the code sees to it).
HeadsMade == head.moved # head.old => head.old <= m_hashs.size

Present == 0..m_datas.size - 1

Walked == \E p \in Process : lock = Helper(p)

\* A node hangs where the number of buckets wants it, or where the old number
\* does and the buckets moved do not reach.
Place(at) ==
  \A n \in Present :
    \/ at[n] = NewBucket(n)
    \/ /\ head.moved # head.old /\ head.moved <= at[n]
       /\ at[n] = KeyHashToBucket(m_datas.data[n], head.old)

\* The walk has come to a node of its bucket; the nodes before it, and those
\* of the bucket that will be counted as moved, are where they are wanted.
Walking(at, rank) ==
  Walked =>
    /\ it # End => it \in Present /\ at[it] = bucket
    /\ \A n \in Present : at[n] = head.moved /\ head.moved < bucket => at[n] = NewBucket(n)
    /\ \A n \in Present :
         at[n] = bucket /\ (it # End => rank[it] < rank[n]) => at[n] = NewBucket(n)

Shape(at, rank) ==
  /\ Ranges(Present, m_hashs, m_datas.next, at, rank)
  /\ Laid(Present, m_hashs, m_datas.next, at, rank)
  /\ Place(at) /\ Walking(at, rank)

ListInv == \E at, rank : Shape(at, rank)

LEMMA InitShape == Init => ListInv
<1> SUFFICES ASSUME Init PROVE ListInv
  OBVIOUS
<1> DEFINE i == Len(Preload)
<1>1. Filling([hashs |-> m_hashs, datas |-> m_datas], i)
  BY InitFilling
<1> HIDE DEF i
<1>2. m_datas.size = i
  BY <1>1 DEF Filling
<1>3. PICK at, rank :
        /\ Ranges(Present, m_hashs, m_datas.next, at, rank)
        /\ Laid(Present, m_hashs, m_datas.next, at, rank)
        /\ \A n \in Present : at[n] = KeyHashToBucket(m_datas.data[n], InitialBuckets)
  BY <1>1, <1>2 DEF Filling, Present
<1>4. head.count = InitialBuckets /\ lock = Free
  BY DEF Init
<1>5. Place(at)
  BY <1>3, <1>4 DEF Place, NewBucket
<1>6. ~Walked
  BY <1>4, Locks DEF Walked
<1> QED
  BY <1>3, <1>5, <1>6 DEF ListInv, Shape, Walking

\* A call may double the number of buckets: no node is anywhere else.
LEMMA ExtendedPlaces ==
  ASSUME TypeInv, NEW at, NEW rank, Shape(at, rank), NEW n \in Present
  PROVE  \/ at[n] = KeyHashToBucket(m_datas.data[n], Extended.count)
         \/ /\ Extended.moved # Extended.old /\ Extended.moved <= at[n]
            /\ at[n] = KeyHashToBucket(m_datas.data[n], Extended.old)
<1>1. head.count \in Nat \ {0} /\ m_datas.size \in 0..MaxNodes
  BY TypeFacts DEF DataRange
<1>2. CASE ~MayExtend
  <2>1. Extended = head
    BY <1>1, <1>2, ExtendedIs
  <2> QED
    BY <2>1 DEF Shape, Place, NewBucket
<1>3. CASE MayExtend
  <2>1. Extended.old = head.count /\ Extended.moved = 0
    BY <1>1, <1>3, ExtendedIs
  <2>2. at[n] = KeyHashToBucket(m_datas.data[n], head.count)
    BY <1>3 DEF Shape, Place, NewBucket, MayExtend
  <2>3. at[n] \in Nat
    BY DEF Shape, Ranges
  <2> QED
    BY <1>1, <2>1, <2>2, <2>3
<1> QED
  BY <1>2, <1>3

LEMMA AddDataShape ==
  ASSUME TypeInv, NEW at, NEW rank, Shape(at, rank),
         NEW p \in Process, NEW d \in Key, AddData(p, d)
  PROVE  ListInv'
<1> DEFINE size == m_datas.size
           next == m_datas.next
           b0   == KeyHashToBucket(d, Extended.count)
           grown == Grown(m_hashs, b0)
           added == AddHead(grown, m_datas, b0, size, d)
<1>1. /\ head' = Extended /\ lock' = Free
      /\ IF m_datas.size < MaxNodes
         THEN m_hashs' = added.hashs /\ m_datas' = added.datas
         ELSE m_hashs' = grown /\ m_datas' = m_datas
  BY DEF AddData, Calls
<1>2. ~Walked'
  BY <1>1, Locks DEF Walked
<1>3. b0 \in Nat /\ b0 \in Cell
  BY ExtendedRange, WantedBucket
<1>4. PICK b : b = b0
  OBVIOUS
<1> HIDE DEF b0
<1>5. /\ grown.size = IF b < m_hashs.size THEN m_hashs.size ELSE b + 1
      /\ Ranges(Present, grown, next, at, rank) /\ Laid(Present, grown, next, at, rank)
  BY <1>3, <1>4, GrownLaid DEF Shape
<1>6. CASE ~(size < MaxNodes)
  <2>1. m_hashs' = grown /\ m_datas' = m_datas
    BY <1>1, <1>6
  <2>2. Present' = Present
    BY <2>1 DEF Present
  <2>3. Place(at)'
    BY <1>1, <2>1, <2>2, ExtendedPlaces DEF Place, NewBucket
  <2>4. Shape(at, rank)'
    BY <1>2, <1>5, <2>1, <2>2, <2>3 DEF Shape, Walking
  <2> QED
    BY <2>4 DEF ListInv
<1>7. CASE size < MaxNodes
  <2>1. m_hashs' = added.hashs /\ m_datas' = added.datas
    BY <1>1, <1>7
  <2>2. PICK at2, rank2 : at2 = Put(at, size, b) /\ rank2 = Put(rank, size, TopRank(grown, rank, b))
    OBVIOUS
  <2>3. /\ size \in Node \ Present /\ size <= size /\ b \in 0..grown.size - 1
        /\ m_datas \in DataRange /\ size \in Nat
    BY <1>3, <1>4, <1>5, <1>7, TypeFacts DEF Present, Node, DataRange
  <2>4. /\ added.datas.size = size + 1 /\ added.datas.data = Put(m_datas.data, size, d)
        /\ Ranges(Present \cup {size}, added.hashs, added.datas.next, at2, rank2)
        /\ Laid(Present \cup {size}, added.hashs, added.datas.next, at2, rank2)
    <3> HIDE DEF grown
    <3>1. LET new == AddHead(grown, m_datas, b, size, d)
          IN /\ new.hashs.size = grown.size
             /\ new.datas \in DataRange
             /\ new.datas.size = IF size = m_datas.size THEN size + 1 ELSE m_datas.size
             /\ new.datas.data = Put(m_datas.data, size, d)
             /\ new.datas.next = Put(m_datas.next, size, grown.cell[b])
             /\ Ranges(Present \cup {size}, new.hashs, new.datas.next, Put(at, size, b),
                       Put(rank, size, TopRank(grown, rank, b)))
             /\ Laid(Present \cup {size}, new.hashs, new.datas.next, Put(at, size, b),
                       Put(rank, size, TopRank(grown, rank, b)))
      BY <1>5, <2>3, AddedLaid, Zenon
    <3> QED
      BY <1>4, <2>2, <3>1
  <2>5. Present' = Present \cup {size}
    BY <2>1, <2>3, <2>4 DEF Present
  <2>6. /\ at2[size] = b /\ m_datas'.data[size] = d
        /\ \A n \in Present : at2[n] = at[n] /\ m_datas'.data[n] = m_datas.data[n]
    <3>1. at \in [Node -> Nat] /\ m_datas.data \in [Node -> Key] /\ Present \subseteq Node
      BY TypeFacts DEF Shape, Ranges, DataRange
    <3> QED
      BY <2>1, <2>2, <2>3, <2>4, <3>1 DEF Put
  <2>7. Place(at2)'
    <3>1. ASSUME NEW n \in Present'
          PROVE  \/ at2[n] = NewBucket(n)'
                 \/ /\ head'.moved # head'.old /\ head'.moved <= at2[n]
                    /\ at2[n] = KeyHashToBucket(m_datas'.data[n], head'.old)
      <4>1. CASE n = size
        BY <1>1, <1>4, <2>6, <4>1 DEF NewBucket, b0
      <4>2. CASE n \in Present
        BY <1>1, <2>6, <4>2, ExtendedPlaces DEF NewBucket
      <4> QED
        BY <2>5, <4>1, <4>2
    <3> QED
      BY <3>1 DEF Place
  <2>8. Shape(at2, rank2)'
    BY <1>2, <2>1, <2>4, <2>5, <2>7 DEF Shape, Walking
  <2> QED
    BY <2>8 DEF ListInv
<1> QED
  BY <1>6, <1>7

\* Steps that leave the lists and the walk alone.
LEMMA StillShape ==
  ASSUME NEW at, NEW rank, Shape(at, rank),
         UNCHANGED <<m_hashs, m_datas, head>>, Walked' => Walked /\ UNCHANGED <<bucket, it>>
  PROVE  ListInv'
<1>1. Present' = Present
  BY DEF Present
<1>2. Place(at)'
  BY <1>1 DEF Shape, Place, NewBucket
<1>3. Walking(at, rank)'
  BY <1>1 DEF Shape, Walking, NewBucket
<1>4. Shape(at, rank)'
  BY <1>1, <1>2, <1>3 DEF Shape
<1> QED
  BY <1>4 DEF ListInv

LEMMA OtherCallShape ==
  ASSUME TypeInv, NEW at, NEW rank, Shape(at, rank), NEW p \in Process,
         Extend(p) \/ Extend_Join(p) \/ (\E d \in Key : GetData(p, d))
  PROVE  ListInv'
<1>1. CASE Extend(p)
  <2>1. head' = Extended /\ lock' = Free /\ UNCHANGED <<m_hashs, m_datas>>
    BY <1>1 DEF Extend, Calls
  <2>2. ~Walked' /\ Present' = Present
    BY <2>1, Locks DEF Walked, Present
  <2>3. Place(at)'
    BY <2>1, <2>2, ExtendedPlaces DEF Place, NewBucket
  <2>4. Shape(at, rank)'
    BY <2>1, <2>2, <2>3 DEF Shape, Walking
  <2> QED
    BY <2>4 DEF ListInv
<1>2. CASE Extend_Join(p)
  <2>1. UNCHANGED <<m_hashs, m_datas, head, lock, bucket, it>>
    BY <1>2 DEF Extend_Join, table, walk
  <2>2. Walked' => Walked
    BY <2>1 DEF Walked
  <2> QED
    BY <2>1, <2>2, StillShape
<1>3. CASE \E d \in Key : GetData(p, d)
  <2>1. UNCHANGED <<m_hashs, m_datas, head>> /\ (lock' = Free \/ lock' = Caller(p))
    BY <1>3 DEF GetData, table
  <2>2. ~Walked'
    BY <2>1, Locks DEF Walked
  <2> QED
    BY <2>1, <2>2, StillShape
<1> QED
  BY <1>1, <1>2, <1>3

LEMMA MoveBeginShape ==
  ASSUME TypeInv, HeadsMade, NEW at, NEW rank, Shape(at, rank),
         NEW p \in Process, Move_Begin(p)
  PROVE  ListInv'
<1>1. UNCHANGED <<head, m_hashs, m_datas>> /\ lock' = Helper(p)
  BY DEF Move_Begin, table
<1>2. /\ bucket' \in Pending /\ \A j \in Pending : bucket' <= j
      /\ it' = m_hashs.cell[bucket'] /\ it' # End
      /\ bucket' \in Nat /\ head.moved <= bucket' /\ bucket' < head.old
  BY BeginsWith
<1>3. /\ bucket' \in 0..m_hashs.size - 1 /\ head.moved \in 0..m_hashs.size - 1
      /\ head.moved \in Nat /\ m_hashs.size \in Nat
  BY <1>2, TypeFacts DEF HeadsMade
<1>4. Laid(Present, m_hashs, m_datas.next, at, rank)
  BY DEF Shape
<1>5. /\ it' \in Present /\ at[it'] = bucket'
      /\ \A n \in Present : at[n] = bucket' => rank[n] <= rank[it']
  BY <1>2, <1>3, <1>4 DEF Laid
\* The lists passed over are empty.
<1>6. head.moved < bucket' => \A n \in Present : at[n] # head.moved
  <2> SUFFICES ASSUME head.moved < bucket' PROVE m_hashs.cell[head.moved] = End
    <3>1. End \notin Present
      BY DEF Present, End
    <3> QED
      BY <1>3, <1>4, <3>1 DEF Laid
  <2>1. head.moved \in head.moved..head.old - 1
    BY <1>2, TypeFacts
  <2>2. head.moved \notin Pending
    BY <1>2, <1>3
  <2> QED
    BY <2>1, <2>2 DEF Pending
<1>7. \A n \in Present : rank[n] \in Nat
  BY DEF Shape, Ranges
<1>8. Present' = Present /\ \A n : NewBucket(n)' = NewBucket(n)
  BY <1>1 DEF Present, NewBucket
<1>9. Walking(at, rank)'
  BY <1>1, <1>2, <1>5, <1>6, <1>7, <1>8 DEF Walking
<1>10. Place(at)'
  BY <1>1, <1>8 DEF Shape, Place
<1>11. Shape(at, rank)'
  BY <1>1, <1>8, <1>9, <1>10 DEF Shape
<1> QED
  BY <1>11 DEF ListInv

LEMMA MoveKeepShape ==
  ASSUME TypeInv, NEW at, NEW rank, Shape(at, rank),
         NEW p \in Process, Move_Keep(p)
  PROVE  ListInv'
<1>1. /\ UNCHANGED <<head, m_hashs, m_datas, lock, bucket>> /\ lock = Helper(p)
      /\ it # End /\ NewBucket(it) = bucket /\ it' = m_datas.next[it]
  BY DEF Move_Keep, table
<1>2. Walked
  BY <1>1 DEF Walked
<1>3. it \in Present /\ at[it] = bucket
  BY <1>1, <1>2 DEF Shape, Walking
<1>4. \A n \in Present : rank[n] \in Nat
  BY DEF Shape, Ranges
<1>5. \A n \in Present : at[n] = bucket /\ rank[it] <= rank[n] => at[n] = NewBucket(n)
  <2> SUFFICES ASSUME NEW n \in Present, at[n] = bucket, rank[it] <= rank[n]
               PROVE  at[n] = NewBucket(n)
    OBVIOUS
  <2>1. CASE rank[it] = rank[n]
    <3>1. n = it
      BY <1>3, <2>1 DEF Shape, Laid
    <3> QED
      BY <1>1, <1>3, <3>1
  <2>2. CASE rank[it] < rank[n]
    BY <1>1, <1>2, <2>2 DEF Shape, Walking
  <2> QED
    BY <1>3, <1>4, <2>1, <2>2
<1>6. \/ it' = End /\ rank[it] = 0
      \/ it' \in Present /\ at[it'] = bucket /\ rank[it] = rank[it'] + 1
  BY <1>1, <1>3 DEF Shape, Laid
<1>7. Present' = Present /\ \A n : NewBucket(n)' = NewBucket(n)
  BY <1>1 DEF Present, NewBucket
<1>8. it' # End => it' \in Present /\ at[it'] = bucket
  BY <1>6
<1>9. \A n \in Present : at[n] = bucket /\ (it' # End => rank[it'] < rank[n]) => at[n] = NewBucket(n)
  <2> SUFFICES ASSUME NEW n \in Present, at[n] = bucket, it' # End => rank[it'] < rank[n]
               PROVE  rank[it] <= rank[n]
    BY <1>5
  <2>1. rank[n] \in Nat /\ rank[it] \in Nat
    BY <1>3, <1>4
  <2>2. CASE it' = End /\ rank[it] = 0
    BY <2>1, <2>2
  <2>3. CASE it' \in Present /\ rank[it] = rank[it'] + 1
    <3>1. it' # End /\ rank[it'] \in Nat
      BY <1>4, <2>3 DEF Present, End
    <3>2. rank[it'] < rank[n]
      BY <3>1
    <3> QED
      BY <2>1, <2>3, <3>1, <3>2
  <2> QED
    BY <1>6, <2>2, <2>3
<1>10. \A n \in Present : at[n] = head.moved /\ head.moved < bucket => at[n] = NewBucket(n)
  BY <1>2 DEF Shape, Walking
<1>11. Walking(at, rank)'
  BY <1>1, <1>7, <1>8, <1>9, <1>10 DEF Walking
<1>12. Place(at)'
  BY <1>1, <1>7 DEF Shape, Place
<1>13. Shape(at, rank)'
  BY <1>1, <1>7, <1>11, <1>12 DEF Shape
<1> QED
  BY <1>13 DEF ListInv

LEMMA MoveEndShape ==
  ASSUME TypeInv, NEW at, NEW rank, Shape(at, rank),
         NEW p \in Process, Move_End(p)
  PROVE  ListInv'
<1>1. /\ UNCHANGED <<m_hashs, m_datas>> /\ lock = Helper(p) /\ lock' = Free
      /\ it = End /\ head' = [head EXCEPT !.moved = head.moved + 1]
  BY DEF Move_End, Moved
<1>2. Walked /\ ~Walked'
  BY <1>1, Locks DEF Walked
<1>3. /\ head'.old = head.old /\ head'.count = head.count /\ head'.moved = head.moved + 1
  BY <1>1 DEF TypeInv, TypeOK
<1>4. head.moved <= bucket /\ bucket \in Nat /\ head.moved \in Nat /\ head.old \in Nat
  BY <1>1, TypeFacts DEF TypeInv, Within, TypeOK, Cell
<1>5. \A n \in Present : at[n] = head.moved => at[n] = NewBucket(n)
  BY <1>1, <1>2, <1>4 DEF Shape, Walking
<1>6. Present' = Present /\ \A n : NewBucket(n)' = NewBucket(n)
  BY <1>1, <1>3 DEF Present, NewBucket
<1>7. ASSUME NEW n \in Present, at[n] # NewBucket(n)
      PROVE  /\ head'.moved # head'.old /\ head'.moved <= at[n]
             /\ at[n] = KeyHashToBucket(m_datas.data[n], head.old)
  <2>1. /\ at[n] = KeyHashToBucket(m_datas.data[n], head.old)
        /\ head.moved # head.old /\ head.moved <= at[n] /\ at[n] # head.moved
    BY <1>5, <1>7 DEF Shape, Place
  <2>2. at[n] \in Nat /\ m_datas.data[n] \in Nat
    BY TypeFacts DEF Shape, Ranges, DataRange
  <2>3. head.old # 0
    BY <1>4, <2>1, TypeFacts
  <2>4. at[n] < head.old
    BY <1>4, <2>1, <2>2, <2>3, BucketIs
  <2> QED
    BY <1>3, <1>4, <2>1, <2>2, <2>4
<1>8. Place(at)'
  BY <1>1, <1>3, <1>6, <1>7 DEF Place
<1>9. Shape(at, rank)'
  BY <1>1, <1>2, <1>6, <1>8 DEF Shape, Walking
<1> QED
  BY <1>9 DEF ListInv

\* An entry is moved in its node, which is the one DeleteListOne freed.
LEMMA MoveOneShape ==
  ASSUME TypeInv, NEW at, NEW rank, Shape(at, rank),
         NEW p \in Process, Move_One(p)
  PROVE  ListInv' /\ m_datas'.size = m_datas.size /\ m_datas'.data = m_datas.data
<1>1. lock = Helper(p) /\ it # End /\ NewBucket(it) # bucket
  BY DEF Move_One
<1>2. Walked
  BY <1>1 DEF Walked
<1>3. it \in Present /\ at[it] = bucket
  BY <1>1, <1>2 DEF Shape, Walking
<1>4. /\ Ranges(Present, m_hashs, m_datas.next, at, rank)
      /\ Laid(Present, m_hashs, m_datas.next, at, rank)
  BY DEF Shape
<1>5. /\ Present \subseteq Node /\ at \in [Node -> Nat] /\ it \in Nat /\ it < m_datas.size
      /\ m_datas.size <= MaxNodes /\ m_datas.size \in Nat /\ MaxNodes \in Nat
      /\ m_datas.data \in [Node -> Key] /\ it \in Node
      /\ \A n \in Present : rank[n] \in Nat
      /\ End \notin Present
  <2>1. /\ Present \subseteq Node /\ at \in [Node -> Nat] /\ rank \in [Node -> Nat]
    BY <1>4 DEF Ranges
  <2>2. /\ m_datas.size <= MaxNodes /\ m_datas.size \in Nat /\ MaxNodes \in Nat
        /\ m_datas.data \in [Node -> Key]
    BY TypeFacts DEF DataRange
  <2>3. it \in Nat /\ it < m_datas.size
    BY <1>3, <2>2 DEF Present
  <2>4. End \notin Present
    BY DEF Present, End
  <2> QED
    BY <1>3, <2>1, <2>2, <2>3, <2>4
<1>6. bucket \in 0..m_hashs.size - 1
  <2>1. at[it] < m_hashs.size /\ at[it] \in Nat /\ m_hashs.size \in Nat
    BY <1>3, <1>4, <1>5, TypeFacts DEF Laid
  <2> QED
    BY <1>3, <2>1
<1>7. Deletable(bucket, it) /\ Reused(it) = it /\ Reused(it) < MaxNodes
  <2>1. Chain(m_hashs.cell[bucket]) = {n \in Present : at[n] = bucket}
    BY <1>4, <1>6, ChainIs
  <2>2. Deletable(bucket, it)
    BY <1>3, <2>1 DEF Deletable
  <2> QED
    BY <1>5, <2>2 DEF Reused
<1> DEFINE out0   == DeleteListOne(bucket, it)
           d      == m_datas.data[it]
           grown0 == Grown(out0.hashs, NewBucket(it))
           added0 == AddHead(grown0, out0.datas, NewBucket(it), it, d)
<1>8. /\ it' = m_datas.next[it] /\ UNCHANGED <<head, lock, bucket>>
      /\ m_hashs' = added0.hashs /\ m_datas' = added0.datas
  BY <1>7 DEF Move_One
<1>9. PICK out, b, rank1 : /\ out = out0 /\ b = NewBucket(it)
                           /\ rank1 = Lowered(at, rank, bucket, it)
  OBVIOUS
<1> HIDE DEF out0
<1> DEFINE N == Present \ {it}
           grown == Grown(out.hashs, b)
           added == AddHead(grown, out.datas, b, it, d)
<1>10. m_hashs' = added.hashs /\ m_datas' = added.datas
  BY <1>8, <1>9
<1>11. d \in Key /\ b \in Nat /\ b \in Cell /\ b # bucket
  <2>1. d \in Key
    BY <1>5
  <2> QED
    BY <1>1, <1>9, <2>1, WantedBucket, TypeFacts DEF NewBucket
\* It is taken out ...
<1>12. /\ out.datas \in DataRange /\ out.datas.size = m_datas.size
       /\ out.datas.data = m_datas.data
       /\ Ranges(N, out.hashs, out.datas.next, at, rank1)
       /\ Laid(N, out.hashs, out.datas.next, at, rank1)
  <2>1. m_datas \in DataRange
    BY TypeFacts
  <2>2. LET new == DeleteListOne(bucket, it)
            low == Lowered(at, rank, bucket, it)
        IN /\ new.hashs.size = m_hashs.size
           /\ new.datas \in DataRange /\ new.datas.size = m_datas.size
           /\ new.datas.data = m_datas.data
           /\ Ranges(Present \ {it}, new.hashs, new.datas.next, at, low)
           /\ Laid(Present \ {it}, new.hashs, new.datas.next, at, low)
    <3>1. PICK c, n : c = bucket /\ n = it
      OBVIOUS
    <3>2. n \in Present /\ at[n] = c /\ c \in 0..m_hashs.size - 1
      BY <1>3, <1>6, <3>1
    <3>3. LET new == DeleteListOne(c, n)
              low == Lowered(at, rank, c, n)
          IN /\ new.hashs.size = m_hashs.size
             /\ new.datas \in DataRange /\ new.datas.size = m_datas.size
             /\ new.datas.data = m_datas.data
             /\ Ranges(Present \ {n}, new.hashs, new.datas.next, at, low)
             /\ Laid(Present \ {n}, new.hashs, new.datas.next, at, low)
      BY <1>4, <2>1, <3>2, DeletedLaid
    <3> QED
      BY <3>1, <3>3
  <2> QED
    BY <1>9, <2>2 DEF out0
\* ... the list heads are made ...
<1>13. /\ grown.size = IF b < out.hashs.size THEN out.hashs.size ELSE b + 1
       /\ Ranges(N, grown, out.datas.next, at, rank1)
       /\ Laid(N, grown, out.datas.next, at, rank1)
  BY <1>11, <1>12, GrownLaid
<1>14. b \in 0..grown.size - 1 /\ it \in Node \ N /\ it <= out.datas.size
  <2>1. out.hashs.size \in Nat
    BY <1>12, TypeFacts DEF Ranges, HashRange
  <2> QED
    BY <1>5, <1>11, <1>12, <1>13, <2>1
\* ... and it is added again.
<1> HIDE DEF grown, d, N
<1>15. PICK at2, rank2 : at2 = Put(at, it, b) /\ rank2 = Put(rank1, it, TopRank(grown, rank1, b))
  OBVIOUS
<1>16. /\ added.datas.size = IF it = out.datas.size THEN it + 1 ELSE out.datas.size
       /\ added.datas.data = Put(out.datas.data, it, d)
       /\ Ranges(N \cup {it}, added.hashs, added.datas.next, at2, rank2)
       /\ Laid(N \cup {it}, added.hashs, added.datas.next, at2, rank2)
  <2>1. LET new == AddHead(grown, out.datas, b, it, d)
        IN /\ new.hashs.size = grown.size
           /\ new.datas \in DataRange
           /\ new.datas.size = IF it = out.datas.size THEN it + 1 ELSE out.datas.size
           /\ new.datas.data = Put(out.datas.data, it, d)
           /\ new.datas.next = Put(out.datas.next, it, grown.cell[b])
           /\ Ranges(N \cup {it}, new.hashs, new.datas.next, Put(at, it, b),
                     Put(rank1, it, TopRank(grown, rank1, b)))
           /\ Laid(N \cup {it}, new.hashs, new.datas.next, Put(at, it, b),
                     Put(rank1, it, TopRank(grown, rank1, b)))
    BY <1>11, <1>12, <1>13, <1>14, AddedLaid, Zenon
  <2> QED
    BY <1>15, <2>1
<1> HIDE DEF added
<1>17. m_datas'.size = m_datas.size /\ m_datas'.data = m_datas.data
  <2>1. Put(m_datas.data, it, m_datas.data[it]) = m_datas.data
    BY <1>5 DEF Put
  <2> QED
    BY <1>5, <1>10, <1>12, <1>16, <2>1 DEF d
<1>18. Present' = Present /\ N \cup {it} = Present
  BY <1>3, <1>17 DEF Present, N
<1>19. \A n : NewBucket(n)' = NewBucket(n)
  BY <1>8, <1>17 DEF NewBucket
<1>20. /\ at2[it] = b
       /\ \A n \in Present : n # it =>
            /\ at2[n] = at[n] /\ rank2[n] = rank1[n]
            /\ rank1[n] = IF at[n] = bucket /\ rank[it] < rank[n] THEN rank[n] - 1 ELSE rank[n]
  <2>1. rank1 = [m \in Node |-> IF at[m] = bucket /\ rank[it] < rank[m] THEN rank[m] - 1 ELSE rank[m]]
    BY <1>9 DEF Lowered
  <2>2. \A n \in Present : n \in Node
    BY <1>5
  <2> QED
    BY <1>5, <1>15, <2>1, <2>2 DEF Put
<1>21. Place(at2)'
  <2>1. ASSUME NEW n \in Present
        PROVE  \/ at2[n] = NewBucket(n)
               \/ /\ head.moved # head.old /\ head.moved <= at2[n]
                  /\ at2[n] = KeyHashToBucket(m_datas.data[n], head.old)
    <3>1. CASE n = it
      BY <1>9, <1>20, <3>1
    <3>2. CASE n # it
      BY <1>20, <3>2 DEF Shape, Place
    <3> QED
      BY <3>1, <3>2
  <2> QED
    BY <1>8, <1>17, <1>18, <1>19, <2>1 DEF Place
<1>22. \/ it' = End /\ rank[it] = 0
       \/ /\ it' \in Present /\ it' # it /\ it' # End
          /\ at[it'] = bucket /\ rank[it] = rank[it'] + 1
  <2>1. \/ it' = End /\ rank[it] = 0
        \/ it' \in Present /\ at[it'] = bucket /\ rank[it] = rank[it'] + 1
    BY <1>3, <1>4, <1>8 DEF Laid
  <2>2. it' \in Present /\ rank[it] = rank[it'] + 1 => it' # it /\ it' # End
    BY <1>3, <1>5
  <2> QED
    BY <2>1, <2>2
<1>23. it' # End => it' \in Present /\ at2[it'] = bucket
  BY <1>20, <1>22
<1>24. \A n \in Present : at2[n] = head.moved /\ head.moved < bucket => at2[n] = NewBucket(n)
  <2>1. \A n \in Present : at[n] = head.moved /\ head.moved < bucket => at[n] = NewBucket(n)
    BY <1>2 DEF Shape, Walking
  <2> QED
    BY <1>9, <1>20, <2>1
<1>25. ASSUME NEW n \in Present, at2[n] = bucket, it' # End => rank2[it'] < rank2[n]
       PROVE  at2[n] = NewBucket(n)
  <2>1. n # it
    BY <1>11, <1>20, <1>25
  <2>2. at[n] = bucket /\ at2[n] = at[n] /\ rank2[n] = rank1[n]
    BY <1>20, <1>25, <2>1
  <2>3. rank[n] # rank[it]
    BY <1>3, <1>4, <2>1, <2>2 DEF Laid
  <2>4. CASE rank[it] < rank[n]
    BY <1>1, <1>2, <2>2, <2>4 DEF Shape, Walking
  <2>5. CASE rank[n] < rank[it]
    <3>1. rank[n] \in Nat /\ rank[it] \in Nat
      BY <1>3, <1>5
    <3>2. rank2[n] = rank[n]
      BY <1>20, <2>1, <2>2, <2>5, <3>1
    <3>3. /\ it' \in Present /\ it' # it /\ it' # End
          /\ at[it'] = bucket /\ rank[it] = rank[it'] + 1
      BY <1>22, <2>5, <3>1
    <3>4. rank[it'] \in Nat
      BY <1>5, <3>3
    <3>5. rank2[it'] = rank[it']
      BY <1>20, <3>1, <3>3, <3>4
    <3> QED
      BY <1>25, <2>5, <3>1, <3>2, <3>3, <3>4, <3>5
  <2> QED
    BY <1>3, <1>5, <2>3, <2>4, <2>5
<1>26. Walking(at2, rank2)'
  BY <1>8, <1>18, <1>19, <1>23, <1>24, <1>25 DEF Walking
<1>27. Shape(at2, rank2)'
  BY <1>10, <1>16, <1>18, <1>21, <1>26 DEF Shape
<1> QED
  BY <1>17, <1>27 DEF ListInv

LEMMA StepShape == TypeInv /\ HeadsMade /\ ListInv /\ [Next]_vars => ListInv'
<1> SUFFICES ASSUME TypeInv, HeadsMade, ListInv, [Next]_vars PROVE ListInv'
  OBVIOUS
<1>0. PICK at, rank : Shape(at, rank)
  BY DEF ListInv
\* Nothing the lists and the walk are made of changes.
<1>1. ASSUME UNCHANGED <<table, lock, walk>> PROVE ListInv'
  <2>1. UNCHANGED <<m_hashs, m_datas, head, lock, bucket, it>>
    BY <1>1 DEF table, walk
  <2>2. Walked' => Walked
    BY <2>1 DEF Walked
  <2> QED
    BY <1>0, <2>1, <2>2, StillShape
<1>2. CASE UNCHANGED vars
  BY <1>1, <1>2 DEF vars
<1>3. ASSUME NEW p \in Process, Call(p) PROVE ListInv'
  BY <1>0, <1>3, AddDataShape, OtherCallShape DEF Call
<1>4. ASSUME NEW p \in Process, Move(p) PROVE ListInv'
  <2>1. CASE Move_Exit(p)
    BY <1>1, <2>1 DEF Move_Exit
  <2>2. CASE Move_Begin(p)
    BY <1>0, <2>2, MoveBeginShape
  <2>3. CASE Move_Keep(p)
    BY <1>0, <2>3, MoveKeepShape
  <2>4. CASE Move_One(p)
    BY <1>0, <2>4, MoveOneShape
  <2>5. CASE Move_End(p)
    BY <1>0, <2>5, MoveEndShape
  <2> QED
    BY <1>4, <2>1, <2>2, <2>3, <2>4, <2>5 DEF Move
<1>5. ASSUME NEW p \in Process, Leave(p) PROVE ListInv'
  BY <1>1, <1>5 DEF Leave
<1> QED
  BY <1>2, <1>3, <1>4, <1>5 DEF Next

TableInv == TypeInv /\ ListInv

LEMMA TableKept == Spec /\ []HeadsMade => []TableInv
<1>1. Init => TableInv
  BY InitTypes, InitShape DEF TableInv
<1>2. TableInv /\ HeadsMade /\ [Next]_vars => TableInv'
  BY StepTypes, StepShape DEF TableInv
<1> QED
  BY <1>1, <1>2, PTL DEF Spec

-----------------------------------------------------------------------------
(* What the lists show *)

LEMMA EmptyChain == Chain(End) = {} /\ ~Endless(End)
<1>1. PICK f : Walk(m_datas.next, {}, f) /\ Chain(End) = f[MaxNodes][End]
  BY NodesRows DEF Chain
<1>2. f[MaxNodes] = Row(m_datas.next, {}, f, MaxNodes)
  BY <1>1, NodesAssumption DEF Walk
<1>3. f[MaxNodes][End] = {}
  BY <1>2 DEF Row, Link
<1> QED
  BY <1>1, <1>3 DEF Endless

LEMMA ListsAre ==
  ASSUME TypeInv, NEW at, NEW rank, Shape(at, rank)
  PROVE  /\ \A b \in Made : List(b) = {n \in Present : at[n] = b} /\ ~Endless(m_hashs.cell[b])
         /\ \A n \in Present : at[n] \in Made
         /\ Linked = Present
<1>1. \A b \in Made : List(b) = {n \in Present : at[n] = b} /\ ~Endless(m_hashs.cell[b])
  BY ChainIs DEF Shape, Made, List
<1>2. \A n \in Present : at[n] \in Made
  <2> SUFFICES ASSUME NEW n \in Present PROVE at[n] \in 0..m_hashs.size - 1
    BY DEF Made
  <2>1. at[n] \in Nat /\ at[n] < m_hashs.size /\ m_hashs.size \in Nat
    BY TypeFacts DEF Shape, Ranges, Laid
  <2> QED
    BY <2>1
<1>3. Linked = Present
  BY <1>1, <1>2 DEF Linked
<1> QED
  BY <1>1, <1>2, <1>3

LEMMA LinkedAre == TableInv => Linked = Present
BY ListsAre DEF TableInv, ListInv

LEMMA LinkedNext == TableInv' => (Linked = Present)'
BY LinkedAre, PTL

LEMMA Partition == TableInv => ListsPartition
<1> SUFFICES ASSUME TypeInv, ListInv PROVE ListsPartition
  BY DEF TableInv
<1>1. PICK at, rank : Shape(at, rank)
  BY DEF ListInv
<1>2. /\ \A b \in Made : List(b) = {n \in Present : at[n] = b} /\ ~Endless(m_hashs.cell[b])
      /\ Linked = Present
  BY <1>1, ListsAre
<1> QED
  BY <1>2 DEF ListsPartition, Present

\* As long as the heads of the buckets to be moved are made, the lists stay
\* whole while entries are taken out of one and put into another.
THEOREM ListsWhole == Spec /\ []HeadsMade => []ListsPartition
BY TableKept, Partition, PTL

\* How many nodes have an entry says whether one has.
LEMMA HeldIs ==
  ASSUME TableInv, NEW d \in Key
  PROVE  /\ Held[d] \in 0..MaxNodes
         /\ Held[d] > 0 <=> \E n \in Present : m_datas.data[n] = d
<1> DEFINE D == {n \in Present : m_datas.data[n] = d}
<1>1. Held[d] = Cardinality(D)
  BY LinkedAre DEF Held
<1>2. Present \subseteq Node
  BY DEF TableInv, ListInv, Shape, Ranges
<1>3. IsFiniteSet(D) /\ Cardinality(D) <= MaxNodes
  <2>1. D \in SUBSET Node
    BY <1>2
  <2> QED
    BY <2>1, NodeCount, FS_Subset
<1>4. Cardinality(D) \in Nat /\ (Cardinality(D) = 0 <=> D = {})
  BY <1>3, FS_CardinalityType, FS_EmptySet
<1> QED
  BY <1>1, <1>3, <1>4, NodesAssumption

HeadAt(b) == IF b < m_hashs.size THEN m_hashs.cell[b] ELSE End
NewHead(d) == HeadAt(KeyHashToBucket(d, head.count))
OldHead(d) == HeadAt(KeyHashToBucket(d, head.old))

LEMMA Pair ==
  ASSUME NEW x, NEW y
  PROVE  LET pair == <<x>> \o <<y>>
         IN DOMAIN pair = {1, 2} /\ pair[1] = x /\ pair[2] = y
<1>1. PICK s, t : s = <<x>> /\ t = <<y>>
  OBVIOUS
<1>2. /\ s \in Seq({x, y}) /\ t \in Seq({x, y})
      /\ Len(s) = 1 /\ Len(t) = 1 /\ s[1] = x /\ t[1] = y
  BY <1>1
<1>3. /\ s \o t \in Seq({x, y}) /\ Len(s \o t) = 2
      /\ \A i \in 1..2 : (s \o t)[i] = IF i <= 1 THEN s[i] ELSE t[i - 1]
  <2>1. PICK S : S = {x, y}
    OBVIOUS
  <2>2. s \in Seq(S) /\ t \in Seq(S)
    BY <1>2, <2>1
  <2>3. /\ s \o t \in Seq(S) /\ Len(s \o t) = Len(s) + Len(t)
        /\ \A i \in 1..Len(s) + Len(t) : (s \o t)[i] = IF i <= Len(s) THEN s[i] ELSE t[i - Len(s)]
    BY <2>2, ConcatProperties
  <2> QED
    BY <1>2, <2>1, <2>3
<1>4. DOMAIN (s \o t) = 1..2
  BY <1>3, LenProperties
<1> QED
  BY <1>1, <1>2, <1>3, <1>4

LEMMA HeadsAre ==
  ASSUME NEW d
  PROVE  IF InOldBucket(d)
         THEN DOMAIN Heads(d) = {1, 2} /\ Heads(d)[1] = OldHead(d) /\ Heads(d)[2] = NewHead(d)
         ELSE DOMAIN Heads(d) = {1} /\ Heads(d)[1] = NewHead(d)
<1>1. CASE InOldBucket(d)
  <2>1. Heads(d) = <<OldHead(d)>> \o <<NewHead(d)>>
    BY <1>1 DEF Heads, OldHead, NewHead, HeadAt
  <2> QED
    BY <1>1, <2>1, Pair
<1>2. CASE ~InOldBucket(d)
  <2>1. Heads(d) = <<NewHead(d)>>
    BY <1>2 DEF Heads, NewHead, HeadAt
  <2> QED
    BY <1>2, <2>1
<1> QED
  BY <1>1, <1>2

LEMMA HeadIs ==
  ASSUME TypeInv, NEW at, NEW rank, Shape(at, rank), NEW b \in Nat
  PROVE  Chain(HeadAt(b)) = {n \in Present : at[n] = b} /\ ~Endless(HeadAt(b))
<1>1. CASE b < m_hashs.size
  <2>1. b \in 0..m_hashs.size - 1
    BY <1>1, TypeFacts
  <2> QED
    BY <1>1, <2>1, ChainIs DEF Shape, HeadAt
<1>2. CASE ~(b < m_hashs.size)
  <2>1. \A n \in Present : at[n] # b
    BY <1>2 DEF Shape, Laid
  <2> QED
    BY <1>2, <2>1, EmptyChain DEF HeadAt
<1> QED
  BY <1>1, <1>2

LEMMA Lookup == TableInv => LookupExact
<1> SUFFICES ASSUME TableInv, NEW d \in Key
             PROVE  Returns(d) /\ (Found(d) <=> Held[d] > 0)
  BY DEF LookupExact
<1>1. PICK at, rank : Shape(at, rank)
  BY DEF TableInv, ListInv
<1>2. TypeInv
  BY DEF TableInv
<1> DEFINE new == KeyHashToBucket(d, head.count)
           old == KeyHashToBucket(d, head.old)
<1>3. new \in Nat /\ (InOldBucket(d) => old \in Nat)
  <2>1. d \in Nat /\ head.count \in Nat \ {0} /\ (InOldBucket(d) => head.old \in Nat \ {0})
    BY <1>2, TypeFacts DEF InOldBucket
  <2> QED
    BY <2>1, BucketIs
<1>4. /\ Chain(NewHead(d)) = {n \in Present : at[n] = new} /\ ~Endless(NewHead(d))
      /\ InOldBucket(d) =>
           Chain(OldHead(d)) = {n \in Present : at[n] = old} /\ ~Endless(OldHead(d))
  BY <1>1, <1>2, <1>3, HeadIs DEF NewHead, OldHead
<1> HIDE DEF new, old
<1>5. CASE InOldBucket(d)
  <2>2. DOMAIN Heads(d) = {1, 2} /\ Heads(d)[1] = OldHead(d) /\ Heads(d)[2] = NewHead(d)
    BY <1>5, HeadsAre
  <2>3. Returns(d)
    BY <1>4, <1>5, <2>2 DEF Returns
  <2>4. Found(d) <=> \E n \in Present : m_datas.data[n] = d /\ (at[n] = old \/ at[n] = new)
    BY <1>4, <1>5, <2>2 DEF Found, FoundFrom
  <2>5. \A n \in Present : m_datas.data[n] = d => at[n] = old \/ at[n] = new
    BY <1>1 DEF Shape, Place, NewBucket, old, new
  <2> QED
    BY <2>3, <2>4, <2>5, HeldIs
<1>6. CASE ~InOldBucket(d)
  <2>2. DOMAIN Heads(d) = {1} /\ Heads(d)[1] = NewHead(d)
    BY <1>6, HeadsAre
  <2>3. Returns(d)
    BY <1>4, <2>2 DEF Returns
  <2>4. Found(d) <=> \E n \in Present : m_datas.data[n] = d /\ at[n] = new
    BY <1>4, <2>2 DEF Found, FoundFrom
  <2>5. \A n \in Present : m_datas.data[n] = d => at[n] = new
    BY <1>1, <1>6 DEF Shape, Place, NewBucket, InOldBucket, new
  <2> QED
    BY <2>3, <2>4, <2>5, HeldIs
<1> QED
  BY <1>5, <1>6

\* As long as those heads are made, a lookup finds exactly what was added,
\* wherever the helpers have got to and however many have been killed.
THEOREM LookupsExact == Spec /\ []HeadsMade => []LookupExact
BY TableKept, Lookup, PTL

-----------------------------------------------------------------------------
(* The table to its users *)

\* Only AddData gives the table one more entry; nothing changes the others.
Grows(d) ==
  /\ m_datas.size < MaxNodes /\ m_datas'.size = m_datas.size + 1
  /\ m_datas'.data = Put(m_datas.data, m_datas.size, d)

Same == m_datas'.size = m_datas.size /\ m_datas'.data = m_datas.data

LEMMA StepGrows ==
  TableInv /\ [Next]_vars => Same \/ \E d \in Key : Grows(d)
<1> SUFFICES ASSUME TypeInv, ListInv, [Next]_vars PROVE Same \/ \E d \in Key : Grows(d)
  BY DEF TableInv
<1>1. CASE UNCHANGED m_datas
  BY <1>1 DEF Same
<1>2. ASSUME NEW p \in Process, NEW d \in Key, AddData(p, d)
      PROVE  Same \/ Grows(d)
  <2>1. CASE ~(m_datas.size < MaxNodes)
    <3>1. m_datas' = m_datas
      BY <1>2, <2>1 DEF AddData
    <3> QED
      BY <3>1 DEF Same
  <2>2. CASE m_datas.size < MaxNodes
    <3> DEFINE b == KeyHashToBucket(d, Extended.count)
               grown == Grown(m_hashs, b)
    <3>1. m_datas' = AddHead(grown, m_datas, b, m_datas.size, d).datas
      BY <1>2, <2>2 DEF AddData
    <3> HIDE DEF b, grown
    <3> QED
      BY <2>2, <3>1 DEF AddHead, Grows, Put
  <2> QED
    BY <2>1, <2>2
<1>3. ASSUME NEW p \in Process, Move_One(p) PROVE Same
  <2>1. PICK at, rank : Shape(at, rank)
    BY DEF ListInv
  <2> QED
    BY <1>3, <2>1, MoveOneShape DEF Same
<1>4. ASSUME NEW p \in Process, NEW d \in Key, GetData(p, d) PROVE UNCHANGED m_datas
  BY <1>4 DEF GetData, table
<1>5. ASSUME NEW p \in Process,
             Extend(p) \/ Extend_Join(p) \/ Move_Begin(p) \/ Move_Exit(p)
               \/ Move_Keep(p) \/ Move_End(p) \/ Leave(p)
      PROVE  UNCHANGED m_datas
  BY <1>5 DEF Extend, Extend_Join, Move_Begin, Move_Exit, Move_Keep, Move_End, Leave, table
<1>6. CASE UNCHANGED vars
  BY <1>1, <1>6 DEF vars, table
<1>7. CASE Next
  <2>1. PICK p \in Process : Call(p) \/ Move(p) \/ Leave(p)
    BY <1>7 DEF Next
  <2>2. CASE Call(p)
    BY <1>1, <1>2, <1>4, <1>5, <2>2 DEF Call
  <2>3. CASE Move(p)
    BY <1>1, <1>3, <1>5, <2>3 DEF Move
  <2>4. CASE Leave(p)
    BY <1>1, <1>5, <2>4
  <2> QED
    BY <2>1, <2>2, <2>3, <2>4
<1> QED
  BY <1>6, <1>7

LEMMA StepPointers ==
  TableInv /\ TableInv' /\ [Next]_vars =>
    /\ Linked \subseteq Linked'
    /\ \A n \in Linked : m_datas'.data[n] = m_datas.data[n]
<1> SUFFICES ASSUME TableInv, TableInv', [Next]_vars
             PROVE  /\ Linked \subseteq Linked'
                    /\ \A n \in Linked : m_datas'.data[n] = m_datas.data[n]
  OBVIOUS
<1>1. Linked = Present
  BY LinkedAre
<1>2. Linked' = Present'
  BY LinkedNext
<1>3. /\ m_datas.size \in Nat /\ MaxNodes \in Nat
      /\ m_datas.data \in [Node -> Key]
  BY TypeFacts DEF TableInv, DataRange
<1>4. CASE Same
  BY <1>1, <1>2, <1>4 DEF Same, Present
<1>5. ASSUME NEW d \in Key, Grows(d)
      PROVE  /\ Present \subseteq Present'
             /\ \A n \in Present : m_datas'.data[n] = m_datas.data[n]
  <2>1. Present \subseteq Present'
    BY <1>3, <1>5 DEF Grows, Present
  <2>2. ASSUME NEW n \in Present PROVE m_datas'.data[n] = m_datas.data[n]
    <3>1. n \in Node /\ n # m_datas.size
      BY <1>3, <1>5 DEF Grows, Present, Node
    <3> QED
      BY <1>3, <1>5, <3>1 DEF Grows, Put
  <2> QED
    BY <2>1, <2>2
<1> QED
  BY <1>1, <1>2, <1>4, <1>5, StepGrows

\* As long as those heads are made, the pointer a call handed out names the
\* same entry of a list after every step, the helpers' included.
THEOREM PointersGood == Spec /\ []HeadsMade => PointersStay
<1>1. TableInv /\ TableInv' /\ [Next]_vars
        => [/\ Linked \subseteq Linked'
            /\ \A n \in Linked : m_datas'.data[n] = m_datas.data[n]]_vars
  BY StepPointers
<1> QED
  BY <1>1, TableKept, PTL DEF Spec, PointersStay

LEMMA StoreInit == TableInv => Store!Init
<1> SUFFICES ASSUME TableInv PROVE Store!Init
  OBVIOUS
<1>1. \A d \in Key : Held[d] \in 0..MaxNodes
  BY HeldIs
<1>2. Held = [d \in Key |-> Held[d]]
  BY DEF Held
<1> QED
  BY <1>1, <1>2 DEF Store!Init

LEMMA StoreStep ==
  TableInv /\ TableInv' /\ [Next]_vars => [Store!Next]_Held
<1> SUFFICES ASSUME TableInv, TableInv', [Next]_vars
             PROVE  (\E d \in Key : Store!Add(d)) \/ Held' = Held
  BY DEF Store!Next
<1>1. Linked = Present
  BY LinkedAre
<1>2. Linked' = Present'
  BY LinkedNext
<1>3. /\ m_datas.size \in Nat /\ MaxNodes \in Nat
      /\ m_datas.data \in [Node -> Key] /\ Present \subseteq Node
  BY TypeFacts DEF TableInv, DataRange, ListInv, Shape, Ranges
<1> DEFINE With(k) == {n \in Present : m_datas.data[n] = k}
<1>4. Held = [k \in Key |-> Cardinality(With(k))]
  BY <1>1 DEF Held
<1>5. Held' = [k \in Key |-> Cardinality({n \in Present' : m_datas'.data[n] = k})]
  BY <1>2 DEF Held
<1>6. CASE Same
  <2>1. Present' = Present
    BY <1>6 DEF Same, Present
  <2> QED
    BY <1>4, <1>5, <1>6, <2>1 DEF Same
<1>7. ASSUME NEW d \in Key, Grows(d) PROVE Store!Add(d)
  <2>1. /\ m_datas.size \in Node /\ m_datas.size \notin Present
        /\ Present' = Present \cup {m_datas.size}
    BY <1>3, <1>7 DEF Grows, Present, Node
  <2>2. /\ m_datas'.data[m_datas.size] = d
        /\ \A n \in Present : m_datas'.data[n] = m_datas.data[n]
    <3>1. \A n \in Present : n \in Node /\ n # m_datas.size
      BY <1>3, <2>1
    <3> QED
      BY <1>3, <1>7, <2>1, <3>1 DEF Grows, Put
  <2>3. ASSUME NEW k \in Key
        PROVE  {n \in Present' : m_datas'.data[n] = k}
                 = IF k = d THEN With(k) \cup {m_datas.size} ELSE With(k)
    BY <2>1, <2>2
  <2>4. \A k \in Key : IsFiniteSet(With(k)) /\ m_datas.size \notin With(k)
    <3> SUFFICES ASSUME NEW k \in Key PROVE IsFiniteSet(With(k))
      BY <2>1
    <3>1. With(k) \in SUBSET Node
      BY <1>3
    <3> QED
      BY <3>1, NodeCount, FS_Subset
  <2>5. Cardinality(With(d) \cup {m_datas.size}) = Cardinality(With(d)) + 1
    BY <2>4, FS_AddElement
  <2>6. Held' = [k \in Key |-> IF k = d THEN Cardinality(With(k)) + 1 ELSE Cardinality(With(k))]
    <3> HIDE DEF With
    <3> QED
      BY <1>5, <2>3, <2>5
  <2> QED
    BY <1>4, <2>6 DEF Store!Add
<1> QED
  BY <1>6, <1>7, StepGrows

\* As long as those heads are made, the table is to its users a bag to which
\* entries are added: nothing is lost and nothing is there twice.
THEOREM RefinesStore == Spec /\ []HeadsMade => ImplementsStore
<1>1. Init => Store!Init
  BY InitTypes, InitShape, StoreInit DEF TableInv
<1>2. TableInv /\ TableInv' /\ [Next]_vars => [Store!Next]_Held
  BY StoreStep
<1> QED
  BY <1>1, <1>2, TableKept, PTL DEF Spec, ImplementsStore, Store!Spec

-----------------------------------------------------------------------------
(* When the heads are made *)

\* Some entry of the first ones wants the last bucket, whatever the number of
\* buckets was when they were extended: a number out of S, the first number
\* and what doubling makes of it.
LastBucketFilled ==
  \E S \in SUBSET Nat :
    /\ InitialBuckets \in S /\ \A c \in S : 2 * c \in S
    /\ \E i \in 1..Len(Preload) :
         \A c \in S : c < MaxNodes \div 2 => KeyHashToBucket(Preload[i], c) = c - 1

\* The number of buckets is one of S, and an entry with key K is there.
EntryThere(S, K) == head.count \in S /\ \E n \in Present : m_datas.data[n] = K

LEMMA StepHead ==
  ASSUME TypeInv, [Next]_vars
  PROVE  /\ \/ head' = head \/ head' = Extended
            \/ /\ head.moved # head.old /\ head'.old = head.old /\ head'.count = head.count
         /\ m_hashs.size <= m_hashs'.size
<1>0. m_hashs.size \in Nat
  BY TypeFacts
<1>1. CASE UNCHANGED vars
  BY <1>0, <1>1 DEF vars, table
<1>2. ASSUME NEW p \in Process, NEW d \in Key, AddData(p, d)
      PROVE  head' = Extended /\ m_hashs.size <= m_hashs'.size
  <2> DEFINE b == KeyHashToBucket(d, Extended.count)
             grown == Grown(m_hashs, b)
  <2>1. /\ head' = Extended
        /\ \/ m_hashs' = AddHead(grown, m_datas, b, m_datas.size, d).hashs
              /\ m_datas.size < MaxNodes
           \/ m_hashs' = grown
    BY <1>2 DEF AddData
  <2>2. b \in Cell /\ b \in Nat
    BY ExtendedRange, WantedBucket
  <2> HIDE DEF b
  <2>3. grown \in HashRange /\ m_hashs.size <= grown.size
    BY <1>0, <2>2, GrownRange, TypeFacts
  <2> HIDE DEF grown
  <2>4. m_datas.size < MaxNodes => m_datas.size \in Node
    BY TypeFacts DEF DataRange, Node
  <2>5. m_datas.size < MaxNodes =>
          AddHead(grown, m_datas, b, m_datas.size, d).hashs.size = grown.size
    BY <2>2, <2>3, <2>4, AddedRange, TypeFacts
  <2> QED
    BY <2>1, <2>3, <2>5
<1>3. ASSUME NEW p \in Process, Move_One(p)
      PROVE  head' = head /\ m_hashs.size <= m_hashs'.size
  <2> DEFINE out   == IF Deletable(bucket, it) THEN DeleteListOne(bucket, it)
                      ELSE [hashs |-> m_hashs, datas |-> m_datas]
             d     == m_datas.data[it]
             b     == NewBucket(it)
             grown == Grown(out.hashs, b)
             r     == Reused(it)
             added == AddHead(grown, out.datas, b, r, d)
  <2>1. /\ it \in Node /\ head' = head
        /\ \/ r < MaxNodes /\ m_hashs' = added.hashs
           \/ m_hashs' = grown
    BY <1>3 DEF Move_One, TypeInv, TypeOK, Link
  <2>2. d \in Key /\ bucket \in Cell
    BY <2>1, TypeFacts DEF DataRange, TypeInv, TypeOK
  <2>3. b \in Nat /\ b \in Cell
    BY <2>2, WantedBucket, TypeFacts DEF NewBucket
  <2>4. /\ out.hashs \in HashRange /\ out.hashs.size = m_hashs.size
        /\ out.datas \in DataRange
    BY <2>1, <2>2, DeletedRange, TypeFacts
  <2>5. r \in Nat
    BY <2>1, TypeFacts DEF Reused, DataRange, Node
  <2> HIDE DEF out, b, d, r
  <2>6. grown \in HashRange /\ m_hashs.size <= grown.size
    BY <1>0, <2>3, <2>4, GrownRange
  <2> HIDE DEF grown
  <2>7. r < MaxNodes => added.hashs.size = grown.size
    <3>1. r < MaxNodes => r \in Node
      BY <2>5, TypeFacts DEF Node
    <3> QED
      BY <2>2, <2>3, <2>4, <2>6, <3>1, AddedRange
  <2> HIDE DEF added
  <2> QED
    BY <2>1, <2>6, <2>7
<1>4. ASSUME NEW p \in Process, Move_End(p)
      PROVE  /\ head.moved # head.old /\ head'.old = head.old /\ head'.count = head.count
             /\ m_hashs' = m_hashs
  <2>1. m_hashs' = m_hashs /\ head' = [head EXCEPT !.moved = Moved] /\ lock = Helper(p)
    BY <1>4 DEF Move_End
  <2>2. head.moved <= bucket /\ bucket < head.old /\ bucket \in Nat
    BY <2>1, TypeFacts DEF TypeInv, Within, TypeOK, Cell
  <2> QED
    BY <2>1, <2>2, TypeFacts DEF TypeInv, TypeOK
<1>5. ASSUME NEW p \in Process, Extend(p)
      PROVE  head' = Extended /\ m_hashs' = m_hashs
  BY <1>5 DEF Extend
<1>6. ASSUME NEW p \in Process,
             Extend_Join(p) \/ Move_Begin(p) \/ Move_Exit(p) \/ Move_Keep(p) \/ Leave(p)
               \/ \E d \in Key : GetData(p, d)
      PROVE  head' = head /\ m_hashs' = m_hashs
  BY <1>6 DEF Extend_Join, Move_Begin, Move_Exit, Move_Keep, Leave, GetData, table
<1>7. CASE Next
  <2>1. PICK p \in Process : Call(p) \/ Move(p) \/ Leave(p)
    BY <1>7 DEF Next
  <2>2. CASE Call(p)
    BY <1>0, <1>2, <1>5, <1>6, <2>2 DEF Call
  <2>3. CASE Move(p)
    BY <1>0, <1>3, <1>4, <1>6, <2>3 DEF Move
  <2>4. CASE Leave(p)
    BY <1>0, <1>6, <2>4
  <2> QED
    BY <2>1, <2>2, <2>3, <2>4
<1> QED
  BY <1>1, <1>7

LEMMA StepMade ==
  ASSUME NEW S \in SUBSET Nat, \A c \in S : 2 * c \in S,
         NEW K, \A c \in S : c < MaxNodes \div 2 => KeyHashToBucket(K, c) = c - 1,
         TableInv, HeadsMade, EntryThere(S, K), [Next]_vars
  PROVE  HeadsMade' /\ EntryThere(S, K)'
<1>0. TypeInv
  BY DEF TableInv
<1>1. /\ \/ head' = head \/ head' = Extended
         \/ /\ head.moved # head.old /\ head'.old = head.old /\ head'.count = head.count
      /\ m_hashs.size <= m_hashs'.size
      /\ m_hashs.size \in Nat /\ m_hashs'.size \in Nat
      /\ head.old \in Nat /\ head.count \in Nat \ {0} /\ m_datas.size \in 0..MaxNodes
  <2>1. TypeInv'
    BY <1>0, StepTypes
  <2>2. m_hashs'.size \in Nat
    BY <2>1 DEF TypeInv, TypeOK
  <2>3. m_datas.size \in 0..MaxNodes
    BY <1>0, TypeFacts DEF DataRange
  <2> QED
    BY <1>0, <2>2, <2>3, StepHead, TypeFacts
<1>2. PICK n \in Present : m_datas.data[n] = K
  BY DEF EntryThere
<1>3. head.count \in S
  BY DEF EntryThere
\* The entry makes the last of the heads before the table is extended again.
<1>4. MayExtend => head.count <= m_hashs.size
  <2> SUFFICES ASSUME MayExtend PROVE head.count <= m_hashs.size
    OBVIOUS
  <2>1. PICK at, rank : Shape(at, rank)
    BY DEF TableInv, ListInv
  <2>2. at[n] = KeyHashToBucket(K, head.count)
    BY <1>2, <2>1 DEF Shape, Place, MayExtend, NewBucket
  <2>3. head.count < MaxNodes \div 2
    BY <1>1, ExtendedIs
  <2>4. at[n] = head.count - 1
    BY <1>3, <2>2, <2>3
  <2>5. at[n] < m_hashs.size
    BY <2>1 DEF Shape, Laid
  <2> QED
    BY <1>1, <2>4, <2>5
<1>5. HeadsMade'
  <2>1. CASE head' = head
    BY <1>1, <2>1 DEF HeadsMade
  <2>2. CASE MayExtend /\ head' = Extended
    <3>1. Extended.old = head.count
      BY <1>1, <2>2, ExtendedIs
    <3> QED
      BY <1>1, <1>4, <2>2, <3>1 DEF HeadsMade
  <2>3. CASE ~MayExtend /\ head' = Extended
    <3>1. head' = head
      BY <1>1, <2>3, ExtendedIs
    <3> QED
      BY <2>1, <3>1
  <2>4. CASE head.moved # head.old /\ head'.old = head.old /\ head'.count = head.count
    BY <1>1, <2>4 DEF HeadsMade
  <2> QED
    BY <1>1, <2>1, <2>2, <2>3, <2>4
<1>6. head'.count \in S
  <2>1. Extended.count \in S
    BY <1>1, <1>3, ExtendedIs
  <2> QED
    BY <1>1, <1>3, <2>1
<1>7. n \in Present' /\ m_datas'.data[n] = K
  <2>1. m_datas.size \in Nat /\ MaxNodes \in Nat /\ m_datas.data \in [Node -> Key]
    BY <1>0, TypeFacts DEF DataRange
  <2>2. CASE Same
    BY <1>2, <2>2 DEF Same, Present
  <2>3. ASSUME NEW d \in Key, Grows(d) PROVE n \in Present' /\ m_datas'.data[n] = K
    <3>1. n \in Node /\ n # m_datas.size /\ n \in Present'
      BY <2>1, <2>3 DEF Grows, Present, Node
    <3> QED
      BY <1>2, <2>1, <2>3, <3>1 DEF Grows, Put
  <2> QED
    BY <2>2, <2>3, StepGrows
<1> QED
  BY <1>5, <1>6, <1>7 DEF EntryThere

LEMMA InitMade ==
  ASSUME Init, NEW S \in SUBSET Nat, InitialBuckets \in S, NEW i \in 1..Len(Preload)
  PROVE  HeadsMade /\ EntryThere(S, Preload[i])
<1>1. head = [old |-> 0, moved |-> 0, count |-> InitialBuckets]
  BY DEF Init
<1>2. Filling([hashs |-> m_hashs, datas |-> m_datas], Len(Preload))
  BY InitFilling
<1>3. m_datas.size = Len(Preload) /\ \A n \in 0..Len(Preload) - 1 : m_datas.data[n] = Preload[n + 1]
  BY <1>2 DEF Filling
<1>4. i - 1 \in 0..Len(Preload) - 1 /\ (i - 1) + 1 = i
  BY PreloadAssumption
<1> HIDE DEF Filling
<1>5. \E n \in Present : m_datas.data[n] = Preload[i]
  BY <1>3, <1>4 DEF Present
<1> QED
  BY <1>1, <1>5 DEF HeadsMade, EntryThere

\* With such an entry there is always a list head for every bucket that is to
\* be moved.
THEOREM HeadsAreMade ==
  ASSUME LastBucketFilled
  PROVE  Spec => []HeadsMade
<1>1. PICK S \in SUBSET Nat :
        /\ InitialBuckets \in S /\ \A c \in S : 2 * c \in S
        /\ \E i \in 1..Len(Preload) :
             \A c \in S : c < MaxNodes \div 2 => KeyHashToBucket(Preload[i], c) = c - 1
  BY DEF LastBucketFilled
<1>2. PICK i \in 1..Len(Preload) :
        \A c \in S : c < MaxNodes \div 2 => KeyHashToBucket(Preload[i], c) = c - 1
  BY <1>1
<1> DEFINE Inv == TableInv /\ HeadsMade /\ EntryThere(S, Preload[i])
<1>3. Init => Inv
  BY <1>1, InitTypes, InitShape, InitMade DEF TableInv
<1>4. Inv /\ [Next]_vars => Inv'
  <2> SUFFICES ASSUME Inv, [Next]_vars PROVE Inv'
    OBVIOUS
  <2>1. TableInv'
    BY StepTypes, StepShape DEF TableInv
  <2>2. HeadsMade' /\ EntryThere(S, Preload[i])'
    BY <1>1, <1>2, StepMade
  <2> QED
    BY <2>1, <2>2
<1>5. Inv => HeadsMade
  OBVIOUS
<1> HIDE DEF Inv
<1> QED
  BY <1>3, <1>4, <1>5, PTL DEF Spec

\* And then the table keeps its promises without a condition on how it runs.
THEOREM TableCorrect ==
  ASSUME LastBucketFilled
  PROVE  Spec => /\ []ListsPartition /\ []LookupExact
                 /\ PointersStay /\ ImplementsStore
BY HeadsAreMade, ListsWhole, LookupsExact, PointersGood, RefinesStore, PTL
=============================================================================
