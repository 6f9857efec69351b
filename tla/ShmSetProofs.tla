---------------------------- MODULE ShmSetProofs ----------------------------
(***************************************************************************)
(* Proofs about ShmSet, for any keys, any number of cells and any programs.*)
(*                                                                         *)
(* The invariant is OneTree: there are a set of nodes, an interval and a   *)
(* height for each, and an order of the other cells, that make the links   *)
(* an ordered and balanced tree and the rest of the array its free list    *)
(* (Sound).  ShmSetTrees gives that insertion and erasure keep the tree;   *)
(* here come the free list, the searches, the rebuilding by halves, and    *)
(* from them what each call does to the keys.                              *)
(***************************************************************************)
EXTENDS ShmSetTrees

-----------------------------------------------------------------------------
(* The cells.  Those of the array that are not nodes are the free list: rk  *)
(* counts from its end.                                                     *)

Free(t, S) == (0..t.array_size - 1) \ S

Chain(t, F, rk) ==
  /\ rk \in [Link -> Nat] /\ rk[Nil] = 0
  /\ \A h \in F : t.hParent[h] \in F \cup {Nil} /\ rk[h] = rk[t.hParent[h]] + 1
  /\ \A g, h \in F : rk[g] = rk[h] => g = h
  /\ t.free_head \in F \cup {Nil} /\ \A h \in F : rk[h] <= rk[t.free_head]

Counted(t, S, rk) ==
  /\ S \in SUBSET (0..t.array_size - 1) /\ t.array_size \in 0..MaxNodes
  /\ t.size = Cardinality(S) /\ \A h \in 0..t.array_size - 1 : t.deleted[h] <=> h \notin S
  /\ rk[t.free_head] = t.array_size - t.size

Chained(t, S, rk) == Chain(t, Free(t, S), rk) /\ Counted(t, S, rk)

LEMMA CellFinite ==
  /\ IsFiniteSet(Cell) /\ Cardinality(Cell) = MaxNodes /\ MaxNodes \in Nat
  /\ \A n \in 0..MaxNodes : 0..n - 1 \subseteq Cell
<1>1. MaxNodes \in Nat /\ MaxNodes > 0
  BY NodesAssumption
<1>2. IsFiniteSet(0..MaxNodes - 1) /\ Cardinality(0..MaxNodes - 1) = MaxNodes
  <2>1. 0 \in Int /\ MaxNodes - 1 \in Int /\ ~(0 > MaxNodes - 1) /\ (MaxNodes - 1) - 0 + 1 = MaxNodes
    BY <1>1
  <2> QED
    BY <2>1, FS_Interval
<1>3. \A n \in 0..MaxNodes : 0..n - 1 \subseteq Cell
  BY <1>1 DEF Cell
<1> QED
  BY <1>1, <1>2, <1>3 DEF Cell

LEMMA RemovedBare ==
  ASSUME NEW t, NEW S, Bare(t, S), S \in SUBSET Cell, t \in TreeType,
         NEW p \in S, NEW u, Removed(t, S, p, u)
  PROVE  /\ Bare(u, S \ {p}) /\ u.data = t.data /\ u.array_size = t.array_size
<1>1. Rest(Freed(t, p), u) /\ Parked({p}, Freed(t, p), u) /\ Idle(S, t, u)
  BY DEF Removed
<1>2. FreedTo(t, p, Freed(t, p))
  BY FreedIs
<1>3. \A f \in Side : u.child[f][p] = Nil
  BY <1>1, <1>2 DEF Parked, FreedTo
<1>4. \A h \in Cell \ S, f \in Side : u.child[f][h] = Nil
  BY <1>1 DEF Idle, Bare
<1>5. Bare(u, S \ {p})
  BY <1>3, <1>4 DEF Bare
<1> QED
  BY <1>1, <1>2, <1>5 DEF Rest, FreedTo

LEMMA RemovedChained ==
  ASSUME NEW t, NEW S, NEW rk, Chained(t, S, rk), t \in TreeType, NEW p \in S,
         NEW u, Removed(t, S, p, u)
  PROVE  \E rk2 : Chained(u, S \ {p}, rk2)
<1>1. Rest(Freed(t, p), u) /\ Parked({p}, Freed(t, p), u) /\ Idle(S, t, u)
  BY DEF Removed
<1>2. /\ S \in SUBSET (0..t.array_size - 1) /\ t.array_size \in 0..MaxNodes
      /\ t.size = Cardinality(S) /\ (\A h \in 0..t.array_size - 1 : t.deleted[h] <=> h \notin S)
      /\ rk[t.free_head] = t.array_size - t.size
  BY DEF Chained, Counted
<1>3. PICK F : F = Free(t, S)
  OBVIOUS
<1>4. /\ rk \in [Link -> Nat] /\ rk[Nil] = 0
      /\ (\A h \in F : t.hParent[h] \in F \cup {Nil} /\ rk[h] = rk[t.hParent[h]] + 1)
      /\ (\A g, h \in F : rk[g] = rk[h] => g = h)
      /\ t.free_head \in F \cup {Nil} /\ \A h \in F : rk[h] <= rk[t.free_head]
  BY <1>3 DEF Chained, Chain
<1>5. S \subseteq Cell /\ p \in Cell /\ 0..t.array_size - 1 \subseteq Cell
  BY <1>2, CellFinite
<1>6. FreedTo(t, p, Freed(t, p))
  BY <1>5, FreedIs
<1>7. /\ t.hParent \in [Cell -> Link] /\ t.deleted \in [Cell -> BOOLEAN] /\ t.size \in Int
      /\ t.array_size \in Nat /\ t.free_head \in Link
  BY Fields
<1>8. /\ u.deleted = [t.deleted EXCEPT ![p] = TRUE] /\ u.free_head = p
      /\ u.size = t.size - 1 /\ u.array_size = t.array_size
  BY <1>1, <1>6 DEF Rest, FreedTo
<1>9. u.hParent[p] = t.free_head
  BY <1>1, <1>5, <1>6, <1>7 DEF Parked, FreedTo
<1>10. p \notin F /\ F \subseteq Cell /\ Free(u, S \ {p}) = F \cup {p}
  BY <1>2, <1>3, <1>5, <1>8 DEF Free
<1>11. \A h \in F : u.hParent[h] = t.hParent[h]
  BY <1>1, <1>3, <1>10 DEF Idle, Free
<1>12. PICK R \in Nat : R = rk[t.free_head]
  BY <1>4, <1>7
<1>13. PICK rk2 : rk2 = [rk EXCEPT ![p] = R + 1]
  OBVIOUS
<1>14. p \in Link /\ p # Nil /\ F \subseteq Link /\ Nil \in Link /\ Nil \notin F
  BY <1>5, <1>10 DEF Link, Cell, Nil
<1>15. /\ rk2 \in [Link -> Nat] /\ rk2[Nil] = 0 /\ rk2[p] = R + 1
       /\ \A h \in Link : h # p => rk2[h] = rk[h]
  BY <1>4, <1>13, <1>14
<1>16. \A h \in F \cup {p} : u.hParent[h] \in (F \cup {p}) \cup {Nil} /\ rk2[h] = rk2[u.hParent[h]] + 1
  <2>1. \A h \in F : u.hParent[h] \in F \cup {Nil} /\ rk2[h] = rk2[u.hParent[h]] + 1
    BY <1>4, <1>10, <1>11, <1>14, <1>15
  <2>2. u.hParent[p] \in F \cup {Nil} /\ rk2[p] = rk2[u.hParent[p]] + 1
    BY <1>4, <1>9, <1>10, <1>12, <1>14, <1>15
  <2> QED
    BY <2>1, <2>2
<1>17. \A h \in F : rk2[h] <= R /\ rk2[h] \in Nat
  BY <1>4, <1>10, <1>12, <1>14, <1>15
<1>18. \A g, h \in F \cup {p} : rk2[g] = rk2[h] => g = h
  <2>1. \A g \in F : rk2[g] # rk2[p]
    BY <1>15, <1>17
  <2>2. \A g, h \in F : rk2[g] = rk2[h] => g = h
    BY <1>4, <1>10, <1>14, <1>15
  <2> QED
    BY <2>1, <2>2
<1>19. \A h \in F \cup {p} : rk2[h] <= rk2[p]
  BY <1>15, <1>17
<1>20. Chain(u, F \cup {p}, rk2)
  BY <1>8, <1>15, <1>16, <1>18, <1>19 DEF Chain
<1>21. Counted(u, S \ {p}, rk2)
  <2>1. IsFiniteSet(S)
    BY <1>5, CellFinite, FS_Subset
  <2>2. Cardinality(S \ {p}) = Cardinality(S) - 1
    BY <2>1, FS_RemoveElement
  <2>3. rk2[u.free_head] = u.array_size - u.size
    BY <1>2, <1>7, <1>8, <1>12, <1>15
  <2>4. \A h \in 0..u.array_size - 1 : u.deleted[h] <=> h \notin S \ {p}
    BY <1>2, <1>5, <1>7, <1>8
  <2> QED
    BY <1>2, <1>8, <2>2, <2>3, <2>4 DEF Counted
<1> QED
  BY <1>10, <1>20, <1>21 DEF Chained

LEMMA PositionIs ==
  ASSUME NEW t, NEW S, NEW rk, Chained(t, S, rk), t \in TreeType, NEW n, n = Position(t),
         t.free_head = Nil => t.array_size < MaxNodes
  PROVE  n \in Cell \ S
<1>1. /\ S \in SUBSET (0..t.array_size - 1) /\ t.array_size \in 0..MaxNodes
      /\ t.free_head \in Free(t, S) \cup {Nil}
  BY DEF Chained, Counted, Chain
<1>2. CASE t.free_head = Nil
  <2>1. n = t.array_size
    BY <1>2 DEF Position
  <2> QED
    BY <1>1, <1>2, <2>1, CellFinite DEF Cell
<1>3. CASE t.free_head # Nil
  <2>1. n \in Free(t, S)
    BY <1>1, <1>3 DEF Position
  <2>2. 0..t.array_size - 1 \subseteq Cell
    BY <1>1, CellFinite
  <2> QED
    BY <2>1, <2>2 DEF Free
<1> QED
  BY <1>2, <1>3

LEMMA PlantedBare ==
  ASSUME NEW t, NEW S, Bare(t, S), S \in SUBSET Cell, t \in TreeType,
         NEW n, NEW k, NEW u, Planted(t, S, n, k, u)
  PROVE  Bare(u, S \cup {n})
<1>1. Idle(S \cup {n}, t, u)
  BY DEF Planted
<1> QED
  BY <1>1 DEF Bare, Idle

LEMMA PlantedChained ==
  ASSUME NEW t, NEW S, NEW rk, Chained(t, S, rk), t \in TreeType, NEW n \in Cell \ S, n = Position(t),
         NEW k, NEW u, Planted(t, S, n, k, u)
  PROVE  Chained(u, S \cup {n}, rk)
<1>1. Added(t, u, n, k) /\ Idle(S \cup {n}, t, u)
  BY DEF Planted
<1>2. /\ S \in SUBSET (0..t.array_size - 1) /\ t.array_size \in 0..MaxNodes
      /\ t.size = Cardinality(S) /\ (\A h \in 0..t.array_size - 1 : t.deleted[h] <=> h \notin S)
      /\ rk[t.free_head] = t.array_size - t.size
  BY DEF Chained, Counted
<1>3. PICK F : F = Free(t, S)
  OBVIOUS
<1>4. /\ rk \in [Link -> Nat] /\ rk[Nil] = 0
      /\ (\A h \in F : t.hParent[h] \in F \cup {Nil} /\ rk[h] = rk[t.hParent[h]] + 1)
      /\ (\A g, h \in F : rk[g] = rk[h] => g = h)
      /\ t.free_head \in F \cup {Nil} /\ \A h \in F : rk[h] <= rk[t.free_head]
  BY <1>3 DEF Chained, Chain
<1>5. S \subseteq Cell /\ 0..t.array_size - 1 \subseteq Cell /\ MaxNodes \in Nat /\ Nil \notin Cell
  BY <1>2, CellFinite DEF Cell, Nil
<1>7. /\ t.hParent \in [Cell -> Link] /\ t.deleted \in [Cell -> BOOLEAN] /\ t.size \in Int
      /\ t.array_size \in Nat /\ t.free_head \in Link
  BY Fields
<1>8. /\ u.deleted = [t.deleted EXCEPT ![n] = FALSE] /\ u.free_head = NextFree(t)
      /\ u.size = t.size + 1
      /\ u.array_size = IF t.free_head = Nil THEN t.array_size + 1 ELSE t.array_size
  BY <1>1 DEF Added
<1>9. Cardinality(S \cup {n}) = Cardinality(S) + 1
  <2>1. IsFiniteSet(S)
    BY <1>5, CellFinite, FS_Subset
  <2> QED
    BY <2>1, FS_AddElement
<1>10. \A h \in F \ {n} : u.hParent[h] = t.hParent[h]
  <2>1. F \subseteq Cell \ S
    BY <1>3, <1>5 DEF Free
  <2> QED
    BY <1>1, <2>1 DEF Idle
<1>11. CASE t.free_head = Nil
  <2>1. n = t.array_size /\ u.free_head = Nil /\ u.array_size = t.array_size + 1
    BY <1>8, <1>11 DEF Position, NextFree
  <2>2. F = {}
    <3> SUFFICES ASSUME NEW h \in F PROVE FALSE
      OBVIOUS
    <3>1. h \in Cell /\ h \in Link /\ t.hParent[h] \in Link
      BY <1>3, <1>5, <1>7 DEF Free, Link
    <3>2. rk[h] \in Nat /\ rk[t.hParent[h]] \in Nat /\ rk[h] = rk[t.hParent[h]] + 1 /\ rk[h] <= 0
      BY <1>4, <1>11, <3>1
    <3> QED
      BY <3>2
  <2>3. Free(u, S \cup {n}) = {}
    BY <1>2, <1>3, <1>7, <2>1, <2>2 DEF Free
  <2>4. Chain(u, {}, rk)
    BY <1>4, <2>1 DEF Chain
  <2>5. n \in 0..MaxNodes - 1
    BY DEF Cell
  <2>6. u.array_size \in 0..MaxNodes
    BY <1>2, <1>5, <2>1, <2>5
  <2>7. S \cup {n} \in SUBSET (0..u.array_size - 1)
    <3>1. u.array_size - 1 = t.array_size /\ n \in 0..t.array_size
      BY <1>7, <2>1
    <3>2. 0..t.array_size - 1 \subseteq 0..t.array_size
      BY <1>7
    <3> QED
      BY <1>2, <3>1, <3>2
  <2>8. \A h \in 0..u.array_size - 1 : u.deleted[h] <=> h \notin S \cup {n}
    BY <1>2, <1>5, <1>7, <1>8, <2>1, <2>2, <1>3 DEF Free
  <2>9. rk[u.free_head] = u.array_size - u.size
    BY <1>2, <1>4, <1>7, <1>8, <1>11, <2>1
  <2> QED
    BY <1>2, <1>8, <1>9, <2>3, <2>4, <2>6, <2>7, <2>8, <2>9 DEF Chained, Counted
<1>12. CASE t.free_head # Nil
  <2>1. n = t.free_head /\ n \in F /\ u.free_head = t.hParent[n] /\ u.array_size = t.array_size
    BY <1>4, <1>8, <1>12 DEF Position, NextFree
  <2>2. Free(u, S \cup {n}) = F \ {n}
    BY <1>3, <2>1 DEF Free
  <2>3. F \subseteq Link /\ Nil \in Link /\ n \in Link /\ t.hParent[n] \in Link
    BY <1>3, <1>5, <1>7 DEF Free, Link
  <2>4. /\ rk[n] = rk[t.hParent[n]] + 1 /\ rk[n] \in Nat /\ rk[t.hParent[n]] \in Nat
        /\ \A h \in F : rk[h] \in Nat /\ rk[h] <= rk[n]
        /\ \A h \in F \ {n} : rk[h] # rk[n]
    BY <1>4, <2>1, <2>3
  <2>5. ASSUME NEW h \in F PROVE t.hParent[h] # n
    <3>1. rk[h] = rk[t.hParent[h]] + 1 /\ rk[h] <= rk[n] /\ rk[h] \in Nat
      BY <1>4, <2>4
    <3> QED
      BY <2>4, <3>1
  <2>6. \A h \in F \ {n} : u.hParent[h] \in (F \ {n}) \cup {Nil} /\ rk[h] = rk[u.hParent[h]] + 1
    BY <1>4, <1>10, <2>5
  <2>7. u.free_head \in (F \ {n}) \cup {Nil}
    BY <1>4, <2>1, <2>5
  <2>8. \A h \in F \ {n} : rk[h] <= rk[u.free_head]
    <3> SUFFICES ASSUME NEW h \in F \ {n} PROVE rk[h] <= rk[u.free_head]
      OBVIOUS
    <3> QED
      BY <2>1, <2>4
  <2>9. Chain(u, F \ {n}, rk)
    BY <1>4, <2>6, <2>7, <2>8 DEF Chain
  <2>10. \A h \in 0..u.array_size - 1 : u.deleted[h] <=> h \notin S \cup {n}
    BY <1>2, <1>5, <1>7, <1>8, <2>1
  <2>11. rk[u.free_head] = u.array_size - u.size
    BY <1>2, <1>7, <1>8, <2>1, <2>4
  <2>12. S \cup {n} \in SUBSET (0..u.array_size - 1)
    BY <1>2, <1>3, <2>1 DEF Free
  <2> QED
    BY <1>2, <1>8, <1>9, <2>1, <2>2, <2>9, <2>10, <2>11, <2>12 DEF Chained, Counted
<1> QED
  BY <1>11, <1>12

-----------------------------------------------------------------------------
(* Looking for a key.                                                       *)

Meets(k, strict, d) == k < d \/ (k = d /\ ~strict)

\* b is the node of the first key that meets the bound, between x and y.
FirstIn(t, S, k, strict, x, y, b) ==
  \/ /\ b = Nil
     /\ \A g \in S : x < t.data[g] /\ t.data[g] < y => ~Meets(k, strict, t.data[g])
  \/ /\ b \in S /\ x < t.data[b] /\ t.data[b] < y /\ Meets(k, strict, t.data[b])
     /\ \A g \in S : x < t.data[g] /\ t.data[g] < y /\ Meets(k, strict, t.data[g]) =>
                       t.data[b] <= t.data[g]

FirstOf(t, S, k, strict, b) ==
  \/ b = Nil /\ \A g \in S : ~Meets(k, strict, t.data[g])
  \/ /\ b \in S /\ Meets(k, strict, t.data[b])
     /\ \A g \in S : Meets(k, strict, t.data[g]) => t.data[b] <= t.data[g]

\* What Bound does at a node h with the key d, a and z what it gets from both sides.
Chosen(k, strict, d, h, a, z) ==
  CASE k < d -> IF a = Nil THEN h ELSE a
    [] d < k \/ (d = k /\ strict) -> z
    [] OTHER -> h

\* At a node d, with the first ones a on its left and z on its right.
LEMMA FirstJoined ==
  ASSUME NEW t, NEW S, NEW k \in Int, NEW strict \in BOOLEAN, NEW h \in S, Nil \notin S,
         \A g \in S : t.data[g] \in Int,
         NEW x \in Int, NEW y \in Int, NEW d \in Int, d = t.data[h], x < d, d < y,
         NEW a, FirstIn(t, S, k, strict, x, d, a), NEW z, FirstIn(t, S, k, strict, d, y, z),
         NEW b, b = Chosen(k, strict, d, h, a, z)
  PROVE  FirstIn(t, S, k, strict, x, y, b)
<1>1. CASE k < d /\ a = Nil
  <2>1. b = h
    BY <1>1 DEF Chosen
  <2>2. Meets(k, strict, d) /\ \A g \in S : x < t.data[g] /\ t.data[g] < d => ~Meets(k, strict, t.data[g])
    BY <1>1 DEF FirstIn, Meets
  <2>3. \A g \in S : x < t.data[g] /\ t.data[g] < y /\ Meets(k, strict, t.data[g]) => d <= t.data[g]
    BY <2>2
  <2> QED
    BY <2>1, <2>2, <2>3 DEF FirstIn
<1>2. CASE k < d /\ a # Nil
  <2>1. b = a
    BY <1>2 DEF Chosen
  <2>2. /\ a \in S /\ x < t.data[a] /\ t.data[a] < d /\ Meets(k, strict, t.data[a])
        /\ \A g \in S : x < t.data[g] /\ t.data[g] < d /\ Meets(k, strict, t.data[g]) =>
                          t.data[a] <= t.data[g]
    BY <1>2 DEF FirstIn
  <2>3. t.data[a] \in Int /\ t.data[a] < y
    BY <2>2
  <2>4. \A g \in S : x < t.data[g] /\ t.data[g] < y /\ Meets(k, strict, t.data[g]) => t.data[a] <= t.data[g]
    BY <2>2, <2>3
  <2> QED
    BY <2>1, <2>2, <2>3, <2>4 DEF FirstIn
<1>3. CASE d < k \/ (d = k /\ strict)
  <2>1. b = z
    BY <1>3 DEF Chosen
  <2>2. \A e \in Int : e <= d => ~Meets(k, strict, e)
    BY <1>3 DEF Meets
  <2>3. CASE z = Nil
    <3>1. \A g \in S : d < t.data[g] /\ t.data[g] < y => ~Meets(k, strict, t.data[g])
      BY <2>3 DEF FirstIn
    <3>2. \A g \in S : x < t.data[g] /\ t.data[g] < y => ~Meets(k, strict, t.data[g])
      BY <2>2, <3>1
    <3> QED
      BY <2>1, <2>3, <3>2 DEF FirstIn
  <2>4. CASE z # Nil
    <3>1. /\ z \in S /\ d < t.data[z] /\ t.data[z] < y /\ Meets(k, strict, t.data[z])
          /\ \A g \in S : d < t.data[g] /\ t.data[g] < y /\ Meets(k, strict, t.data[g]) =>
                            t.data[z] <= t.data[g]
      BY <2>4 DEF FirstIn
    <3>2. x < t.data[z] /\ t.data[z] \in Int
      BY <3>1
    <3>3. \A g \in S : x < t.data[g] /\ t.data[g] < y /\ Meets(k, strict, t.data[g]) => t.data[z] <= t.data[g]
      BY <2>2, <3>1
    <3> QED
      BY <2>1, <3>1, <3>2, <3>3 DEF FirstIn
  <2> QED
    BY <2>3, <2>4
<1>4. CASE ~(k < d) /\ ~(d < k \/ (d = k /\ strict))
  <2>1. b = h /\ d = k /\ ~strict
    BY <1>4 DEF Chosen
  <2>2. Meets(k, strict, d)
    BY <2>1 DEF Meets
  <2>3. \A g \in S : Meets(k, strict, t.data[g]) => d <= t.data[g]
    BY <2>1 DEF Meets
  <2> QED
    BY <2>1, <2>2, <2>3 DEF FirstIn
<1> QED
  BY <1>1, <1>2, <1>3, <1>4

LEMMA BoundIs ==
  ASSUME NEW t, NEW S, NEW lo, NEW hi, NEW ht, AVL(t, S, lo, hi, ht), Bare(t, S),
         NEW k \in Int, NEW strict \in BOOLEAN
  PROVE  FirstOf(t, S, k, strict, Bound(t, k, strict))
<1>1. /\ t \in TreeType /\ Tree(t, S, lo, hi) /\ S \in SUBSET Cell /\ Nil \notin S /\ S \subseteq Link
      /\ ht \in [Link -> Nat]
      /\ \A h \in S : /\ lo[h] \in Int /\ hi[h] \in Int /\ t.data[h] \in Int
                      /\ lo[h] < t.data[h] /\ t.data[h] < hi[h]
      /\ t.hHead = Nil \/ t.hHead \in S
  BY AVLFacts
<1>2. PICK c : c = [kind |-> "down", t |-> t, k |-> k, strict |-> strict]
  OBVIOUS
<1>3. \A F, x : Body(c, F, x) = DownBody(t, k, strict, F, x)
  BY <1>2 DEF Body
<1>4. PICK m : m = Depth(S, ht)
  OBVIOUS
<1>5. DepthLaws(t, S, ht, m)
  BY <1>4, DepthFalls
<1>6. Grounded(c, Link, m)
  <2> SUFFICES ASSUME NEW x \in Link, NEW F, NEW G,
                      \A y \in Link : m[y] < m[x] => F[y] = G[y]
               PROVE  DownBody(t, k, strict, F, x) = DownBody(t, k, strict, G, x)
    BY <1>3 DEF Grounded
  <2>1. CASE x = Nil
    BY <2>1 DEF DownBody
  <2>2. CASE x # Nil
    <3>1. x \in Cell /\ "hLeft" \in Side /\ "hRight" \in Side
      BY <1>5, <2>2 DEF DepthLaws, Side
    <3>2. F[t.child["hLeft"][x]] = G[t.child["hLeft"][x]] /\ F[t.child["hRight"][x]] = G[t.child["hRight"][x]]
      BY <1>5, <3>1 DEF DepthLaws
    <3> QED
      BY <2>2, <3>2 DEF DownBody
  <2> QED
    BY <2>1, <2>2
<1>7. \E F : F = [x \in Link |-> Body(c, F, x)]
  <2>1. m \in [Link -> Nat]
    BY <1>5 DEF DepthLaws
  <2> QED
    BY <1>6, <2>1, Defined
<1>8. PICK F : F = [x \in Link |-> DownBody(t, k, strict, F, x)] /\ Bound(t, k, strict) = F[t.hHead]
  <2>1. \E F : F = [x \in Link |-> DownBody(t, k, strict, F, x)]
    BY <1>3, <1>7
  <2> QED
    BY <2>1 DEF Bound, DownBody
<1>9. \A x \in Link : F[x] = DownBody(t, k, strict, F, x)
  BY <1>8
<1>10. F[Nil] = Nil /\ Nil \in Link
  BY <1>9 DEF DownBody, Link
<1> DEFINE T == {x \in S : FirstIn(t, S, k, strict, lo[x], hi[x], F[x])}
<1>11. PICK n : n = [x \in S |-> ht[x]]
  OBVIOUS
<1>12. n \in [S -> Nat] /\ \A x \in S : n[x] = ht[x]
  BY <1>1, <1>11
<1>13. ASSUME NEW x \in S, \A y \in S : n[y] < n[x] => y \in T PROVE x \in T
  <2>1. ASSUME NEW f \in Side
        PROVE  FirstIn(t, S, k, strict, Low(t.data, lo, f, x), Upp(t.data, hi, f, x), F[t.child[f][x]])
    <3>1. PICK y : y = t.child[f][x]
      OBVIOUS
    <3>2. CASE y = Nil
      <4>1. \A g \in S : ~(Low(t.data, lo, f, x) < t.data[g] /\ t.data[g] < Upp(t.data, hi, f, x))
        BY <3>1, <3>2, AVLFacts
      <4> QED
        BY <1>10, <3>1, <3>2, <4>1 DEF FirstIn
    <3>3. CASE y # Nil
      <4>1. y \in S
        BY <3>1, <3>3, AVLFacts
      <4>2. n[y] < n[x]
        BY <1>12, <3>1, <4>1, Falls
      <4>3. lo[y] = Low(t.data, lo, f, x) /\ hi[y] = Upp(t.data, hi, f, x)
        BY <1>1, <3>1, <4>1, OneParent
      <4> QED
        BY <1>13, <3>1, <4>1, <4>2, <4>3
    <3> QED
      BY <3>2, <3>3
  <2>2. PICK d \in Int : d = t.data[x]
    BY <1>1
  <2>3. PICK a : a = F[t.child["hLeft"][x]]
    OBVIOUS
  <2>4. PICK z : z = F[t.child["hRight"][x]]
    OBVIOUS
  <2>5. PICK lx \in Int : lx = lo[x]
    BY <1>1
  <2>6. PICK hx \in Int : hx = hi[x]
    BY <1>1
  <2>7. FirstIn(t, S, k, strict, lx, d, a) /\ FirstIn(t, S, k, strict, d, hx, z)
    <3>1. "hLeft" \in Side /\ "hRight" \in Side
      BY DEF Side
    <3>2. /\ FirstIn(t, S, k, strict, Low(t.data, lo, "hLeft", x), Upp(t.data, hi, "hLeft", x), a)
          /\ FirstIn(t, S, k, strict, Low(t.data, lo, "hRight", x), Upp(t.data, hi, "hRight", x), z)
      BY <2>1, <2>3, <2>4, <3>1
    <3>3. /\ Low(t.data, lo, "hLeft", x) = lx /\ Upp(t.data, hi, "hLeft", x) = d
          /\ Low(t.data, lo, "hRight", x) = d /\ Upp(t.data, hi, "hRight", x) = hx
      BY <2>2, <2>5, <2>6 DEF Low, Upp
    <3> QED
      BY <3>2, <3>3
  <2>8. PICK b : b = Chosen(k, strict, d, x, a, z)
    OBVIOUS
  <2>9. F[x] = b
    BY <1>1, <1>9, <2>2, <2>3, <2>4, <2>8 DEF DownBody, Chosen
  <2>10. lx < d /\ d < hx /\ \A g \in S : t.data[g] \in Int
    BY <1>1, <2>2, <2>5, <2>6
  <2>11. FirstIn(t, S, k, strict, lx, hx, b)
    BY <1>1, <2>2, <2>7, <2>8, <2>10, FirstJoined
  <2> QED
    BY <2>5, <2>6, <2>9, <2>11
<1> HIDE DEF T
<1>14. S \subseteq T
  BY <1>12, <1>13, Deep
<1>15. CASE t.hHead = Nil
  <2>1. S = {}
    BY <1>1, <1>15 DEF Tree, Shape, Root
  <2> QED
    BY <1>8, <1>10, <1>15, <2>1 DEF FirstOf
<1>16. CASE t.hHead # Nil
  <2>1. PICK g \in S : g = t.hHead
    BY <1>1, <1>16
  <2>2. \A h \in S : lo[g] <= lo[h] /\ hi[h] <= hi[g]
    BY <1>1, <1>16, <2>1 DEF Tree, Shape, Root
  <2>3. \A h \in S : lo[g] < t.data[h] /\ t.data[h] < hi[g]
    BY <1>1, <2>1, <2>2
  <2>4. FirstIn(t, S, k, strict, lo[g], hi[g], F[g])
    BY <1>14 DEF T
  <2>5. FirstOf(t, S, k, strict, F[g])
    BY <2>3, <2>4 DEF FirstIn, FirstOf
  <2> QED
    BY <1>8, <2>1, <2>5
<1> QED
  BY <1>15, <1>16

LEMMA FindIs ==
  ASSUME NEW t, NEW S, NEW lo, NEW hi, NEW ht, AVL(t, S, lo, hi, ht), Bare(t, S), NEW k \in Int
  PROVE  \/ Find(t, k) = Nil /\ \A g \in S : t.data[g] # k
         \/ Find(t, k) \in S /\ t.data[Find(t, k)] = k
<1>1. PICK b : b = Bound(t, k, FALSE)
  OBVIOUS
<1>2. FirstOf(t, S, k, FALSE, b)
  BY <1>1, BoundIs
<1>3. Nil \notin S /\ \A h \in S : t.data[h] \in Int
  BY AVLFacts
<1>4. Find(t, k) = IF b # Nil /\ t.data[b] = k THEN b ELSE Nil
  BY <1>1 DEF Find
<1>5. CASE b = Nil
  <2>1. \A g \in S : ~Meets(k, FALSE, t.data[g])
    BY <1>2, <1>3, <1>5 DEF FirstOf
  <2> QED
    BY <1>4, <1>5, <2>1 DEF Meets
<1>6. CASE b # Nil
  <2>1. /\ b \in S /\ Meets(k, FALSE, t.data[b])
        /\ \A g \in S : Meets(k, FALSE, t.data[g]) => t.data[b] <= t.data[g]
    BY <1>2, <1>6 DEF FirstOf
  <2>2. CASE t.data[b] = k
    BY <1>4, <1>6, <2>1, <2>2
  <2>3. CASE t.data[b] # k
    <3>1. k < t.data[b] /\ t.data[b] \in Int
      BY <1>3, <2>1, <2>3 DEF Meets
    <3>2. \A g \in S : t.data[g] # k
      <4> SUFFICES ASSUME NEW g \in S, t.data[g] = k PROVE FALSE
        OBVIOUS
      <4>1. Meets(k, FALSE, t.data[g])
        BY DEF Meets
      <4>2. t.data[b] <= k
        BY <2>1, <4>1
      <4> QED
        BY <3>1, <4>2
    <3> QED
      BY <1>4, <2>3, <3>2
  <2> QED
    BY <2>2, <2>3
<1> QED
  BY <1>5, <1>6

-----------------------------------------------------------------------------
(* A sound tree, and what the calls make of it.                             *)

Sound(t, S, lo, hi, ht, rk) ==
  /\ AVL(t, S, lo, hi, ht) /\ Bare(t, S) /\ Chained(t, S, rk)
  /\ \A h \in S : t.data[h] \in Key

OneTree(t) == \E S, lo, hi, ht, rk : Sound(t, S, lo, hi, ht, rk)

LEMMA LiveIs ==
  ASSUME NEW t, NEW S, NEW lo, NEW hi, NEW ht, NEW rk, Sound(t, S, lo, hi, ht, rk)
  PROVE  /\ Live(t) = S /\ t \in TreeType /\ S \in SUBSET Cell /\ Nil \notin S
         /\ S \subseteq 0..t.array_size - 1 /\ t.array_size \in 0..MaxNodes
         /\ \A h \in S : t.data[h] \in Key /\ t.data[h] \in Int
<1>1. /\ AVL(t, S, lo, hi, ht) /\ Chained(t, S, rk) /\ \A h \in S : t.data[h] \in Key
  BY DEF Sound
<1>2. /\ S \in SUBSET (0..t.array_size - 1) /\ (\A h \in 0..t.array_size - 1 : t.deleted[h] <=> h \notin S)
      /\ t.array_size \in 0..MaxNodes
  BY <1>1 DEF Chained, Counted
<1>3. Live(t) = S
  BY <1>2 DEF Live
<1> QED
  BY <1>1, <1>2, <1>3, AVLFacts

LEMMA EmptyOK == OneTree(Empty) /\ Live(Empty) = {} /\ Empty.array_size = 0
<1>1. PICK t : t = Empty
  OBVIOUS
<1>2. Nil \in Link /\ Nil \notin Cell /\ EH \in Int /\ NoData \in Int /\ Cell \subseteq Link
  BY DEF Link, Nil, Cell, EH, NoData
<1>3. PICK ch : ch = [f \in Side |-> Everywhere(Nil)]
  OBVIOUS
<1>4. PICK par : par = Everywhere(Nil)
  OBVIOUS
<1>5. PICK b : b = Everywhere(EH)
  OBVIOUS
<1>6. PICK d : d = Everywhere(FALSE)
  OBVIOUS
<1>7. PICK da : da = Everywhere(NoData)
  OBVIOUS
<1>8. /\ ch \in [Side -> [Cell -> Link]] /\ par \in [Cell -> Link] /\ b \in [Cell -> Int]
      /\ d \in [Cell -> BOOLEAN] /\ da \in [Cell -> Int]
      /\ \A f \in Side, h \in Cell : ch[f][h] = Nil
  BY <1>2, <1>3, <1>4, <1>5, <1>6, <1>7 DEF Everywhere
<1>9. t = [child |-> ch, hParent |-> par, bf |-> b, deleted |-> d, data |-> da,
           hHead |-> Nil, free_head |-> Nil, size |-> 0, array_size |-> 0]
  BY <1>1, <1>3, <1>4, <1>5, <1>6, <1>7 DEF Empty
<1>10. /\ t.child = ch /\ t.hParent = par /\ t.bf = b /\ t.deleted = d /\ t.data = da
       /\ t.hHead = Nil /\ t.free_head = Nil /\ t.size = 0 /\ t.array_size = 0
  BY <1>9
<1>11. t \in TreeType
  BY <1>2, <1>8, <1>9 DEF TreeType
<1>12. PICK z : z = [h \in Cell |-> 0]
  OBVIOUS
<1>13. PICK n : n = [h \in Link |-> 0]
  OBVIOUS
<1>14. z \in [Cell -> Int] /\ n \in [Link -> Nat] /\ n[Nil] = 0
  BY <1>2, <1>12, <1>13
<1>15. Tree(t, {}, z, z)
  BY <1>8, <1>10, <1>11, <1>14
     DEF Tree, Shape, Numbers, Between, Nested, Kids, Parents, Root
<1>16. AVL(t, {}, z, z, n)
  BY <1>11, <1>14, <1>15 DEF AVL, Even
<1>17. Bare(t, {})
  BY <1>8, <1>10 DEF Bare
<1>18. 0 - 1 = -1 /\ 0..(-1) = {} /\ 0..0 - 1 = {}
  OBVIOUS
<1>19. Free(t, {}) = {} /\ Live(t) = {}
  BY <1>10, <1>18 DEF Free, Live
<1>20. Chained(t, {}, n)
  <2>1. Chain(t, {}, n)
    BY <1>10, <1>14 DEF Chain
  <2>2. 0 \in 0..MaxNodes
    BY NodesAssumption
  <2>3. Counted(t, {}, n)
    BY <1>10, <1>14, <1>18, <2>2, FS_EmptySet DEF Counted
  <2> QED
    BY <1>19, <2>1, <2>3 DEF Chained
<1>21. Sound(t, {}, z, z, n, n)
  BY <1>16, <1>17, <1>20 DEF Sound
<1> QED
  BY <1>1, <1>10, <1>19, <1>21 DEF OneTree

\* What an insertion of k returns.
PutIn(t, k, a) ==
  /\ OneTree(a.tree) /\ a.at \in Live(a.tree) /\ a.tree.data[a.at] = k
  /\ a.tree.array_size = IF a.at \notin Live(t) /\ t.free_head = Nil THEN t.array_size + 1
                         ELSE t.array_size
  /\ \/ a.at \in Live(t) /\ a.tree = t
     \/ /\ a.at \notin Live(t) /\ Live(a.tree) = Live(t) \cup {a.at}
        /\ a.tree.size = t.size + 1 /\ \A h \in Live(t) : a.tree.data[h] = t.data[h] /\ t.data[h] # k

LEMMA InsertOK ==
  ASSUME NEW t, OneTree(t), NEW k \in Key, t.free_head = Nil => t.array_size < MaxNodes
  PROVE  PutIn(t, k, Inserted(t, k))
<1>1. PICK S, lo, hi, ht, rk : Sound(t, S, lo, hi, ht, rk)
  BY DEF OneTree
<1>2. AVL(t, S, lo, hi, ht) /\ Bare(t, S) /\ Chained(t, S, rk) /\ \A h \in S : t.data[h] \in Key
  BY <1>1 DEF Sound
<1>3. Live(t) = S /\ t \in TreeType /\ S \in SUBSET Cell /\ k \in Int
  BY <1>1, LiveIs, KeyAssumption
<1>4. PICK a : a = Inserted(t, k)
  OBVIOUS
<1>5. CASE \E p \in S : t.data[p] = k
  <2>1. PICK p \in S : t.data[p] = k
    BY <1>5
  <2>2. Inserted(t, k) = [tree |-> t, taller |-> FALSE, at |-> p]
    <3>1. k = t.data[p]
      BY <2>1
    <3> QED
      BY <1>2, <3>1, InsertedOld
  <2>3. a.tree = t /\ a.at = p
    BY <1>4, <2>2
  <2> QED
    BY <1>3, <1>4, <2>1, <2>3 DEF PutIn
<1>6. CASE ~\E p \in S : t.data[p] = k
  <2>1. PICK n : n = Position(t)
    OBVIOUS
  <2>2. n \in Cell \ S
    BY <1>2, <1>3, <2>1, PositionIs
  <2>3. PICK u : u = a.tree
    OBVIOUS
  <2>4. \A h \in S : t.data[h] # k
    BY <1>6
  <2>5. Planted(t, S, n, k, Inserted(t, k).tree) /\ Inserted(t, k).at = n
    BY <1>2, <1>3, <2>1, <2>2, <2>4, InsertedNew
  <2>6. Planted(t, S, n, k, u) /\ a.at = n
    BY <1>4, <2>3, <2>5
  <2>7. Chained(u, S \cup {n}, rk)
    BY <1>2, <1>3, <2>1, <2>2, <2>6, PlantedChained
  <2>8. Bare(u, S \cup {n})
    BY <1>2, <1>3, <2>6, PlantedBare
  <2>9. PICK lo2, hi2, ht2 : AVL(u, S \cup {n}, lo2, hi2, ht2)
    BY <2>6 DEF Planted
  <2>10. /\ u.data = [t.data EXCEPT ![n] = k] /\ u.size = t.size + 1
         /\ u.array_size = IF t.free_head = Nil THEN t.array_size + 1 ELSE t.array_size
    BY <2>6 DEF Planted, Added
  <2>11. u.data[n] = k /\ \A h \in S : u.data[h] = t.data[h]
    BY <1>3, <2>2, <2>10, Fields
  <2>12. Sound(u, S \cup {n}, lo2, hi2, ht2, rk)
    BY <1>2, <2>7, <2>8, <2>9, <2>11 DEF Sound
  <2>13. Live(u) = S \cup {n}
    BY <2>12, LiveIs
  <2>14. OneTree(u)
    BY <2>12 DEF OneTree
  <2> QED
    BY <1>3, <1>4, <2>2, <2>3, <2>4, <2>6, <2>10, <2>11, <2>13, <2>14 DEF PutIn
<1> QED
  BY <1>5, <1>6

\* What an erasure leaves.
TakenOut(t, p, u) ==
  OneTree(u) /\ u.data = t.data /\ u.array_size = t.array_size /\ Live(u) = Live(t) \ {p}

LEMMA EraseOK ==
  ASSUME NEW t, OneTree(t), NEW p \in Live(t), NEW k, k = t.data[p]
  PROVE  TakenOut(t, p, Erased(t, k))
<1>1. PICK S, lo, hi, ht, rk : Sound(t, S, lo, hi, ht, rk)
  BY DEF OneTree
<1>2. AVL(t, S, lo, hi, ht) /\ Bare(t, S) /\ Chained(t, S, rk) /\ \A h \in S : t.data[h] \in Key
  BY <1>1 DEF Sound
<1>3. Live(t) = S /\ t \in TreeType /\ S \in SUBSET Cell /\ p \in S
  BY <1>1, LiveIs
<1>4. PICK u : u = Erased(t, k)
  OBVIOUS
<1>5. Removed(t, S, p, u)
  BY <1>2, <1>3, <1>4, ErasedIs
<1>6. PICK lo2, hi2, ht2 : AVL(u, S \ {p}, lo2, hi2, ht2)
  BY <1>5 DEF Removed
<1>7. Bare(u, S \ {p}) /\ u.data = t.data /\ u.array_size = t.array_size
  BY <1>2, <1>3, <1>5, RemovedBare
<1>8. PICK rk2 : Chained(u, S \ {p}, rk2)
  BY <1>2, <1>3, <1>5, RemovedChained
<1>9. Sound(u, S \ {p}, lo2, hi2, ht2, rk2)
  BY <1>2, <1>6, <1>7, <1>8 DEF Sound
<1>10. Live(u) = S \ {p}
  BY <1>9, LiveIs
<1> QED
  BY <1>3, <1>4, <1>7, <1>9, <1>10 DEF TakenOut, OneTree

LEMMA FindOK ==
  ASSUME NEW t, OneTree(t), NEW k \in Key
  PROVE  \/ Find(t, k) = Nil /\ \A g \in Live(t) : t.data[g] # k
         \/ Find(t, k) \in Live(t) /\ t.data[Find(t, k)] = k
<1>1. PICK S, lo, hi, ht, rk : Sound(t, S, lo, hi, ht, rk)
  BY DEF OneTree
<1>2. Live(t) = S /\ k \in Int
  BY <1>1, LiveIs, KeyAssumption
<1>3. AVL(t, S, lo, hi, ht) /\ Bare(t, S)
  BY <1>1 DEF Sound
<1> QED
  BY <1>2, <1>3, FindIs

\* A set filled by insertions.
LEMMA FilledOK ==
  ASSUME NEW put \in Seq(Key), Len(put) <= MaxNodes
  PROVE  OneTree(Filled(put)) /\ Filled(put).array_size <= Len(put)
<1>1. PICK X : X = 0..Len(put)
  OBVIOUS
<1>2. Len(put) \in Nat /\ X \subseteq Nat /\ Len(put) \in X /\ \A i \in X : i = 0 \/ (i - 1 \in X /\ put[i] \in Key)
  BY <1>1
<1>3. PICK c : c = [kind |-> "filled", put |-> put]
  OBVIOUS
<1>4. \A F, x : Body(c, F, x) = FilledBody(put, F, x)
  BY <1>3 DEF Body
<1>5. PICK m : m = [i \in X |-> i]
  OBVIOUS
<1>6. m \in [X -> Nat] /\ \A i \in X : m[i] = i
  BY <1>2, <1>5
<1>7. Grounded(c, X, m)
  <2> SUFFICES ASSUME NEW x \in X, NEW F, NEW G, \A y \in X : m[y] < m[x] => F[y] = G[y]
               PROVE  FilledBody(put, F, x) = FilledBody(put, G, x)
    BY <1>4 DEF Grounded
  <2>1. x = 0 \/ F[x - 1] = G[x - 1]
    <3> SUFFICES ASSUME x # 0 PROVE F[x - 1] = G[x - 1]
      OBVIOUS
    <3>1. x - 1 \in X /\ m[x - 1] < m[x]
      BY <1>2, <1>6
    <3> QED
      BY <3>1
  <2> QED
    BY <2>1 DEF FilledBody
<1>8. \E F : F = [x \in X |-> Body(c, F, x)]
  BY <1>6, <1>7, Defined
<1>9. PICK F : F = [x \in X |-> FilledBody(put, F, x)] /\ Filled(put) = F[Len(put)]
  <2>1. \E F : F = [x \in X |-> FilledBody(put, F, x)]
    BY <1>4, <1>8
  <2> QED
    BY <1>1, <2>1 DEF Filled, FilledBody
<1>10. \A i \in X : F[i] = IF i = 0 THEN Empty ELSE Inserted(F[i - 1], put[i]).tree
  BY <1>9 DEF FilledBody
<1> DEFINE T == {i \in Nat : i \in X => OneTree(F[i]) /\ F[i].array_size <= i}
<1>11. 0 \in T
  BY <1>10, EmptyOK
<1>12. ASSUME NEW i \in Nat, i \in T PROVE i + 1 \in T
  <2> SUFFICES ASSUME i + 1 \in X PROVE OneTree(F[i + 1]) /\ F[i + 1].array_size <= i + 1
    OBVIOUS
  <2>1. i \in X /\ (i + 1) - 1 = i /\ i + 1 # 0 /\ put[i + 1] \in Key /\ i + 1 <= Len(put)
    BY <1>1, <1>2
  <2>2. PICK t : t = F[i]
    OBVIOUS
  <2>3. OneTree(t) /\ t.array_size <= i
    BY <1>12, <2>1, <2>2
  <2>4. t.array_size \in 0..MaxNodes /\ MaxNodes \in Nat
    BY <2>3, LiveIs, NodesAssumption DEF OneTree
  <2>5. t.array_size < MaxNodes
    BY <2>1, <2>3, <2>4
  <2>6. PICK k \in Key : k = put[i + 1]
    BY <2>1
  <2>7. PICK a : a = Inserted(t, k)
    OBVIOUS
  <2>8. PutIn(t, k, a)
    BY <2>3, <2>5, <2>7, InsertOK
  <2>9. OneTree(a.tree) /\ (a.tree.array_size = t.array_size + 1 \/ a.tree.array_size = t.array_size)
    BY <2>8 DEF PutIn
  <2>10. F[i + 1] = a.tree
    BY <1>10, <2>1, <2>2, <2>6, <2>7
  <2> QED
    BY <2>3, <2>4, <2>9, <2>10
<1> HIDE DEF T
<1>13. Nat \subseteq T
  BY <1>11, <1>12, Inductive
<1> QED
  BY <1>2, <1>9, <1>13 DEF T

-----------------------------------------------------------------------------
(* Rebuilding.  Every number of 0..n - 1 is in the middle of a part.        *)

Piece(a, b, q) == [from |-> a, to |-> b, hParent |-> q]

PartIs(n, i, F) == F = [p \in Holding(n, i) |-> PartBody(i, F, p)]
PartOf(n, i) == CHOOSE F : PartIs(n, i, F)

LEMMA Middle ==
  ASSUME NEW a \in Nat, NEW b \in Nat, a < b, NEW m, m = (a + b) \div 2
  PROVE  m \in Nat /\ a <= m /\ m < b
OBVIOUS

LEMMA PieceIs ==
  ASSUME NEW n \in 0..MaxNodes, NEW i \in 0..n - 1, NEW p
  PROVE  p \in Holding(n, i) <=>
           \E a \in 0..n, b \in 0..n, q \in Link : p = Piece(a, b, q) /\ a <= i /\ i < b
<1>1. ASSUME p \in Holding(n, i)
      PROVE  \E a \in 0..n, b \in 0..n, q \in Link : p = Piece(a, b, q) /\ a <= i /\ i < b
  <2>1. /\ p \in [from : 0..n, to : 0..n, hParent : Link] /\ p.from <= i /\ i < p.to
    BY <1>1 DEF Holding
  <2>2. /\ p = Piece(p.from, p.to, p.hParent)
        /\ p.from \in 0..n /\ p.to \in 0..n /\ p.hParent \in Link
    BY <2>1 DEF Piece
  <2> QED
    BY <2>1, <2>2
<1>2. ASSUME NEW a \in 0..n, NEW b \in 0..n, NEW q \in Link, p = Piece(a, b, q), a <= i, i < b
      PROVE  p \in Holding(n, i)
  BY <1>2 DEF Holding, Piece
<1> QED
  BY <1>1, <1>2

\* The parts that are left and right of the middle.
LEMMA Halved ==
  ASSUME NEW n \in 0..MaxNodes, NEW i \in 0..n - 1, NEW a \in 0..n, NEW b \in 0..n, NEW q \in Link,
         a <= i, i < b, NEW m, m = (a + b) \div 2, NEW F
  PROVE  /\ m \in 0..n - 1 /\ m \in Link /\ a <= m /\ m < b /\ m + 1 \in 0..n /\ m \in 0..n
         /\ Piece(a, b, q) \in Holding(n, i)
         /\ i < m => Piece(a, m, m) \in Holding(n, i)
         /\ i > m => Piece(m + 1, b, m) \in Holding(n, i)
         /\ PartBody(i, F, Piece(a, b, q)) =
              IF i < m THEN F[Piece(a, m, m)] ELSE IF i > m THEN F[Piece(m + 1, b, m)]
              ELSE Piece(a, b, q)
<1>1. n \in Nat /\ a \in Nat /\ b \in Nat /\ i \in Nat /\ a < b /\ n <= MaxNodes /\ MaxNodes \in Nat
  BY NodesAssumption
<1>2. m \in Nat /\ a <= m /\ m < b
  BY <1>1, Middle
<1>3. m \in 0..n - 1 /\ m + 1 \in 0..n /\ m \in Link /\ m \in 0..n
  <2>1. m \in 0..n - 1 /\ m + 1 \in 0..n /\ m \in 0..n
    BY <1>1, <1>2
  <2> QED
    BY <1>1, <2>1 DEF Link, Cell
<1>4. PICK p : p = Piece(a, b, q)
  OBVIOUS
<1>5. p.from = a /\ p.to = b /\ p.hParent = q
  BY <1>4 DEF Piece
<1>6. /\ [from |-> p.from, to |-> m, hParent |-> m] = Piece(a, m, m)
      /\ [from |-> m + 1, to |-> p.to, hParent |-> m] = Piece(m + 1, b, m)
  BY <1>5 DEF Piece
<1>7. PartBody(i, F, p) =
        IF i < m THEN F[Piece(a, m, m)] ELSE IF i > m THEN F[Piece(m + 1, b, m)] ELSE p
  <2>1. (p.from + p.to) \div 2 = m
    BY <1>5
  <2>2. ~(i < m /\ i > m)
    BY <1>1, <1>2
  <2> QED
    BY <1>6, <2>1, <2>2 DEF PartBody
<1>8. Piece(a, b, q) \in Holding(n, i)
  BY PieceIs
<1>9. i < m => Piece(a, m, m) \in Holding(n, i)
  BY <1>3, PieceIs
<1>10. i > m => Piece(m + 1, b, m) \in Holding(n, i)
  <2>1. i > m => m + 1 <= i
    BY <1>1, <1>2
  <2> QED
    BY <1>3, <2>1, PieceIs
<1> QED
  BY <1>2, <1>3, <1>4, <1>7, <1>8, <1>9, <1>10

LEMMA PartDefined ==
  ASSUME NEW n \in 0..MaxNodes, NEW i \in 0..n - 1
  PROVE  PartIs(n, i, PartOf(n, i)) /\ Part(n, i) = PartOf(n, i)[Piece(0, n, Nil)]
<1>1. PICK X : X = Holding(n, i)
  OBVIOUS
<1>2. PICK c : c = [kind |-> "part", i |-> i]
  OBVIOUS
<1>3. \A F, x : Body(c, F, x) = PartBody(i, F, x)
  BY <1>2 DEF Body
<1>4. PICK m : m = [p \in X |-> p.to - p.from]
  OBVIOUS
<1>5. ASSUME NEW a \in 0..n, NEW b \in 0..n, NEW q \in Link, Piece(a, b, q) \in X, a <= i, i < b
      PROVE  m[Piece(a, b, q)] = b - a /\ b - a \in Nat
  <2>1. Piece(a, b, q).to - Piece(a, b, q).from = b - a
    BY DEF Piece
  <2> QED
    BY <1>4, <1>5, <2>1
<1>6. m \in [X -> Nat]
  <2>1. ASSUME NEW p \in X PROVE p.to - p.from \in Nat
    <3>1. PICK a \in 0..n, b \in 0..n, q \in Link : p = Piece(a, b, q) /\ a <= i /\ i < b
      BY <1>1, PieceIs
    <3> QED
      BY <3>1 DEF Piece
  <2> QED
    BY <1>4, <2>1
<1>7. Grounded(c, X, m)
  <2> SUFFICES ASSUME NEW x \in X, NEW F, NEW G, \A y \in X : m[y] < m[x] => F[y] = G[y]
               PROVE  PartBody(i, F, x) = PartBody(i, G, x)
    BY <1>3 DEF Grounded
  <2>1. PICK a \in 0..n, b \in 0..n, q \in Link : x = Piece(a, b, q) /\ a <= i /\ i < b
    BY <1>1, PieceIs
  <2>2. PICK h : h = (a + b) \div 2
    OBVIOUS
  <2>3. /\ h \in 0..n - 1 /\ h \in Link /\ a <= h /\ h < b /\ h + 1 \in 0..n /\ h \in 0..n
        /\ i < h => Piece(a, h, h) \in X
        /\ i > h => Piece(h + 1, b, h) \in X
    BY <1>1, <2>1, <2>2, Halved
  <2>4. \A H : PartBody(i, H, x) =
                 IF i < h THEN H[Piece(a, h, h)] ELSE IF i > h THEN H[Piece(h + 1, b, h)] ELSE x
    BY <2>1, <2>2, Halved
  <2>5. m[x] = b - a
    BY <1>5, <2>1
  <2>6. CASE i < h
    <3>1. m[Piece(a, h, h)] = h - a /\ Piece(a, h, h) \in X
      BY <1>5, <2>1, <2>3, <2>6
    <3>2. h - a < b - a
      BY <2>3
    <3>3. F[Piece(a, h, h)] = G[Piece(a, h, h)]
      BY <2>5, <3>1, <3>2
    <3> QED
      BY <2>4, <2>6, <3>3
  <2>7. CASE i > h
    <3>0. h + 1 <= i /\ h + 1 \in 0..n
      BY <2>3, <2>7
    <3>1. m[Piece(h + 1, b, h)] = b - (h + 1) /\ Piece(h + 1, b, h) \in X
      BY <1>5, <2>1, <2>3, <2>7, <3>0
    <3>2. b - (h + 1) < b - a
      BY <2>3
    <3>3. F[Piece(h + 1, b, h)] = G[Piece(h + 1, b, h)]
      BY <2>5, <3>1, <3>2
    <3>4. ~(i < h)
      BY <2>3, <2>7
    <3> QED
      BY <2>4, <2>7, <3>3, <3>4
  <2>8. CASE ~(i < h) /\ ~(i > h)
    BY <2>4, <2>8
  <2> QED
    BY <2>6, <2>7, <2>8
<1>8. \E F : F = [x \in X |-> Body(c, F, x)]
  BY <1>6, <1>7, Defined
<1>9. \E F : F = [p \in Holding(n, i) |-> PartBody(i, F, p)]
  BY <1>1, <1>3, <1>8
<1>10. PartIs(n, i, PartOf(n, i))
  BY <1>9 DEF PartIs, PartOf
<1>11. Part(n, i) = PartOf(n, i)[Piece(0, n, Nil)]
  BY DEF Part, PartOf, PartIs, PartBody, Piece
<1> QED
  BY <1>10, <1>11

\* Within a and b, where the middle of every part is.
Split(A, B, i, j) ==
  \/ A[i] <= A[j] /\ B[j] <= i
  \/ i < A[j] /\ B[j] <= B[i]
  \/ A[j] <= A[i] /\ B[i] <= j
  \/ j < A[i] /\ B[i] <= B[j]
  \/ B[i] < A[j]
  \/ B[j] < A[i]

Halves(A, B, Q, i) ==
  /\ A[i] <= i /\ i < B[i] /\ i = (A[i] + B[i]) \div 2
  /\ A[i] < i => LET h == (A[i] + i) \div 2 IN A[h] = A[i] /\ B[h] = i /\ Q[h] = i
  /\ i + 1 < B[i] => LET h == (i + 1 + B[i]) \div 2 IN A[h] = i + 1 /\ B[h] = B[i] /\ Q[h] = i

Halved2(A, B, Q, i, k) ==
  \/ A[i] = A[k] /\ B[i] = k
  \/ A[i] = k + 1 /\ B[i] = B[k]

Laws(A, B, Q, a, b, q) ==
  /\ a < b => LET h == (a + b) \div 2 IN A[h] = a /\ B[h] = b /\ Q[h] = q
  /\ \A i \in a..b - 1 :
       /\ a <= A[i] /\ B[i] <= b /\ Halves(A, B, Q, i)
       /\ \/ A[i] = a /\ B[i] = b /\ Q[i] = q
          \/ Q[i] \in a..b - 1 /\ Q[i] # i /\ Halved2(A, B, Q, i, Q[i])
       /\ \A j \in a..b - 1 : j # i => Split(A, B, i, j)

LEMMA LawsJoined ==
  ASSUME NEW n \in Nat, NEW A, NEW B, NEW Q,
         NEW a \in 0..n, NEW b \in 0..n, a < b, NEW q, NEW m, m = (a + b) \div 2,
         \A i \in a..b - 1 : A[i] \in Int /\ B[i] \in Int,
         A[m] = a, B[m] = b, Q[m] = q, Laws(A, B, Q, a, m, m), Laws(A, B, Q, m + 1, b, m)
  PROVE  Laws(A, B, Q, a, b, q)
<1>1. a \in Nat /\ b \in Nat /\ m \in Nat /\ a <= m /\ m < b /\ b <= n
  BY Middle
<1>2. \A i \in a..b - 1 : /\ i \in Nat /\ A[i] \in Int /\ B[i] \in Int
                          /\ (i = m \/ i \in a..m - 1 \/ i \in m + 1..b - 1)
  BY <1>1
<1>3. a..m - 1 \subseteq a..b - 1 /\ m + 1..b - 1 \subseteq a..b - 1 /\ m \in a..b - 1
  BY <1>1
<1>4. ASSUME NEW i \in a..m - 1
      PROVE  /\ a <= A[i] /\ B[i] <= m /\ Halves(A, B, Q, i) /\ i < m
             /\ \/ A[i] = a /\ B[i] = m /\ Q[i] = m
                \/ Q[i] \in a..m - 1 /\ Q[i] # i /\ Halved2(A, B, Q, i, Q[i])
             /\ \A j \in a..m - 1 : j # i => Split(A, B, i, j)
  BY <1>1 DEF Laws
<1>5. ASSUME NEW i \in m + 1..b - 1
      PROVE  /\ m + 1 <= A[i] /\ B[i] <= b /\ Halves(A, B, Q, i) /\ m < i
             /\ \/ A[i] = m + 1 /\ B[i] = b /\ Q[i] = m
                \/ Q[i] \in m + 1..b - 1 /\ Q[i] # i /\ Halved2(A, B, Q, i, Q[i])
             /\ \A j \in m + 1..b - 1 : j # i => Split(A, B, i, j)
  BY <1>1 DEF Laws
<1>6. Halves(A, B, Q, m)
  <2>1. A[m] < m => LET h == (A[m] + m) \div 2 IN A[h] = A[m] /\ B[h] = m /\ Q[h] = m
    BY DEF Laws
  <2>2. m + 1 < B[m] => LET h == (m + 1 + B[m]) \div 2 IN A[h] = m + 1 /\ B[h] = B[m] /\ Q[h] = m
    BY DEF Laws
  <2> QED
    BY <1>1, <2>1, <2>2 DEF Halves
<1>7. ASSUME NEW i \in a..b - 1
      PROVE  /\ a <= A[i] /\ B[i] <= b /\ Halves(A, B, Q, i)
             /\ \/ A[i] = a /\ B[i] = b /\ Q[i] = q
                \/ Q[i] \in a..b - 1 /\ Q[i] # i /\ Halved2(A, B, Q, i, Q[i])
  <2>1. CASE i = m
    BY <1>1, <1>6, <2>1
  <2>2. CASE i \in a..m - 1
    <3>1. /\ a <= A[i] /\ B[i] <= m /\ Halves(A, B, Q, i) /\ i < m
          /\ \/ A[i] = a /\ B[i] = m /\ Q[i] = m
             \/ Q[i] \in a..m - 1 /\ Q[i] # i /\ Halved2(A, B, Q, i, Q[i])
      BY <1>4, <2>2
    <3>2. B[i] <= b
      BY <1>1, <1>2, <3>1
    <3>3. A[i] = a /\ B[i] = m /\ Q[i] = m => Q[i] \in a..b - 1 /\ Q[i] # i /\ Halved2(A, B, Q, i, Q[i])
      BY <1>1, <1>3, <3>1 DEF Halved2
    <3> QED
      BY <1>3, <3>1, <3>2, <3>3
  <2>3. CASE i \in m + 1..b - 1
    <3>1. /\ m + 1 <= A[i] /\ B[i] <= b /\ Halves(A, B, Q, i) /\ m < i
          /\ \/ A[i] = m + 1 /\ B[i] = b /\ Q[i] = m
             \/ Q[i] \in m + 1..b - 1 /\ Q[i] # i /\ Halved2(A, B, Q, i, Q[i])
      BY <1>5, <2>3
    <3>2. a <= A[i]
      BY <1>1, <1>2, <3>1
    <3>3. A[i] = m + 1 /\ B[i] = b /\ Q[i] = m => Q[i] \in a..b - 1 /\ Q[i] # i /\ Halved2(A, B, Q, i, Q[i])
      BY <1>1, <1>3, <3>1 DEF Halved2
    <3> QED
      BY <1>3, <3>1, <3>2, <3>3
  <2> QED
    BY <1>2, <2>1, <2>2, <2>3
<1>8. ASSUME NEW i \in a..b - 1, NEW j \in a..b - 1, i # j PROVE Split(A, B, i, j)
  <2>1. /\ \A k \in a..m - 1 : a <= A[k] /\ B[k] <= m /\ A[k] \in Int /\ B[k] \in Int /\ k < m
        /\ \A k \in m + 1..b - 1 : m + 1 <= A[k] /\ B[k] <= b /\ A[k] \in Int /\ B[k] \in Int /\ m < k
    BY <1>2, <1>3, <1>4, <1>5
  <2>2. CASE i = m
    BY <1>1, <1>2, <1>8, <2>1, <2>2 DEF Split
  <2>3. CASE j = m
    BY <1>1, <1>2, <1>8, <2>1, <2>3 DEF Split
  <2>4. CASE i \in a..m - 1 /\ j \in a..m - 1
    BY <1>4, <1>8, <2>4
  <2>5. CASE i \in m + 1..b - 1 /\ j \in m + 1..b - 1
    BY <1>5, <1>8, <2>5
  <2>6. CASE i \in a..m - 1 /\ j \in m + 1..b - 1
    BY <1>1, <2>1, <2>6 DEF Split
  <2>7. CASE j \in a..m - 1 /\ i \in m + 1..b - 1
    BY <1>1, <2>1, <2>7 DEF Split
  <2> QED
    BY <1>2, <2>2, <2>3, <2>4, <2>5, <2>6, <2>7
<1> QED
  <2>1. a < b => LET h == (a + b) \div 2 IN A[h] = a /\ B[h] = b /\ Q[h] = q
    OBVIOUS
  <2> QED
    BY <1>7, <1>8, <2>1 DEF Laws

-----------------------------------------------------------------------------
(* The halving reaches every number of a part on the same way.              *)

Reach(n, a, b, q) == \A i \in a..b - 1 : PartOf(n, i)[Piece(a, b, q)] = Part(n, i)

LEMMA Reached ==
  ASSUME NEW n \in 0..MaxNodes, NEW a \in 0..n, NEW b \in 0..n, NEW q \in Link, a < b,
         Reach(n, a, b, q), NEW m, m = (a + b) \div 2
  PROVE  /\ Part(n, m) = Piece(a, b, q)
         /\ Reach(n, a, m, m) /\ Reach(n, m + 1, b, m)
<1>1. n \in Nat /\ a \in Nat /\ b \in Nat /\ b <= n /\ m \in Nat /\ a <= m /\ m < b
  BY Middle, NodesAssumption
<1>2. ASSUME NEW i \in a..b - 1
      PROVE  /\ i \in 0..n - 1
             /\ Part(n, i) = IF i < m THEN PartOf(n, i)[Piece(a, m, m)]
                             ELSE IF i > m THEN PartOf(n, i)[Piece(m + 1, b, m)]
                             ELSE Piece(a, b, q)
  <2>1. i \in 0..n - 1 /\ a <= i /\ i < b
    BY <1>1
  <2>2. PICK F : F = PartOf(n, i)
    OBVIOUS
  <2>3. F = [p \in Holding(n, i) |-> PartBody(i, F, p)]
    BY <2>1, <2>2, PartDefined DEF PartIs
  <2>4. /\ Piece(a, b, q) \in Holding(n, i)
        /\ PartBody(i, F, Piece(a, b, q)) =
             IF i < m THEN F[Piece(a, m, m)] ELSE IF i > m THEN F[Piece(m + 1, b, m)]
             ELSE Piece(a, b, q)
    BY <2>1, Halved
  <2>5. F[Piece(a, b, q)] = PartBody(i, F, Piece(a, b, q))
    BY <2>3, <2>4
  <2>6. Part(n, i) = F[Piece(a, b, q)]
    BY <2>2 DEF Reach
  <2> QED
    BY <2>1, <2>2, <2>4, <2>5, <2>6
<1>3. Part(n, m) = Piece(a, b, q)
  <2>1. m \in a..b - 1 /\ ~(m < m) /\ ~(m > m)
    BY <1>1
  <2> QED
    BY <1>2, <2>1
<1>4. Reach(n, a, m, m)
  <2>1. \A i \in a..m - 1 : i \in a..b - 1 /\ i < m
    BY <1>1
  <2> QED
    BY <1>2, <2>1 DEF Reach
<1>5. Reach(n, m + 1, b, m)
  <2>1. \A i \in m + 1..b - 1 : i \in a..b - 1 /\ ~(i < m) /\ i > m
    BY <1>1
  <2> QED
    BY <1>2, <2>1 DEF Reach
<1> QED
  BY <1>3, <1>4, <1>5

\* The parts, side by side.
LEMMA PartLaws ==
  ASSUME NEW n \in 1..MaxNodes
  PROVE  \E A, B, Q :
           /\ A \in [0..n - 1 -> Int] /\ B \in [0..n - 1 -> Int] /\ Q \in [0..n - 1 -> Link]
           /\ \A i \in 0..n - 1 : Part(n, i) = Piece(A[i], B[i], Q[i])
           /\ Laws(A, B, Q, 0, n, Nil)
<1>1. n \in Nat /\ n \in 0..MaxNodes /\ 0 \in 0..n /\ n \in 0..n /\ Nil \in Link
  BY NodesAssumption DEF Link
<1>2. PICK A : A = [i \in 0..n - 1 |-> Part(n, i).from]
  OBVIOUS
<1>3. PICK B : B = [i \in 0..n - 1 |-> Part(n, i).to]
  OBVIOUS
<1>4. PICK Q : Q = [i \in 0..n - 1 |-> Part(n, i).hParent]
  OBVIOUS
<1> DEFINE T == {k \in Nat : \A a \in 0..n, b \in 0..n, q \in Link :
                     (a <= b /\ b - a <= k /\ Reach(n, a, b, q)) =>
                       /\ Laws(A, B, Q, a, b, q)
                       /\ \A i \in a..b - 1 : /\ A[i] \in Int /\ B[i] \in Int /\ Q[i] \in Link
                                              /\ Part(n, i) = Piece(A[i], B[i], Q[i])}
<1>5. ASSUME NEW a \in 0..n, NEW b \in 0..n, NEW q \in Link, ~(a < b)
      PROVE  Laws(A, B, Q, a, b, q) /\ a..b - 1 = {}
  <2>1. a..b - 1 = {}
    BY <1>1, <1>5
  <2> QED
    BY <1>5, <2>1 DEF Laws
<1>6. 0 \in T
  <2> SUFFICES ASSUME NEW a \in 0..n, NEW b \in 0..n, NEW q \in Link, a <= b, b - a <= 0
               PROVE  Laws(A, B, Q, a, b, q) /\ a..b - 1 = {}
    OBVIOUS
  <2>1. ~(a < b)
    BY <1>1
  <2> QED
    BY <1>5, <2>1
<1>7. ASSUME NEW k \in Nat, k \in T PROVE k + 1 \in T
  <2> SUFFICES ASSUME NEW a \in 0..n, NEW b \in 0..n, NEW q \in Link, a <= b, b - a <= k + 1,
                      Reach(n, a, b, q)
               PROVE  /\ Laws(A, B, Q, a, b, q)
                      /\ \A i \in a..b - 1 : /\ A[i] \in Int /\ B[i] \in Int /\ Q[i] \in Link
                                             /\ Part(n, i) = Piece(A[i], B[i], Q[i])
    OBVIOUS
  <2>1. CASE ~(a < b)
    BY <1>5, <2>1
  <2>2. CASE a < b
    <3>1. PICK m : m = (a + b) \div 2
      OBVIOUS
    <3>2. a \in Nat /\ b \in Nat /\ b <= n /\ m \in Nat /\ a <= m /\ m < b
      BY <1>1, <2>2, <3>1, Middle
    <3>3. m \in 0..n /\ m + 1 \in 0..n /\ m \in 0..n - 1 /\ m \in Link
      <4>1. m \in 0..n /\ m + 1 \in 0..n /\ m \in 0..n - 1
        BY <1>1, <3>2
      <4>2. m \in Link
        BY <1>1, <4>1, CellFinite DEF Link
      <4> QED
        BY <4>1, <4>2
    <3>4. Part(n, m) = Piece(a, b, q) /\ Reach(n, a, m, m) /\ Reach(n, m + 1, b, m)
      BY <1>1, <2>2, <3>1, Reached
    <3>5. A[m] = a /\ B[m] = b /\ Q[m] = q
      <4>1. Piece(a, b, q).from = a /\ Piece(a, b, q).to = b /\ Piece(a, b, q).hParent = q
        BY DEF Piece
      <4> QED
        BY <1>2, <1>3, <1>4, <3>3, <3>4, <4>1
    <3>6. /\ Laws(A, B, Q, a, m, m)
          /\ \A i \in a..m - 1 : /\ A[i] \in Int /\ B[i] \in Int /\ Q[i] \in Link
                                 /\ Part(n, i) = Piece(A[i], B[i], Q[i])
      <4>1. a <= m /\ m - a <= k
        BY <3>2
      <4> QED
        BY <1>7, <3>3, <3>4, <4>1
    <3>7. /\ Laws(A, B, Q, m + 1, b, m)
          /\ \A i \in m + 1..b - 1 : /\ A[i] \in Int /\ B[i] \in Int /\ Q[i] \in Link
                                     /\ Part(n, i) = Piece(A[i], B[i], Q[i])
      <4>1. m + 1 <= b /\ b - (m + 1) <= k
        BY <3>2
      <4> QED
        BY <1>7, <3>3, <3>4, <4>1
    <3>8. \A i \in a..b - 1 : i = m \/ i \in a..m - 1 \/ i \in m + 1..b - 1
      BY <3>2
    <3>9. \A i \in a..b - 1 : /\ A[i] \in Int /\ B[i] \in Int /\ Q[i] \in Link
                              /\ Part(n, i) = Piece(A[i], B[i], Q[i])
      BY <3>2, <3>4, <3>5, <3>6, <3>7, <3>8
    <3>10. Laws(A, B, Q, a, b, q)
      <4>1. \A i \in a..b - 1 : A[i] \in Int /\ B[i] \in Int
        BY <3>9
      <4> QED
        BY <1>1, <2>2, <3>1, <3>5, <3>6, <3>7, <4>1, LawsJoined
    <3> QED
      BY <3>9, <3>10
  <2> QED
    BY <2>1, <2>2
<1> HIDE DEF T
<1>8. n \in T
  BY <1>1, <1>6, <1>7, Inductive
<1>9. Reach(n, 0, n, Nil)
  BY <1>1, PartDefined DEF Reach
<1>10. /\ Laws(A, B, Q, 0, n, Nil)
       /\ \A i \in 0..n - 1 : /\ A[i] \in Int /\ B[i] \in Int /\ Q[i] \in Link
                              /\ Part(n, i) = Piece(A[i], B[i], Q[i])
  <2>1. 0 <= n /\ n - 0 <= n
    BY <1>1
  <2> QED
    BY <1>1, <1>8, <1>9, <2>1 DEF T
<1>11. A \in [0..n - 1 -> Int] /\ B \in [0..n - 1 -> Int] /\ Q \in [0..n - 1 -> Link]
  BY <1>2, <1>3, <1>4, <1>10
<1> QED
  BY <1>10, <1>11

-----------------------------------------------------------------------------
(* The layers.                                                              *)

Rooms(R) ==
  /\ R \in [0..MaxNodes -> Nat] /\ R[0] = 0
  /\ \A l \in 0..MaxNodes : l # 0 => R[l] = 2 * R[l - 1] + 1

Fits(R, n, l) == l \in 0..MaxNodes /\ R[l] >= n /\ (l = 0 \/ R[l - 1] < n)

LEMMA RoomIs ==
  \E R : Rooms(R) /\ \A n : Layer(n) = CHOOSE l \in 0..MaxNodes : R[l] >= n /\ (l = 0 \/ R[l - 1] < n)
<1>0. MaxNodes \in Nat
  BY NodesAssumption
<1>1. PICK X : X = 0..MaxNodes
  OBVIOUS
<1>2. X \subseteq Nat /\ 0 \in X /\ \A l \in X : l = 0 \/ l - 1 \in X
  BY <1>0, <1>1
<1>3. PICK c : c = [kind |-> "room"]
  OBVIOUS
<1>4. \A F, x : Body(c, F, x) = RoomBody(F, x)
  BY <1>3 DEF Body
<1>5. PICK m : m = [i \in X |-> i]
  OBVIOUS
<1>6. m \in [X -> Nat] /\ \A i \in X : m[i] = i
  BY <1>2, <1>5
<1>7. Grounded(c, X, m)
  <2> SUFFICES ASSUME NEW x \in X, NEW F, NEW G, \A y \in X : m[y] < m[x] => F[y] = G[y]
               PROVE  RoomBody(F, x) = RoomBody(G, x)
    BY <1>4 DEF Grounded
  <2>1. x = 0 \/ F[x - 1] = G[x - 1]
    <3> SUFFICES ASSUME x # 0 PROVE F[x - 1] = G[x - 1]
      OBVIOUS
    <3>1. x - 1 \in X /\ m[x - 1] < m[x]
      BY <1>2, <1>6
    <3> QED
      BY <3>1
  <2> QED
    BY <2>1 DEF RoomBody
<1>8. \E F : F = [x \in X |-> Body(c, F, x)]
  BY <1>6, <1>7, Defined
<1>9. \E F : F = [x \in X |-> RoomBody(F, x)]
  BY <1>4, <1>8
<1>10. PICK R : /\ R = [x \in X |-> RoomBody(R, x)]
                /\ \A n : Layer(n) = CHOOSE l \in 0..MaxNodes : R[l] >= n /\ (l = 0 \/ R[l - 1] < n)
  BY <1>1, <1>9 DEF Layer, RoomBody
<1>11. \A l \in X : R[l] = IF l = 0 THEN 0 ELSE 2 * R[l - 1] + 1
  BY <1>10 DEF RoomBody
<1> DEFINE T == {l \in Nat : l \in X => R[l] \in Nat}
<1>12. 0 \in T
  BY <1>11
<1>13. ASSUME NEW l \in Nat, l \in T PROVE l + 1 \in T
  <2> SUFFICES ASSUME l + 1 \in X PROVE R[l + 1] \in Nat
    OBVIOUS
  <2>1. l \in X /\ l + 1 # 0 /\ (l + 1) - 1 = l
    BY <1>0, <1>1
  <2>2. R[l] \in Nat /\ R[l + 1] = 2 * R[l] + 1
    BY <1>11, <1>13, <2>1
  <2> QED
    BY <2>2
<1> HIDE DEF T
<1>14. Nat \subseteq T
  BY <1>12, <1>13, Inductive
<1>15. \A l \in X : R[l] \in Nat
  BY <1>2, <1>14 DEF T
<1>16. Rooms(R)
  BY <1>1, <1>2, <1>10, <1>11, <1>15 DEF Rooms
<1> QED
  BY <1>10, <1>16

LEMMA RoomGrows ==
  ASSUME NEW R, Rooms(R)
  PROVE  \A l \in 0..MaxNodes : R[l] >= l /\ \A j \in 0..MaxNodes : j < l => R[j] < R[l]
<1>0. MaxNodes \in Nat
  BY NodesAssumption
<1> DEFINE T == {l \in Nat : l \in 0..MaxNodes => R[l] >= l /\ \A j \in 0..MaxNodes : j < l => R[j] < R[l]}
<1>1. 0 \in T
  <2>1. 0 \in 0..MaxNodes /\ \A j \in 0..MaxNodes : ~(j < 0)
    BY <1>0
  <2>2. R[0] >= 0
    BY DEF Rooms
  <2> QED
    BY <2>1, <2>2
<1>2. ASSUME NEW l \in Nat, l \in T PROVE l + 1 \in T
  <2> SUFFICES ASSUME l + 1 \in 0..MaxNodes
               PROVE  R[l + 1] >= l + 1 /\ \A j \in 0..MaxNodes : j < l + 1 => R[j] < R[l + 1]
    OBVIOUS
  <2>1. l \in 0..MaxNodes /\ l + 1 # 0 /\ (l + 1) - 1 = l
    BY <1>0
  <2>2. R[l] \in Nat /\ R[l + 1] = 2 * R[l] + 1 /\ R[l] >= l
    BY <1>2, <2>1 DEF Rooms
  <2>3. ASSUME NEW j \in 0..MaxNodes, j < l + 1 PROVE R[j] < R[l + 1]
    <3>1. j \in Nat /\ R[j] \in Nat
      BY DEF Rooms
    <3>2. j = l \/ R[j] < R[l]
      BY <1>2, <2>1, <2>3, <3>1
    <3> QED
      BY <2>2, <3>1, <3>2
  <2> QED
    BY <2>2, <2>3
<1> HIDE DEF T
<1>3. Nat \subseteq T
  BY <1>1, <1>2, Inductive
<1>4. ASSUME NEW l \in 0..MaxNodes
      PROVE  R[l] >= l /\ \A j \in 0..MaxNodes : j < l => R[j] < R[l]
  <2>1. l \in T
    BY <1>3
  <2> QED
    BY <2>1 DEF T
<1> QED
  BY <1>4

LEMMA FitsOnce ==
  ASSUME NEW R, Rooms(R), NEW n \in Nat, NEW l, NEW m, Fits(R, n, l), Fits(R, n, m)
  PROVE  l = m
<1>0. MaxNodes \in Nat
  BY NodesAssumption
<1>1. /\ l \in 0..MaxNodes /\ R[l] >= n /\ (l = 0 \/ R[l - 1] < n)
      /\ m \in 0..MaxNodes /\ R[m] >= n /\ (m = 0 \/ R[m - 1] < n)
  BY DEF Fits
<1>2. \A i \in 0..MaxNodes : R[i] \in Nat
  BY DEF Rooms
<1>3. ASSUME NEW i \in 0..MaxNodes, NEW j \in 0..MaxNodes, i < j, R[i] >= n, j = 0 \/ R[j - 1] < n
      PROVE  FALSE
  <2>1. j # 0 /\ j - 1 \in 0..MaxNodes /\ (i = j - 1 \/ i < j - 1)
    BY <1>0, <1>3
  <2>2. i < j - 1 => R[i] < R[j - 1]
    BY <2>1, RoomGrows
  <2>3. R[i] \in Nat /\ R[j - 1] \in Nat /\ R[j - 1] < n
    BY <1>2, <1>3, <2>1
  <2>4. CASE i = j - 1
    BY <1>3, <2>3, <2>4
  <2>5. CASE i < j - 1
    BY <1>3, <2>2, <2>3, <2>5
  <2> QED
    BY <2>1, <2>4, <2>5
<1>4. ~(l < m) /\ ~(m < l)
  BY <1>1, <1>3
<1> QED
  BY <1>0, <1>1, <1>4

LEMMA FitsSome ==
  ASSUME NEW R, Rooms(R), NEW n \in 0..MaxNodes
  PROVE  \E l : Fits(R, n, l)
<1>0. MaxNodes \in Nat /\ n \in Nat /\ n <= MaxNodes
  BY NodesAssumption
<1> DEFINE T == {l \in Nat : (l \in 0..MaxNodes /\ R[l] >= n) => \E j : Fits(R, n, j)}
<1>1. 0 \in T
  <2> SUFFICES ASSUME 0 \in 0..MaxNodes, R[0] >= n PROVE Fits(R, n, 0)
    OBVIOUS
  <2> QED
    BY DEF Fits
<1>2. ASSUME NEW l \in Nat, l \in T PROVE l + 1 \in T
  <2> SUFFICES ASSUME l + 1 \in 0..MaxNodes, R[l + 1] >= n PROVE \E j : Fits(R, n, j)
    OBVIOUS
  <2>1. l \in 0..MaxNodes /\ (l + 1) - 1 = l
    BY <1>0
  <2>2. R[l] \in Nat
    BY <2>1 DEF Rooms
  <2>3. CASE R[l] >= n
    BY <1>2, <2>1, <2>3
  <2>4. CASE ~(R[l] >= n)
    <3>1. R[l] < n
      BY <1>0, <2>2, <2>4
    <3>2. Fits(R, n, l + 1)
      BY <2>1, <3>1 DEF Fits
    <3> QED
      BY <3>2
  <2> QED
    BY <2>3, <2>4
<1> HIDE DEF T
<1>3. Nat \subseteq T
  BY <1>1, <1>2, Inductive
<1>4. n \in T /\ R[n] >= n
  BY <1>0, <1>3, RoomGrows
<1> QED
  BY <1>4 DEF T

LEMMA LayerIs ==
  ASSUME NEW R, Rooms(R), NEW n \in 0..MaxNodes,
         Layer(n) = CHOOSE l \in 0..MaxNodes : R[l] >= n /\ (l = 0 \/ R[l - 1] < n)
  PROVE  Fits(R, n, Layer(n)) /\ \A l : Fits(R, n, l) => Layer(n) = l
<1>1. PICK l : Fits(R, n, l)
  BY FitsSome
<1>2. Fits(R, n, Layer(n))
  BY <1>1 DEF Fits
<1>3. n \in Nat
  BY NodesAssumption
<1> QED
  BY <1>2, <1>3, FitsOnce

\* Halving n nodes around a middle takes one layer off.
LEMMA LayerHalved ==
  /\ Layer(0) = 0
  /\ \A n \in 0..MaxNodes : Layer(n) \in Nat
  /\ \A n \in 1..MaxNodes : Layer(n) = 1 + Layer(n \div 2)
  /\ \A n \in 1..MaxNodes : Layer(n) - Layer(n - 1) \in {0, 1}
<1>0. MaxNodes \in Nat /\ 0 \in 0..MaxNodes
  BY NodesAssumption
<1>1. PICK R : Rooms(R) /\ \A n : Layer(n) = CHOOSE l \in 0..MaxNodes : R[l] >= n /\ (l = 0 \/ R[l - 1] < n)
  BY RoomIs
<1>2. ASSUME NEW n \in 0..MaxNodes
      PROVE  Fits(R, n, Layer(n)) /\ \A l : Fits(R, n, l) => Layer(n) = l
  BY <1>1, LayerIs
<1>3. \A l \in 0..MaxNodes : R[l] \in Nat /\ (l # 0 => R[l] = 2 * R[l - 1] + 1)
  BY <1>1 DEF Rooms
<1>4. Layer(0) = 0
  <2>1. Fits(R, 0, 0)
    BY <1>0, <1>3 DEF Fits
  <2> QED
    BY <1>0, <1>2, <2>1
<1>5. ASSUME NEW n \in 0..MaxNodes PROVE Layer(n) \in Nat
  BY <1>0, <1>2 DEF Fits
<1>6. ASSUME NEW n \in 1..MaxNodes PROVE Layer(n) = 1 + Layer(n \div 2)
  <2>1. n \in Nat /\ n \in 0..MaxNodes /\ n \div 2 \in 0..MaxNodes /\ n > 0
    BY <1>0
  <2>2. PICK l : l = Layer(n)
    OBVIOUS
  <2>3. PICK m \in Nat : m = n \div 2
    BY <2>1
  <2>4. l \in 0..MaxNodes /\ R[l] >= n /\ (l = 0 \/ R[l - 1] < n)
    BY <1>2, <2>1, <2>2 DEF Fits
  <2>5. l # 0
    BY <1>1, <2>1, <2>4 DEF Rooms
  <2>6. l - 1 \in 0..MaxNodes /\ l \in Nat
    BY <1>0, <2>4, <2>5
  <2>7. PICK r \in Nat : r = R[l - 1]
    BY <1>3, <2>6
  <2>8. R[l] = 2 * r + 1
    BY <1>3, <2>4, <2>5, <2>7
  <2>9. r >= m
    BY <2>1, <2>3, <2>4, <2>7, <2>8
  <2>10. l - 1 = 0 \/ R[(l - 1) - 1] < m
    <3> SUFFICES ASSUME l - 1 # 0 PROVE R[(l - 1) - 1] < m
      OBVIOUS
    <3>1. (l - 1) - 1 \in 0..MaxNodes
      BY <1>0, <2>6
    <3>2. PICK s \in Nat : s = R[(l - 1) - 1]
      BY <1>3, <3>1
    <3>3. r = 2 * s + 1
      BY <1>3, <2>6, <2>7, <3>2
    <3>4. 2 * s + 1 < n
      BY <2>4, <2>5, <2>7, <3>3
    <3> QED
      BY <2>1, <2>3, <3>2, <3>4
  <2>11. Fits(R, m, l - 1)
    BY <2>6, <2>7, <2>9, <2>10 DEF Fits
  <2>12. Layer(m) = l - 1
    BY <1>2, <2>1, <2>3, <2>11
  <2> QED
    BY <2>2, <2>3, <2>6, <2>12
<1>7. ASSUME NEW n \in 1..MaxNodes PROVE Layer(n) - Layer(n - 1) \in {0, 1}
  <2>1. n \in Nat /\ n \in 0..MaxNodes /\ n - 1 \in 0..MaxNodes /\ n > 0
    BY <1>0
  <2>2. PICK l : l = Layer(n)
    OBVIOUS
  <2>4. l \in 0..MaxNodes /\ R[l] >= n /\ (l = 0 \/ R[l - 1] < n)
    BY <1>2, <2>1, <2>2 DEF Fits
  <2>5. l # 0
    BY <1>1, <2>1, <2>4 DEF Rooms
  <2>6. l - 1 \in 0..MaxNodes /\ l \in Nat /\ R[l - 1] \in Nat /\ R[l] \in Nat
    BY <1>0, <1>3, <2>4, <2>5
  <2>7. CASE R[l - 1] < n - 1
    <3>1. Fits(R, n - 1, l)
      BY <2>1, <2>4, <2>6, <2>7 DEF Fits
    <3>2. Layer(n - 1) = l
      BY <1>2, <2>1, <3>1
    <3> QED
      BY <2>2, <2>6, <3>2
  <2>8. CASE ~(R[l - 1] < n - 1)
    <3>1. R[l - 1] = n - 1
      BY <2>1, <2>4, <2>5, <2>6, <2>8
    <3>2. l - 1 = 0 \/ R[(l - 1) - 1] < n - 1
      <4> SUFFICES ASSUME l - 1 # 0 PROVE R[(l - 1) - 1] < n - 1
        OBVIOUS
      <4>1. (l - 1) - 1 \in 0..MaxNodes /\ (l - 1) - 1 < l - 1
        BY <1>0, <2>6
      <4> QED
        BY <1>1, <2>6, <3>1, <4>1, RoomGrows
    <3>3. Fits(R, n - 1, l - 1)
      BY <2>1, <2>6, <3>1, <3>2 DEF Fits
    <3>4. Layer(n - 1) = l - 1
      BY <1>2, <2>1, <3>3
    <3>5. l - (l - 1) = 1
      BY <2>6
    <3> QED
      BY <2>2, <3>4, <3>5
  <2> QED
    BY <2>7, <2>8
<1> QED
  BY <1>4, <1>5, <1>6, <1>7

-----------------------------------------------------------------------------
(* The sorted keys, and the record that is rebuilt from them.               *)

SortedKeys(ks, n, D) ==
  /\ D \in [0..n - 1 -> ks] /\ \A g, h \in 0..n - 1 : g < h => D[g] < D[h]
  /\ \A k \in ks : \E h \in 0..n - 1 : D[h] = k

Sorts(ks, n) ==
  \E D : /\ SortedKeys(ks, n, D)
         /\ \A h \in 0..n - 1 : D[h] = CHOOSE k \in ks : Cardinality({j \in ks : j < k}) = h

LEMMA SortedIs ==
  ASSUME NEW ks \in SUBSET Nat, IsFiniteSet(ks), NEW n, n = Cardinality(ks)
  PROVE  Sorts(ks, n)
<1>1. n \in Nat
  BY FS_CardinalityType
<1>2. PICK r : r = [k \in ks |-> Cardinality({j \in ks : j < k})]
  OBVIOUS
<1>3. ASSUME NEW k \in ks PROVE r[k] \in 0..n - 1
  <2>1. PICK L \in SUBSET ks : L = {j \in ks : j < k}
    OBVIOUS
  <2>2. k \notin L /\ L # ks
    BY <2>1
  <2>3. IsFiniteSet(L) /\ Cardinality(L) <= n /\ Cardinality(L) # n
    BY <2>2, FS_Subset
  <2>4. Cardinality(L) \in Nat
    BY <2>3, FS_CardinalityType
  <2>5. r[k] = Cardinality(L)
    BY <1>2, <2>1
  <2> QED
    BY <1>1, <2>3, <2>4, <2>5
<1>4. ASSUME NEW k \in ks, NEW l \in ks, k < l PROVE r[k] < r[l]
  <2>1. PICK L \in SUBSET ks : L = {j \in ks : j < k}
    OBVIOUS
  <2>2. PICK M \in SUBSET ks : M = {j \in ks : j < l}
    OBVIOUS
  <2>3. L \in SUBSET M /\ k \in M /\ k \notin L
    <3>1. \A j \in ks : j < k => j < l
      <4>1. \A j \in ks : j \in Int /\ k \in Int /\ l \in Int
        OBVIOUS
      <4> QED
        BY <1>4, <4>1
    <3>2. ~(k < k)
      OBVIOUS
    <3> QED
      BY <1>4, <2>1, <2>2, <3>1, <3>2
  <2>4. IsFiniteSet(M)
    BY FS_Subset
  <2>5. Cardinality(L) <= Cardinality(M) /\ Cardinality(L) # Cardinality(M)
    BY <2>3, <2>4, FS_Subset
  <2>6. r[k] = Cardinality(L) /\ r[l] = Cardinality(M)
    BY <1>2, <2>1, <2>2
  <2> QED
    BY <1>1, <1>3, <2>5, <2>6
<1>5. \A k, l \in ks : r[k] = r[l] => k = l
  <2> SUFFICES ASSUME NEW k \in ks, NEW l \in ks, r[k] = r[l] PROVE k = l
    OBVIOUS
  <2>1. r[k] \in Int
    BY <1>3
  <2>2. ~(k < l) /\ ~(l < k)
    BY <1>4, <2>1
  <2> QED
    BY <2>2
<1>6. PICK T : T = 0..n - 1
  OBVIOUS
<1>7. r \in [ks -> T]
  BY <1>2, <1>3, <1>6
<1>8. r \in Injection(ks, T)
  BY <1>5, <1>7 DEF Injection, IsInjective
<1>9. IsFiniteSet(T) /\ Cardinality(T) = n
  BY <1>1, <1>6, FS_Interval
<1>10. r \in Surjection(ks, T)
  BY <1>8, <1>9, FS_Injection
<1>11. \A h \in T : \E k \in ks : r[k] = h
  BY <1>10 DEF Surjection
<1>12. PICK D : D = [h \in T |-> CHOOSE k \in ks : Cardinality({j \in ks : j < k}) = h]
  OBVIOUS
<1>13. ASSUME NEW h \in T PROVE D[h] \in ks /\ r[D[h]] = h
  <2>1. \A k \in ks : r[k] = Cardinality({j \in ks : j < k})
    BY <1>2
  <2>2. \E k \in ks : Cardinality({j \in ks : j < k}) = h
    BY <1>11, <2>1
  <2>3. D[h] \in ks /\ Cardinality({j \in ks : j < D[h]}) = h
    BY <1>12, <2>2
  <2> QED
    BY <2>1, <2>3
<1>14. ASSUME NEW g \in T, NEW h \in T, g < h PROVE D[g] < D[h]
  <2>1. D[g] \in Nat /\ D[h] \in Nat /\ g \in Int /\ h \in Int
    <3>1. D[g] \in ks /\ D[h] \in ks
      BY <1>13
    <3>2. \A k \in ks : k \in Nat
      OBVIOUS
    <3>3. D[g] \in Nat /\ D[h] \in Nat
      BY <3>1, <3>2
    <3> QED
      BY <1>6, <3>3
  <2>2. D[g] # D[h] /\ ~(D[h] < D[g])
    BY <1>4, <1>13, <1>14, <2>1
  <2> QED
    BY <2>1, <2>2
<1>15. ASSUME NEW k \in ks PROVE \E h \in T : D[h] = k
  <2>1. r[k] \in T
    BY <1>7
  <2>2. D[r[k]] = k
    BY <1>5, <1>13, <2>1
  <2> QED
    BY <2>1, <2>2
<1>16. SortedKeys(ks, n, D)
  BY <1>6, <1>12, <1>13, <1>14, <1>15 DEF SortedKeys
<1>17. \A h \in T : D[h] = CHOOSE k \in ks : Cardinality({j \in ks : j < k}) = h
  BY <1>12
<1> QED
  BY <1>6, <1>16, <1>17 DEF Sorts

\* The cells as they are rebuilt.
Laid(u, n, A, B, Q, D) ==
  /\ u \in TreeType /\ u.hHead = n \div 2 /\ u.free_head = Nil /\ u.size = n /\ u.array_size = n
  /\ \A h \in Cell : /\ u.deleted[h] = FALSE
                     /\ h >= n => \A f \in Side : u.child[f][h] = Nil
  /\ \A h \in 0..n - 1 :
       /\ u.child["hLeft"][h] = IF A[h] = h THEN Nil ELSE (A[h] + h) \div 2
       /\ u.child["hRight"][h] = IF h + 1 = B[h] THEN Nil ELSE (h + 1 + B[h]) \div 2
       /\ u.hParent[h] = Q[h] /\ u.data[h] = D[h]
       /\ u.bf[h] = Layer(h - A[h]) - Layer(B[h] - h - 1)

Parted(n, A, B, Q) ==
  /\ A \in [0..n - 1 -> Int] /\ B \in [0..n - 1 -> Int] /\ Q \in [0..n - 1 -> Link]
  /\ \A i \in 0..n - 1 : /\ Part(n, i) = Piece(A[i], B[i], Q[i])
                         /\ 0 <= A[i] /\ A[i] <= i /\ i < B[i] /\ B[i] <= n

LEMMA RebuiltIs ==
  ASSUME NEW ks \in SUBSET Nat, NEW n \in 1..MaxNodes, n = Cardinality(ks), NEW A, NEW B, NEW Q,
         NEW D \in [0..n - 1 -> ks], Parted(n, A, B, Q),
         \A h \in 0..n - 1 : D[h] = CHOOSE k \in ks : Cardinality({j \in ks : j < k}) = h
  PROVE  Laid(Rebuilt(ks), n, A, B, Q, D)
<1>0. MaxNodes \in Nat /\ n \in Nat /\ n <= MaxNodes /\ n > 0
  BY NodesAssumption
<1>1. /\ A \in [0..n - 1 -> Int] /\ B \in [0..n - 1 -> Int] /\ Q \in [0..n - 1 -> Link]
      /\ \A i \in 0..n - 1 : /\ Part(n, i) = Piece(A[i], B[i], Q[i])
                             /\ 0 <= A[i] /\ A[i] <= i /\ i < B[i] /\ B[i] <= n
  BY DEF Parted
<1>2. \A i \in 0..n - 1 : /\ Part(n, i).from = A[i] /\ Part(n, i).to = B[i]
                          /\ Part(n, i).hParent = Q[i] /\ i \in Nat /\ A[i] \in Nat /\ B[i] \in Nat
  <2>1. \A a, b, q : Piece(a, b, q).from = a /\ Piece(a, b, q).to = b /\ Piece(a, b, q).hParent = q
    BY DEF Piece
  <2>2. \A i \in 0..n - 1 : i \in Nat /\ A[i] \in Nat /\ B[i] \in Nat
    <3>1. \A i \in 0..n - 1 : i \in Nat /\ A[i] \in Int /\ B[i] \in Int
      BY <1>1
    <3> QED
      BY <1>1, <3>1
  <2> QED
    BY <1>1, <2>1, <2>2
<1>3. Cell = 0..MaxNodes - 1 /\ Cell \subseteq Link /\ Nil \in Link
  BY DEF Cell, Link
<1>4. PICK L : L = [h \in Cell |-> IF h >= Cardinality(ks) THEN Nil ELSE LET a == Part(Cardinality(ks), h).from IN IF a = h THEN Nil ELSE (a + h) \div 2]
  OBVIOUS
<1>5. PICK R : R = [h \in Cell |-> IF h >= Cardinality(ks) THEN Nil ELSE LET b == Part(Cardinality(ks), h).to IN IF h + 1 = b THEN Nil ELSE (h + 1 + b) \div 2]
  OBVIOUS
<1>6. PICK c : c = [f \in Side |-> IF f = "hLeft" THEN L ELSE R]
  OBVIOUS
<1>7. PICK q : q = [h \in Cell |-> IF h < Cardinality(ks) THEN Part(Cardinality(ks), h).hParent ELSE Nil]
  OBVIOUS
<1>8. PICK b : b = [h \in Cell |-> IF h < Cardinality(ks) THEN Layer(h - Part(Cardinality(ks), h).from) - Layer(Part(Cardinality(ks), h).to - h - 1) ELSE EH]
  OBVIOUS
<1>9. PICK d : d = [h \in Cell |-> IF h < Cardinality(ks) THEN CHOOSE k \in ks : Cardinality({j \in ks : j < k}) = h ELSE NoData]
  OBVIOUS
<1>10. PICK e : e = Everywhere(FALSE)
  OBVIOUS
<1>11. PICK u : u = Rebuilt(ks)
  OBVIOUS
<1>12. u = [child |-> c, hParent |-> q, bf |-> b, deleted |-> e, data |-> d,
            hHead |-> Cardinality(ks) \div 2, free_head |-> Nil, size |-> Cardinality(ks), array_size |-> Cardinality(ks)]
  <2>1. c = [f \in Side |-> [h \in Cell |->
               IF h >= Cardinality(ks) THEN Nil
               ELSE IF f = "hLeft" THEN LET a == Part(Cardinality(ks), h).from IN IF a = h THEN Nil ELSE (a + h) \div 2
               ELSE LET z == Part(Cardinality(ks), h).to IN IF h + 1 = z THEN Nil ELSE (h + 1 + z) \div 2]]
    <3>1. ASSUME NEW f \in Side
          PROVE  c[f] = [h \in Cell |->
                   IF h >= Cardinality(ks) THEN Nil
                   ELSE IF f = "hLeft" THEN LET a == Part(Cardinality(ks), h).from IN IF a = h THEN Nil ELSE (a + h) \div 2
                   ELSE LET z == Part(Cardinality(ks), h).to IN IF h + 1 = z THEN Nil ELSE (h + 1 + z) \div 2]
      BY <1>4, <1>5, <1>6
    <3> QED
      BY <1>6, <3>1
  <2> QED
    BY <1>7, <1>8, <1>9, <1>10, <1>11, <2>1, Zenon DEF Rebuilt
<1>13. \A h \in Cell : (h < n <=> h \in 0..n - 1) /\ (h >= n <=> ~(h < n)) /\ h \in Nat
  BY <1>0, <1>3
<1>14. 0..n - 1 \subseteq Cell /\ n \div 2 \in 0..n - 1
  BY <1>0, <1>3
<1>15. \A h \in 0..n - 1 :
         /\ L[h] = IF A[h] = h THEN Nil ELSE (A[h] + h) \div 2
         /\ R[h] = IF h + 1 = B[h] THEN Nil ELSE (h + 1 + B[h]) \div 2
         /\ q[h] = Q[h] /\ d[h] = D[h] /\ b[h] = Layer(h - A[h]) - Layer(B[h] - h - 1)
  BY <1>2, <1>4, <1>5, <1>7, <1>8, <1>9, <1>13, <1>14
<1>16. \A h \in Cell : h >= n => L[h] = Nil /\ R[h] = Nil /\ q[h] = Nil /\ b[h] = EH /\ d[h] = NoData
  BY <1>4, <1>5, <1>7, <1>8, <1>9, <1>13
<1>17. ASSUME NEW h \in Cell
       PROVE  L[h] \in Link /\ R[h] \in Link /\ q[h] \in Link /\ b[h] \in Int /\ d[h] \in Int
  <2>1. CASE h >= n
    BY <1>3, <1>16, <2>1 DEF EH, NoData
  <2>2. CASE h \in 0..n - 1
    <3>1. /\ A[h] \in Nat /\ B[h] \in Nat /\ 0 <= A[h] /\ A[h] <= h /\ h < B[h] /\ B[h] <= n
          /\ h \in Nat
      BY <1>1, <1>2, <2>2
    <3>2. (A[h] + h) \div 2 \in 0..n - 1
      BY <1>0, <2>2, <3>1
    <3>3. h + 1 # B[h] => (h + 1 + B[h]) \div 2 \in 0..n - 1
      BY <1>0, <2>2, <3>1
    <3>4. h - A[h] \in 0..MaxNodes /\ B[h] - h - 1 \in 0..MaxNodes
      BY <1>0, <3>1
    <3>5. Layer(h - A[h]) \in Nat /\ Layer(B[h] - h - 1) \in Nat
      BY <3>4, LayerHalved
    <3>6. D[h] \in Int /\ Q[h] \in Link
      <4>1. D[h] \in ks /\ Q[h] \in Link
        BY <1>1, <2>2
      <4>2. \A k \in ks : k \in Int
        OBVIOUS
      <4> QED
        BY <4>1, <4>2
    <3>7. b[h] \in Int
      BY <1>15, <2>2, <3>5
    <3>8. L[h] \in Link /\ R[h] \in Link
      BY <1>3, <1>14, <1>15, <2>2, <3>2, <3>3
    <3> QED
      BY <1>15, <2>2, <3>6, <3>7, <3>8
  <2> QED
    BY <1>13, <2>1, <2>2
<1>18. /\ c \in [Side -> [Cell -> Link]] /\ q \in [Cell -> Link] /\ b \in [Cell -> Int]
       /\ d \in [Cell -> Int] /\ e \in [Cell -> BOOLEAN] /\ \A h \in Cell : e[h] = FALSE
  <2>1. L \in [Cell -> Link] /\ R \in [Cell -> Link]
    BY <1>4, <1>5, <1>17
  <2>2. c \in [Side -> [Cell -> Link]]
    BY <1>6, <2>1
  <2> QED
    BY <1>7, <1>8, <1>9, <1>10, <1>17, <2>2 DEF Everywhere
<1>19. n \div 2 \in Link /\ n \in Int /\ n \in Nat
  BY <1>0, <1>3, <1>14
<1>20. u \in TreeType
  BY <1>3, <1>12, <1>18, <1>19 DEF TreeType
<1>21. /\ u.child = c /\ u.hParent = q /\ u.bf = b /\ u.deleted = e /\ u.data = d
       /\ u.hHead = n \div 2 /\ u.free_head = Nil /\ u.size = n /\ u.array_size = n
  BY <1>12
<1>22. c["hLeft"] = L /\ c["hRight"] = R /\ \A f \in Side : c[f] = L \/ c[f] = R
  BY <1>6 DEF Side
<1>23. /\ u.child["hLeft"] = L /\ u.child["hRight"] = R /\ \A f \in Side : u.child[f] = L \/ u.child[f] = R
  BY <1>21, <1>22
<1>24. \A h \in Cell : u.deleted[h] = FALSE
  BY <1>18, <1>21
<1>25. \A h \in Cell : h >= n => \A f \in Side : u.child[f][h] = Nil
  BY <1>16, <1>23
<1>26. \A h \in 0..n - 1 :
         /\ u.child["hLeft"][h] = IF A[h] = h THEN Nil ELSE (A[h] + h) \div 2
         /\ u.child["hRight"][h] = IF h + 1 = B[h] THEN Nil ELSE (h + 1 + B[h]) \div 2
         /\ u.hParent[h] = Q[h] /\ u.data[h] = D[h]
         /\ u.bf[h] = Layer(h - A[h]) - Layer(B[h] - h - 1)
  BY <1>15, <1>21, <1>23
<1>27. Laid(u, n, A, B, Q, D)
  BY <1>20, <1>21, <1>24, <1>25, <1>26 DEF Laid
<1> QED
  BY <1>11, <1>27

-----------------------------------------------------------------------------
(* What is rebuilt is a balanced tree.                                      *)

\* The data of the cells and, at the ends, a number below and one above them.
Fenced(n, D, E) ==
  /\ E \in [-1..n -> Int] /\ \A h \in 0..n - 1 : E[h] = D[h]
  /\ \A i, j \in -1..n : i < j => E[i] < E[j]

LEMMA FencedIs ==
  ASSUME NEW n \in Nat, n > 0, NEW ks \in SUBSET Nat, NEW D, SortedKeys(ks, n, D)
  PROVE  \E E : Fenced(n, D, E)
<1>1. \A h \in 0..n - 1 : D[h] \in Int
  <2>1. \A k \in ks : k \in Int
    OBVIOUS
  <2>2. \A h \in 0..n - 1 : D[h] \in ks
    BY DEF SortedKeys
  <2> QED
    BY <2>1, <2>2
<1>2. \A g, h \in 0..n - 1 : g < h => D[g] < D[h]
  BY DEF SortedKeys
<1>3. 0 \in 0..n - 1 /\ n - 1 \in 0..n - 1
  OBVIOUS
<1>4. PICK a \in Int : a = D[0] - 1
  BY <1>1, <1>3
<1>5. PICK b \in Int : b = D[n - 1] + 1
  BY <1>1, <1>3
<1>6. PICK E : E = [i \in -1..n |-> IF i = -1 THEN a ELSE IF i = n THEN b ELSE D[i]]
  OBVIOUS
<1>7. \A i \in -1..n : i = -1 \/ i = n \/ i \in 0..n - 1
  OBVIOUS
<1>8. -1 \in -1..n /\ n \in -1..n /\ n # -1
      /\ \A h \in 0..n - 1 : h \in -1..n /\ h # -1 /\ h # n
  OBVIOUS
<1>9. E[-1] = a /\ E[n] = b /\ \A h \in 0..n - 1 : E[h] = D[h]
  BY <1>6, <1>8
<1>10. E \in [-1..n -> Int]
  BY <1>1, <1>6, <1>7
<1>11. \A h \in 0..n - 1 : D[0] <= D[h] /\ D[h] <= D[n - 1]
  <2> SUFFICES ASSUME NEW h \in 0..n - 1 PROVE D[0] <= D[h] /\ D[h] <= D[n - 1]
    OBVIOUS
  <2>1. (h = 0 \/ 0 < h) /\ (h = n - 1 \/ h < n - 1)
    OBVIOUS
  <2>2. D[h] \in Int /\ D[0] \in Int /\ D[n - 1] \in Int
    BY <1>1, <1>3
  <2>3. (0 < h => D[0] < D[h]) /\ (h < n - 1 => D[h] < D[n - 1])
    BY <1>2, <1>3
  <2> QED
    BY <2>1, <2>2, <2>3
<1>12. ASSUME NEW i \in -1..n, NEW j \in -1..n, i < j PROVE E[i] < E[j]
  <2>1. (i = -1 \/ i \in 0..n - 1) /\ (j = n \/ j \in 0..n - 1)
    BY <1>12
  <2>2. \A h \in 0..n - 1 : a < D[h] /\ D[h] < b
    BY <1>1, <1>3, <1>4, <1>5, <1>11
  <2>3. a < b
    BY <1>1, <1>3, <2>2
  <2>4. i \in 0..n - 1 /\ j \in 0..n - 1 => D[i] < D[j]
    BY <1>2, <1>12
  <2> QED
    BY <1>9, <2>1, <2>2, <2>3, <2>4
<1> QED
  BY <1>9, <1>10, <1>12 DEF Fenced

LEMMA FenceLaws ==
  ASSUME NEW n \in Nat, NEW D, NEW E, Fenced(n, D, E)
  PROVE  /\ \A i, j \in -1..n : i <= j => E[i] <= E[j]
         /\ \A i, j \in -1..n : E[i] < E[j] => i < j
<1>1. \A i \in -1..n : i \in Int /\ E[i] \in Int
  BY DEF Fenced
<1>2. ASSUME NEW i \in -1..n, NEW j \in -1..n, i <= j PROVE E[i] <= E[j]
  <2>1. i = j \/ i < j
    BY <1>1, <1>2
  <2>2. i < j => E[i] < E[j]
    BY DEF Fenced
  <2> QED
    BY <1>1, <2>1, <2>2
<1>3. ASSUME NEW i \in -1..n, NEW j \in -1..n, E[i] < E[j] PROVE i < j
  <2>1. ~(j <= i)
    BY <1>1, <1>2, <1>3
  <2> QED
    BY <1>1, <2>1
<1> QED
  BY <1>2, <1>3

\* The parts give the bounds of the nodes, the layers their heights.
LoLaid(n, A, E) == [h \in Cell |-> IF h \in 0..n - 1 THEN E[A[h] - 1] ELSE 0]
HiLaid(n, B, E) == [h \in Cell |-> IF h \in 0..n - 1 THEN E[B[h]] ELSE 0]
TallLaid(n, A, B) == [h \in Link |-> IF h \in 0..n - 1 THEN Layer(B[h] - A[h]) ELSE 0]

LEMMA LaidBounds ==
  ASSUME NEW n \in 1..MaxNodes, NEW A, NEW B, NEW Q, NEW D, NEW E, NEW u,
         Parted(n, A, B, Q), Laws(A, B, Q, 0, n, Nil), Fenced(n, D, E), Laid(u, n, A, B, Q, D)
  PROVE  LET S == 0..n - 1
             lo == LoLaid(n, A, E)
             hi == HiLaid(n, B, E)
         IN /\ Numbers(S, u.data, lo, hi) /\ Between(S, u.data, lo, hi) /\ Nested(S, u.data, lo, hi)
<1>0. MaxNodes \in Nat /\ n \in Nat /\ n <= MaxNodes /\ n > 0
  BY NodesAssumption
<1>1. PICK S : S = 0..n - 1
  OBVIOUS
<1>2. PICK lo : lo = LoLaid(n, A, E)
  OBVIOUS
<1>3. PICK hi : hi = HiLaid(n, B, E)
  OBVIOUS
<1>4. S \subseteq Cell
  BY <1>0, <1>1 DEF Cell
<1>5. \A h \in S : /\ h \in Nat /\ A[h] \in Int /\ B[h] \in Int
                   /\ 0 <= A[h] /\ A[h] <= h /\ h < B[h] /\ B[h] <= n
  BY <1>1 DEF Parted
<1>6. \A h \in S : A[h] - 1 \in -1..n /\ B[h] \in -1..n /\ h \in -1..n
  BY <1>0, <1>5
<1>7. \A i \in -1..n : E[i] \in Int
  BY DEF Fenced
<1>8. \A h \in S : u.data[h] = E[h] /\ lo[h] = E[A[h] - 1] /\ hi[h] = E[B[h]]
  <2>1. \A h \in S : u.data[h] = E[h]
    BY <1>1 DEF Fenced, Laid
  <2> QED
    BY <1>1, <1>2, <1>3, <1>4, <2>1 DEF LoLaid, HiLaid
<1>9. lo \in [Cell -> Int] /\ hi \in [Cell -> Int]
  BY <1>1, <1>2, <1>3, <1>6, <1>7 DEF LoLaid, HiLaid
<1>10. Numbers(S, u.data, lo, hi)
  <2>1. u.data \in [Cell -> Int]
    BY Fields DEF Laid
  <2> QED
    BY <1>4, <1>9, <2>1 DEF Numbers
<1>11. /\ \A i, j \in -1..n : i <= j => E[i] <= E[j]
       /\ \A i, j \in -1..n : i < j => E[i] < E[j]
  <2>1. \A i, j \in -1..n : i <= j => E[i] <= E[j]
    BY <1>0, FenceLaws
  <2> QED
    BY <2>1 DEF Fenced
<1>12. Between(S, u.data, lo, hi)
  <2> SUFFICES ASSUME NEW h \in S PROVE lo[h] < u.data[h] /\ u.data[h] < hi[h]
    BY DEF Between
  <2>1. A[h] - 1 < h /\ h < B[h]
    BY <1>5
  <2> QED
    BY <1>6, <1>8, <1>11, <2>1
<1>13. Nested(S, u.data, lo, hi)
  <2> SUFFICES ASSUME NEW g \in S, NEW h \in S, g # h PROVE Apart(u.data, lo, hi, g, h)
    BY DEF Nested
  <2>1. Split(A, B, g, h)
    <3>1. g \in 0..n - 1 /\ h \in 0..n - 1
      BY <1>1
    <3> QED
      BY <3>1 DEF Laws
  <2>2. /\ g \in Nat /\ A[g] \in Int /\ B[g] \in Int /\ h \in Nat /\ A[h] \in Int /\ B[h] \in Int
        /\ A[g] - 1 \in -1..n /\ B[g] \in -1..n /\ g \in -1..n
        /\ A[h] - 1 \in -1..n /\ B[h] \in -1..n /\ h \in -1..n
    BY <1>5, <1>6
  <2>3. CASE A[g] <= A[h] /\ B[h] <= g
    <3>1. A[g] - 1 <= A[h] - 1
      BY <2>2, <2>3
    <3>2. lo[g] <= lo[h] /\ hi[h] <= u.data[g]
      BY <1>8, <1>11, <2>2, <2>3, <3>1
    <3> QED
      BY <3>2 DEF Apart
  <2>4. CASE g < A[h] /\ B[h] <= B[g]
    <3>1. g <= A[h] - 1
      BY <2>2, <2>4
    <3>2. u.data[g] <= lo[h] /\ hi[h] <= hi[g]
      BY <1>8, <1>11, <2>2, <2>4, <3>1
    <3> QED
      BY <3>2 DEF Apart
  <2>5. CASE A[h] <= A[g] /\ B[g] <= h
    <3>1. A[h] - 1 <= A[g] - 1
      BY <2>2, <2>5
    <3>2. lo[h] <= lo[g] /\ hi[g] <= u.data[h]
      BY <1>8, <1>11, <2>2, <2>5, <3>1
    <3> QED
      BY <3>2 DEF Apart
  <2>6. CASE h < A[g] /\ B[g] <= B[h]
    <3>1. h <= A[g] - 1
      BY <2>2, <2>6
    <3>2. u.data[h] <= lo[g] /\ hi[g] <= hi[h]
      BY <1>8, <1>11, <2>2, <2>6, <3>1
    <3> QED
      BY <3>2 DEF Apart
  <2>7. CASE B[g] < A[h]
    <3>1. B[g] <= A[h] - 1
      BY <2>2, <2>7
    <3>2. hi[g] <= lo[h]
      BY <1>8, <1>11, <2>2, <3>1
    <3> QED
      BY <3>2 DEF Apart
  <2>8. CASE B[h] < A[g]
    <3>1. B[h] <= A[g] - 1
      BY <2>2, <2>8
    <3>2. hi[h] <= lo[g]
      BY <1>8, <1>11, <2>2, <3>1
    <3> QED
      BY <3>2 DEF Apart
  <2> QED
    BY <2>1, <2>3, <2>4, <2>5, <2>6, <2>7, <2>8 DEF Split
<1> QED
  BY <1>1, <1>2, <1>3, <1>10, <1>12, <1>13

LEMMA LaidLinks ==
  ASSUME NEW n \in 1..MaxNodes, NEW A, NEW B, NEW Q, NEW D, NEW E, NEW u,
         Parted(n, A, B, Q), Laws(A, B, Q, 0, n, Nil), Fenced(n, D, E), Laid(u, n, A, B, Q, D)
  PROVE  LET S == 0..n - 1
             lo == LoLaid(n, A, E)
             hi == HiLaid(n, B, E)
         IN /\ Kids(S, u.child, u.hParent, u.data, lo, hi)
            /\ Parents(S, u.hHead, u.child, u.hParent)
            /\ Root(S, u.hHead, u.hParent, lo, hi)
<1>0. MaxNodes \in Nat /\ n \in Nat /\ n <= MaxNodes /\ n > 0
  BY NodesAssumption
<1>1. PICK S : S = 0..n - 1
  OBVIOUS
<1>2. PICK lo : lo = LoLaid(n, A, E)
  OBVIOUS
<1>3. PICK hi : hi = HiLaid(n, B, E)
  OBVIOUS
<1>4. S \subseteq Cell
  BY <1>0, <1>1 DEF Cell
<1>5. \A h \in S : /\ h \in Nat /\ A[h] \in Int /\ B[h] \in Int
                   /\ 0 <= A[h] /\ A[h] <= h /\ h < B[h] /\ B[h] <= n
  BY <1>1 DEF Parted
<1>6. \A h \in S : A[h] - 1 \in -1..n /\ B[h] \in -1..n /\ h \in -1..n
  BY <1>0, <1>5
<1>7. \A h \in S : u.data[h] = E[h] /\ lo[h] = E[A[h] - 1] /\ hi[h] = E[B[h]]
  <2>1. \A h \in S : u.data[h] = E[h]
    BY <1>1 DEF Fenced, Laid
  <2> QED
    BY <1>1, <1>2, <1>3, <1>4, <2>1 DEF LoLaid, HiLaid
<1>8. \A h \in S :
         /\ u.child["hLeft"][h] = IF A[h] = h THEN Nil ELSE (A[h] + h) \div 2
         /\ u.child["hRight"][h] = IF h + 1 = B[h] THEN Nil ELSE (h + 1 + B[h]) \div 2
         /\ u.hParent[h] = Q[h]
  BY <1>1 DEF Laid
<1>9. /\ \A i, j \in -1..n : i <= j => E[i] <= E[j]
      /\ \A i, j \in -1..n : E[i] < E[j] => i < j
  BY <1>0, FenceLaws
<1>10. \A h \in S :
         /\ h = (A[h] + B[h]) \div 2
         /\ A[h] < h => LET c == (A[h] + h) \div 2 IN A[c] = A[h] /\ B[c] = h /\ Q[c] = h
         /\ h + 1 < B[h] => LET c == (h + 1 + B[h]) \div 2 IN A[c] = h + 1 /\ B[c] = B[h] /\ Q[c] = h
         /\ \/ A[h] = 0 /\ B[h] = n /\ Q[h] = Nil
            \/ Q[h] \in S /\ Q[h] # h /\ Halved2(A, B, Q, h, Q[h])
  <2>1. ASSUME NEW h \in 0..n - 1
        PROVE  /\ Halves(A, B, Q, h)
               /\ \/ A[h] = 0 /\ B[h] = n /\ Q[h] = Nil
                  \/ Q[h] \in 0..n - 1 /\ Q[h] # h /\ Halved2(A, B, Q, h, Q[h])
    BY DEF Laws
  <2> QED
    BY <1>1, <2>1 DEF Halves
<1>11. Kids(S, u.child, u.hParent, u.data, lo, hi)
  <2>1. ASSUME NEW h \in S PROVE Kid(S, u.child, u.hParent, u.data, lo, hi, "hLeft", h)
    <3>1. Low(u.data, lo, "hLeft", h) = lo[h] /\ Upp(u.data, hi, "hLeft", h) = u.data[h]
      BY DEF Low, Upp
    <3>2. CASE A[h] = h
      <4>1. u.child["hLeft"][h] = Nil
        BY <1>8, <3>2
      <4>2. ASSUME NEW g \in S, lo[h] < u.data[g], u.data[g] < u.data[h] PROVE FALSE
        <5>1. E[h - 1] < E[g] /\ E[g] < E[h] /\ h - 1 \in -1..n /\ h \in -1..n /\ g \in -1..n
          BY <1>6, <1>7, <3>2, <4>2
        <5>2. h - 1 < g /\ g < h
          BY <1>9, <5>1
        <5> QED
          BY <1>5, <5>2
      <4> QED
        BY <3>1, <4>1, <4>2 DEF Kid
    <3>3. CASE A[h] # h
      <4>1. PICK c : c = (A[h] + h) \div 2
        OBVIOUS
      <4>2. A[h] < h /\ c \in S
        BY <1>0, <1>1, <1>5, <3>3, <4>1
      <4>3. u.child["hLeft"][h] = c /\ A[c] = A[h] /\ B[c] = h /\ Q[c] = h
        BY <1>8, <1>10, <3>3, <4>1, <4>2
      <4>4. u.hParent[c] = h /\ lo[c] = lo[h] /\ hi[c] = u.data[h]
        BY <1>7, <1>8, <4>2, <4>3
      <4> QED
        BY <3>1, <4>2, <4>3, <4>4 DEF Kid
    <3> QED
      BY <3>2, <3>3
  <2>2. ASSUME NEW h \in S PROVE Kid(S, u.child, u.hParent, u.data, lo, hi, "hRight", h)
    <3>1. Low(u.data, lo, "hRight", h) = u.data[h] /\ Upp(u.data, hi, "hRight", h) = hi[h]
      BY DEF Low, Upp
    <3>2. CASE h + 1 = B[h]
      <4>1. u.child["hRight"][h] = Nil
        BY <1>8, <3>2
      <4>2. ASSUME NEW g \in S, u.data[h] < u.data[g], u.data[g] < hi[h] PROVE FALSE
        <5>1. E[h] < E[g] /\ E[g] < E[B[h]] /\ B[h] \in -1..n /\ h \in -1..n /\ g \in -1..n
          BY <1>6, <1>7, <4>2
        <5>2. h < g /\ g < B[h]
          BY <1>9, <5>1
        <5> QED
          BY <1>5, <3>2, <5>2
      <4> QED
        BY <3>1, <4>1, <4>2 DEF Kid
    <3>3. CASE h + 1 # B[h]
      <4>1. PICK c : c = (h + 1 + B[h]) \div 2
        OBVIOUS
      <4>2. h + 1 < B[h] /\ c \in S
        BY <1>0, <1>1, <1>5, <3>3, <4>1
      <4>3. u.child["hRight"][h] = c /\ A[c] = h + 1 /\ B[c] = B[h] /\ Q[c] = h
        BY <1>8, <1>10, <3>3, <4>1, <4>2
      <4>4. A[c] - 1 = h
        BY <1>5, <4>3
      <4>5. u.hParent[c] = h /\ lo[c] = u.data[h] /\ hi[c] = hi[h]
        BY <1>7, <1>8, <4>2, <4>3, <4>4
      <4> QED
        BY <3>1, <4>2, <4>3, <4>5 DEF Kid
    <3> QED
      BY <3>2, <3>3
  <2> QED
    BY <2>1, <2>2 DEF Kids, Side
<1>12. Parents(S, u.hHead, u.child, u.hParent)
  <2> SUFFICES ASSUME NEW h \in S
               PROVE  \/ u.hParent[h] = Nil /\ u.hHead = h
                      \/ u.hParent[h] \in S /\ \E f \in Side : u.child[f][u.hParent[h]] = h
    BY DEF Parents
  <2>1. CASE A[h] = 0 /\ B[h] = n /\ Q[h] = Nil
    <3>1. h = n \div 2
      BY <1>0, <1>10, <2>1
    <3>2. u.hHead = n \div 2
      BY DEF Laid
    <3> QED
      BY <1>8, <2>1, <3>1, <3>2
  <2>2. CASE Q[h] \in S /\ Q[h] # h /\ Halved2(A, B, Q, h, Q[h])
    <3>1. PICK k \in S : k = Q[h]
      BY <2>2
    <3>2. u.hParent[h] = k
      BY <1>8, <3>1
    <3>3. CASE A[h] = A[k] /\ B[h] = k
      <4>1. A[k] # k /\ h = (A[k] + k) \div 2
        BY <1>5, <1>10, <3>3
      <4>2. u.child["hLeft"][k] = h
        BY <1>8, <4>1
      <4> QED
        BY <3>2, <4>2 DEF Side
    <3>4. CASE A[h] = k + 1 /\ B[h] = B[k]
      <4>1. k + 1 # B[k] /\ h = (k + 1 + B[k]) \div 2
        BY <1>5, <1>10, <3>4
      <4>2. u.child["hRight"][k] = h
        BY <1>8, <4>1
      <4> QED
        BY <3>2, <4>2 DEF Side
    <3> QED
      BY <2>2, <3>1, <3>3, <3>4 DEF Halved2
  <2> QED
    BY <1>10, <2>1, <2>2
<1>13. Root(S, u.hHead, u.hParent, lo, hi)
  <2>1. PICK m : m = n \div 2
    OBVIOUS
  <2>2. m \in S /\ (0 + n) \div 2 = m
    BY <1>0, <1>1, <2>1
  <2>3. A[m] = 0 /\ B[m] = n /\ Q[m] = Nil
    BY <1>0, <2>2 DEF Laws
  <2>4. u.hHead = m /\ u.hParent[m] = Nil
    BY <1>8, <2>1, <2>2, <2>3 DEF Laid
  <2>5. ASSUME NEW h \in S PROVE lo[m] <= lo[h] /\ hi[h] <= hi[m]
    <3>1. 0 - 1 <= A[h] - 1 /\ B[h] <= n
      BY <1>5
    <3>2. lo[m] = E[0 - 1] /\ hi[m] = E[n]
      BY <1>7, <2>2, <2>3
    <3>3. 0 - 1 \in -1..n /\ n \in -1..n
      BY <1>0
    <3> QED
      BY <1>6, <1>7, <1>9, <3>1, <3>2, <3>3
  <2> QED
    BY <2>2, <2>4, <2>5 DEF Root
<1> QED
  BY <1>1, <1>2, <1>3, <1>11, <1>12, <1>13

LEMMA LaidEven ==
  ASSUME NEW n \in 1..MaxNodes, NEW A, NEW B, NEW Q, NEW D, NEW u,
         Parted(n, A, B, Q), Laws(A, B, Q, 0, n, Nil), Laid(u, n, A, B, Q, D)
  PROVE  Even(0..n - 1, u.child, u.bf, TallLaid(n, A, B), Nil, "hLeft", 0)
<1>0. MaxNodes \in Nat /\ n \in Nat /\ n <= MaxNodes /\ n > 0
  BY NodesAssumption
<1>1. PICK S : S = 0..n - 1
  OBVIOUS
<1>2. PICK ht : ht = TallLaid(n, A, B)
  OBVIOUS
<1>3. S \subseteq Link /\ Nil \in Link /\ Nil \notin S
  BY <1>0, <1>1 DEF Link, Cell, Nil
<1>4. \A h \in S : /\ h \in Nat /\ A[h] \in Int /\ B[h] \in Int
                   /\ 0 <= A[h] /\ A[h] <= h /\ h < B[h] /\ B[h] <= n
  BY <1>1 DEF Parted
<1>5. \A h \in S : B[h] - A[h] \in 1..MaxNodes
  BY <1>0, <1>4
<1>6. \A k \in 0..MaxNodes : Layer(k) \in Nat
  BY LayerHalved
<1>7. ht \in [Link -> Nat] /\ ht[Nil] = 0 /\ \A h \in S : ht[h] = Layer(B[h] - A[h])
  <2>1. \A k \in 1..MaxNodes : Layer(k) \in Nat
    BY <1>0, <1>6
  <2>2. \A h \in S : Layer(B[h] - A[h]) \in Nat
    BY <1>5, <2>1
  <2> QED
    BY <1>1, <1>2, <1>3, <2>2 DEF TallLaid
<1>8. \A h \in S :
         /\ u.child["hLeft"][h] = IF A[h] = h THEN Nil ELSE (A[h] + h) \div 2
         /\ u.child["hRight"][h] = IF h + 1 = B[h] THEN Nil ELSE (h + 1 + B[h]) \div 2
         /\ u.bf[h] = Layer(h - A[h]) - Layer(B[h] - h - 1)
  BY <1>1 DEF Laid
<1>9. \A h \in S :
         /\ h = (A[h] + B[h]) \div 2
         /\ A[h] < h => LET c == (A[h] + h) \div 2 IN A[c] = A[h] /\ B[c] = h
         /\ h + 1 < B[h] => LET c == (h + 1 + B[h]) \div 2 IN A[c] = h + 1 /\ B[c] = B[h]
  <2>1. ASSUME NEW h \in 0..n - 1
        PROVE  Halves(A, B, Q, h)
    BY DEF Laws
  <2> QED
    BY <1>1, <2>1 DEF Halves
<1>10. ASSUME NEW h \in S PROVE EvenAt(u.child, u.bf, ht, Nil, "hLeft", 0, h)
  <2>1. PICK a \in Int, b \in Int : a = A[h] /\ b = B[h]
    BY <1>4
  <2>2. h \in Nat /\ 0 <= a /\ a <= h /\ h < b /\ b <= n /\ h = (a + b) \div 2
    BY <1>4, <1>9, <2>1
  <2>3. PICK s \in Nat : s = h - a
    BY <2>2
  <2>4. PICK r \in Nat : r = b - h - 1
    BY <2>2
  <2>5. s \in 0..MaxNodes /\ r \in 0..MaxNodes /\ (r = s \/ r = s - 1)
        /\ b - a \in 1..MaxNodes /\ (b - a) \div 2 = s /\ (r = s - 1 => s \in 1..MaxNodes)
    BY <1>0, <2>2, <2>3, <2>4
  <2>6. PICK x \in Nat, y \in Nat : x = Layer(s) /\ y = Layer(r)
    BY <1>6, <2>5
  <2>7. ht[h] = 1 + x
    BY <1>7, <2>1, <2>5, <2>6, LayerHalved
  <2>8. x = y \/ x = y + 1
    <3>1. CASE r = s
      BY <2>6, <3>1
    <3>2. CASE r = s - 1
      <4>1. Layer(s) - Layer(s - 1) \in {0, 1}
        BY <2>5, <3>2, LayerHalved
      <4>2. x - y = 0 \/ x - y = 1
        BY <2>6, <3>2, <4>1
      <4> QED
        BY <4>2
    <3> QED
      BY <2>5, <3>1, <3>2
  <2>9. ht[u.child["hLeft"][h]] = x
    <3>1. CASE a = h
      <4>1. s = 0
        BY <2>3, <3>1, <2>2
      <4>2. u.child["hLeft"][h] = Nil
        BY <1>8, <2>1, <3>1
      <4> QED
        BY <1>7, <2>6, <4>1, <4>2, LayerHalved
    <3>2. CASE a # h
      <4>1. PICK c : c = (a + h) \div 2
        OBVIOUS
      <4>2. a < h /\ c \in S
        BY <1>0, <1>1, <2>2, <3>2, <4>1
      <4>3. u.child["hLeft"][h] = c /\ A[c] = a /\ B[c] = h
        BY <1>8, <1>9, <2>1, <3>2, <4>1, <4>2
      <4>4. ht[c] = Layer(B[c] - A[c])
        BY <1>7, <4>2
      <4> QED
        BY <2>3, <2>6, <4>3, <4>4
    <3> QED
      BY <3>1, <3>2
  <2>10. ht[u.child["hRight"][h]] = y
    <3>1. CASE h + 1 = b
      <4>1. r = 0
        BY <2>4, <3>1, <2>2
      <4>2. u.child["hRight"][h] = Nil
        BY <1>8, <2>1, <3>1
      <4> QED
        BY <1>7, <2>6, <4>1, <4>2, LayerHalved
    <3>2. CASE h + 1 # b
      <4>1. PICK c : c = (h + 1 + b) \div 2
        OBVIOUS
      <4>2. h + 1 < b /\ c \in S
        BY <1>0, <1>1, <2>2, <3>2, <4>1
      <4>3. u.child["hRight"][h] = c /\ A[c] = h + 1 /\ B[c] = b
        BY <1>8, <1>9, <2>1, <3>2, <4>1, <4>2
      <4>4. ht[c] = Layer(B[c] - A[c])
        BY <1>7, <4>2
      <4>5. b - (h + 1) = r
        BY <2>2, <2>4
      <4> QED
        BY <2>6, <4>3, <4>4, <4>5
    <3> QED
      BY <3>1, <3>2
  <2>11. u.bf[h] = x - y
    BY <1>8, <2>1, <2>3, <2>4, <2>6
  <2>12. /\ \A t \in Side : Tall(u.child, ht, Nil, "hLeft", 0, t, h) = ht[u.child[t][h]]
         /\ Other("hLeft") = "hRight" /\ Other("hRight") = "hLeft"
         /\ Higher("hLeft") = 1 /\ Higher("hRight") = -1 /\ EH = 0
    BY <1>3 DEF Tall, Other, Higher, LH, RH, EH
  <2>13. PICK L : L = ht[u.child["hLeft"][h]]
    OBVIOUS
  <2>14. PICK R : R = ht[u.child["hRight"][h]]
    OBVIOUS
  <2>15. \/ u.bf[h] = 0 /\ L = R /\ ht[h] = L + 1 /\ ht[h] = R + 1
         \/ u.bf[h] = 1 /\ L = R + 1 /\ ht[h] = L + 1
    BY <2>7, <2>8, <2>9, <2>10, <2>11, <2>13, <2>14
  <2>16. /\ Tall(u.child, ht, Nil, "hLeft", 0, "hLeft", h) = L
         /\ Tall(u.child, ht, Nil, "hLeft", 0, "hRight", h) = R
    BY <2>12, <2>13, <2>14 DEF Side
  <2> QED
    BY <2>12, <2>15, <2>16 DEF EvenAt, Side
<1>11. Even(S, u.child, u.bf, ht, Nil, "hLeft", 0)
  BY <1>7, <1>10 DEF Even
<1> QED
  BY <1>1, <1>2, <1>11

\* A set just rebuilt.
Anew(ks, u) ==
  /\ OneTree(u) /\ u.array_size = Cardinality(ks) /\ {u.data[h] : h \in Live(u)} = ks

LEMMA RebuiltOK ==
  ASSUME NEW ks \in SUBSET Key, IsFiniteSet(ks), Cardinality(ks) \in 1..MaxNodes
  PROVE  Anew(ks, Rebuilt(ks))
<1>1. PICK n \in 1..MaxNodes : n = Cardinality(ks)
  OBVIOUS
<1>2. MaxNodes \in Nat /\ n \in Nat /\ n <= MaxNodes /\ n > 0 /\ ks \in SUBSET Nat
  BY NodesAssumption, KeyAssumption
<1>3. PICK A, B, Q : /\ A \in [0..n - 1 -> Int] /\ B \in [0..n - 1 -> Int] /\ Q \in [0..n - 1 -> Link]
                     /\ \A i \in 0..n - 1 : Part(n, i) = Piece(A[i], B[i], Q[i])
                     /\ Laws(A, B, Q, 0, n, Nil)
  BY PartLaws
<1>4. Parted(n, A, B, Q)
  <2>1. ASSUME NEW i \in 0..n - 1 PROVE 0 <= A[i] /\ A[i] <= i /\ i < B[i] /\ B[i] <= n
    BY <1>3 DEF Laws, Halves
  <2> QED
    BY <1>3, <2>1 DEF Parted
<1>5. PICK D : /\ SortedKeys(ks, n, D)
               /\ \A h \in 0..n - 1 : D[h] = CHOOSE k \in ks : Cardinality({j \in ks : j < k}) = h
  <2>1. Sorts(ks, n)
    BY <1>1, <1>2, SortedIs
  <2> QED
    BY <2>1 DEF Sorts
<1>6. D \in [0..n - 1 -> ks] /\ \A k \in ks : \E h \in 0..n - 1 : D[h] = k
  BY <1>5 DEF SortedKeys
<1>7. PICK u : u = Rebuilt(ks)
  OBVIOUS
<1>8. Laid(u, n, A, B, Q, D)
  BY <1>1, <1>2, <1>4, <1>5, <1>6, <1>7, RebuiltIs
<1>9. PICK E : Fenced(n, D, E)
  BY <1>2, <1>5, FencedIs
<1>10. PICK S : S = 0..n - 1
  OBVIOUS
<1>11. PICK lo : lo = LoLaid(n, A, E)
  OBVIOUS
<1>12. PICK hi : hi = HiLaid(n, B, E)
  OBVIOUS
<1>13. PICK ht : ht = TallLaid(n, A, B)
  OBVIOUS
<1>14. Numbers(S, u.data, lo, hi) /\ Between(S, u.data, lo, hi) /\ Nested(S, u.data, lo, hi)
  BY <1>3, <1>4, <1>8, <1>9, <1>10, <1>11, <1>12, LaidBounds
<1>15. /\ Kids(S, u.child, u.hParent, u.data, lo, hi)
       /\ Parents(S, u.hHead, u.child, u.hParent)
       /\ Root(S, u.hHead, u.hParent, lo, hi)
  BY <1>3, <1>4, <1>8, <1>9, <1>10, <1>11, <1>12, LaidLinks
<1>16. Even(S, u.child, u.bf, ht, Nil, "hLeft", 0)
  BY <1>3, <1>4, <1>8, <1>10, <1>13, LaidEven
<1>17. /\ u \in TreeType /\ u.free_head = Nil /\ u.size = n /\ u.array_size = n
       /\ \A h \in Cell : /\ u.deleted[h] = FALSE
                          /\ h >= n => \A f \in Side : u.child[f][h] = Nil
       /\ \A h \in S : u.data[h] = D[h]
  BY <1>8, <1>10 DEF Laid
<1>18. AVL(u, S, lo, hi, ht)
  BY <1>14, <1>15, <1>16, <1>17 DEF AVL, Tree, Shape
<1>19. \A h \in Cell : h \notin S => h >= n
  BY <1>2, <1>10 DEF Cell
<1>20. Bare(u, S)
  BY <1>17, <1>19 DEF Bare
<1>21. PICK rk : rk = [h \in Link |-> 0]
  OBVIOUS
<1>22. rk \in [Link -> Nat] /\ rk[Nil] = 0
  BY <1>21 DEF Link
<1>23. Free(u, S) = {}
  BY <1>10, <1>17 DEF Free
<1>24. Chain(u, {}, rk)
  BY <1>17, <1>22 DEF Chain
<1>25. Counted(u, S, rk)
  <2>1. Cardinality(S) = n
    BY <1>2, <1>10, FS_Interval
  <2>2. \A h \in 0..n - 1 : u.deleted[h] <=> h \notin S
    <3>1. \A h \in 0..n - 1 : h \in Cell
      BY <1>2 DEF Cell
    <3> QED
      BY <1>10, <1>17, <3>1
  <2>3. n \in 0..MaxNodes /\ n - n = 0
    BY <1>2
  <2> QED
    BY <1>10, <1>17, <1>22, <2>1, <2>2, <2>3 DEF Counted
<1>26. \A h \in S : u.data[h] \in Key
  BY <1>6, <1>10, <1>17
<1>27. Sound(u, S, lo, hi, ht, rk)
  BY <1>18, <1>20, <1>23, <1>24, <1>25, <1>26 DEF Sound, Chained
<1>28. OneTree(u)
  BY <1>27 DEF OneTree
<1>29. Live(u) = S
  BY <1>27, LiveIs
<1>30. {u.data[h] : h \in S} = ks
  BY <1>6, <1>10, <1>17
<1> QED
  BY <1>1, <1>7, <1>17, <1>28, <1>29, <1>30 DEF Anew

-----------------------------------------------------------------------------
(* What the invariant of the set looks at: the nodes below each node, and   *)
(* the heights.                                                             *)

Span(t, S, x, y) == {g \in S : x < t.data[g] /\ t.data[g] < y}

LEMMA BelowIs ==
  ASSUME NEW t, NEW S, NEW lo, NEW hi, NEW ht, AVL(t, S, lo, hi, ht), Bare(t, S)
  PROVE  /\ Below(t)[Nil] = {} /\ \A h \in S : Below(t)[h] = Span(t, S, lo[h], hi[h])
         /\ InTree(t) = S
<1>1. /\ t \in TreeType /\ Tree(t, S, lo, hi) /\ S \in SUBSET Cell /\ Nil \notin S /\ S \subseteq Link
      /\ ht \in [Link -> Nat]
      /\ \A h \in S : /\ lo[h] \in Int /\ hi[h] \in Int /\ t.data[h] \in Int
                      /\ lo[h] < t.data[h] /\ t.data[h] < hi[h]
      /\ t.hHead = Nil \/ t.hHead \in S
  BY AVLFacts
<1>2. PICK c : c = [kind |-> "below", t |-> t]
  OBVIOUS
<1>3. \A F, x : Body(c, F, x) = BelowBody(t, F, x)
  BY <1>2 DEF Body
<1>4. PICK m : m = Depth(S, ht)
  OBVIOUS
<1>5. DepthLaws(t, S, ht, m)
  BY <1>4, DepthFalls
<1>6. Grounded(c, Link, m)
  <2> SUFFICES ASSUME NEW x \in Link, NEW F, NEW G,
                      \A y \in Link : m[y] < m[x] => F[y] = G[y]
               PROVE  BelowBody(t, F, x) = BelowBody(t, G, x)
    BY <1>3 DEF Grounded
  <2>1. CASE x = Nil
    BY <2>1 DEF BelowBody
  <2>2. CASE x # Nil
    <3>1. x \in Cell /\ "hLeft" \in Side /\ "hRight" \in Side
      BY <1>5, <2>2 DEF DepthLaws, Side
    <3>2. F[t.child["hLeft"][x]] = G[t.child["hLeft"][x]] /\ F[t.child["hRight"][x]] = G[t.child["hRight"][x]]
      BY <1>5, <3>1 DEF DepthLaws
    <3> QED
      BY <2>2, <3>2 DEF BelowBody
  <2> QED
    BY <2>1, <2>2
<1>7. \E F : F = [x \in Link |-> Body(c, F, x)]
  <2>1. m \in [Link -> Nat]
    BY <1>5 DEF DepthLaws
  <2> QED
    BY <1>6, <2>1, Defined
<1>8. PICK F : F = [x \in Link |-> BelowBody(t, F, x)] /\ Below(t) = F
  <2>1. \E F : F = [x \in Link |-> BelowBody(t, F, x)]
    BY <1>3, <1>7
  <2> QED
    BY <2>1 DEF Below, BelowBody
<1>9. \A x \in Link : F[x] = BelowBody(t, F, x)
  BY <1>8
<1>10. F[Nil] = {} /\ Nil \in Link
  BY <1>9 DEF BelowBody, Link
<1> DEFINE T == {x \in S : F[x] = Span(t, S, lo[x], hi[x])}
<1>11. PICK n : n = [x \in S |-> ht[x]]
  OBVIOUS
<1>12. n \in [S -> Nat] /\ \A x \in S : n[x] = ht[x]
  BY <1>1, <1>11
<1>13. ASSUME NEW x \in S, \A y \in S : n[y] < n[x] => y \in T PROVE x \in T
  <2>1. ASSUME NEW f \in Side
        PROVE  F[t.child[f][x]] = Span(t, S, Low(t.data, lo, f, x), Upp(t.data, hi, f, x))
    <3>1. PICK y : y = t.child[f][x]
      OBVIOUS
    <3>2. CASE y = Nil
      <4>1. \A g \in S : ~(Low(t.data, lo, f, x) < t.data[g] /\ t.data[g] < Upp(t.data, hi, f, x))
        BY <3>1, <3>2, AVLFacts
      <4> QED
        BY <1>10, <3>1, <3>2, <4>1 DEF Span
    <3>3. CASE y # Nil
      <4>1. y \in S
        BY <3>1, <3>3, AVLFacts
      <4>2. n[y] < n[x]
        BY <1>12, <3>1, <4>1, Falls
      <4>3. lo[y] = Low(t.data, lo, f, x) /\ hi[y] = Upp(t.data, hi, f, x)
        BY <1>1, <3>1, <4>1, OneParent
      <4> QED
        BY <1>13, <3>1, <4>1, <4>2, <4>3
    <3> QED
      BY <3>2, <3>3
  <2>2. /\ F[t.child["hLeft"][x]] = Span(t, S, lo[x], t.data[x])
        /\ F[t.child["hRight"][x]] = Span(t, S, t.data[x], hi[x])
    <3>1. "hLeft" \in Side /\ "hRight" \in Side
      BY DEF Side
    <3>2. /\ Low(t.data, lo, "hLeft", x) = lo[x] /\ Upp(t.data, hi, "hLeft", x) = t.data[x]
          /\ Low(t.data, lo, "hRight", x) = t.data[x] /\ Upp(t.data, hi, "hRight", x) = hi[x]
      BY DEF Low, Upp
    <3> QED
      BY <2>1, <3>1, <3>2
  <2>3. F[x] = {x} \cup Span(t, S, lo[x], t.data[x]) \cup Span(t, S, t.data[x], hi[x])
    BY <1>1, <1>9, <2>2 DEF BelowBody
  <2>4. ASSUME NEW g
        PROVE  g \in F[x] <=> g \in Span(t, S, lo[x], hi[x])
    <3>1. \A h \in S : t.data[h] \in Int /\ (h # x => t.data[h] # t.data[x])
      BY <1>1, DataDiffer
    <3>2. lo[x] \in Int /\ hi[x] \in Int /\ t.data[x] \in Int /\ lo[x] < t.data[x] /\ t.data[x] < hi[x]
      BY <1>1
    <3> QED
      BY <2>3, <3>1, <3>2 DEF Span
  <2> QED
    BY <2>4
<1> HIDE DEF T
<1>14. S \subseteq T
  BY <1>12, <1>13, Deep
<1>15. \A h \in S : F[h] = Span(t, S, lo[h], hi[h])
  BY <1>14 DEF T
<1>16. F[t.hHead] = S
  <2>1. CASE t.hHead = Nil
    <3>1. S = {}
      BY <1>1, <2>1 DEF Tree, Shape, Root
    <3> QED
      BY <1>10, <2>1, <3>1
  <2>2. CASE t.hHead # Nil
    <3>1. PICK g \in S : g = t.hHead
      BY <1>1, <2>2
    <3>2. \A h \in S : lo[g] <= lo[h] /\ hi[h] <= hi[g]
      BY <1>1, <2>2, <3>1 DEF Tree, Shape, Root
    <3>3. \A h \in S : lo[g] < t.data[h] /\ t.data[h] < hi[g]
      BY <1>1, <3>1, <3>2
    <3>4. Span(t, S, lo[g], hi[g]) = S
      BY <3>3 DEF Span
    <3> QED
      BY <1>15, <3>1, <3>4
  <2> QED
    BY <2>1, <2>2
<1> QED
  BY <1>8, <1>10, <1>15, <1>16 DEF InTree

LEMMA TallIs ==
  ASSUME NEW t, NEW S, NEW lo, NEW hi, NEW ht, AVL(t, S, lo, hi, ht), Bare(t, S)
  PROVE  Height(t)[Nil] = 0 /\ \A h \in S : Height(t)[h] = ht[h]
<1>1. /\ t \in TreeType /\ S \in SUBSET Cell /\ Nil \notin S /\ S \subseteq Link
      /\ ht \in [Link -> Nat] /\ ht[Nil] = 0
  BY AVLFacts
<1>2. PICK c : c = [kind |-> "tall", t |-> t]
  OBVIOUS
<1>3. \A F, x : Body(c, F, x) = TallBody(t, F, x)
  BY <1>2 DEF Body
<1>4. PICK m : m = Depth(S, ht)
  OBVIOUS
<1>5. DepthLaws(t, S, ht, m)
  BY <1>4, DepthFalls
<1>6. Grounded(c, Link, m)
  <2> SUFFICES ASSUME NEW x \in Link, NEW F, NEW G,
                      \A y \in Link : m[y] < m[x] => F[y] = G[y]
               PROVE  TallBody(t, F, x) = TallBody(t, G, x)
    BY <1>3 DEF Grounded
  <2>1. CASE x = Nil
    BY <2>1 DEF TallBody
  <2>2. CASE x # Nil
    <3>1. x \in Cell /\ "hLeft" \in Side /\ "hRight" \in Side
      BY <1>5, <2>2 DEF DepthLaws, Side
    <3>2. F[t.child["hLeft"][x]] = G[t.child["hLeft"][x]] /\ F[t.child["hRight"][x]] = G[t.child["hRight"][x]]
      BY <1>5, <3>1 DEF DepthLaws
    <3> QED
      BY <2>2, <3>2 DEF TallBody
  <2> QED
    BY <2>1, <2>2
<1>7. \E F : F = [x \in Link |-> Body(c, F, x)]
  <2>1. m \in [Link -> Nat]
    BY <1>5 DEF DepthLaws
  <2> QED
    BY <1>6, <2>1, Defined
<1>8. PICK F : F = [x \in Link |-> TallBody(t, F, x)] /\ Height(t) = F
  <2>1. \E F : F = [x \in Link |-> TallBody(t, F, x)]
    BY <1>3, <1>7
  <2> QED
    BY <2>1 DEF Height, TallBody
<1>9. \A x \in Link : F[x] = TallBody(t, F, x)
  BY <1>8
<1>10. F[Nil] = 0 /\ Nil \in Link
  BY <1>9 DEF TallBody, Link
<1> DEFINE T == {x \in S : F[x] = ht[x]}
<1>11. PICK n : n = [x \in S |-> ht[x]]
  OBVIOUS
<1>12. n \in [S -> Nat] /\ \A x \in S : n[x] = ht[x]
  BY <1>1, <1>11
<1>13. ASSUME NEW x \in S, \A y \in S : n[y] < n[x] => y \in T PROVE x \in T
  <2>1. ASSUME NEW f \in Side PROVE F[t.child[f][x]] = ht[t.child[f][x]] /\ ht[t.child[f][x]] \in Nat
    <3>1. PICK y : y = t.child[f][x]
      OBVIOUS
    <3>2. CASE y = Nil
      BY <1>1, <1>10, <3>1, <3>2
    <3>3. CASE y # Nil
      <4>1. y \in S
        BY <3>1, <3>3, AVLFacts
      <4>2. n[y] < n[x]
        BY <1>12, <3>1, <4>1, Falls
      <4> QED
        BY <1>1, <1>13, <3>1, <4>1, <4>2
    <3> QED
      BY <3>2, <3>3
  <2>2. "hLeft" \in Side /\ "hRight" \in Side /\ Other("hLeft") = "hRight"
    BY DEF Side, Other
  <2>3. PICK a \in Nat : a = ht[t.child["hLeft"][x]]
    BY <2>1, <2>2
  <2>4. PICK b \in Nat : b = ht[t.child["hRight"][x]]
    BY <2>1, <2>2
  <2>5. EvenAt(t.child, t.bf, ht, Nil, "hLeft", 0, x)
    BY DEF AVL, Even
  <2>6. /\ Tall(t.child, ht, Nil, "hLeft", 0, "hLeft", x) = a
        /\ Tall(t.child, ht, Nil, "hLeft", 0, "hRight", x) = b
    BY <1>1, <2>3, <2>4 DEF Tall
  <2>7. \/ a = b /\ ht[x] = a + 1
        \/ a = b + 1 /\ ht[x] = a + 1
        \/ b = a + 1 /\ ht[x] = b + 1
    BY <2>2, <2>5, <2>6 DEF EvenAt
  <2>8. F[x] = 1 + Higher2(a, b)
    <3>1. F[t.child["hLeft"][x]] = a /\ F[t.child["hRight"][x]] = b
      BY <2>1, <2>2, <2>3, <2>4
    <3> QED
      BY <1>1, <1>9, <3>1 DEF TallBody
  <2>9. ht[x] = 1 + Higher2(a, b)
    BY <2>7 DEF Higher2
  <2> QED
    BY <2>8, <2>9
<1> HIDE DEF T
<1>14. S \subseteq T
  BY <1>12, <1>13, Deep
<1>15. \A h \in S : F[h] = ht[h]
  BY <1>14 DEF T
<1> QED
  BY <1>8, <1>10, <1>15

\* The free list goes through the cells that are not nodes.
LEMMA FreeListIs ==
  ASSUME NEW t \in TreeType, NEW S, NEW rk, Chained(t, S, rk)
  PROVE  /\ FreeList(t)[MaxNodes] = Nil
         /\ {FreeList(t)[n] : n \in 0..MaxNodes} \ {Nil} = Free(t, S)
<1>0. MaxNodes \in Nat
  BY NodesAssumption
<1>1. PICK X : X = 0..MaxNodes
  OBVIOUS
<1>2. X \subseteq Nat /\ 0 \in X /\ MaxNodes \in X /\ \A i \in X : i = 0 \/ i - 1 \in X
  BY <1>0, <1>1
<1>3. PICK c : c = [kind |-> "free", t |-> t]
  OBVIOUS
<1>4. \A F, x : Body(c, F, x) = FreeBody(t, F, x)
  BY <1>3 DEF Body
<1>5. PICK m : m = [i \in X |-> i]
  OBVIOUS
<1>6. m \in [X -> Nat] /\ \A i \in X : m[i] = i
  BY <1>2, <1>5
<1>7. Grounded(c, X, m)
  <2> SUFFICES ASSUME NEW x \in X, NEW F, NEW G, \A y \in X : m[y] < m[x] => F[y] = G[y]
               PROVE  FreeBody(t, F, x) = FreeBody(t, G, x)
    BY <1>4 DEF Grounded
  <2>1. x = 0 \/ F[x - 1] = G[x - 1]
    <3> SUFFICES ASSUME x # 0 PROVE F[x - 1] = G[x - 1]
      OBVIOUS
    <3>1. x - 1 \in X /\ m[x - 1] < m[x]
      BY <1>2, <1>6
    <3> QED
      BY <3>1
  <2> QED
    BY <2>1 DEF FreeBody
<1>8. \E F : F = [x \in X |-> Body(c, F, x)]
  BY <1>6, <1>7, Defined
<1>9. PICK list : list = [x \in X |-> FreeBody(t, list, x)] /\ FreeList(t) = list
  <2>1. \E F : F = [x \in X |-> FreeBody(t, F, x)]
    BY <1>4, <1>8
  <2> QED
    BY <1>1, <2>1 DEF FreeList, FreeBody
<1>10. \A n \in X : list[n] = IF n = 0 THEN t.free_head
                              ELSE IF list[n - 1] = Nil THEN Nil ELSE t.hParent[list[n - 1]]
  BY <1>9 DEF FreeBody
<1>11. PICK F : F = Free(t, S)
  OBVIOUS
<1>12. /\ rk \in [Link -> Nat] /\ rk[Nil] = 0
       /\ (\A h \in F : t.hParent[h] \in F \cup {Nil} /\ rk[h] = rk[t.hParent[h]] + 1)
       /\ (\A g, h \in F : rk[g] = rk[h] => g = h)
       /\ t.free_head \in F \cup {Nil} /\ \A h \in F : rk[h] <= rk[t.free_head]
  BY <1>11 DEF Chained, Chain
<1>13. /\ t.array_size \in 0..MaxNodes /\ t.size = Cardinality(S)
       /\ rk[t.free_head] = t.array_size - t.size /\ S \in SUBSET (0..t.array_size - 1)
  BY DEF Chained, Counted
<1>14. F \subseteq Cell /\ F \subseteq Link /\ Nil \in Link /\ Nil \notin F
  <2>1. 0..t.array_size - 1 \subseteq Cell
    BY <1>13, CellFinite
  <2>2. F \subseteq Cell
    BY <1>11, <2>1 DEF Free
  <2> QED
    BY <2>2 DEF Link, Cell, Nil
<1>15. PICK R \in Nat : R = rk[t.free_head]
  BY <1>12, <1>14
<1>16. R <= MaxNodes
  <2>1. S \subseteq Cell
    BY <1>13, CellFinite
  <2>2. Cardinality(S) \in Nat
    BY <2>1, CellFinite, FS_Subset, FS_CardinalityType
  <2> QED
    BY <1>0, <1>13, <1>15, <2>2
<1>17. \A h \in F : rk[h] \in Nat /\ rk[h] >= 1 /\ rk[h] <= R
  <2> SUFFICES ASSUME NEW h \in F PROVE rk[h] \in Nat /\ rk[h] >= 1 /\ rk[h] <= R
    OBVIOUS
  <2>1. t.hParent[h] \in Link
    BY <1>12, <1>14
  <2>2. rk[t.hParent[h]] \in Nat
    BY <1>12, <2>1
  <2>3. rk[h] = rk[t.hParent[h]] + 1 /\ rk[h] <= R
    BY <1>12, <1>15
  <2> QED
    BY <2>2, <2>3
<1> DEFINE T == {n \in Nat : n \in X => /\ list[n] \in F \cup {Nil}
                                       /\ rk[list[n]] = IF n <= R THEN R - n ELSE 0}
<1>18. 0 \in T
  <2>1. list[0] = t.free_head
    BY <1>2, <1>10
  <2> QED
    BY <1>12, <1>15, <2>1
<1>19. ASSUME NEW n \in Nat, n \in T PROVE n + 1 \in T
  <2> SUFFICES ASSUME n + 1 \in X
               PROVE  /\ list[n + 1] \in F \cup {Nil}
                      /\ rk[list[n + 1]] = IF n + 1 <= R THEN R - (n + 1) ELSE 0
    OBVIOUS
  <2>1. n \in X /\ n + 1 # 0 /\ (n + 1) - 1 = n
    BY <1>0, <1>1
  <2>2. PICK g : g = list[n]
    OBVIOUS
  <2>3. g \in F \cup {Nil} /\ rk[g] = IF n <= R THEN R - n ELSE 0
    BY <1>19, <2>1, <2>2
  <2>4. list[n + 1] = IF g = Nil THEN Nil ELSE t.hParent[g]
    BY <1>10, <2>1, <2>2
  <2>5. CASE g = Nil
    <3>1. ~(n + 1 <= R)
      BY <1>12, <2>3, <2>5
    <3> QED
      BY <1>12, <2>4, <2>5, <3>1
  <2>6. CASE g # Nil
    <3>1. g \in F
      BY <2>3, <2>6
    <3>2. PICK b : b = t.hParent[g]
      OBVIOUS
    <3>3. b \in F \cup {Nil} /\ rk[g] = rk[b] + 1 /\ rk[b] \in Nat
      BY <1>12, <1>14, <3>1, <3>2
    <3>4. rk[g] >= 1
      BY <1>17, <3>1
    <3>5. rk[b] = IF n + 1 <= R THEN R - (n + 1) ELSE 0
      BY <2>3, <3>3, <3>4
    <3> QED
      BY <2>4, <2>6, <3>2, <3>3, <3>5
  <2> QED
    BY <2>5, <2>6
<1> HIDE DEF T
<1>20. Nat \subseteq T
  BY <1>18, <1>19, Inductive
<1>21. ASSUME NEW n \in X
       PROVE  list[n] \in F \cup {Nil} /\ rk[list[n]] = IF n <= R THEN R - n ELSE 0
  <2>1. n \in T
    BY <1>2, <1>20
  <2> QED
    BY <2>1 DEF T
<1>22. list[MaxNodes] = Nil
  <2>1. rk[list[MaxNodes]] = 0
    <3>1. rk[list[MaxNodes]] = IF MaxNodes <= R THEN R - MaxNodes ELSE 0
      BY <1>2, <1>21
    <3> QED
      BY <1>0, <1>16, <3>1
  <2>2. list[MaxNodes] \notin F
    BY <1>17, <2>1
  <2> QED
    BY <1>2, <1>21, <2>2
<1>23. ASSUME NEW h \in F PROVE \E n \in X : list[n] = h
  <2>1. PICK r \in Nat : r = rk[h] /\ r >= 1 /\ r <= R
    BY <1>17
  <2>2. PICK n : n = R - r
    OBVIOUS
  <2>3. n \in X /\ n <= R /\ R - n = r
    BY <1>0, <1>1, <1>16, <2>1, <2>2
  <2>4. rk[list[n]] = r /\ list[n] \in F \cup {Nil}
    BY <1>21, <2>3
  <2>5. list[n] \in F
    BY <1>12, <2>1, <2>4
  <2>6. list[n] = h
    BY <1>12, <2>1, <2>4, <2>5
  <2> QED
    BY <2>3, <2>6
<1>24. {list[n] : n \in X} \ {Nil} = F
  BY <1>14, <1>21, <1>23
<1> QED
  BY <1>1, <1>9, <1>11, <1>22, <1>24

-----------------------------------------------------------------------------
(* What one sound tree gives.                                               *)

\* The part of TreeOK that is about the tree, and CellsAccounted of it.
TreeHolds(t) ==
  LET Child(f, h) == t.child[f][h]
      below == Below(t)
      tall == Height(t)
  IN /\ t.hHead \in Link
     /\ t.hHead # Nil => t.hParent[t.hHead] = Nil
     /\ \A h \in InTree(t) :
          /\ \A f \in Side : Child(f, h) # Nil => t.hParent[Child(f, h)] = h
          /\ \A g \in below[Child("hLeft", h)] : t.data[g] < t.data[h]
          /\ \A g \in below[Child("hRight", h)] : t.data[h] < t.data[g]
          /\ t.bf[h] = tall[Child("hLeft", h)] - tall[Child("hRight", h)]
          /\ t.bf[h] \in {LH, EH, RH}

LEMMA OneTreeHolds ==
  ASSUME NEW t, OneTree(t)
  PROVE  TreeHolds(t) /\ InTree(t) = Live(t)
<1>1. PICK S, lo, hi, ht, rk : Sound(t, S, lo, hi, ht, rk)
  BY DEF OneTree
<1>2. AVL(t, S, lo, hi, ht) /\ Bare(t, S)
  BY <1>1 DEF Sound
<1>3. Live(t) = S
  BY <1>1, LiveIs
<1>4. /\ t \in TreeType /\ Tree(t, S, lo, hi) /\ S \in SUBSET Cell /\ Nil \notin S
      /\ ht \in [Link -> Nat] /\ ht[Nil] = 0 /\ t.hHead \in Link
      /\ \A h \in S, f \in Side : t.child[f][h] = Nil \/ t.child[f][h] \in S
  BY <1>2, AVLFacts, Fields
<1>5. Below(t)[Nil] = {} /\ (\A h \in S : Below(t)[h] = Span(t, S, lo[h], hi[h])) /\ InTree(t) = S
  BY <1>2, BelowIs
<1>6. Height(t)[Nil] = 0 /\ \A h \in S : Height(t)[h] = ht[h]
  BY <1>2, TallIs
<1>7. t.hHead # Nil => t.hParent[t.hHead] = Nil
  BY <1>4 DEF Tree, Shape, Root
<1>8. ASSUME NEW h \in S, NEW f \in Side
      PROVE  /\ t.child[f][h] # Nil => t.hParent[t.child[f][h]] = h
             /\ \A g \in Below(t)[t.child[f][h]] : Low(t.data, lo, f, h) < t.data[g]
                                                   /\ t.data[g] < Upp(t.data, hi, f, h)
             /\ Height(t)[t.child[f][h]] = ht[t.child[f][h]]
  <2>1. PICK c : c = t.child[f][h]
    OBVIOUS
  <2>2. CASE c = Nil
    BY <1>4, <1>5, <1>6, <2>1, <2>2
  <2>3. CASE c # Nil
    <3>1. c \in S
      BY <1>4, <2>1, <2>3
    <3>2. t.hParent[c] = h /\ lo[c] = Low(t.data, lo, f, h) /\ hi[c] = Upp(t.data, hi, f, h)
      BY <1>4, <2>1, <3>1, OneParent
    <3>3. Below(t)[c] = Span(t, S, lo[c], hi[c])
      BY <1>5, <3>1
    <3> QED
      BY <1>6, <2>1, <3>1, <3>2, <3>3 DEF Span
  <2> QED
    BY <2>2, <2>3
<1>9. ASSUME NEW h \in S
      PROVE  /\ \A f \in Side : t.child[f][h] # Nil => t.hParent[t.child[f][h]] = h
             /\ \A g \in Below(t)[t.child["hLeft"][h]] : t.data[g] < t.data[h]
             /\ \A g \in Below(t)[t.child["hRight"][h]] : t.data[h] < t.data[g]
             /\ t.bf[h] = Height(t)[t.child["hLeft"][h]] - Height(t)[t.child["hRight"][h]]
             /\ t.bf[h] \in {LH, EH, RH}
  <2>1. /\ "hLeft" \in Side /\ "hRight" \in Side /\ Other("hLeft") = "hRight"
        /\ Upp(t.data, hi, "hLeft", h) = t.data[h] /\ Low(t.data, lo, "hRight", h) = t.data[h]
    BY DEF Side, Other, Upp, Low
  <2>2. /\ \A g \in Below(t)[t.child["hLeft"][h]] : t.data[g] < t.data[h]
        /\ \A g \in Below(t)[t.child["hRight"][h]] : t.data[h] < t.data[g]
    <3>1. /\ \A g \in Below(t)[t.child["hLeft"][h]] : t.data[g] < Upp(t.data, hi, "hLeft", h)
          /\ \A g \in Below(t)[t.child["hRight"][h]] : Low(t.data, lo, "hRight", h) < t.data[g]
      BY <1>8, <2>1
    <3> QED
      BY <2>1, <3>1
  <2>3. PICK a \in Nat : a = ht[t.child["hLeft"][h]]
    BY <1>4, <2>1, AVLFacts, <1>2
  <2>4. PICK b \in Nat : b = ht[t.child["hRight"][h]]
    BY <1>4, <2>1, AVLFacts, <1>2
  <2>5. EvenAt(t.child, t.bf, ht, Nil, "hLeft", 0, h)
    BY <1>2 DEF AVL, Even
  <2>6. /\ Tall(t.child, ht, Nil, "hLeft", 0, "hLeft", h) = a
        /\ Tall(t.child, ht, Nil, "hLeft", 0, "hRight", h) = b
    BY <1>4, <2>3, <2>4 DEF Tall
  <2>7. \/ t.bf[h] = EH /\ a = b
        \/ t.bf[h] = Higher("hLeft") /\ a = b + 1
        \/ t.bf[h] = Higher("hRight") /\ b = a + 1
    BY <2>1, <2>5, <2>6 DEF EvenAt
  <2>8. t.bf[h] = a - b /\ t.bf[h] \in {LH, EH, RH}
    BY <2>7 DEF Higher, LH, RH, EH
  <2>9. Height(t)[t.child["hLeft"][h]] = a /\ Height(t)[t.child["hRight"][h]] = b
    BY <1>8, <2>1, <2>3, <2>4
  <2> QED
    BY <1>8, <2>2, <2>8, <2>9
<1> QED
  BY <1>3, <1>4, <1>5, <1>7, <1>9 DEF TreeHolds

CellsHold(t) ==
  LET list == FreeList(t)
      free == {list[n] : n \in 0..MaxNodes} \ {Nil}
      used == InTree(t)
  IN /\ list[MaxNodes] = Nil
     /\ used \cap free = {} /\ used \cup free = 0..t.array_size - 1
     /\ used = Live(t) /\ t.size = Cardinality(used)

LEMMA OneTreeCells ==
  ASSUME NEW t, OneTree(t)
  PROVE  CellsHold(t)
<1>1. PICK S, lo, hi, ht, rk : Sound(t, S, lo, hi, ht, rk)
  BY DEF OneTree
<1>2. Chained(t, S, rk)
  BY <1>1 DEF Sound
<1>3. Live(t) = S /\ t \in TreeType /\ S \subseteq 0..t.array_size - 1
  BY <1>1, LiveIs
<1>4. InTree(t) = S
  BY <1>3, OneTreeHolds
<1>5. PICK list : list = FreeList(t)
  OBVIOUS
<1>6. list[MaxNodes] = Nil /\ {list[n] : n \in 0..MaxNodes} \ {Nil} = Free(t, S)
  BY <1>2, <1>3, <1>5, FreeListIs
<1>7. t.size = Cardinality(S)
  BY <1>2 DEF Chained, Counted
<1>8. S \cap Free(t, S) = {} /\ S \cup Free(t, S) = 0..t.array_size - 1
  BY <1>3 DEF Free
<1> QED
  BY <1>3, <1>4, <1>5, <1>6, <1>7, <1>8 DEF CellsHold

-----------------------------------------------------------------------------
(* Steps from node to node.                                                 *)

\* The bound of x on side f, and y past x on that side.
Far(lo, hi, f, x) == IF f = "hLeft" THEN lo[x] ELSE hi[x]
Past(f, x, y) == IF f = "hLeft" THEN y < x ELSE x < y

\* b is the node at the bound of h on side f, if there is one.
Turned(t, S, lo, hi, f, h, b) ==
  \/ b = Nil /\ \A g \in S : Past(f, t.data[g], Far(lo, hi, f, h))
  \/ b \in S /\ t.data[b] = Far(lo, hi, f, h)

\* b is the node next to h on side f.
NextTo(t, S, f, h, b) ==
  \/ b = Nil /\ \A g \in S : ~Past(f, t.data[h], t.data[g])
  \/ /\ b \in S /\ Past(f, t.data[h], t.data[b])
     /\ \A g \in S : Past(f, t.data[h], t.data[g]) => ~Past(f, t.data[g], t.data[b])

LEMMA OnSide ==
  ASSUME NEW t, NEW S, NEW lo, NEW hi, NEW ht, AVL(t, S, lo, hi, ht), NEW f \in Side,
         NEW h \in S, NEW p, p = t.hParent[h]
  PROVE  \/ p = Nil /\ Turned(t, S, lo, hi, f, h, Nil)
         \/ /\ p \in S /\ IsOn(t, h, f) /\ t.child[f][p] = h
            /\ Far(lo, hi, f, h) = Far(lo, hi, f, p) /\ hi[h] - lo[h] < hi[p] - lo[p]
         \/ /\ p \in S /\ ~IsOn(t, h, f) /\ t.child[Other(f)][p] = h
            /\ Turned(t, S, lo, hi, f, h, p) /\ hi[h] - lo[h] < hi[p] - lo[p]
<1>1. /\ t \in TreeType /\ Tree(t, S, lo, hi) /\ S \in SUBSET Cell /\ Nil \notin S
      /\ \A g \in S : /\ lo[g] \in Int /\ hi[g] \in Int /\ t.data[g] \in Int
                      /\ lo[g] < t.data[g] /\ t.data[g] < hi[g]
  BY AVLFacts
<1>2. \/ p = Nil /\ t.hHead = h
      \/ p \in S /\ \E s \in Side : t.child[s][p] = h
  BY <1>1 DEF Tree, Shape, Parents
<1>3. CASE p = Nil
  <2>1. t.hHead = h
    BY <1>1, <1>2, <1>3
  <2>2. \A g \in S : lo[h] <= lo[g] /\ hi[g] <= hi[h]
    BY <1>1, <2>1 DEF Tree, Shape, Root
  <2>3. \A g \in S : lo[h] < t.data[g] /\ t.data[g] < hi[h]
    BY <1>1, <2>2
  <2>4. Turned(t, S, lo, hi, f, h, Nil)
    BY <2>3 DEF Turned, Past, Far
  <2> QED
    BY <1>3, <2>4
<1>4. CASE p \in S
  <2>1. PICK s \in Side : t.child[s][p] = h
    BY <1>1, <1>2, <1>4
  <2>2. /\ lo[h] = Low(t.data, lo, s, p) /\ hi[h] = Upp(t.data, hi, s, p)
        /\ \A g \in S, r \in Side : t.child[r][g] = h => g = p /\ r = s
    BY <1>1, <1>4, <2>1, OneParent
  <2>3. "hRight" \in Side /\ "hLeft" \in Side /\ Side = {"hLeft", "hRight"} /\ p # Nil
    BY <1>1, <1>4 DEF Side
  <2>4. t.child["hRight"][p] = h <=> s = "hRight"
    BY <1>4, <2>1, <2>2, <2>3
  <2>5. IsOn(t, h, f) <=> s = f
    BY <2>3, <2>4 DEF IsOn
  <2>6. hi[h] - lo[h] < hi[p] - lo[p]
    BY <1>1, <1>4, <2>2, <2>3 DEF Low, Upp
  <2>7. CASE s = f
    <3>1. Far(lo, hi, f, h) = Far(lo, hi, f, p)
      BY <2>2, <2>3, <2>7 DEF Far, Low, Upp
    <3> QED
      BY <1>4, <2>1, <2>5, <2>6, <2>7, <3>1
  <2>8. CASE s # f
    <3>1. s = Other(f)
      BY <2>3, <2>8 DEF Other
    <3>2. Far(lo, hi, f, h) = t.data[p]
      BY <2>2, <2>3, <2>8 DEF Far, Low, Upp
    <3>3. Turned(t, S, lo, hi, f, h, p)
      BY <1>4, <3>2 DEF Turned
    <3> QED
      BY <1>4, <2>1, <2>5, <2>6, <2>8, <3>1, <3>3
  <2> QED
    BY <2>7, <2>8
<1> QED
  BY <1>2, <1>3, <1>4

LEMMA TurnIs ==
  ASSUME NEW t, NEW S, NEW lo, NEW hi, NEW ht, NEW rk, Sound(t, S, lo, hi, ht, rk),
         NEW f \in Side, NEW h \in S, t.hParent[h] \in S, NEW v, v = Turn(t, h, f)
  PROVE  \E b : b = (IF v = Nil THEN Nil ELSE t.hParent[v])
                /\ Turned(t, S, lo, hi, f, t.hParent[h], b)
<1>1. AVL(t, S, lo, hi, ht) /\ Live(t) = S
  BY LiveIs DEF Sound
<1>2. /\ t \in TreeType /\ Tree(t, S, lo, hi) /\ S \in SUBSET Cell /\ Nil \notin S
      /\ \A g \in S : lo[g] \in Int /\ hi[g] \in Int
  BY <1>1, AVLFacts
<1>3. PICK c : c = [kind |-> "up", t |-> t, f |-> f]
  OBVIOUS
<1>4. \A F, x : Body(c, F, x) = UpBody(t, f, F, x)
  BY <1>3 DEF Body
<1>5. PICK root \in S : \A g \in S : lo[root] <= lo[g] /\ hi[g] <= hi[root]
  BY <1>2 DEF Tree, Shape, Root
<1>6. PICK W \in Int : W = hi[root] - lo[root]
  BY <1>2
<1>7. PICK m : m = [g \in S |-> W - (hi[g] - lo[g])]
  OBVIOUS
<1>8. m \in [S -> Nat] /\ \A g \in S : m[g] = W - (hi[g] - lo[g])
  <2>1. \A g \in S : W - (hi[g] - lo[g]) \in Nat
    BY <1>2, <1>5, <1>6
  <2> QED
    BY <1>7, <2>1
<1>9. ASSUME NEW g \in S
      PROVE  \/ t.hParent[g] = Nil /\ Turned(t, S, lo, hi, f, g, Nil)
             \/ /\ t.hParent[g] \in S /\ m[t.hParent[g]] < m[g] /\ IsOn(t, g, f)
                /\ Far(lo, hi, f, g) = Far(lo, hi, f, t.hParent[g])
             \/ /\ t.hParent[g] \in S /\ m[t.hParent[g]] < m[g] /\ ~IsOn(t, g, f)
                /\ Turned(t, S, lo, hi, f, g, t.hParent[g])
  <2>1. PICK p : p = t.hParent[g]
    OBVIOUS
  <2>2. \/ p = Nil /\ Turned(t, S, lo, hi, f, g, Nil)
        \/ /\ p \in S /\ IsOn(t, g, f) /\ t.child[f][p] = g
           /\ Far(lo, hi, f, g) = Far(lo, hi, f, p) /\ hi[g] - lo[g] < hi[p] - lo[p]
        \/ /\ p \in S /\ ~IsOn(t, g, f) /\ t.child[Other(f)][p] = g
           /\ Turned(t, S, lo, hi, f, g, p) /\ hi[g] - lo[g] < hi[p] - lo[p]
    BY <1>1, <2>1, OnSide
  <2>3. p \in S /\ hi[g] - lo[g] < hi[p] - lo[p] => m[p] < m[g]
    BY <1>2, <1>6, <1>8
  <2> QED
    BY <2>1, <2>2, <2>3
<1>10. Grounded(c, S, m)
  <2> SUFFICES ASSUME NEW x \in S, NEW F, NEW G, \A y \in S : m[y] < m[x] => F[y] = G[y]
               PROVE  UpBody(t, f, F, x) = UpBody(t, f, G, x)
    BY <1>4 DEF Grounded
  <2>1. t.hParent[x] = Nil \/ F[t.hParent[x]] = G[t.hParent[x]]
    BY <1>9
  <2> QED
    BY <2>1 DEF UpBody
<1>11. \E F : F = [x \in S |-> Body(c, F, x)]
  BY <1>8, <1>10, Defined
<1>12. PICK F : F = [x \in S |-> UpBody(t, f, F, x)] /\ v = F[h]
  <2>1. \E F : F = [x \in S |-> UpBody(t, f, F, x)]
    BY <1>4, <1>11
  <2> QED
    BY <1>1, <2>1 DEF Turn, UpBody
<1>13. \A x \in S : F[x] = IF t.hParent[x] # Nil /\ IsOn(t, t.hParent[x], f) THEN F[t.hParent[x]]
                           ELSE t.hParent[x]
  BY <1>12 DEF UpBody
<1> DEFINE T == {x \in S : t.hParent[x] \in S =>
                   Turned(t, S, lo, hi, f, t.hParent[x], IF F[x] = Nil THEN Nil ELSE t.hParent[F[x]])}
<1>14. ASSUME NEW x \in S, \A y \in S : m[y] < m[x] => y \in T PROVE x \in T
  <2> SUFFICES ASSUME t.hParent[x] \in S
               PROVE  Turned(t, S, lo, hi, f, t.hParent[x], IF F[x] = Nil THEN Nil ELSE t.hParent[F[x]])
    OBVIOUS
  <2>1. PICK p \in S : p = t.hParent[x]
    OBVIOUS
  <2>2. m[p] < m[x] /\ p # Nil
    BY <1>2, <1>9, <2>1
  <2>3. F[x] = IF IsOn(t, p, f) THEN F[p] ELSE p
    BY <1>13, <2>1, <2>2
  <2>4. CASE ~IsOn(t, p, f)
    <3>1. F[x] = p
      BY <2>3, <2>4
    <3>2. Turned(t, S, lo, hi, f, p, t.hParent[p])
      BY <1>9, <2>4
    <3> QED
      BY <2>1, <2>2, <3>1, <3>2
  <2>5. CASE IsOn(t, p, f) /\ t.hParent[p] = Nil
    <3>1. F[x] = Nil
      BY <1>13, <2>3, <2>5
    <3>2. Turned(t, S, lo, hi, f, p, Nil)
      BY <1>2, <1>9, <2>5
    <3> QED
      BY <2>1, <3>1, <3>2
  <2>6. CASE IsOn(t, p, f) /\ t.hParent[p] # Nil
    <3>1. t.hParent[p] \in S /\ Far(lo, hi, f, p) = Far(lo, hi, f, t.hParent[p])
      BY <1>9, <2>6
    <3>2. Turned(t, S, lo, hi, f, t.hParent[p], IF F[p] = Nil THEN Nil ELSE t.hParent[F[p]])
      BY <1>14, <2>2, <3>1
    <3>3. F[x] = F[p]
      BY <2>3, <2>6
    <3> QED
      BY <2>1, <3>1, <3>2, <3>3 DEF Turned
  <2> QED
    BY <2>4, <2>5, <2>6
<1> HIDE DEF T
<1>15. S \subseteq T
  BY <1>8, <1>14, Deep
<1> QED
  BY <1>12, <1>15 DEF T

LEMMA TurnedNext ==
  ASSUME NEW t, NEW S, NEW lo, NEW hi, NEW ht, AVL(t, S, lo, hi, ht), NEW f \in Side,
         NEW h \in S, t.child[f][h] = Nil, NEW b, Turned(t, S, lo, hi, f, h, b)
  PROVE  NextTo(t, S, f, h, b)
<1>1. /\ Nil \notin S
      /\ \A g \in S : /\ lo[g] \in Int /\ hi[g] \in Int /\ t.data[g] \in Int
                      /\ lo[g] < t.data[g] /\ t.data[g] < hi[g]
      /\ \A g \in S : ~(Low(t.data, lo, f, h) < t.data[g] /\ t.data[g] < Upp(t.data, hi, f, h))
  BY AVLFacts
<1>2. Past(f, t.data[h], Far(lo, hi, f, h))
  BY <1>1 DEF Past, Far
<1>3. \A g \in S : ~(Past(f, t.data[h], t.data[g]) /\ Past(f, t.data[g], Far(lo, hi, f, h)))
  BY <1>1 DEF Past, Far, Low, Upp
<1> QED
  BY <1>1, <1>2, <1>3 DEF Turned, NextTo

LEMMA StepIs ==
  ASSUME NEW t, NEW S, NEW lo, NEW hi, NEW ht, NEW rk, Sound(t, S, lo, hi, ht, rk),
         NEW f \in Side, NEW h \in S
  PROVE  NextTo(t, S, f, h, Step(t, h, f))
<1>1. AVL(t, S, lo, hi, ht) /\ Bare(t, S)
  BY DEF Sound
<1>2. /\ t \in TreeType /\ Tree(t, S, lo, hi) /\ S \in SUBSET Cell /\ Nil \notin S
      /\ \A g \in S : /\ lo[g] \in Int /\ hi[g] \in Int /\ t.data[g] \in Int
                      /\ lo[g] < t.data[g] /\ t.data[g] < hi[g]
      /\ \A g \in S, s \in Side : t.child[s][g] = Nil \/ t.child[s][g] \in S
  BY <1>1, AVLFacts
<1>3. PICK p : p = t.hParent[h]
  OBVIOUS
<1>4. PICK top : top = Turn(t, h, f)
  OBVIOUS
<1>5. Step(t, h, f) = CASE t.child[f][h] # Nil -> Edge(t, t.child[f][h], Other(f))
                        [] t.child[f][h] = Nil /\ p # Nil /\ IsOn(t, h, f) ->
                             IF top = Nil THEN Nil ELSE t.hParent[top]
                        [] OTHER -> p
  BY <1>3, <1>4 DEF Step
<1>6. \/ p = Nil /\ Turned(t, S, lo, hi, f, h, Nil)
      \/ /\ p \in S /\ IsOn(t, h, f) /\ t.child[f][p] = h
         /\ Far(lo, hi, f, h) = Far(lo, hi, f, p) /\ hi[h] - lo[h] < hi[p] - lo[p]
      \/ /\ p \in S /\ ~IsOn(t, h, f) /\ t.child[Other(f)][p] = h
         /\ Turned(t, S, lo, hi, f, h, p) /\ hi[h] - lo[h] < hi[p] - lo[p]
  BY <1>1, <1>3, OnSide
<1>7. CASE t.child[f][h] # Nil
  <2>1. PICK c \in S : c = t.child[f][h]
    BY <1>2, <1>7
  <2>2. PICK s \in Side : s = Other(f) /\ f = Other(s)
    BY Sides
  <2>3. PICK e : e = Edge(t, c, s)
    OBVIOUS
  <2>4. EdgeAt(t, S, lo, hi, c, s, e)
    BY <1>1, <2>3, EdgeIs
  <2>5. /\ e \in S /\ t.child[s][e] = Nil /\ lo[c] <= lo[e] /\ hi[e] <= hi[c]
        /\ (IF s = "hLeft" THEN lo[e] = lo[c] ELSE hi[e] = hi[c])
    BY <2>4 DEF EdgeAt
  <2>6. lo[c] = Low(t.data, lo, f, h) /\ hi[c] = Upp(t.data, hi, f, h)
    BY <1>2, <2>1, OneParent
  <2>7. Far(lo, hi, s, e) = t.data[h]
    BY <2>2, <2>5, <2>6 DEF Far, Low, Upp, Other, Side
  <2>8. Past(f, t.data[h], t.data[e])
    BY <1>2, <2>2, <2>5, <2>7 DEF Past, Far, Other, Side
  <2>9. \A g \in S : ~(Low(t.data, lo, s, e) < t.data[g] /\ t.data[g] < Upp(t.data, hi, s, e))
    BY <1>1, <2>5, AVLFacts
  <2>10. \A g \in S : Past(f, t.data[h], t.data[g]) => ~Past(f, t.data[g], t.data[e])
    BY <2>2, <2>7, <2>9 DEF Past, Far, Low, Upp, Other, Side
  <2>11. Step(t, h, f) = e
    BY <1>5, <1>7, <2>1, <2>2, <2>3
  <2> QED
    BY <2>5, <2>8, <2>10, <2>11 DEF NextTo
<1>8. CASE t.child[f][h] = Nil /\ p # Nil /\ IsOn(t, h, f)
  <2>1. p \in S /\ Far(lo, hi, f, h) = Far(lo, hi, f, p)
    BY <1>6, <1>8
  <2>2. PICK b : b = (IF top = Nil THEN Nil ELSE t.hParent[top]) /\ Turned(t, S, lo, hi, f, p, b)
    BY <1>3, <1>4, <2>1, TurnIs
  <2>3. Turned(t, S, lo, hi, f, h, b)
    BY <2>1, <2>2 DEF Turned
  <2>4. Step(t, h, f) = b
    BY <1>5, <1>8, <2>2
  <2> QED
    BY <1>1, <1>8, <2>3, <2>4, TurnedNext
<1>9. CASE t.child[f][h] = Nil /\ ~(p # Nil /\ IsOn(t, h, f))
  <2>1. Turned(t, S, lo, hi, f, h, p)
    BY <1>2, <1>6, <1>9
  <2>2. Step(t, h, f) = p
    BY <1>5, <1>9
  <2> QED
    BY <1>1, <1>9, <2>1, <2>2, TurnedNext
<1> QED
  BY <1>7, <1>8, <1>9

\* The node of G with the least data, and the one with the greatest.
FirstNode(t, G) == IF G = {} THEN Nil ELSE CHOOSE h \in G : \A g \in G : t.data[h] <= t.data[g]
FinalNode(t, G) == IF G = {} THEN Nil ELSE CHOOSE h \in G : \A g \in G : t.data[g] <= t.data[h]

WalkHolds(t) ==
  LET nodes == InTree(t)
  IN /\ Begin(t) = FirstNode(t, nodes) /\ RBegin(t) = FinalNode(t, nodes)
     /\ \A h \in nodes :
          /\ Step(t, h, "hRight") = FirstNode(t, {g \in nodes : t.data[h] < t.data[g]})
          /\ Step(t, h, "hLeft") = FinalNode(t, {g \in nodes : t.data[g] < t.data[h]})
     /\ \A k \in Key :
          /\ Find(t, k) = FirstNode(t, {g \in nodes : t.data[g] = k})
          /\ Bound(t, k, FALSE) = FirstNode(t, {g \in nodes : k <= t.data[g]})
          /\ Bound(t, k, TRUE) = FirstNode(t, {g \in nodes : k < t.data[g]})

LEMMA NodeChosen ==
  ASSUME NEW t, NEW G, \A g \in G : t.data[g] \in Int, \A g, h \in G : t.data[g] = t.data[h] => g = h,
         NEW b
  PROVE  /\ (b = Nil /\ G = {}) \/ (b \in G /\ \A g \in G : t.data[b] <= t.data[g]) =>
              b = FirstNode(t, G)
         /\ (b = Nil /\ G = {}) \/ (b \in G /\ \A g \in G : t.data[g] <= t.data[b]) =>
              b = FinalNode(t, G)
<1>1. b = Nil /\ G = {} => b = FirstNode(t, G) /\ b = FinalNode(t, G)
  BY DEF FirstNode, FinalNode
<1>2. ASSUME b \in G, \A g \in G : t.data[b] <= t.data[g] PROVE b = FirstNode(t, G)
  <2>1. PICK c : c = FirstNode(t, G)
    OBVIOUS
  <2>2. c \in G /\ \A g \in G : t.data[c] <= t.data[g]
    BY <1>2, <2>1 DEF FirstNode
  <2>3. t.data[b] = t.data[c]
    BY <1>2, <2>2
  <2> QED
    BY <1>2, <2>1, <2>2, <2>3
<1>3. ASSUME b \in G, \A g \in G : t.data[g] <= t.data[b] PROVE b = FinalNode(t, G)
  <2>1. PICK c : c = FinalNode(t, G)
    OBVIOUS
  <2>2. c \in G /\ \A g \in G : t.data[g] <= t.data[c]
    BY <1>3, <2>1 DEF FinalNode
  <2>3. t.data[b] = t.data[c]
    BY <1>3, <2>2
  <2> QED
    BY <1>3, <2>1, <2>2, <2>3
<1> QED
  BY <1>1, <1>2, <1>3

LEMMA EndsAre ==
  ASSUME NEW t, NEW S, NEW lo, NEW hi, NEW ht, AVL(t, S, lo, hi, ht), Bare(t, S)
  PROVE  Begin(t) = FirstNode(t, S) /\ RBegin(t) = FinalNode(t, S)
<1>1. /\ t \in TreeType /\ Tree(t, S, lo, hi) /\ Nil \notin S
      /\ \A g \in S : /\ lo[g] \in Int /\ hi[g] \in Int /\ t.data[g] \in Int
                      /\ lo[g] < t.data[g] /\ t.data[g] < hi[g]
      /\ t.hHead = Nil \/ t.hHead \in S
  BY AVLFacts
<1>2. \A g, h \in S : t.data[g] = t.data[h] => g = h
  BY DataDiffer
<1>3. CASE t.hHead = Nil
  <2>1. S = {}
    BY <1>1, <1>3 DEF Tree, Shape, Root
  <2> QED
    BY <1>3, <2>1 DEF Begin, RBegin, FirstNode, FinalNode
<1>4. CASE t.hHead # Nil
  <2>1. PICK r \in S : r = t.hHead
    BY <1>1, <1>4
  <2>2. \A h \in S : lo[r] <= lo[h] /\ hi[h] <= hi[r]
    BY <1>1, <1>4, <2>1 DEF Tree, Shape, Root
  <2>3. \A h \in S : lo[r] < t.data[h] /\ t.data[h] < hi[r]
    BY <1>1, <2>1, <2>2
  <2>4. "hLeft" \in Side /\ "hRight" \in Side
    BY DEF Side
  <2>5. PICK a : a = Edge(t, r, "hLeft")
    OBVIOUS
  <2>6. PICK b : b = Edge(t, r, "hRight")
    OBVIOUS
  <2>7. EdgeAt(t, S, lo, hi, r, "hLeft", a) /\ EdgeAt(t, S, lo, hi, r, "hRight", b)
    BY <2>4, <2>5, <2>6, EdgeIs
  <2>8. a \in S /\ t.child["hLeft"][a] = Nil /\ lo[a] = lo[r]
    BY <2>7 DEF EdgeAt
  <2>9. b \in S /\ t.child["hRight"][b] = Nil /\ hi[b] = hi[r]
    BY <2>7 DEF EdgeAt
  <2>10. /\ \A g \in S : ~(Low(t.data, lo, "hLeft", a) < t.data[g] /\ t.data[g] < Upp(t.data, hi, "hLeft", a))
         /\ \A g \in S : ~(Low(t.data, lo, "hRight", b) < t.data[g] /\ t.data[g] < Upp(t.data, hi, "hRight", b))
    BY <2>4, <2>8, <2>9, AVLFacts
  <2>11. \A g \in S : t.data[a] <= t.data[g]
    BY <1>1, <2>3, <2>8, <2>10 DEF Low, Upp
  <2>12. \A g \in S : t.data[g] <= t.data[b]
    BY <1>1, <2>3, <2>9, <2>10 DEF Low, Upp
  <2>13. a = FirstNode(t, S) /\ b = FinalNode(t, S)
    BY <1>1, <1>2, <2>8, <2>9, <2>11, <2>12, NodeChosen
  <2> QED
    BY <1>4, <2>1, <2>5, <2>6, <2>13 DEF Begin, RBegin
<1> QED
  BY <1>3, <1>4

LEMMA OneTreeWalks ==
  ASSUME NEW t, OneTree(t)
  PROVE  WalkHolds(t)
<1>1. PICK S, lo, hi, ht, rk : Sound(t, S, lo, hi, ht, rk)
  BY DEF OneTree
<1>2. AVL(t, S, lo, hi, ht) /\ Bare(t, S)
  BY <1>1 DEF Sound
<1>3. InTree(t) = S
  BY <1>1, LiveIs, OneTreeHolds
<1>4. Nil \notin S /\ \A g \in S : t.data[g] \in Int
  BY <1>2, AVLFacts
<1>5. \A g, h \in S : t.data[g] = t.data[h] => g = h
  BY <1>2, DataDiffer
<1>6. ASSUME NEW G \in SUBSET S, NEW b
      PROVE  /\ (b = Nil /\ G = {}) \/ (b \in G /\ \A g \in G : t.data[b] <= t.data[g]) =>
                   b = FirstNode(t, G)
             /\ (b = Nil /\ G = {}) \/ (b \in G /\ \A g \in G : t.data[g] <= t.data[b]) =>
                   b = FinalNode(t, G)
  <2>1. (\A g \in G : t.data[g] \in Int) /\ \A g, h \in G : t.data[g] = t.data[h] => g = h
    BY <1>4, <1>5
  <2> QED
    BY <2>1, NodeChosen
<1>7. Begin(t) = FirstNode(t, S) /\ RBegin(t) = FinalNode(t, S)
  BY <1>2, EndsAre
<1>8. ASSUME NEW h \in S
      PROVE  /\ Step(t, h, "hRight") = FirstNode(t, {g \in S : t.data[h] < t.data[g]})
             /\ Step(t, h, "hLeft") = FinalNode(t, {g \in S : t.data[g] < t.data[h]})
  <2>1. "hLeft" \in Side /\ "hRight" \in Side
    BY DEF Side
  <2>2. PICK a : a = Step(t, h, "hRight")
    OBVIOUS
  <2>3. PICK b : b = Step(t, h, "hLeft")
    OBVIOUS
  <2>4. NextTo(t, S, "hRight", h, a) /\ NextTo(t, S, "hLeft", h, b)
    BY <1>1, <2>1, <2>2, <2>3, StepIs
  <2>5. PICK U \in SUBSET S : U = {g \in S : t.data[h] < t.data[g]}
    OBVIOUS
  <2>6. PICK V \in SUBSET S : V = {g \in S : t.data[g] < t.data[h]}
    OBVIOUS
  <2>7. (a = Nil /\ U = {}) \/ (a \in U /\ \A g \in U : t.data[a] <= t.data[g])
    BY <1>4, <2>4, <2>5 DEF NextTo, Past
  <2>8. (b = Nil /\ V = {}) \/ (b \in V /\ \A g \in V : t.data[g] <= t.data[b])
    BY <1>4, <2>4, <2>6 DEF NextTo, Past
  <2>9. a = FirstNode(t, U)
    BY <1>6, <2>7
  <2>10. b = FinalNode(t, V)
    BY <1>6, <2>8
  <2> QED
    BY <2>2, <2>3, <2>5, <2>6, <2>9, <2>10
<1>9. ASSUME NEW k \in Key
      PROVE  /\ Find(t, k) = FirstNode(t, {g \in S : t.data[g] = k})
             /\ Bound(t, k, FALSE) = FirstNode(t, {g \in S : k <= t.data[g]})
             /\ Bound(t, k, TRUE) = FirstNode(t, {g \in S : k < t.data[g]})
  <2>1. k \in Int
    BY KeyAssumption
  <2>2. PICK a : a = Find(t, k)
    OBVIOUS
  <2>3. PICK b : b = Bound(t, k, FALSE)
    OBVIOUS
  <2>4. PICK c : c = Bound(t, k, TRUE)
    OBVIOUS
  <2>5. (a = Nil /\ \A g \in S : t.data[g] # k) \/ (a \in S /\ t.data[a] = k)
    BY <1>2, <2>1, <2>2, FindIs
  <2>6. FirstOf(t, S, k, FALSE, b) /\ FirstOf(t, S, k, TRUE, c)
    BY <1>2, <2>1, <2>3, <2>4, BoundIs
  <2>7. PICK U \in SUBSET S : U = {g \in S : t.data[g] = k}
    OBVIOUS
  <2>8. PICK V \in SUBSET S : V = {g \in S : k <= t.data[g]}
    OBVIOUS
  <2>9. PICK W \in SUBSET S : W = {g \in S : k < t.data[g]}
    OBVIOUS
  <2>10. (a = Nil /\ U = {}) \/ (a \in U /\ \A g \in U : t.data[a] <= t.data[g])
    BY <1>4, <2>1, <2>5, <2>7
  <2>11. (b = Nil /\ V = {}) \/ (b \in V /\ \A g \in V : t.data[b] <= t.data[g])
    BY <1>4, <2>1, <2>6, <2>8 DEF FirstOf, Meets
  <2>12. (c = Nil /\ W = {}) \/ (c \in W /\ \A g \in W : t.data[c] <= t.data[g])
    BY <1>4, <2>1, <2>6, <2>9 DEF FirstOf, Meets
  <2>13. a = FirstNode(t, U)
    BY <1>6, <2>10
  <2>14. b = FirstNode(t, V)
    BY <1>6, <2>11
  <2>15. c = FirstNode(t, W)
    BY <1>6, <2>12
  <2> QED
    BY <2>2, <2>3, <2>4, <2>7, <2>8, <2>9, <2>13, <2>14, <2>15
<1> QED
  BY <1>3, <1>7, <1>8, <1>9 DEF WalkHolds

-----------------------------------------------------------------------------
(* The invariant of the set.                                                *)

LEMMA ImageIs ==
  ASSUME NEW X, IsFiniteSet(X), NEW f \in [X -> Int], NEW Y, Y = {f[x] : x \in X}
  PROVE  IsFiniteSet(Y) /\ Cardinality(Y) \in Nat /\ Cardinality(Y) <= Cardinality(X)
         /\ (X # {} => Cardinality(Y) # 0)
<1>1. f \in [X -> Y] /\ \A y \in Y : \E x \in X : f[x] = y
  OBVIOUS
<1>2. f \in Surjection(X, Y)
  BY <1>1 DEF Surjection
<1>3. IsFiniteSet(Y) /\ Cardinality(Y) <= Cardinality(X)
  BY <1>2, FS_Surjection
<1>4. Cardinality(Y) \in Nat
  BY <1>3, FS_CardinalityType
<1>5. X # {} => Y # {}
  OBVIOUS
<1>6. Cardinality(Y) = 0 <=> Y = {}
  BY <1>3, FS_EmptySet
<1> QED
  BY <1>3, <1>4, <1>5, <1>6

\* The set that is rebuilt from a list of keys.
Anewed(X, f, n) ==
  \E ks : ks = {f[x] : x \in X} /\ Anew(ks, Rebuilt(ks)) /\ Rebuilt(ks).array_size <= n

LEMMA RebuiltFrom ==
  ASSUME NEW X, IsFiniteSet(X), X # {}, NEW n \in Nat, Cardinality(X) <= n, n <= MaxNodes,
         NEW f, \A x \in X : f[x] \in Key
  PROVE  Anewed(X, f, n)
<1>1. PICK g : g = [x \in X |-> f[x]]
  OBVIOUS
<1>2. \A x \in X : f[x] \in Int
  <2>1. \A k \in Key : k \in Int
    BY KeyAssumption
  <2> QED
    BY <2>1
<1>3. g \in [X -> Int]
  BY <1>1, <1>2
<1>4. PICK ks : ks = {f[x] : x \in X}
  OBVIOUS
<1>5. ks = {g[x] : x \in X}
  BY <1>1, <1>4
<1>6. IsFiniteSet(ks) /\ Cardinality(ks) \in Nat /\ Cardinality(ks) <= Cardinality(X) /\ Cardinality(ks) # 0
  BY <1>3, <1>5, ImageIs
<1>7. Cardinality(X) \in Nat /\ MaxNodes \in Nat
  BY FS_CardinalityType, NodesAssumption
<1>8. Cardinality(ks) \in 1..MaxNodes /\ Cardinality(ks) <= n
  BY <1>6, <1>7
<1>9. ks \in SUBSET Key
  BY <1>4
<1>10. Anew(ks, Rebuilt(ks))
  BY <1>6, <1>8, <1>9, RebuiltOK
<1> QED
  BY <1>4, <1>8, <1>10 DEF Anew, Anewed

IInv ==
  /\ OneTree(tree) /\ tree.array_size <= program.cells
  /\ program \in Program /\ calls \in 0..program.calls
  /\ it \in Link /\ isNew \in BOOLEAN

LEMMA Programs ==
  ASSUME NEW p \in Program
  PROVE  /\ p.put \in Seq(Key) /\ Len(p.put) \in Nat /\ Len(p.put) <= p.cells
         /\ p.use \subseteq Key /\ p.cells \in Nat /\ p.cells >= 1 /\ p.cells <= MaxNodes
         /\ p.calls \in Nat /\ MaxNodes \in Nat
BY ProgramAssumption, NodesAssumption

LEMMA InitInv == Init => IInv
<1> SUFFICES ASSUME Init PROVE IInv
  OBVIOUS
<1>1. program \in Program /\ it = Nil /\ isNew = FALSE /\ calls = 0
  BY DEF Init
<1>2. PICK put : put = program.put
  OBVIOUS
<1>3. /\ put \in Seq(Key) /\ Len(put) \in Nat /\ Len(put) <= program.cells
      /\ program.cells \in Nat /\ program.cells <= MaxNodes /\ MaxNodes \in Nat /\ program.calls \in Nat
  BY <1>1, <1>2, Programs
<1>4. OneTree(tree) /\ tree.array_size <= program.cells
  <2>1. CASE tree = Filled(put)
    <3>1. Len(put) <= MaxNodes
      BY <1>3
    <3>2. OneTree(tree) /\ tree.array_size <= Len(put)
      BY <1>3, <2>1, <3>1, FilledOK
    <3>3. tree.array_size \in Nat
      BY <3>2, LiveIs DEF OneTree
    <3> QED
      BY <1>3, <3>2, <3>3
  <2>2. CASE put # <<>> /\ tree = Rebuilt({put[i] : i \in 1..Len(put)})
    <3>1. PICK X : X = 1..Len(put)
      OBVIOUS
    <3>2. PICK n \in Nat : n = Len(put)
      BY <1>3
    <3>3. IsFiniteSet(X) /\ Cardinality(X) = n
      <4>1. IsFiniteSet(1..n) /\ Cardinality(1..n) = IF 1 > n THEN 0 ELSE n - 1 + 1
        BY FS_Interval
      <4>2. n - 1 + 1 = n /\ (1 > n => n = 0)
        OBVIOUS
      <4> QED
        BY <3>1, <3>2, <4>1, <4>2
    <3>4. n # 0
      BY <1>3, <2>2, <3>2
    <3>5. X # {}
      <4>1. 1 \in X
        BY <3>1, <3>2, <3>4
      <4> QED
        BY <4>1
    <3>6. \A i \in X : put[i] \in Key
      BY <1>3, <3>1
    <3>7. Cardinality(X) <= n /\ n <= MaxNodes
      BY <1>3, <3>2, <3>3
    <3>8. PICK ks : ks = {put[i] : i \in X} /\ Anew(ks, Rebuilt(ks)) /\ Rebuilt(ks).array_size <= n
      <4>1. Anewed(X, put, n)
        BY <3>3, <3>5, <3>6, <3>7, RebuiltFrom
      <4> QED
        BY <4>1 DEF Anewed
    <3>9. tree = Rebuilt(ks)
      BY <2>2, <3>1, <3>8
    <3>10. OneTree(tree) /\ tree.array_size <= n
      BY <3>8, <3>9 DEF Anew
    <3>11. tree.array_size \in Nat
      BY <3>10, LiveIs DEF OneTree
    <3> QED
      BY <1>3, <3>2, <3>10, <3>11
  <2> QED
    BY <1>2, <2>1, <2>2 DEF Init
<1>5. Nil \in Link /\ 0 \in 0..program.calls
  BY <1>3 DEF Link
<1> QED
  BY <1>1, <1>4, <1>5 DEF IInv

LEMMA Called ==
  ASSUME IInv, Call
  PROVE  program' = program /\ calls' \in 0..program.calls
<1>1. program.calls \in Nat /\ calls \in 0..program.calls /\ calls < program.calls /\ calls' = calls + 1
  BY Programs DEF IInv, Call
<1>2. calls' \in 0..program.calls
  BY <1>1
<1> QED
  BY <1>2 DEF Call

\* A tree in a state that satisfies the invariant.
LEMMA TreeIs ==
  ASSUME NEW t, OneTree(t), NEW n \in Nat, n <= MaxNodes, t.array_size <= n
  PROVE  /\ t.array_size \in Nat /\ Live(t) \subseteq Link /\ Nil \notin Live(t)
         /\ IsFiniteSet(Live(t)) /\ Cardinality(Live(t)) \in Nat /\ Cardinality(Live(t)) <= n
         /\ \A h \in Live(t) : t.data[h] \in Key /\ t.data[h] \in Int
         /\ \A g, h \in Live(t) : t.data[g] = t.data[h] => g = h
<1>1. PICK S, lo, hi, ht, rk : Sound(t, S, lo, hi, ht, rk)
  BY DEF OneTree
<1>2. /\ Live(t) = S /\ S \in SUBSET Cell /\ Nil \notin S /\ S \subseteq 0..t.array_size - 1
      /\ t.array_size \in 0..MaxNodes /\ \A h \in S : t.data[h] \in Key /\ t.data[h] \in Int
  BY <1>1, LiveIs
<1>3. \A g, h \in S : t.data[g] = t.data[h] => g = h
  BY <1>1, DataDiffer DEF Sound
<1>4. PICK a \in Nat : a = t.array_size
  BY <1>2
<1>5. IsFiniteSet(0..a - 1) /\ Cardinality(0..a - 1) = a
  <2>1. CASE a = 0
    <3>1. 0..a - 1 = {}
      BY <2>1
    <3> QED
      BY <2>1, <3>1, FS_EmptySet
  <2>2. CASE a # 0
    <3>1. 0 \in Int /\ a - 1 \in Int /\ ~(0 > a - 1) /\ (a - 1) - 0 + 1 = a
      BY <2>2
    <3> QED
      BY <3>1, FS_Interval
  <2> QED
    BY <2>1, <2>2
<1>6. IsFiniteSet(S) /\ Cardinality(S) <= a
  BY <1>2, <1>4, <1>5, FS_Subset
<1>7. Cardinality(S) \in Nat
  BY <1>6, FS_CardinalityType
<1>8. Cardinality(S) <= n
  BY <1>4, <1>6, <1>7
<1> QED
  BY <1>2, <1>3, <1>4, <1>6, <1>7, <1>8 DEF Link

\* The keys of a tree, and the key at a handle.
Held(t) == {t.data[h] : h \in Live(t)}
KeyAt(t, h) == IF h = Nil THEN NoData ELSE t.data[h]

\* An iterator that goes on, in a tree it has its handle from.
LEMMA NextIs ==
  ASSUME NEW t, OneTree(t), NEW h \in Live(t), NEW s, s = Step(t, h, "hRight")
  PROVE  \/ s = Nil /\ \A g \in Live(t) : ~(t.data[h] < t.data[g])
         \/ /\ s \in Live(t) /\ t.data[h] < t.data[s]
            /\ \A g \in Live(t) : t.data[h] < t.data[g] => t.data[s] <= t.data[g]
<1>1. PICK S, lo, hi, ht, rk : Sound(t, S, lo, hi, ht, rk)
  BY DEF OneTree
<1>2. Live(t) = S /\ \A g \in S : t.data[g] \in Int
  BY <1>1, LiveIs
<1>3. NextTo(t, S, "hRight", h, s)
  <2>1. "hRight" \in Side
    BY DEF Side
  <2> QED
    BY <1>1, <1>2, <2>1, StepIs
<1> QED
  BY <1>2, <1>3 DEF NextTo, Past

-----------------------------------------------------------------------------
(* What each call does to the keys.                                         *)

LEMMA HeldIs ==
  ASSUME NEW t, OneTree(t)
  PROVE  {t.data[h] : h \in InTree(t)} = Held(t)
BY OneTreeHolds DEF Held

\* Handles that are good before and after a step name the same key.
Stay == \A h \in Live(tree) \cap Live(tree') : tree'.data[h] = tree.data[h]

\* The keys, the key of the iterator and the answer after a step.
Gives(ks, k, b) == Held(tree') = ks /\ KeyAt(tree', it') = k /\ isNew' = b

LEMMA TreeKept ==
  ASSUME IInv
  PROVE  /\ OneTree(tree) /\ program \in Program /\ tree.array_size <= program.cells
         /\ program.cells \in Nat /\ program.cells <= MaxNodes
         /\ tree.array_size \in Nat /\ Live(tree) \subseteq Link /\ Nil \notin Live(tree)
         /\ tree.size \in Int
<1>1. OneTree(tree) /\ program \in Program /\ tree.array_size <= program.cells
  BY DEF IInv
<1>2. program.cells \in Nat /\ program.cells <= MaxNodes
  BY <1>1, Programs
<1>3. tree.array_size \in Nat /\ Live(tree) \subseteq Link /\ Nil \notin Live(tree)
  BY <1>1, <1>2, TreeIs
<1>4. tree.size \in Int
  BY <1>1, LiveIs DEF OneTree, TreeType
<1> QED
  BY <1>1, <1>2, <1>3, <1>4

LEMMA InsertDoes ==
  ASSUME IInv, NEW k \in program.use, Insert(k)
  PROVE  IInv' /\ Stay /\ Gives(Held(tree) \cup {k}, k, k \notin Held(tree))
<1>1. /\ OneTree(tree) /\ program \in Program /\ tree.array_size <= program.cells
      /\ program.cells \in Nat /\ program.cells <= MaxNodes
      /\ tree.array_size \in Nat /\ Live(tree) \subseteq Link /\ Nil \notin Live(tree)
      /\ tree.size \in Int
  BY TreeKept
<1>2. program' = program /\ calls' \in 0..program.calls
  BY Called DEF Insert
<1>3. PICK a : a = Inserted(tree, k)
  OBVIOUS
<1>4. tree' = a.tree /\ it' = a.at /\ isNew' = (tree'.size > tree.size) /\ ~Full(tree)
  BY <1>3 DEF Insert
<1>5. tree.free_head = Nil => tree.array_size < program.cells
  BY <1>1, <1>4 DEF Full
<1>6. k \in Key
  BY <1>1, Programs
<1>7. PutIn(tree, k, a)
  <2>1. MaxNodes \in Nat
    BY NodesAssumption
  <2>2. tree.free_head = Nil => tree.array_size < MaxNodes
    BY <1>1, <1>5, <2>1
  <2> QED
    BY <1>1, <1>3, <1>6, <2>2, InsertOK
<1>8. /\ OneTree(tree') /\ it' \in Live(tree') /\ tree'.data[it'] = k
      /\ tree'.array_size = IF it' \notin Live(tree) /\ tree.free_head = Nil THEN tree.array_size + 1
                            ELSE tree.array_size
      /\ \/ it' \in Live(tree) /\ tree' = tree
         \/ /\ it' \notin Live(tree) /\ Live(tree') = Live(tree) \cup {it'}
            /\ tree'.size = tree.size + 1
            /\ \A h \in Live(tree) : tree'.data[h] = tree.data[h] /\ tree.data[h] # k
  BY <1>4, <1>7 DEF PutIn
<1>9. tree'.array_size <= program.cells
  BY <1>1, <1>5, <1>8
<1>10. Live(tree') \subseteq Link /\ Nil \notin Live(tree')
  BY <1>1, <1>8, <1>9, TreeIs
<1>11. isNew' \in BOOLEAN
  BY <1>4
<1>12. IInv'
  BY <1>1, <1>2, <1>8, <1>9, <1>10, <1>11 DEF IInv
<1>13. Stay
  BY <1>8 DEF Stay
<1>14. KeyAt(tree', it') = k
  BY <1>8, <1>10 DEF KeyAt
<1>15. CASE it' \in Live(tree) /\ tree' = tree
  <2>1. k \in Held(tree)
    BY <1>8, <1>15 DEF Held
  <2>2. isNew' = FALSE
    <3>1. ~(tree'.size > tree.size)
      BY <1>1, <1>15
    <3>2. ~isNew'
      BY <1>4, <3>1
    <3> QED
      BY <1>11, <3>2
  <2>3. Held(tree') = Held(tree) \cup {k}
    BY <1>15, <2>1
  <2> QED
    BY <1>12, <1>13, <1>14, <2>1, <2>2, <2>3 DEF Gives
<1>16. CASE /\ it' \notin Live(tree) /\ Live(tree') = Live(tree) \cup {it'}
            /\ tree'.size = tree.size + 1
            /\ \A h \in Live(tree) : tree'.data[h] = tree.data[h] /\ tree.data[h] # k
  <2>1. k \notin Held(tree)
    BY <1>16 DEF Held
  <2>2. isNew' = TRUE
    <3>1. tree'.size > tree.size
      BY <1>1, <1>16
    <3> QED
      BY <1>4, <3>1, Zenon
  <2>3. Held(tree') = Held(tree) \cup {k}
    BY <1>8, <1>16 DEF Held
  <2> QED
    BY <1>12, <1>13, <1>14, <2>1, <2>2, <2>3 DEF Gives
<1> QED
  BY <1>8, <1>15, <1>16

LEMMA RefusalDoes ==
  ASSUME IInv, Insert_Full
  PROVE  IInv' /\ Stay /\ Gives(Held(tree), NoData, FALSE)
<1>1. program' = program /\ calls' \in 0..program.calls
  BY Called DEF Insert_Full
<1>2. tree' = tree /\ it' = Nil /\ isNew' = FALSE
  BY DEF Insert_Full
<1>3. Nil \in Link
  BY DEF Link
<1> QED
  BY <1>1, <1>2, <1>3 DEF IInv, Stay, Gives, KeyAt

\* Taking the node p out.
LEMMA TakingDoes ==
  ASSUME IInv, NEW p \in Live(tree), tree' = Erased(tree, tree.data[p]),
         Call, it' \in Link, isNew' \in BOOLEAN
  PROVE  IInv' /\ Stay /\ tree'.data = tree.data /\ Held(tree') = Held(tree) \ {tree.data[p]}
<1>1. /\ OneTree(tree) /\ program \in Program /\ tree.array_size <= program.cells
      /\ program.cells \in Nat /\ program.cells <= MaxNodes
  BY TreeKept
<1>2. program' = program /\ calls' \in 0..program.calls
  BY Called
<1>3. PICK k : k = tree.data[p]
  OBVIOUS
<1>4. TakenOut(tree, p, tree')
  BY <1>1, <1>3, EraseOK
<1>5. /\ OneTree(tree') /\ tree'.data = tree.data /\ tree'.array_size = tree.array_size
      /\ Live(tree') = Live(tree) \ {p}
  BY <1>4 DEF TakenOut
<1>6. IInv'
  BY <1>1, <1>2, <1>5 DEF IInv
<1>7. Stay
  BY <1>5 DEF Stay
<1>8. \A g, h \in Live(tree) : tree.data[g] = tree.data[h] => g = h
  BY <1>1, TreeIs
<1>9. Held(tree') = Held(tree) \ {tree.data[p]}
  BY <1>5, <1>8 DEF Held
<1> QED
  BY <1>5, <1>6, <1>7, <1>9

LEMMA EraseDoes ==
  ASSUME IInv, NEW k \in program.use, Erase(k)
  PROVE  IInv' /\ Stay /\ Gives(Held(tree) \ {k}, NoData, FALSE)
<1>1. OneTree(tree) /\ program \in Program /\ Nil \notin Live(tree) /\ Nil \in Link
  BY TreeKept DEF Link
<1>2. k \in Key
  BY <1>1, Programs
<1>3. PICK p : p = Find(tree, k)
  OBVIOUS
<1>4. \/ p = Nil /\ \A g \in Live(tree) : tree.data[g] # k
      \/ p \in Live(tree) /\ tree.data[p] = k
  BY <1>1, <1>2, <1>3, FindOK
<1>5. Call /\ it' = Nil /\ isNew' = FALSE /\ tree' = IF p = Nil THEN tree ELSE Erased(tree, k)
  BY <1>3 DEF Erase
<1>6. KeyAt(tree', it') = NoData
  BY <1>5 DEF KeyAt
<1>7. CASE p = Nil
  <2>1. tree' = tree /\ \A g \in Live(tree) : tree.data[g] # k
    BY <1>1, <1>4, <1>5, <1>7
  <2>2. program' = program /\ calls' \in 0..program.calls
    BY <1>5, Called
  <2>3. IInv'
    BY <1>1, <1>5, <2>1, <2>2 DEF IInv
  <2>4. Stay /\ Held(tree') = Held(tree) \ {k}
    BY <2>1 DEF Stay, Held
  <2> QED
    BY <1>5, <1>6, <2>3, <2>4 DEF Gives
<1>8. CASE p # Nil
  <2>1. p \in Live(tree) /\ tree.data[p] = k /\ tree' = Erased(tree, tree.data[p])
    BY <1>4, <1>5, <1>8
  <2>2. it' \in Link /\ isNew' \in BOOLEAN
    BY <1>1, <1>5
  <2>3. IInv' /\ Stay /\ Held(tree') = Held(tree) \ {tree.data[p]}
    BY <1>5, <2>1, <2>2, TakingDoes
  <2> QED
    BY <1>5, <1>6, <2>1, <2>3 DEF Gives
<1> QED
  BY <1>7, <1>8

\* Where the iterator goes on to is the next key.
NextKey(t, k, n) ==
  \/ n = NoData /\ \A j \in Held(t) : ~(k < j)
  \/ n \in Held(t) /\ k < n /\ \A j \in Held(t) : k < j => n <= j

LEMMA MoveDoes ==
  ASSUME IInv, NEW h \in Live(tree), DeleteAndMoveNext(h)
  PROVE  /\ IInv' /\ Stay
         /\ \E n : NextKey(tree, tree.data[h], n) /\ Gives(Held(tree) \ {tree.data[h]}, n, FALSE)
<1>1. OneTree(tree) /\ Nil \notin Live(tree) /\ Nil \in Link /\ Live(tree) \subseteq Link
  BY TreeKept DEF Link
<1>2. PICK s : s = Step(tree, h, "hRight")
  OBVIOUS
<1>3. Call /\ it' = s /\ isNew' = FALSE /\ tree' = Erased(tree, tree.data[h])
  BY <1>2 DEF DeleteAndMoveNext
<1>4. \/ s = Nil /\ \A g \in Live(tree) : ~(tree.data[h] < tree.data[g])
      \/ /\ s \in Live(tree) /\ tree.data[h] < tree.data[s]
         /\ \A g \in Live(tree) : tree.data[h] < tree.data[g] => tree.data[s] <= tree.data[g]
  BY <1>1, <1>2, NextIs
<1>5. it' \in Link /\ isNew' \in BOOLEAN
  BY <1>1, <1>3, <1>4
<1>6. IInv' /\ Stay /\ tree'.data = tree.data /\ Held(tree') = Held(tree) \ {tree.data[h]}
  BY <1>3, <1>5, TakingDoes
<1>7. PICK n : n = KeyAt(tree, s)
  OBVIOUS
<1>8. KeyAt(tree', it') = n
  BY <1>3, <1>6, <1>7 DEF KeyAt
<1>9. NextKey(tree, tree.data[h], n)
  BY <1>1, <1>4, <1>7 DEF NextKey, Held, KeyAt
<1> QED
  BY <1>3, <1>6, <1>8, <1>9 DEF Gives

LEMMA ClearDoes ==
  ASSUME IInv, Clear
  PROVE  IInv' /\ Stay /\ Gives({}, NoData, FALSE)
<1>1. program' = program /\ calls' \in 0..program.calls
  BY Called DEF Clear
<1>2. tree' = Empty /\ it' = Nil /\ isNew' = FALSE
  BY DEF Clear
<1>3. OneTree(tree') /\ Live(tree') = {} /\ tree'.array_size = 0
  BY <1>2, EmptyOK
<1>4. Nil \in Link /\ program \in Program /\ 0 <= program.cells
  BY TreeKept DEF Link
<1>5. IInv'
  BY <1>1, <1>2, <1>3, <1>4 DEF IInv
<1>6. Stay /\ Held(tree') = {}
  BY <1>3 DEF Stay, Held
<1> QED
  BY <1>2, <1>5, <1>6 DEF Gives, KeyAt

LEMMA RepairDoes ==
  ASSUME IInv, Repair
  PROVE  IInv' /\ Gives(Held(tree), NoData, FALSE)
<1>1. program' = program /\ calls' \in 0..program.calls
  BY Called DEF Repair
<1>2. /\ Live(tree) # {} /\ it' = Nil /\ isNew' = FALSE
      /\ tree' = Rebuilt({tree.data[h] : h \in Live(tree)})
  BY DEF Repair
<1>3. /\ OneTree(tree) /\ program \in Program /\ tree.array_size <= program.cells
      /\ program.cells \in Nat /\ program.cells <= MaxNodes
  BY TreeKept
<1>4. PICK n \in Nat : n = program.cells
  BY <1>3
<1>5. PICK X : X = Live(tree)
  OBVIOUS
<1>6. PICK f : f = tree.data
  OBVIOUS
<1>7. IsFiniteSet(X) /\ Cardinality(X) <= n /\ (\A h \in X : f[h] \in Key) /\ n <= MaxNodes /\ X # {}
  BY <1>2, <1>3, <1>4, <1>5, <1>6, TreeIs
<1>8. Anewed(X, f, n)
  BY <1>7, RebuiltFrom
<1>9. PICK ks : ks = {f[x] : x \in X} /\ Anew(ks, Rebuilt(ks)) /\ Rebuilt(ks).array_size <= n
  BY <1>8 DEF Anewed
<1>10. tree' = Rebuilt(ks) /\ ks = Held(tree)
  BY <1>2, <1>5, <1>6, <1>9 DEF Held
<1>11. OneTree(tree') /\ tree'.array_size <= program.cells /\ Held(tree') = ks
  BY <1>4, <1>9, <1>10 DEF Anew, Held
<1>12. Nil \in Link
  BY DEF Link
<1>13. IInv'
  BY <1>1, <1>2, <1>3, <1>11, <1>12 DEF IInv
<1> QED
  BY <1>2, <1>10, <1>11, <1>13 DEF Gives, KeyAt

-----------------------------------------------------------------------------
(* The theorems.                                                            *)

\* Every step keeps the invariant.
LEMMA StepInv == IInv /\ [Next]_vars => IInv'
<1> SUFFICES ASSUME IInv, [Next]_vars PROVE IInv'
  OBVIOUS
<1>1. ASSUME NEW k \in program.use, Insert(k) PROVE IInv'
  BY <1>1, InsertDoes
<1>2. ASSUME NEW k \in program.use, Erase(k) PROVE IInv'
  BY <1>2, EraseDoes
<1>3. CASE Insert_Full
  BY <1>3, RefusalDoes
<1>4. CASE Clear
  BY <1>4, ClearDoes
<1>5. CASE Repair
  BY <1>5, RepairDoes
<1>6. ASSUME NEW h \in Live(tree), DeleteAndMoveNext(h) PROVE IInv'
  BY <1>6, MoveDoes
<1>7. CASE UNCHANGED vars
  BY <1>7 DEF vars, IInv
<1> QED
  BY <1>1, <1>2, <1>3, <1>4, <1>5, <1>6, <1>7 DEF Next

LEMMA InvAlways == Spec => []IInv
<1>1. IInv /\ [Next]_vars => IInv'
  BY StepInv
<1> QED
  BY InitInv, <1>1, PTL DEF Spec

\* Whatever insertions, erasures and rebuilds went before, the links make one
\* ordered and balanced tree (____insert, ___erase, FastRebuild__SetNode).
THEOREM TreesOrdered == Spec => []TreeOK
<1>1. IInv => TreeOK
  <2> SUFFICES ASSUME IInv PROVE TreeOK
    OBVIOUS
  <2>1. TreeHolds(tree)
    BY OneTreeHolds DEF IInv
  <2>2. /\ it \in Link /\ isNew \in BOOLEAN /\ calls \in 0..program.calls /\ program \in Program
    BY DEF IInv
  <2> QED
    BY <2>1, <2>2 DEF TreeOK, TreeHolds
<1> QED
  BY InvAlways, <1>1, PTL

\* No cell of the array is lost and none is used twice: the tree and the free
\* list share them out (____insert takes a cell, ___erase gives it back).
THEOREM CellsShared == Spec => []CellsAccounted
<1>1. IInv => CellsAccounted
  <2> SUFFICES ASSUME IInv PROVE CellsAccounted
    OBVIOUS
  <2>1. CellsHold(tree)
    BY OneTreeCells DEF IInv
  <2> QED
    BY <2>1 DEF CellsAccounted, CellsHold
<1> QED
  BY InvAlways, <1>1, PTL

\* Every walk from either end and every search finds the keys in their order,
\* from every node (begin, rbegin, ++, --, find, lower_bound, upper_bound).
THEOREM WalksExact == Spec => []WalkExact
<1>1. IInv => WalkExact
  <2> SUFFICES ASSUME IInv PROVE WalkExact
    OBVIOUS
  <2>1. WalkHolds(tree)
    BY OneTreeWalks DEF IInv
  <2> QED
    BY <2>1 DEF WalkExact, WalkHolds, FirstNode, FinalNode
<1> QED
  BY InvAlways, <1>1, PTL

\* A handle stays its key's until the key is erased or the set is rebuilt
\* (___erase moves a node and not its data).
THEOREM HandlesGood == Spec => HandlesStay
<1>1. IInv /\ [Next]_vars =>
        [~Repair => \A h \in Live(tree) \cap Live(tree') : tree'.data[h] = tree.data[h]]_vars
  <2> SUFFICES ASSUME IInv, [Next]_vars, ~Repair PROVE Stay
    BY DEF Stay
  <2>1. ASSUME NEW k \in program.use, Insert(k) PROVE Stay
    BY <2>1, InsertDoes
  <2>2. ASSUME NEW k \in program.use, Erase(k) PROVE Stay
    BY <2>2, EraseDoes
  <2>3. CASE Insert_Full
    BY <2>3, RefusalDoes
  <2>4. CASE Clear
    BY <2>4, ClearDoes
  <2>5. ASSUME NEW h \in Live(tree), DeleteAndMoveNext(h) PROVE Stay
    BY <2>5, MoveDoes
  <2>6. CASE UNCHANGED vars
    BY <2>6 DEF vars, Stay
  <2> QED
    BY <2>1, <2>2, <2>3, <2>4, <2>5, <2>6 DEF Next
<1> QED
  BY InvAlways, <1>1, PTL DEF Spec, HandlesStay

\* The abstract state is what Held and KeyAt say.
LEMMA KeysAre ==
  ASSUME IInv, IInv'
  PROVE  /\ {tree.data[h] : h \in InTree(tree)} = Held(tree)
         /\ {tree.data[h] : h \in InTree(tree)}' = Held(tree')
         /\ (IF it = Nil THEN NoData ELSE tree.data[it]) = KeyAt(tree, it)
         /\ (IF it = Nil THEN NoData ELSE tree.data[it])' = KeyAt(tree', it')
<1>1. OneTree(tree) /\ OneTree(tree')
  BY DEF IInv
<1>2. {tree'.data[h] : h \in InTree(tree')} = Held(tree')
  BY <1>1, HeldIs
<1> QED
  BY <1>1, <1>2, HeldIs DEF KeyAt

\* The next key is the least of the greater ones.
LEMMA NextKeyIs ==
  ASSUME IInv, NEW k, NEW n, NextKey(tree, k, n), k \in Held(tree)
  PROVE  n = Keys!Least({j \in Held(tree) : j > k})
<1>1. \A j \in Held(tree) : j \in Int
  BY TreeIs, TreeKept DEF Held
<1>2. PICK G : G = {j \in Held(tree) : j > k}
  OBVIOUS
<1>3. \A j \in G : j \in Int
  BY <1>1, <1>2
<1>4. (n = NoData /\ G = {}) \/ (n \in G /\ \A j \in G : n <= j)
  BY <1>1, <1>2 DEF NextKey
<1>5. ASSUME n \in G, \A j \in G : n <= j PROVE n = Keys!Least(G)
  <2>1. PICK c : c = Keys!Least(G)
    OBVIOUS
  <2>2. c \in G /\ \A j \in G : c <= j
    BY <1>5, <2>1 DEF Keys!Least
  <2> QED
    BY <1>3, <1>5, <2>1, <2>2
<1>6. n = NoData /\ G = {} => n = Keys!Least(G)
  BY DEF Keys!Least
<1> QED
  BY <1>2, <1>4, <1>5, <1>6

\* Each call does to the keys what the abstract set says.
LEMMA CallsMatch ==
  ASSUME IInv
  PROVE  /\ \A k \in program.use : /\ Insert(k) => Keys!Insert(k)
                                   /\ Erase(k) => Keys!Erase(k)
         /\ \A h \in Live(tree) :
              DeleteAndMoveNext(h) => Keys!EraseAndMove(tree.data[h])
         /\ Insert_Full => Keys!Refuse
         /\ Clear => Keys!Clear
         /\ Repair => Keys!Rebuild
<1>1. ASSUME NEW k \in program.use, Insert(k) PROVE Keys!Insert(k)
  <2>1. IInv' /\ Gives(Held(tree) \cup {k}, k, k \notin Held(tree))
    BY <1>1, InsertDoes
  <2> QED
    BY <2>1, KeysAre DEF Keys!Insert, Gives
<1>2. ASSUME NEW k \in program.use, Erase(k) PROVE Keys!Erase(k)
  <2>1. IInv' /\ Gives(Held(tree) \ {k}, NoData, FALSE)
    BY <1>2, EraseDoes
  <2> QED
    BY <2>1, KeysAre DEF Keys!Erase, Gives
<1>3. ASSUME NEW h \in Live(tree), DeleteAndMoveNext(h) PROVE Keys!EraseAndMove(tree.data[h])
  <2>1. PICK n : NextKey(tree, tree.data[h], n) /\ Gives(Held(tree) \ {tree.data[h]}, n, FALSE)
    BY <1>3, MoveDoes
  <2>2. IInv'
    BY <1>3, MoveDoes
  <2>3. tree.data[h] \in Held(tree)
    BY DEF Held
  <2>4. n = Keys!Least({j \in Held(tree) : j > tree.data[h]})
    BY <2>1, <2>3, NextKeyIs
  <2> QED
    BY <2>1, <2>2, <2>3, <2>4, KeysAre DEF Keys!EraseAndMove, Gives
<1>4. ASSUME Insert_Full PROVE Keys!Refuse
  <2>1. IInv' /\ Gives(Held(tree), NoData, FALSE)
    BY <1>4, RefusalDoes
  <2> QED
    BY <2>1, KeysAre DEF Keys!Refuse, Gives
<1>5. ASSUME Clear PROVE Keys!Clear
  <2>1. IInv' /\ Gives({}, NoData, FALSE)
    BY <1>5, ClearDoes
  <2> QED
    BY <2>1, KeysAre DEF Keys!Clear, Gives
<1>6. ASSUME Repair PROVE Keys!Rebuild
  <2>1. IInv' /\ Gives(Held(tree), NoData, FALSE)
    BY <1>6, RepairDoes
  <2> QED
    BY <2>1, KeysAre DEF Keys!Rebuild, Gives
<1> QED
  BY <1>1, <1>2, <1>3, <1>4, <1>5, <1>6

\* The tree in shared memory is a set of keys: each call puts in or takes out
\* the key it is given and returns what the set promises (insert, erase,
\* DeleteAndMoveNext, Clear, repair).
THEOREM RefinesKeySet == Spec => ImplementsKeySet
<1>1. Init => Keys!Init
  <2> SUFFICES ASSUME Init PROVE Keys!Init
    OBVIOUS
  <2>1. IInv /\ it = Nil /\ isNew = FALSE
    BY InitInv DEF Init
  <2>2. {tree.data[h] : h \in InTree(tree)} = Held(tree)
    BY <2>1, HeldIs DEF IInv
  <2>3. \A h \in Live(tree) : tree.data[h] \in Key
    BY <2>1, TreeIs, TreeKept
  <2>4. Held(tree) \in SUBSET Key
    BY <2>3 DEF Held
  <2> QED
    BY <2>1, <2>2, <2>4 DEF Keys!Init
<1>2. IInv /\ [Next]_vars => [Keys!Next]_Keys!vars
  <2> SUFFICES ASSUME IInv, [Next]_vars PROVE [Keys!Next]_Keys!vars
    OBVIOUS
  <2>1. program.use \subseteq Key /\ \A h \in Live(tree) : tree.data[h] \in Key
    BY Programs, TreeIs, TreeKept
  <2>2. ASSUME NEW k \in program.use, Insert(k) \/ Erase(k) PROVE Keys!Next
    BY <2>1, <2>2, CallsMatch DEF Keys!Next
  <2>3. CASE Insert_Full \/ Clear \/ Repair
    BY <2>3, CallsMatch DEF Keys!Next
  <2>4. ASSUME NEW h \in Live(tree), DeleteAndMoveNext(h) PROVE Keys!Next
    <3>1. tree.data[h] \in Key
      BY <2>1
    <3>2. Keys!EraseAndMove(tree.data[h])
      BY <2>4, CallsMatch, Zenon
    <3> QED
      BY <3>1, <3>2 DEF Keys!Next, Keys!EraseAndMove
  <2>5. CASE UNCHANGED vars
    BY <2>5 DEF vars, Keys!vars
  <2> QED
    BY <2>2, <2>3, <2>4, <2>5 DEF Next
<1>3. IInv /\ [Next]_vars =>
        [/\ \A k \in program.use : /\ Insert(k) => Keys!Insert(k)
                                   /\ Erase(k) => Keys!Erase(k)
         /\ \A h \in Live(tree) :
              DeleteAndMoveNext(h) => Keys!EraseAndMove(tree.data[h])
         /\ Insert_Full => Keys!Refuse
         /\ Clear => Keys!Clear
         /\ Repair => Keys!Rebuild]_vars
  BY CallsMatch
<1> QED
  BY <1>1, <1>2, <1>3, InvAlways, PTL DEF Spec, ImplementsKeySet, Keys!Spec
=============================================================================
