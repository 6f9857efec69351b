---------------------------- MODULE ShmSetTrees ----------------------------
(***************************************************************************)
(* Lemmas about the operators of ShmSet that turn trees into trees, for    *)
(* any keys and any number of cells.                                       *)
(*                                                                         *)
(* A tree is a set S of cells with, for every node h, the interval         *)
(* (lo[h], hi[h]) its keys lie in and the height ht[h] of what is below    *)
(* it.  The two links are one function of the side, so every lemma is said *)
(* once for both sides.  In the middle of a call one node counts another   *)
(* height on one side than there is (Even with q, f and e): a new leaf, a  *)
(* node taken out or a rotation leaves one such place, and the way back    *)
(* carries it to the root.                                                 *)
(*                                                                         *)
(* What the recursive functions of the model return is not proved by       *)
(* induction over data: Defined says that a function with the equation of  *)
(* any of them exists, and what holds of its values is proved by induction *)
(* on a natural number, the height or the place in the sorted order.       *)
(***************************************************************************)
EXTENDS ShmSet, FiniteSetTheorems, WellFoundedInduction, TLAPS

-----------------------------------------------------------------------------
(* Ordered trees.  Each node h of S has the data below it between lo[h] and *)
(* hi[h].                                                                  *)

\* What is below h on side f lies between these two.
Low(data, lo, f, h) == IF f = "hLeft" THEN lo[h] ELSE data[h]
Upp(data, hi, f, h) == IF f = "hLeft" THEN data[h] ELSE hi[h]

\* One of two nodes is below the other on one side, or they are apart.
Apart(data, lo, hi, g, h) ==
  \/ lo[g] <= lo[h] /\ hi[h] <= data[g]
  \/ data[g] <= lo[h] /\ hi[h] <= hi[g]
  \/ lo[h] <= lo[g] /\ hi[g] <= data[h]
  \/ data[h] <= lo[g] /\ hi[g] <= hi[h]
  \/ hi[h] <= lo[g]
  \/ hi[g] <= lo[h]

Numbers(S, data, lo, hi) ==
  /\ S \in SUBSET Cell
  /\ data \in [Cell -> Int] /\ lo \in [Cell -> Int] /\ hi \in [Cell -> Int]

Between(S, data, lo, hi) == \A h \in S : lo[h] < data[h] /\ data[h] < hi[h]

Nested(S, data, lo, hi) == \A g, h \in S : g # h => Apart(data, lo, hi, g, h)

Kid(S, child, par, data, lo, hi, f, h) ==
  \/ /\ child[f][h] = Nil
     /\ \A g \in S : ~(Low(data, lo, f, h) < data[g] /\ data[g] < Upp(data, hi, f, h))
  \/ /\ child[f][h] \in S /\ par[child[f][h]] = h
     /\ lo[child[f][h]] = Low(data, lo, f, h) /\ hi[child[f][h]] = Upp(data, hi, f, h)

Kids(S, child, par, data, lo, hi) ==
  \A h \in S, f \in Side : Kid(S, child, par, data, lo, hi, f, h)

Parents(S, root, child, par) ==
  \A h \in S : \/ par[h] = Nil /\ root = h
               \/ par[h] \in S /\ \E f \in Side : child[f][par[h]] = h

Root(S, root, par, lo, hi) ==
  \/ root = Nil /\ S = {}
  \/ /\ root \in S /\ par[root] = Nil
     /\ \A h \in S : lo[root] <= lo[h] /\ hi[h] <= hi[root]

Shape(S, root, child, par, data, lo, hi) ==
  /\ Numbers(S, data, lo, hi) /\ Between(S, data, lo, hi) /\ Nested(S, data, lo, hi)
  /\ Kids(S, child, par, data, lo, hi) /\ Parents(S, root, child, par)
  /\ Root(S, root, par, lo, hi)

-----------------------------------------------------------------------------
(* Rotation *)

\* The intervals after a rotation: c gets p's, p is left with one side of c.
LoTurned(data, lo, p, c, f) ==
  [h \in Cell |-> IF h = c THEN lo[p]
                  ELSE IF h = p /\ f = "hLeft" THEN data[c] ELSE lo[h]]
HiTurned(data, hi, p, c, f) ==
  [h \in Cell |-> IF h = c THEN hi[p]
                  ELSE IF h = p /\ f = "hRight" THEN data[c] ELSE hi[h]]

LEMMA TurnNested ==
  ASSUME NEW S, NEW data, NEW lo, NEW hi, NEW p \in S, NEW c \in S, NEW f \in Side,
         Numbers(S, data, lo, hi), Between(S, data, lo, hi), Nested(S, data, lo, hi),
         lo[c] = Low(data, lo, f, p), hi[c] = Upp(data, hi, f, p)
  PROVE  LET lo2 == LoTurned(data, lo, p, c, f)
             hi2 == HiTurned(data, hi, p, c, f)
         IN /\ Numbers(S, data, lo2, hi2) /\ Between(S, data, lo2, hi2)
            /\ Nested(S, data, lo2, hi2)
<1> DEFINE lo2 == LoTurned(data, lo, p, c, f)
           hi2 == HiTurned(data, hi, p, c, f)
<1>1. /\ S \in SUBSET Cell /\ p # c
      /\ data \in [Cell -> Int] /\ lo \in [Cell -> Int] /\ hi \in [Cell -> Int]
  BY DEF Numbers, Between, Low, Upp, Side
<1>2. Numbers(S, data, lo2, hi2)
  BY <1>1 DEF Numbers, LoTurned, HiTurned
<1>3. /\ \A h \in S : h # c /\ h # p => lo2[h] = lo[h] /\ hi2[h] = hi[h]
      /\ lo2[c] = lo[p] /\ hi2[c] = hi[p]
      /\ f = "hLeft" => lo2[p] = data[c] /\ hi2[p] = hi[p]
      /\ f = "hRight" => lo2[p] = lo[p] /\ hi2[p] = data[c]
  BY <1>1 DEF LoTurned, HiTurned
<1>4. \A h \in S : data[h] \in Int /\ lo[h] \in Int /\ hi[h] \in Int
  BY <1>1
<1>5. /\ f = "hLeft" => lo[c] = lo[p] /\ hi[c] = data[p]
      /\ f = "hRight" => lo[c] = data[p] /\ hi[c] = hi[p]
      /\ f = "hLeft" \/ f = "hRight"
  BY DEF Low, Upp, Side
<1> HIDE DEF lo2, hi2
<1>6. Between(S, data, lo2, hi2)
  BY <1>3, <1>4, <1>5 DEF Between
<1>7. ASSUME NEW g \in S, g # c, g # p
      PROVE  Apart(data, lo2, hi2, c, g) /\ Apart(data, lo2, hi2, p, g)
  <2>1. Apart(data, lo, hi, c, g) /\ Apart(data, lo, hi, p, g)
    BY <1>7 DEF Nested
  <2>2. lo2[g] = lo[g] /\ hi2[g] = hi[g]
    BY <1>3, <1>7
  <2>3. /\ data[g] \in Int /\ lo[g] \in Int /\ hi[g] \in Int
        /\ data[c] \in Int /\ lo[c] \in Int /\ hi[c] \in Int
        /\ data[p] \in Int /\ lo[p] \in Int /\ hi[p] \in Int
    BY <1>4
  <2>4. /\ lo[g] < data[g] /\ data[g] < hi[g] /\ lo[c] < data[c] /\ data[c] < hi[c]
        /\ lo[p] < data[p] /\ data[p] < hi[p]
    BY DEF Between
  <2> QED
    BY <1>3, <1>5, <2>1, <2>2, <2>3, <2>4 DEF Apart
<1>8. Apart(data, lo2, hi2, c, p)
  BY <1>3, <1>4, <1>5 DEF Between, Apart
<1>9. Nested(S, data, lo2, hi2)
  <2> SUFFICES ASSUME NEW g \in S, NEW h \in S, g # h
               PROVE  Apart(data, lo2, hi2, g, h)
    BY DEF Nested
  <2>1. CASE g = c \/ g = p \/ h = c \/ h = p
    BY <1>7, <1>8, <2>1 DEF Apart
  <2>2. CASE ~(g = c \/ g = p \/ h = c \/ h = p)
    <3>1. Apart(data, lo, hi, g, h)
      BY DEF Nested
    <3> QED
      BY <1>3, <2>2, <3>1 DEF Apart
  <2> QED
    BY <2>1, <2>2
<1> QED
  BY <1>2, <1>6, <1>9 DEF lo2, hi2

\* The links after a rotation.
ChildTurned(child, par, p, c, f) ==
  [g \in Side |-> [h \in Cell |->
     IF h = p /\ g = f THEN child[Other(f)][c]
     ELSE IF h = c /\ g = Other(f) THEN p
     ELSE IF h = par[p] /\ child[g][h] = p THEN c ELSE child[g][h]]]
ParTurned(child, par, p, c, f) ==
  [h \in Cell |-> IF h = p THEN c ELSE IF h = c THEN par[p]
                  ELSE IF h = child[Other(f)][c] THEN p ELSE par[h]]
RootTurned(root, par, p, c) == IF par[p] = Nil THEN c ELSE root

Links(child, par) == child \in [Side -> [Cell -> Link]] /\ par \in [Cell -> Link]

\* Who is not whom around a node and its child.
LEMMA Family ==
  ASSUME NEW S, NEW root, NEW child, NEW par, NEW data, NEW lo, NEW hi,
         Links(child, par), Shape(S, root, child, par, data, lo, hi),
         NEW p \in S, NEW f \in Side, child[f][p] \in S
  PROVE  /\ child[f][p] # p /\ par[child[f][p]] = p
         /\ lo[child[f][p]] = Low(data, lo, f, p) /\ hi[child[f][p]] = Upp(data, hi, f, p)
         /\ child[f][p] # par[p] /\ par[p] # p
         /\ \A g \in Side : g # f => child[g][p] # child[f][p]
<1> DEFINE c == child[f][p]
<1>1. \A h \in S : data[h] \in Int /\ lo[h] \in Int /\ hi[h] \in Int /\ h # Nil
  BY DEF Shape, Numbers, Cell, Nil
<1>2. \A h \in S : lo[h] < data[h] /\ data[h] < hi[h]
  BY DEF Shape, Between
<1>3. \A h \in S, g \in Side : child[g][h] \in S =>
        /\ par[child[g][h]] = h /\ lo[child[g][h]] = Low(data, lo, g, h)
        /\ hi[child[g][h]] = Upp(data, hi, g, h)
  BY <1>1 DEF Shape, Kids, Kid
<1>4. par[p] = Nil \/ (par[p] \in S /\ \E g \in Side : child[g][par[p]] = p)
  BY DEF Shape, Parents
<1>5. \A h \in S, g \in Side : child[g][h] \in S =>
        /\ ~(lo[child[g][h]] < data[h] /\ data[h] < hi[child[g][h]])
        /\ lo[h] <= lo[child[g][h]] /\ hi[child[g][h]] <= hi[h]
  <2> SUFFICES ASSUME NEW h \in S, NEW g \in Side, child[g][h] \in S
               PROVE  /\ ~(lo[child[g][h]] < data[h] /\ data[h] < hi[child[g][h]])
                      /\ lo[h] <= lo[child[g][h]] /\ hi[child[g][h]] <= hi[h]
    OBVIOUS
  <2>1. lo[child[g][h]] = Low(data, lo, g, h) /\ hi[child[g][h]] = Upp(data, hi, g, h)
    BY <1>3
  <2> QED
    BY <1>1, <1>2, <2>1 DEF Low, Upp
<1>6. c \in S /\ par[c] = p /\ lo[c] = Low(data, lo, f, p) /\ hi[c] = Upp(data, hi, f, p)
  BY <1>3
<1> HIDE DEF c
<1>7. c # p
  BY <1>1, <1>2, <1>5, <1>6 DEF c
<1>8. c # par[p] /\ par[p] # p
  <2>1. CASE par[p] = Nil
    BY <1>1, <1>6, <2>1
  <2>2. CASE par[p] # Nil
    <3>1. PICK g \in Side : child[g][par[p]] = p
      BY <1>4, <2>2
    <3>2. par[p] \in S
      BY <1>4, <2>2
    <3>3. /\ ~(lo[p] < data[par[p]] /\ data[par[p]] < hi[p])
      BY <1>5, <3>1, <3>2
    <3>4. lo[p] <= lo[c] /\ hi[c] <= hi[p]
      BY <1>5, <1>6 DEF c
    <3> QED
      BY <1>1, <1>2, <1>6, <3>3, <3>4
  <2> QED
    BY <2>1, <2>2
<1>9. ASSUME NEW g \in Side, g # f PROVE child[g][p] # c
  <2> SUFFICES ASSUME child[g][p] = c PROVE FALSE
    OBVIOUS
  <2>1. lo[c] = Low(data, lo, g, p) /\ hi[c] = Upp(data, hi, g, p)
    BY <1>3, <1>6
  <2>2. data[p] # lo[p] /\ data[p] # hi[p]
    BY <1>1, <1>2
  <2> QED
    BY <1>6, <1>9, <2>1, <2>2 DEF Low, Upp, Side
<1> QED
  BY <1>6, <1>7, <1>8, <1>9 DEF c

LEMMA TurnShape ==
  ASSUME NEW S, NEW root, NEW child, NEW par, NEW data, NEW lo, NEW hi,
         Links(child, par), Shape(S, root, child, par, data, lo, hi),
         NEW p \in S, NEW f \in Side, NEW c \in S, child[f][p] = c
  PROVE  Shape(S, RootTurned(root, par, p, c), ChildTurned(child, par, p, c, f),
               ParTurned(child, par, p, c, f), data,
               LoTurned(data, lo, p, c, f), HiTurned(data, hi, p, c, f))
<1> DEFINE lo2 == LoTurned(data, lo, p, c, f)
           hi2 == HiTurned(data, hi, p, c, f)
           child2 == ChildTurned(child, par, p, c, f)
           par2 == ParTurned(child, par, p, c, f)
           root2 == RootTurned(root, par, p, c)
           inner == child[Other(f)][c]
\* The family.
<1>1. /\ c # p /\ par[c] = p /\ c # par[p] /\ par[p] # p
      /\ lo[c] = Low(data, lo, f, p) /\ hi[c] = Upp(data, hi, f, p)
      /\ \A g \in Side : g # f => child[g][p] # c
  BY Family
<1>2. Numbers(S, data, lo2, hi2) /\ Between(S, data, lo2, hi2) /\ Nested(S, data, lo2, hi2)
  BY <1>1, TurnNested DEF Shape
<1>3. /\ S \in SUBSET Cell /\ Nil \notin S
      /\ data \in [Cell -> Int] /\ lo \in [Cell -> Int] /\ hi \in [Cell -> Int]
  BY DEF Shape, Numbers, Cell, Nil
<1>4. /\ \A h \in S : h # c /\ h # p => lo2[h] = lo[h] /\ hi2[h] = hi[h]
      /\ lo2[c] = lo[p] /\ hi2[c] = hi[p]
      /\ f = "hLeft" => lo2[p] = data[c] /\ hi2[p] = hi[p]
      /\ f = "hRight" => lo2[p] = lo[p] /\ hi2[p] = data[c]
  BY <1>1, <1>3 DEF LoTurned, HiTurned
<1>5. \A h \in S, g \in Side : child[g][h] \in S =>
        /\ par[child[g][h]] = h /\ lo[child[g][h]] = Low(data, lo, g, h)
        /\ hi[child[g][h]] = Upp(data, hi, g, h) /\ child[g][h] # h
  BY <1>3, Family DEF Shape, Kids, Kid
<1>6. \A h \in S, g \in Side : child[g][h] = Nil \/ child[g][h] \in S
  BY DEF Shape, Kids, Kid
<1>7. Other(f) \in Side /\ Other(f) # f /\ \A g \in Side : g = f \/ g = Other(f)
  BY DEF Side, Other
<1>8. /\ \A h \in S, g \in Side :
           child2[g][h] = IF h = p /\ g = f THEN inner
                          ELSE IF h = c /\ g = Other(f) THEN p
                          ELSE IF h = par[p] /\ child[g][h] = p THEN c ELSE child[g][h]
      /\ \A h \in S : par2[h] = IF h = p THEN c ELSE IF h = c THEN par[p]
                                ELSE IF h = inner THEN p ELSE par[h]
  BY <1>3 DEF ChildTurned, ParTurned
<1>9. inner = Nil \/ /\ inner \in S /\ par[inner] = c /\ inner # c /\ inner # p
  BY <1>1, <1>5, <1>6, <1>7
<1>10. (par[p] = Nil /\ root = p) \/ (par[p] \in S /\ \E g \in Side : child[g][par[p]] = p)
  BY DEF Shape, Parents
<1> HIDE DEF lo2, hi2, child2, par2, root2, inner
\* A child of another node, and one that is still a child of p or c.
<1>11. ASSUME NEW h \in S, NEW g \in Side, NEW k \in S, child[g][h] = k,
              child2[g][h] = k, k # p, k # c, h # p, h # c
       PROVE  Kid(S, child2, par2, data, lo2, hi2, g, h)
  <2>1. par[k] = h /\ lo[k] = Low(data, lo, g, h) /\ hi[k] = Upp(data, hi, g, h)
    BY <1>5, <1>11
  <2>2. par2[k] = h
    <3>1. k # inner
      BY <1>1, <1>3, <1>9, <1>11, <2>1
    <3> QED
      BY <1>8, <1>11, <2>1, <3>1
  <2>3. lo2[k] = lo[k] /\ hi2[k] = hi[k] /\ lo2[h] = lo[h] /\ hi2[h] = hi[h]
    BY <1>4, <1>11
  <2> QED
    BY <1>11, <2>1, <2>2, <2>3 DEF Kid, Low, Upp
<1>12. ASSUME NEW h \in S, NEW g \in Side, child[g][h] = Nil, child2[g][h] = Nil,
              h # p, h # c
       PROVE  Kid(S, child2, par2, data, lo2, hi2, g, h)
  <2>1. lo2[h] = lo[h] /\ hi2[h] = hi[h]
    BY <1>4, <1>12
  <2>2. Kid(S, child, par, data, lo, hi, g, h)
    BY DEF Shape, Kids
  <2> QED
    BY <1>3, <1>12, <2>1, <2>2 DEF Kid, Low, Upp
<1>13. Kid(S, child2, par2, data, lo2, hi2, f, p)
  <2>1. child2[f][p] = inner
    BY <1>8
  <2>2. Low(data, lo2, f, p) = Low(data, lo, Other(f), c) /\ Upp(data, hi2, f, p) = Upp(data, hi, Other(f), c)
    BY <1>1, <1>4, <1>7 DEF Low, Upp, Other, Side
  <2>3. Kid(S, child, par, data, lo, hi, Other(f), c)
    BY <1>7 DEF Shape, Kids
  <2>4. CASE inner = Nil
    BY <1>3, <2>1, <2>2, <2>3, <2>4 DEF Kid, inner
  <2>5. CASE inner # Nil
    <3>1. inner \in S /\ inner # c /\ inner # p
      BY <1>9, <2>5
    <3>2. par2[inner] = p /\ lo2[inner] = lo[inner] /\ hi2[inner] = hi[inner]
      BY <1>4, <1>8, <3>1
    <3> QED
      BY <2>1, <2>2, <2>3, <2>5, <3>1, <3>2 DEF Kid, inner
  <2> QED
    BY <2>4, <2>5
<1>14. Kid(S, child2, par2, data, lo2, hi2, Other(f), c)
  <2>1. child2[Other(f)][c] = p /\ par2[p] = c
    BY <1>1, <1>7, <1>8
  <2>2. Low(data, lo2, Other(f), c) = lo2[p] /\ Upp(data, hi2, Other(f), c) = hi2[p]
    BY <1>1, <1>4, <1>7 DEF Low, Upp, Other, Side
  <2> QED
    BY <2>1, <2>2 DEF Kid
<1>15. Kid(S, child2, par2, data, lo2, hi2, Other(f), p)
  <2>8. PICK g : g = Other(f)
    OBVIOUS
  <2> SUFFICES Kid(S, child2, par2, data, lo2, hi2, g, p)
    BY <2>8
  <2>9. PICK k : k = child[g][p]
    OBVIOUS
  <2>1. child2[g][p] = k
    BY <1>1, <1>7, <1>8, <2>8, <2>9
  <2>2. Low(data, lo2, g, p) = Low(data, lo, g, p) /\ Upp(data, hi2, g, p) = Upp(data, hi, g, p)
    BY <1>1, <1>4, <1>7, <2>8 DEF Low, Upp, Other, Side
  <2>3. Kid(S, child, par, data, lo, hi, g, p)
    BY <1>7, <2>8 DEF Shape, Kids
  <2>4. k = Nil \/ /\ k \in S /\ k # p /\ k # c /\ par[k] = p
    BY <1>1, <1>5, <1>6, <1>7, <2>8, <2>9
  <2>5. CASE k = Nil
    BY <1>3, <2>9, <2>1, <2>2, <2>3, <2>5 DEF Kid
  <2>6. CASE k # Nil
    <3>1. par2[k] = p /\ lo2[k] = lo[k] /\ hi2[k] = hi[k]
      BY <1>1, <1>4, <1>8, <1>9, <2>4, <2>6
    <3> QED
      BY <2>9, <2>1, <2>2, <2>3, <2>4, <2>6, <3>1 DEF Kid
  <2> QED
    BY <2>5, <2>6
<1>16. Kid(S, child2, par2, data, lo2, hi2, f, c)
  <2> DEFINE k == child[f][c]
  <2>1. child2[f][c] = k
    BY <1>1, <1>7, <1>8
  <2>2. Low(data, lo2, f, c) = Low(data, lo, f, c) /\ Upp(data, hi2, f, c) = Upp(data, hi, f, c)
    BY <1>1, <1>4, <1>7 DEF Low, Upp, Other, Side
  <2>3. Kid(S, child, par, data, lo, hi, f, c)
    BY DEF Shape, Kids
  <2>4. k = Nil \/ /\ k \in S /\ k # p /\ k # c /\ par[k] = c
    BY <1>1, <1>5, <1>6
  <2>5. k # Nil => k # inner
    <3>1. k \in S => lo[k] = Low(data, lo, f, c) /\ hi[k] = Upp(data, hi, f, c)
      BY <1>5
    <3>2. inner \in S => lo[inner] = Low(data, lo, Other(f), c) /\ hi[inner] = Upp(data, hi, Other(f), c)
      BY <1>5, <1>7 DEF inner
    <3>3. lo[c] < data[c] /\ data[c] < hi[c] /\ lo[c] \in Int /\ hi[c] \in Int /\ data[c] \in Int
      BY <1>3 DEF Shape, Between
    <3> QED
      BY <1>7, <2>4, <3>1, <3>2, <3>3 DEF Low, Upp, Other, Side
  <2> HIDE DEF k
  <2>6. CASE k = Nil
    BY <1>3, <2>1, <2>2, <2>3, <2>6 DEF Kid, k
  <2>7. CASE k # Nil
    <3>1. par2[k] = c /\ lo2[k] = lo[k] /\ hi2[k] = hi[k]
      BY <1>1, <1>4, <1>8, <2>4, <2>5, <2>7
    <3> QED
      BY <2>1, <2>2, <2>3, <2>4, <2>7, <3>1 DEF Kid, k
  <2> QED
    BY <2>6, <2>7
\* The parent of p, whose child c is now.
<1>17. ASSUME NEW h \in S, NEW g \in Side, h = par[p], child[g][h] = p
       PROVE  Kid(S, child2, par2, data, lo2, hi2, g, h)
  <2>1. child2[g][h] = c /\ par2[c] = h
    BY <1>1, <1>8, <1>17
  <2>2. lo[p] = Low(data, lo, g, h) /\ hi[p] = Upp(data, hi, g, h)
    BY <1>5, <1>17
  <2>3. lo2[h] = lo[h] /\ hi2[h] = hi[h] /\ lo2[c] = lo[p] /\ hi2[c] = hi[p]
    BY <1>1, <1>4, <1>17
  <2> QED
    BY <2>1, <2>2, <2>3 DEF Kid, Low, Upp
<1>18. ASSUME NEW h \in S, NEW g \in Side PROVE Kid(S, child2, par2, data, lo2, hi2, g, h)
  <2>1. CASE h = p
    BY <1>7, <1>13, <1>15, <2>1
  <2>2. CASE h = c
    BY <1>7, <1>14, <1>16, <2>2
  <2>3. CASE h = par[p] /\ child[g][h] = p
    BY <1>17, <2>3
  <2>4. CASE h # p /\ h # c /\ ~(h = par[p] /\ child[g][h] = p)
    <3>1. child2[g][h] = child[g][h]
      BY <1>8, <2>4
    <3>2. child[g][h] = Nil \/ /\ child[g][h] \in S /\ par[child[g][h]] = h
      BY <1>5, <1>6
    <3>3. CASE child[g][h] = Nil
      BY <1>12, <2>4, <3>1, <3>3
    <3>4. CASE child[g][h] \in S /\ par[child[g][h]] = h
      <4>1. child[g][h] # p /\ child[g][h] # c
        BY <1>1, <2>4, <3>4
      <4> QED
        BY <1>11, <2>4, <3>1, <3>4, <4>1
    <3> QED
      BY <3>2, <3>3, <3>4
  <2> QED
    BY <2>1, <2>2, <2>3, <2>4
<1>19. Parents(S, root2, child2, par2)
  <2> SUFFICES ASSUME NEW h \in S
               PROVE  \/ par2[h] = Nil /\ root2 = h
                      \/ par2[h] \in S /\ \E g \in Side : child2[g][par2[h]] = h
    BY DEF Parents
  <2>1. CASE h = p
    BY <1>1, <1>7, <1>8, <2>1
  <2>2. CASE h = c
    <3>1. par2[h] = par[p]
      BY <1>1, <1>8, <2>2
    <3>2. CASE par[p] = Nil
      BY <2>2, <3>1, <3>2 DEF root2, RootTurned
    <3>3. CASE par[p] # Nil
      <4>1. PICK g \in Side : child[g][par[p]] = p
        BY <1>10, <3>3
      <4>2. par[p] \in S
        BY <1>10, <3>3
      <4>3. child2[g][par[p]] = c
        BY <1>1, <1>8, <4>1, <4>2
      <4> QED
        BY <2>2, <3>1, <4>2, <4>3
    <3> QED
      BY <3>2, <3>3
  <2>3. CASE h = inner /\ h # p /\ h # c
    BY <1>8, <2>3
  <2>4. CASE h # inner /\ h # p /\ h # c
    <3>1. par2[h] = par[h]
      BY <1>8, <2>4
    <3>2. (par[h] = Nil /\ root = h) \/ (par[h] \in S /\ \E g \in Side : child[g][par[h]] = h)
      BY DEF Shape, Parents
    <3>3. CASE par[h] = Nil /\ root = h
      <4>1. par[p] # Nil
        BY <1>3, <1>10, <2>4, <3>3
      <4> QED
        BY <3>1, <3>3, <4>1 DEF root2, RootTurned
    <3>4. CASE par[h] \in S /\ \E g \in Side : child[g][par[h]] = h
      <4>1. PICK g \in Side : child[g][par[h]] = h
        BY <3>4
      <4>2. child2[g][par[h]] = h
        BY <1>8, <2>4, <3>4, <4>1 DEF inner
      <4> QED
        BY <3>1, <3>4, <4>2
    <3> QED
      BY <3>2, <3>3, <3>4
  <2> QED
    BY <2>1, <2>2, <2>3, <2>4
<1>20. Root(S, root2, par2, lo2, hi2)
  <2>1. /\ root \in S /\ par[root] = Nil
        /\ \A h \in S : lo[root] <= lo[h] /\ hi[h] <= hi[root]
    BY DEF Shape, Root
  <2>2. \A h \in S : lo[h] \in Int /\ hi[h] \in Int /\ data[h] \in Int
    BY <1>3
  <2>3. /\ lo[p] < data[p] /\ data[p] < hi[p] /\ lo[c] < data[c] /\ data[c] < hi[c]
    BY DEF Shape, Between
  <2>4. lo[p] <= data[c] /\ data[c] <= hi[p]
    BY <1>1, <2>2, <2>3 DEF Low, Upp, Side
  <2>5. CASE par[p] = Nil
    <3>1. root = p /\ root2 = c /\ par2[c] = Nil
      BY <1>1, <1>3, <1>8, <1>10, <2>5 DEF root2, RootTurned
    <3>2. ASSUME NEW h \in S PROVE lo2[c] <= lo2[h] /\ hi2[h] <= hi2[c]
      BY <1>4, <2>1, <2>2, <2>4, <3>1 DEF Side
    <3> QED
      BY <3>1, <3>2 DEF Root
  <2>6. CASE par[p] # Nil
    <3>1. root2 = root /\ root # p /\ root # c /\ root # inner
      BY <1>1, <1>3, <1>9, <2>1, <2>6 DEF root2, RootTurned
    <3>2. par2[root] = Nil
      BY <1>8, <2>1, <3>1
    <3>3. ASSUME NEW h \in S PROVE lo2[root] <= lo2[h] /\ hi2[h] <= hi2[root]
      <4>1. lo2[root] = lo[root] /\ hi2[root] = hi[root]
        BY <1>4, <2>1, <3>1
      <4>2. lo[root] <= lo[h] /\ hi[h] <= hi[root] /\ lo[root] <= lo[p] /\ hi[p] <= hi[root]
        BY <2>1
      <4> QED
        BY <1>4, <2>1, <2>2, <2>4, <4>1, <4>2 DEF Side
    <3> QED
      BY <2>1, <3>1, <3>2, <3>3 DEF Root
  <2> QED
    BY <2>5, <2>6
<1> QED
  BY <1>2, <1>18, <1>19, <1>20 DEF Shape, Kids, lo2, hi2, child2, par2, root2

-----------------------------------------------------------------------------
(* Trees as records: what the updates of a tree leave alone.                *)

TreeType ==
  [child : [Side -> [Cell -> Link]], hParent : [Cell -> Link], bf : [Cell -> Int],
   deleted : [Cell -> BOOLEAN], data : [Cell -> Int],
   hHead : Link, free_head : Link, size : Int, array_size : Nat]

\* What relinking nodes does not touch.
Rest(t, u) ==
  /\ u.deleted = t.deleted /\ u.data = t.data /\ u.free_head = t.free_head
  /\ u.size = t.size /\ u.array_size = t.array_size

LEMMA Fields ==
  ASSUME NEW t \in TreeType
  PROVE  /\ t.child \in [Side -> [Cell -> Link]] /\ t.hParent \in [Cell -> Link]
         /\ t.bf \in [Cell -> Int] /\ t.deleted \in [Cell -> BOOLEAN]
         /\ t.data \in [Cell -> Int] /\ t.hHead \in Link /\ t.free_head \in Link
         /\ t.size \in Int /\ t.array_size \in Nat
BY DEF TreeType

WithChild(t, f, h, v) == [t EXCEPT !.child[f][h] = v]

LEMMA SetChild ==
  ASSUME NEW t \in TreeType, NEW f \in Side, NEW h \in Cell, NEW v \in Link,
         NEW u, u = WithChild(t, f, h, v)
  PROVE  /\ u \in TreeType /\ Rest(t, u) /\ u.bf = t.bf
         /\ u.hParent = t.hParent /\ u.hHead = t.hHead
         /\ \A g \in Side, k \in Cell :
              u.child[g][k] = IF g = f /\ k = h THEN v ELSE t.child[g][k]
BY Fields DEF TreeType, Rest, WithChild

LEMMA SetPar ==
  ASSUME NEW t \in TreeType, NEW h \in Link, NEW p \in Link,
         NEW u, u = SetParent(t, h, p)
  PROVE  /\ u \in TreeType /\ Rest(t, u) /\ u.bf = t.bf
         /\ u.child = t.child /\ u.hHead = t.hHead
         /\ \A k \in Cell : u.hParent[k] = IF k = h THEN p ELSE t.hParent[k]
<1>1. CASE h = Nil
  BY <1>1 DEF SetParent, Rest, Cell, Nil
<1>2. CASE h # Nil
  <2>1. h \in Cell
    BY <1>2 DEF Link
  <2> QED
    BY <1>2, <2>1, Fields DEF SetParent, TreeType, Rest
<1> QED
  BY <1>1, <1>2

LEMMA ChangeRootIs ==
  ASSUME NEW t \in TreeType, NEW src \in Cell, NEW des \in Cell,
         NEW p, p = t.hParent[src], NEW w, w = ChangeRoot(t, src, des)
  PROVE  /\ w \in TreeType /\ Rest(t, w) /\ w.bf = t.bf
         /\ w.hHead = IF p = Nil THEN des ELSE t.hHead
         /\ \A k \in Cell : w.hParent[k] = IF k = des THEN p ELSE t.hParent[k]
         /\ \A g \in Side, k \in Cell :
              w.child[g][k] =
                IF /\ k = p
                   /\ g = IF t.child["hLeft"][p] = src THEN "hLeft" ELSE "hRight"
                THEN des ELSE t.child[g][k]
<1> DEFINE u == [t EXCEPT !.hParent[des] = p]
<1>1. p \in Link
  BY Fields
<1>2. /\ u \in TreeType /\ Rest(t, u) /\ u.bf = t.bf
      /\ u.child = t.child /\ u.hHead = t.hHead
      /\ \A k \in Cell : u.hParent[k] = IF k = des THEN p ELSE t.hParent[k]
  BY <1>1, Fields DEF TreeType, Rest
<1>3. CASE p = Nil
  <2> DEFINE v == [u EXCEPT !.hHead = des]
  <2>1. w = v
    BY <1>3 DEF ChangeRoot
  <2>2. /\ v \in TreeType /\ Rest(u, v) /\ v.bf = u.bf /\ v.child = u.child
        /\ v.hParent = u.hParent /\ v.hHead = des
    BY <1>2, Fields DEF TreeType, Rest, Link
  <2>3. \A k \in Cell : k # p
    BY <1>3 DEF Cell, Nil
  <2> HIDE DEF v, u
  <2> QED
    BY <1>2, <1>3, <2>1, <2>2, <2>3 DEF Rest
<1>4. CASE p # Nil
  <2>1. PICK s : s = IF t.child["hLeft"][p] = src THEN "hLeft" ELSE "hRight"
    OBVIOUS
  <2>2. p \in Cell /\ s \in Side /\ des \in Link
    BY <1>1, <1>4, <2>1 DEF Link, Side
  <2>3. PICK v : v = u
    OBVIOUS
  <2>4. w = [v EXCEPT !.child[s][p] = des]
    BY <1>4, <2>1, <2>3 DEF ChangeRoot
  <2> HIDE DEF u
  <2>5. /\ w \in TreeType /\ Rest(v, w) /\ w.bf = v.bf
        /\ w.hParent = v.hParent /\ w.hHead = v.hHead
        /\ \A g \in Side, k \in Cell :
              w.child[g][k] = IF g = s /\ k = p THEN des ELSE v.child[g][k]
    <3>1. v \in TreeType
      BY <1>2, <2>3
    <3>2. w = WithChild(v, s, p, des)
      BY <2>4 DEF WithChild
    <3> QED
      BY <2>2, <3>1, <3>2, SetChild
  <2> QED
    BY <1>2, <1>4, <2>1, <2>3, <2>5 DEF Rest
<1> QED
  BY <1>3, <1>4

\* The tree and these bounds of its nodes are an ordered tree of the nodes S.
Tree(t, S, lo, hi) ==
  t \in TreeType /\ Shape(S, t.hHead, t.child, t.hParent, t.data, lo, hi)

LEMMA RotateIs ==
  ASSUME NEW t \in TreeType, NEW S, NEW lo, NEW hi, Tree(t, S, lo, hi),
         NEW p \in S, NEW f \in Side, NEW c \in S, t.child[f][p] = c
  PROVE  LET u == Rotate(t, p, f)
         IN /\ u \in TreeType /\ Rest(t, u) /\ u.bf = t.bf
            /\ u.child = ChildTurned(t.child, t.hParent, p, c, f)
            /\ u.hParent = ParTurned(t.child, t.hParent, p, c, f)
            /\ u.hHead = RootTurned(t.hHead, t.hParent, p, c)
<1>20. PICK inner : inner = t.child[Other(f)][c]
  OBVIOUS
<1>21. PICK q : q = t.hParent[p]
  OBVIOUS
<1>22. PICK t1 : t1 = WithChild(t, f, p, inner)
  OBVIOUS
<1>23. PICK t2 : t2 = SetParent(t1, inner, p)
  OBVIOUS
<1>24. PICK t3 : t3 = ChangeRoot(t2, p, c)
  OBVIOUS
<1>25. PICK t4 : t4 = [t3 EXCEPT !.hParent[p] = c]
  OBVIOUS
<1>26. PICK u : u = WithChild(t4, Other(f), c, p)
  OBVIOUS
<1>1. /\ S \subseteq Cell /\ p \in Cell /\ c \in Cell /\ Nil \notin S /\ c \in Link /\ p \in Link
  BY DEF Tree, Shape, Numbers, Cell, Nil, Link
<1>2. Other(f) \in Side /\ Other(f) # f /\ \A g \in Side : g = f \/ g = Other(f)
  BY DEF Side, Other
<1>3. inner \in Link /\ q \in Link
  BY <1>1, <1>2, <1>20, <1>21, Fields
<1>4. Links(t.child, t.hParent)
  BY Fields DEF Links
<1>5. Shape(S, t.hHead, t.child, t.hParent, t.data, lo, hi)
  BY DEF Tree
<1>6. /\ c # p /\ t.hParent[c] = p /\ c # q /\ q # p
      /\ \A g \in Side : g # f => t.child[g][p] # c
  BY <1>4, <1>5, <1>21, Family
<1>7. inner # p /\ inner # c
  <2>1. CASE inner \in S
    <3>1. t.hParent[inner] = c /\ inner # c
      BY <1>2, <1>4, <1>5, <1>20, <2>1, Family
    <3> QED
      BY <1>6, <1>21, <3>1
  <2>2. CASE inner \notin S
    BY <2>2
  <2> QED
    BY <2>1, <2>2
<1>8. Rotate(t, p, f) = u
  <2>1. u = [t3 EXCEPT !.hParent[p] = c, !.child[Other(f)][c] = p]
    BY <1>25, <1>26 DEF WithChild
  <2> QED
    BY <1>20, <1>22, <1>23, <1>24, <2>1 DEF Rotate, WithChild
<1>9. /\ t1 \in TreeType /\ Rest(t, t1) /\ t1.bf = t.bf
      /\ t1.hParent = t.hParent /\ t1.hHead = t.hHead
      /\ \A g \in Side, k \in Cell :
           t1.child[g][k] = IF g = f /\ k = p THEN inner ELSE t.child[g][k]
  <2>1. p \in Cell /\ inner \in Link
    BY <1>1, <1>3
  <2> QED
    BY <1>22, <2>1, SetChild
<1>10. /\ t2 \in TreeType /\ Rest(t1, t2) /\ t2.bf = t1.bf
       /\ t2.child = t1.child /\ t2.hHead = t1.hHead
       /\ \A k \in Cell : t2.hParent[k] = IF k = inner THEN p ELSE t1.hParent[k]
  <2>1. t1 \in TreeType /\ inner \in Link /\ p \in Link
    BY <1>1, <1>3, <1>9
  <2> QED
    BY <1>23, <2>1, SetPar
<1>11. t2.hParent[p] = q
  BY <1>1, <1>7, <1>9, <1>10, <1>21
<1>12. /\ t3 \in TreeType /\ Rest(t2, t3) /\ t3.bf = t2.bf
       /\ t3.hHead = IF q = Nil THEN c ELSE t2.hHead
       /\ \A k \in Cell : t3.hParent[k] = IF k = c THEN q ELSE t2.hParent[k]
       /\ \A g \in Side, k \in Cell :
             t3.child[g][k] =
               IF k = q /\ g = IF t2.child["hLeft"][q] = p THEN "hLeft" ELSE "hRight"
               THEN c ELSE t2.child[g][k]
  BY <1>1, <1>10, <1>11, <1>24, ChangeRootIs
<1>13. /\ t4 \in TreeType /\ Rest(t3, t4) /\ t4.bf = t3.bf
       /\ t4.child = t3.child /\ t4.hHead = t3.hHead
       /\ \A k \in Cell : t4.hParent[k] = IF k = p THEN c ELSE t3.hParent[k]
  BY <1>1, <1>12, <1>25, Fields DEF TreeType, Rest
<1>14. /\ u \in TreeType /\ Rest(t4, u) /\ u.bf = t4.bf
       /\ u.hParent = t4.hParent /\ u.hHead = t4.hHead
       /\ \A g \in Side, k \in Cell :
            u.child[g][k] = IF g = Other(f) /\ k = c THEN p ELSE t4.child[g][k]
  <2>1. t4 \in TreeType /\ Other(f) \in Side /\ c \in Cell /\ p \in Link
    BY <1>1, <1>2, <1>13
  <2> QED
    BY <1>26, <2>1, SetChild
<1>15. u.hParent = ParTurned(t.child, t.hParent, p, c, f)
  <2>1. \A k \in Cell : u.hParent[k] = IF k = p THEN c ELSE IF k = c THEN q
                                        ELSE IF k = inner THEN p ELSE t.hParent[k]
    BY <1>9, <1>10, <1>12, <1>13, <1>14
  <2>2. u.hParent \in [Cell -> Link]
    BY <1>14, Fields
  <2> QED
    BY <1>20, <1>21, <2>1, <2>2 DEF ParTurned
<1>16. u.hHead = RootTurned(t.hHead, t.hParent, p, c)
  BY <1>9, <1>10, <1>12, <1>13, <1>14, <1>21 DEF RootTurned
<1>17. \A g \in Side, k \in Cell :
         u.child[g][k] = IF k = p /\ g = f THEN inner
                         ELSE IF k = c /\ g = Other(f) THEN p
                         ELSE IF k = q /\ t.child[g][k] = p THEN c ELSE t.child[g][k]
  <2>1. \A g \in Side, k \in Cell :
           u.child[g][k] = IF k = p /\ g = f THEN inner
                           ELSE IF k = c /\ g = Other(f) THEN p
                           ELSE IF k = q /\ g = IF t.child["hLeft"][q] = p THEN "hLeft" ELSE "hRight"
                                THEN c ELSE t.child[g][k]
    <3>1. q \in Cell => t2.child["hLeft"][q] = t.child["hLeft"][q]
      BY <1>6, <1>9, <1>10 DEF Side
    <3> QED
      BY <1>6, <1>7, <1>9, <1>10, <1>12, <1>13, <1>14, <3>1
  <2>2. q \in Cell => \A g \in Side : t.child[g][q] = p <=>
             g = IF t.child["hLeft"][q] = p THEN "hLeft" ELSE "hRight"
    <3> SUFFICES ASSUME q \in Cell
                 PROVE \A g \in Side : t.child[g][q] = p <=>
             g = IF t.child["hLeft"][q] = p THEN "hLeft" ELSE "hRight"
      OBVIOUS
    <3>1. q \in S /\ \E g \in Side : t.child[g][q] = p
      BY <1>1, <1>5, <1>21 DEF Shape, Parents, Cell, Nil
    <3>2. PICK g \in Side : t.child[g][q] = p
      BY <3>1
    <3>3. \A s \in Side : s # g => t.child[s][q] # p
      BY <1>4, <1>5, <3>1, <3>2, Family
    <3> QED
      BY <3>2, <3>3 DEF Side
  <2> QED
    BY <2>1, <2>2
<1>18. u.child = ChildTurned(t.child, t.hParent, p, c, f)
  <2>1. u.child \in [Side -> [Cell -> Link]]
    BY <1>14, Fields
  <2>2. ASSUME NEW g \in Side PROVE u.child[g] = ChildTurned(t.child, t.hParent, p, c, f)[g]
    BY <1>17, <1>20, <1>21, <2>1, <2>2 DEF ChildTurned
  <2> QED
    BY <2>1, <2>2 DEF ChildTurned
<1>19. Rest(t, u) /\ u.bf = t.bf
  BY <1>9, <1>10, <1>12, <1>13, <1>14 DEF Rest
<1> QED
  BY <1>8, <1>14, <1>15, <1>16, <1>18, <1>19

\* Nodes whose data are not between x and y keep their parents and bounds.
Kept(S, t, lo, hi, u, lo2, hi2, x, y) ==
  \A g \in S : ~(x < t.data[g] /\ t.data[g] < y) =>
                 u.hParent[g] = t.hParent[g] /\ lo2[g] = lo[g] /\ hi2[g] = hi[g]

\* Cells that are not of the tree keep their links.
Outside(S, t, u) ==
  \A g \in Cell \ S : /\ u.hParent[g] = t.hParent[g]
                      /\ \A s \in Side : u.child[s][g] = t.child[s][g]

\* Each node is the child of its parent, on one side, and of no other.
LEMMA OneParent ==
  ASSUME NEW t \in TreeType, NEW S, NEW lo, NEW hi, Tree(t, S, lo, hi),
         NEW h \in S, NEW f \in Side, NEW c \in S, t.child[f][h] = c
  PROVE  /\ t.hParent[c] = h /\ c # h
         /\ lo[c] = Low(t.data, lo, f, h) /\ hi[c] = Upp(t.data, hi, f, h)
         /\ lo[h] <= lo[c] /\ hi[c] <= hi[h]
         /\ \A g \in S, s \in Side : t.child[s][g] = c => g = h /\ s = f
<1>1. Links(t.child, t.hParent)
  BY Fields DEF Links
<1>2. Shape(S, t.hHead, t.child, t.hParent, t.data, lo, hi)
  BY DEF Tree
<1>3. /\ t.hParent[c] = h /\ c # h
      /\ lo[c] = Low(t.data, lo, f, h) /\ hi[c] = Upp(t.data, hi, f, h)
      /\ \A s \in Side : s # f => t.child[s][h] # c
  BY <1>1, <1>2, Family
<1>4. \A g \in S, s \in Side : t.child[s][g] = c => t.hParent[c] = g
  BY <1>1, <1>2, Family
<1>5. lo[h] <= lo[c] /\ hi[c] <= hi[h]
  <2>1. /\ lo[h] \in Int /\ hi[h] \in Int /\ t.data[h] \in Int
        /\ lo[h] < t.data[h] /\ t.data[h] < hi[h]
    BY <1>2 DEF Shape, Numbers, Between
  <2> QED
    BY <1>3, <2>1 DEF Low, Upp
<1> QED
  BY <1>3, <1>4, <1>5

LEMMA RotateOK ==
  ASSUME NEW t \in TreeType, NEW S, NEW lo, NEW hi, Tree(t, S, lo, hi),
         NEW p \in S, NEW f \in Side, NEW c \in S, t.child[f][p] = c,
         NEW u, u = Rotate(t, p, f), NEW q, q = t.hParent[p],
         NEW lo2, lo2 = LoTurned(t.data, lo, p, c, f),
         NEW hi2, hi2 = HiTurned(t.data, hi, p, c, f)
  PROVE  /\ u \in TreeType /\ Rest(t, u) /\ u.bf = t.bf /\ Tree(u, S, lo2, hi2)
         /\ u.child[f][p] = t.child[Other(f)][c]
         /\ u.child[Other(f)][p] = t.child[Other(f)][p]
         /\ u.child[f][c] = t.child[f][c] /\ u.child[Other(f)][c] = p
         /\ \A g \in S \ {p, c}, s \in Side :
              u.child[s][g] = IF g = q /\ t.child[s][g] = p THEN c ELSE t.child[s][g]
         /\ u.hParent[p] = c /\ u.hParent[c] = q
         /\ u.hHead = IF q = Nil THEN c ELSE t.hHead
         /\ Kept(S, t, lo, hi, u, lo2, hi2, lo[p], hi[p]) /\ Outside(S, t, u)
<1>1. /\ u \in TreeType /\ Rest(t, u) /\ u.bf = t.bf
      /\ u.child = ChildTurned(t.child, t.hParent, p, c, f)
      /\ u.hParent = ParTurned(t.child, t.hParent, p, c, f)
      /\ u.hHead = RootTurned(t.hHead, t.hParent, p, c)
  BY RotateIs
<1>2. Links(t.child, t.hParent)
  BY Fields DEF Links
<1>3. Shape(S, t.hHead, t.child, t.hParent, t.data, lo, hi)
  BY DEF Tree
<1>4. Tree(u, S, lo2, hi2)
  <2>1. Shape(S, RootTurned(t.hHead, t.hParent, p, c), ChildTurned(t.child, t.hParent, p, c, f),
              ParTurned(t.child, t.hParent, p, c, f), t.data, lo2, hi2)
    BY <1>2, <1>3, TurnShape
  <2> QED
    BY <1>1, <2>1 DEF Tree, Rest
<1>5. c # p /\ t.hParent[c] = p /\ c # q /\ q # p
  BY <1>2, <1>3, Family
<1>6. Other(f) \in Side /\ Other(f) # f /\ \A g \in Side : g = f \/ g = Other(f)
  BY DEF Side, Other
<1>7. S \subseteq Cell /\ Nil \notin S
  BY <1>3 DEF Shape, Numbers, Cell, Nil
<1>8. PICK inner : inner = t.child[Other(f)][c]
  OBVIOUS
<1>9. inner # Nil => inner \in S /\ t.hParent[inner] = c /\ inner # c /\ inner # p
  <2> SUFFICES ASSUME inner # Nil PROVE inner \in S /\ t.hParent[inner] = c /\ inner # c /\ inner # p
    OBVIOUS
  <2>1. inner \in S
    BY <1>3, <1>6, <1>8 DEF Shape, Kids, Kid
  <2>2. t.hParent[inner] = c /\ inner # c
    BY <1>6, <1>8, <2>1, OneParent
  <2> QED
    BY <1>5, <2>1, <2>2
<1>10. \A g \in Side, h \in Cell :
           u.child[g][h] = IF h = p /\ g = f THEN inner
                           ELSE IF h = c /\ g = Other(f) THEN p
                           ELSE IF h = q /\ t.child[g][h] = p THEN c ELSE t.child[g][h]
  BY <1>1, <1>8 DEF ChildTurned
<1>11. \A h \in Cell : u.hParent[h] = IF h = p THEN c ELSE IF h = c THEN q
                                       ELSE IF h = inner THEN p ELSE t.hParent[h]
  BY <1>1, <1>8 DEF ParTurned
<1>12. /\ u.child[f][p] = t.child[Other(f)][c]
       /\ u.child[Other(f)][p] = t.child[Other(f)][p]
       /\ u.child[f][c] = t.child[f][c] /\ u.child[Other(f)][c] = p
       /\ \A g \in S \ {p, c}, s \in Side :
            u.child[s][g] = IF g = q /\ t.child[s][g] = p THEN c ELSE t.child[s][g]
  <2>1. p \in Cell /\ c \in Cell
    BY <1>7
  <2> QED
    BY <1>5, <1>6, <1>7, <1>8, <1>10, <2>1
<1>13. /\ u.hParent[p] = c /\ u.hParent[c] = q
       /\ u.hHead = IF q = Nil THEN c ELSE t.hHead
  BY <1>1, <1>5, <1>7, <1>11 DEF RootTurned
<1>14. Outside(S, t, u)
  <2>1. q \in S \/ q = Nil
    BY <1>3 DEF Shape, Parents
  <2>2. \A g \in Cell \ S : g # q /\ g # p /\ g # c /\ g # inner
    BY <1>7, <1>9, <2>1 DEF Cell, Nil
  <2> QED
    BY <1>10, <1>11, <2>2 DEF Outside
<1>15. Kept(S, t, lo, hi, u, lo2, hi2, lo[p], hi[p])
  <2> SUFFICES ASSUME NEW g \in S, ~(lo[p] < t.data[g] /\ t.data[g] < hi[p])
               PROVE  u.hParent[g] = t.hParent[g] /\ lo2[g] = lo[g] /\ hi2[g] = hi[g]
    BY DEF Kept
  <2>1. \A h \in S : /\ lo[h] \in Int /\ hi[h] \in Int /\ t.data[h] \in Int
                     /\ lo[h] < t.data[h] /\ t.data[h] < hi[h]
    BY <1>3 DEF Shape, Numbers, Between
  <2>2. lo[p] <= lo[c] /\ hi[c] <= hi[p]
    BY OneParent
  <2>3. inner \in S => lo[c] <= lo[inner] /\ hi[inner] <= hi[c]
    BY <1>6, <1>8, OneParent
  <2>4. g # p /\ g # c /\ g # inner
    BY <2>1, <2>2, <2>3
  <2>5. u.hParent[g] = t.hParent[g]
    BY <1>7, <1>11, <2>4
  <2>6. lo2[g] = lo[g] /\ hi2[g] = hi[g]
    BY <1>7, <2>4 DEF LoTurned, HiTurned
  <2> QED
    BY <2>5, <2>6
<1> QED
  BY <1>1, <1>4, <1>12, <1>13, <1>14, <1>15

-----------------------------------------------------------------------------
(* Heights.  In the middle of a call one node, q, has not taken notice yet  *)
(* of what happened on its side f, and counts the height e there.           *)

Tall(child, ht, q, f, e, s, h) == IF h = q /\ s = f THEN e ELSE ht[child[s][h]]

EvenAt(child, bf, ht, q, f, e, h) ==
  \A s \in Side :
    LET m == Tall(child, ht, q, f, e, s, h)
        n == Tall(child, ht, q, f, e, Other(s), h)
    IN \/ bf[h] = EH /\ m = n /\ ht[h] = m + 1
       \/ bf[h] = Higher(s) /\ m = n + 1 /\ ht[h] = m + 1
       \/ bf[h] = Higher(Other(s)) /\ n = m + 1 /\ ht[h] = n + 1

Even(X, child, bf, ht, q, f, e) ==
  /\ ht \in [Link -> Nat] /\ ht[Nil] = 0
  /\ \A h \in X : EvenAt(child, bf, ht, q, f, e, h)

LEMMA Sides ==
  /\ \A f \in Side : Other(f) \in Side /\ Other(f) # f /\ Other(Other(f)) = f
  /\ \A f \in Side, g \in Side : g = f \/ g = Other(f)
  /\ \A f \in Side : /\ Higher(f) # EH /\ Higher(Other(f)) # EH /\ Higher(f) # Higher(Other(f))
                     /\ -Higher(f) = Higher(Other(f)) /\ Higher(f) \in Int
  /\ EH \in Int
<1>1. \A f \in Side : Other(f) \in Side /\ Other(f) # f /\ Other(Other(f)) = f
  BY DEF Side, Other
<1>2. \A f \in Side, g \in Side : g = f \/ g = Other(f)
  BY DEF Side, Other
<1>3. ASSUME NEW f \in Side
      PROVE  /\ Higher(f) # EH /\ Higher(Other(f)) # EH /\ Higher(f) # Higher(Other(f))
             /\ -Higher(f) = Higher(Other(f)) /\ Higher(f) \in Int
  <2>1. CASE f = "hLeft"
    BY <2>1 DEF Other, Higher, LH, RH, EH
  <2>2. CASE f = "hRight"
    <3>1. Higher(f) = RH /\ Higher(Other(f)) = LH
      BY <2>2 DEF Other, Higher
    <3>2. RH \in Int /\ RH # EH /\ LH # EH /\ RH # LH /\ RH + 1 = 0 /\ LH = 1
      BY DEF LH, RH, EH
    <3>3. \A x \in Int : x + 1 = 0 => -x = 1
      OBVIOUS
    <3> QED
      BY <3>1, <3>2, <3>3
  <2> QED
    BY <2>1, <2>2 DEF Side
<1> QED
  BY <1>1, <1>2, <1>3 DEF EH

LEMMA EvenSame ==
  ASSUME NEW X, NEW child, NEW bf, NEW ht, NEW q, NEW f, NEW e,
         Even(X, child, bf, ht, q, f, e),
         NEW child2, NEW bf2, NEW ht2, ht2 \in [Link -> Nat], ht2[Nil] = 0,
         \A h \in X : bf2[h] = bf[h] /\ ht2[h] = ht[h],
         \A h \in X, s \in Side : (h = q /\ s = f) \/ ht2[child2[s][h]] = ht[child[s][h]]
  PROVE  Even(X, child2, bf2, ht2, q, f, e)
<1> SUFFICES ASSUME NEW h \in X PROVE EvenAt(child2, bf2, ht2, q, f, e, h)
  BY DEF Even
<1>1. EvenAt(child, bf, ht, q, f, e, h)
  BY DEF Even
<1>2. \A s \in Side : Tall(child2, ht2, q, f, e, s, h) = Tall(child, ht, q, f, e, s, h)
  BY DEF Tall
<1> QED
  BY <1>1, <1>2, Sides DEF EvenAt

\* It is enough to look at one side first.
LEMMA EvenBy ==
  ASSUME NEW child, NEW bf, NEW ht, NEW q, NEW f, NEW e, NEW h, NEW s \in Side,
         NEW m, NEW n, m = Tall(child, ht, q, f, e, s, h),
         n = Tall(child, ht, q, f, e, Other(s), h),
         \/ bf[h] = EH /\ m = n /\ ht[h] = m + 1
         \/ bf[h] = Higher(s) /\ m = n + 1 /\ ht[h] = m + 1
         \/ bf[h] = Higher(Other(s)) /\ n = m + 1 /\ ht[h] = n + 1
  PROVE  EvenAt(child, bf, ht, q, f, e, h)
<1> SUFFICES ASSUME NEW g \in Side
             PROVE  LET a == Tall(child, ht, q, f, e, g, h)
                        b == Tall(child, ht, q, f, e, Other(g), h)
                    IN \/ bf[h] = EH /\ a = b /\ ht[h] = a + 1
                       \/ bf[h] = Higher(g) /\ a = b + 1 /\ ht[h] = a + 1
                       \/ bf[h] = Higher(Other(g)) /\ b = a + 1 /\ ht[h] = b + 1
  BY DEF EvenAt
<1>1. CASE g = s
  BY <1>1
<1>2. CASE g = Other(s)
  <2>1. Other(g) = s
    BY <1>2, Sides
  <2> QED
    BY <1>2, <2>1
<1> QED
  BY <1>1, <1>2, Sides

\* Balance gives balance factors first, then turns.
BalanceOf(t, p, f, S, lo, hi, ht, q, s, e, c) ==
  /\ t \in TreeType /\ Tree(t, S, lo, hi)
  /\ p \in S /\ f \in Side /\ c \in S /\ t.child[f][p] = c
  /\ q = t.hParent[p] /\ s \in Side /\ (q # Nil => t.child[s][q] = p)
  /\ Even(S \ {p}, t.child, t.bf, ht, q, s, e)
  /\ ht[c] = ht[t.child[Other(f)][p]] + 2

Hangs(u, q, s, r) == IF q = Nil THEN u.hHead = r ELSE u.child[s][q] = r

\* Nodes whose data are not between x and y keep their heights.
Level(S, t, ht, ht2, x, y) ==
  \A g \in S : ~(x < t.data[g] /\ t.data[g] < y) => ht2[g] = ht[g]

Balanced(t, p, S, lo, hi, ht, q, s, e, c, u, lo2, hi2, ht2, r) ==
  /\ u \in TreeType /\ Rest(t, u) /\ Tree(u, S, lo2, hi2)
  /\ Even(S, u.child, u.bf, ht2, q, s, e)
  /\ r \in S /\ Hangs(u, q, s, r)
  /\ ht2[r] = IF t.bf[c] = EH THEN ht[c] + 1 ELSE ht[c]
  /\ Kept(S, t, lo, hi, u, lo2, hi2, lo[p], hi[p]) /\ Outside(S, t, u)
  /\ Level(S, t, ht, ht2, lo[p], hi[p])

LEMMA BfOnly ==
  ASSUME NEW t \in TreeType, NEW S, NEW lo, NEW hi, Tree(t, S, lo, hi),
         NEW b, b \in TreeType, Rest(t, b), b.child = t.child, b.hParent = t.hParent,
         b.hHead = t.hHead
  PROVE  /\ Tree(b, S, lo, hi) /\ Outside(S, t, b)
         /\ \A x, y : Kept(S, t, lo, hi, b, lo, hi, x, y)
BY DEF Tree, Rest, Kept, Outside

LEMMA BalanceOnce ==
  ASSUME NEW t, NEW p, NEW f, NEW S, NEW lo, NEW hi, NEW ht, NEW q, NEW s, NEW e, NEW c,
         BalanceOf(t, p, f, S, lo, hi, ht, q, s, e, c),
         t.bf[c] = EH \/ t.bf[c] = Higher(f)
  PROVE  \E lo2, hi2, ht2, r :
           Balanced(t, p, S, lo, hi, ht, q, s, e, c, Balance(t, p, f), lo2, hi2, ht2, r)
<1>1. /\ t \in TreeType /\ Tree(t, S, lo, hi)
      /\ p \in S /\ f \in Side /\ c \in S /\ t.child[f][p] = c
      /\ q = t.hParent[p] /\ s \in Side /\ (q # Nil => t.child[s][q] = p)
      /\ Even(S \ {p}, t.child, t.bf, ht, q, s, e)
      /\ ht[c] = ht[t.child[Other(f)][p]] + 2
  BY DEF BalanceOf
<1>2. PICK v : v = IF t.bf[c] = EH THEN Higher(f) ELSE EH
  OBVIOUS
<1>3. PICK w : w = IF t.bf[c] = EH THEN Higher(Other(f)) ELSE EH
  OBVIOUS
<1>4. PICK b : b = [t EXCEPT !.bf[p] = v, !.bf[c] = w]
  OBVIOUS
<1>5. PICK u : u = Rotate(b, p, f)
  OBVIOUS
<1>6. Balance(t, p, f) = u
  BY <1>1, <1>2, <1>3, <1>4, <1>5, Sides DEF Balance
<1>7. S \subseteq Cell /\ Nil \notin S /\ S \subseteq Link
  BY <1>1 DEF Tree, Shape, Numbers, Cell, Nil, Link
<1>8. p # c /\ c # q /\ q # p /\ t.hParent[c] = p
  <2>1. Links(t.child, t.hParent)
    BY <1>1, Fields DEF Links
  <2> QED
    BY <1>1, <2>1, Family DEF Tree
<1>9. /\ b \in TreeType /\ Rest(t, b) /\ b.child = t.child /\ b.hParent = t.hParent
      /\ b.hHead = t.hHead
      /\ b.bf[p] = v /\ b.bf[c] = w /\ \A h \in S : h # p /\ h # c => b.bf[h] = t.bf[h]
  <2>1. v \in Int /\ w \in Int
    BY <1>1, <1>2, <1>3, Sides
  <2> QED
    BY <1>1, <1>4, <1>7, <1>8, <2>1, Fields DEF TreeType, Rest
<1>10. Tree(b, S, lo, hi) /\ Outside(S, t, b)
  BY <1>1, <1>9, BfOnly
<1>11. PICK lo2 : lo2 = LoTurned(b.data, lo, p, c, f)
  OBVIOUS
<1>12. PICK hi2 : hi2 = HiTurned(b.data, hi, p, c, f)
  OBVIOUS
<1>13. /\ u \in TreeType /\ Rest(b, u) /\ u.bf = b.bf /\ Tree(u, S, lo2, hi2)
       /\ u.child[f][p] = t.child[Other(f)][c]
       /\ u.child[Other(f)][p] = t.child[Other(f)][p]
       /\ u.child[f][c] = t.child[f][c] /\ u.child[Other(f)][c] = p
       /\ \A g \in S \ {p, c}, k \in Side :
            u.child[k][g] = IF g = q /\ t.child[k][g] = p THEN c ELSE t.child[k][g]
       /\ u.hHead = IF q = Nil THEN c ELSE t.hHead
       /\ Kept(S, b, lo, hi, u, lo2, hi2, lo[p], hi[p]) /\ Outside(S, b, u)
  BY <1>1, <1>5, <1>9, <1>10, <1>11, <1>12, RotateOK
<1>14. Kept(S, t, lo, hi, u, lo2, hi2, lo[p], hi[p]) /\ Outside(S, t, u) /\ Rest(t, u)
  BY <1>9, <1>13 DEF Kept, Outside, Rest
<1>15. ht \in [Link -> Nat] /\ ht[Nil] = 0
  BY <1>1 DEF Even
<1>16. EvenAt(t.child, t.bf, ht, q, s, e, c)
  BY <1>1, <1>8 DEF Even
<1>17. PICK x : x = ht[t.child[Other(f)][p]]
  OBVIOUS
<1>18. x \in Nat
  <2>1. t.child[Other(f)][p] \in Link
    BY <1>1, <1>7, Fields, Sides
  <2> QED
    BY <1>15, <1>17, <2>1
<1>19. /\ ht[t.child[f][c]] = x + 1
       /\ ht[t.child[Other(f)][c]] = IF t.bf[c] = EH THEN x + 1 ELSE x
  <2>1. /\ Tall(t.child, ht, q, s, e, f, c) = ht[t.child[f][c]]
        /\ Tall(t.child, ht, q, s, e, Other(f), c) = ht[t.child[Other(f)][c]]
    BY <1>8 DEF Tall
  <2>2. t.child[f][c] \in Link /\ t.child[Other(f)][c] \in Link
    BY <1>1, <1>7, Fields, Sides
  <2>3. ht[t.child[f][c]] \in Nat /\ ht[t.child[Other(f)][c]] \in Nat
    BY <1>15, <2>2
  <2>4. Higher(f) # EH /\ Higher(Other(f)) # EH /\ Higher(f) # Higher(Other(f))
    BY <1>1, Sides
  <2> QED
    BY <1>1, <1>16, <1>17, <1>18, <2>1, <2>3, <2>4 DEF EvenAt
<1>20. PICK ht2 : ht2 = [ht EXCEPT ![p] = IF t.bf[c] = EH THEN x + 2 ELSE x + 1,
                                  ![c] = IF t.bf[c] = EH THEN x + 3 ELSE x + 2]
  OBVIOUS
<1>21. /\ ht2 \in [Link -> Nat] /\ ht2[Nil] = 0
       /\ ht2[p] = IF t.bf[c] = EH THEN x + 2 ELSE x + 1
       /\ ht2[c] = IF t.bf[c] = EH THEN x + 3 ELSE x + 2
       /\ \A h \in Link : h # p /\ h # c => ht2[h] = ht[h]
  <2>1. p \in Link /\ c \in Link /\ Nil \in Link /\ p # Nil /\ c # Nil
    BY <1>1, <1>7 DEF Link
  <2> QED
    BY <1>8, <1>15, <1>18, <1>20, <2>1
<1>22. \A g \in S, k \in Side : t.child[k][g] # p => ht2[IF t.child[k][g] = c THEN Nil ELSE t.child[k][g]]
                                  = ht[IF t.child[k][g] = c THEN Nil ELSE t.child[k][g]]
  <2>1. \A g \in S, k \in Side : t.child[k][g] \in Link
    BY <1>1, <1>7, Fields
  <2>2. Nil \in Link /\ Nil # p /\ Nil # c
    BY <1>1, <1>7 DEF Link
  <2> QED
    BY <1>21, <2>1, <2>2
<1>23. /\ \A g \in S, k \in Side : t.child[k][g] = c => g = p /\ k = f
       /\ \A g \in S, k \in Side : t.child[k][g] = p => g = q /\ k = s
  <2>1. \A g \in S, k \in Side : t.child[k][g] = c => g = p /\ k = f
    BY <1>1, OneParent
  <2>2. ASSUME NEW g \in S, NEW k \in Side, t.child[k][g] = p PROVE g = q /\ k = s
    <3>1. g = q
      BY <1>1, <2>2, OneParent
    <3>2. q # Nil
      BY <1>7, <3>1
    <3> QED
      BY <1>1, <2>2, <3>1, <3>2, OneParent
  <2> QED
    BY <2>1, <2>2
<1>24. Even(S \ {p, c}, u.child, u.bf, ht2, q, s, e)
  <2>1. Even(S \ {p, c}, t.child, t.bf, ht, q, s, e)
    BY <1>1 DEF Even
  <2>2. \A h \in S \ {p, c} : u.bf[h] = t.bf[h] /\ ht2[h] = ht[h]
    BY <1>7, <1>9, <1>13, <1>21
  <2>3. \A h \in S \ {p, c}, k \in Side :
          (h = q /\ k = s) \/ ht2[u.child[k][h]] = ht[t.child[k][h]]
    <3> SUFFICES ASSUME NEW h \in S \ {p, c}, NEW k \in Side, ~(h = q /\ k = s)
                 PROVE  ht2[u.child[k][h]] = ht[t.child[k][h]]
      OBVIOUS
    <3>1. t.child[k][h] # p /\ t.child[k][h] # c
      BY <1>23
    <3>2. u.child[k][h] = t.child[k][h]
      BY <1>13, <3>1
    <3> QED
      BY <1>22, <3>1, <3>2
  <2> QED
    BY <1>21, <2>1, <2>2, <2>3, EvenSame
<1>25. EvenAt(u.child, u.bf, ht2, q, s, e, p)
  <2>1. /\ Tall(u.child, ht2, q, s, e, f, p) = ht[t.child[Other(f)][c]]
        /\ Tall(u.child, ht2, q, s, e, Other(f), p) = x
    BY <1>1, <1>8, <1>13, <1>17, <1>22, <1>23, Sides DEF Tall
  <2>2. u.bf[p] = v
    BY <1>9, <1>13
  <2> QED
    BY <1>1, <1>2, <1>18, <1>19, <1>21, <2>1, <2>2, EvenBy
<1>26. EvenAt(u.child, u.bf, ht2, q, s, e, c)
  <2>1. /\ Tall(u.child, ht2, q, s, e, f, c) = ht[t.child[f][c]]
        /\ Tall(u.child, ht2, q, s, e, Other(f), c) = ht2[p]
    BY <1>1, <1>8, <1>13, <1>22, <1>23, Sides DEF Tall
  <2>2. u.bf[c] = w
    BY <1>9, <1>13
  <2> QED
    BY <1>1, <1>3, <1>18, <1>19, <1>21, <2>1, <2>2, EvenBy
<1>27. Even(S, u.child, u.bf, ht2, q, s, e)
  BY <1>24, <1>25, <1>26 DEF Even
<1>28. Hangs(u, q, s, c)
  <2>1. q # Nil => q \in S \ {p, c}
    BY <1>1, <1>8 DEF Tree, Shape, Parents
  <2> QED
    BY <1>1, <1>13, <2>1 DEF Hangs
<1>29. ht2[c] = IF t.bf[c] = EH THEN ht[c] + 1 ELSE ht[c]
  BY <1>1, <1>17, <1>18, <1>21
<1>31. Level(S, t, ht, ht2, lo[p], hi[p])
  <2> SUFFICES ASSUME NEW h \in S, ~(lo[p] < t.data[h] /\ t.data[h] < hi[p])
               PROVE  ht2[h] = ht[h]
    BY DEF Level
  <2>1. \A k \in S : /\ lo[k] \in Int /\ hi[k] \in Int /\ t.data[k] \in Int
                     /\ lo[k] < t.data[k] /\ t.data[k] < hi[k]
    BY <1>1 DEF Tree, Shape, Numbers, Between
  <2>2. lo[p] <= lo[c] /\ hi[c] <= hi[p]
    BY <1>1, OneParent
  <2>3. h # p /\ h # c
    BY <1>1, <2>1, <2>2
  <2> QED
    BY <1>7, <1>21, <2>3
<1>30. Balanced(t, p, S, lo, hi, ht, q, s, e, c, u, lo2, hi2, ht2, c)
  BY <1>1, <1>13, <1>14, <1>27, <1>28, <1>29, <1>31 DEF Balanced
<1> QED
  BY <1>6, <1>30

LEMMA BalanceTwice ==
  ASSUME NEW t, NEW p, NEW f, NEW S, NEW lo, NEW hi, NEW ht, NEW q, NEW s, NEW e, NEW c,
         BalanceOf(t, p, f, S, lo, hi, ht, q, s, e, c), t.bf[c] = Higher(Other(f))
  PROVE  \E lo2, hi2, ht2, r :
           Balanced(t, p, S, lo, hi, ht, q, s, e, c, Balance(t, p, f), lo2, hi2, ht2, r)
<1>1. /\ t \in TreeType /\ Tree(t, S, lo, hi)
      /\ p \in S /\ f \in Side /\ c \in S /\ t.child[f][p] = c
      /\ q = t.hParent[p] /\ s \in Side /\ (q # Nil => t.child[s][q] = p)
      /\ Even(S \ {p}, t.child, t.bf, ht, q, s, e)
      /\ ht[c] = ht[t.child[Other(f)][p]] + 2
  BY DEF BalanceOf
<1>2. /\ Other(f) \in Side /\ Other(f) # f /\ Other(Other(f)) = f
      /\ \A g \in Side : g = f \/ g = Other(f)
      /\ Higher(f) # EH /\ Higher(Other(f)) # EH /\ Higher(f) # Higher(Other(f))
      /\ -Higher(f) = Higher(Other(f)) /\ Higher(f) \in Int /\ Higher(Other(f)) \in Int
      /\ EH \in Int
  BY <1>1, Sides
<1>3. PICK g : g = Other(f)
  OBVIOUS
<1>4. PICK m : m = t.child[g][c]
  OBVIOUS
<1>5. S \subseteq Cell /\ Nil \notin S /\ S \subseteq Link
  BY <1>1 DEF Tree, Shape, Numbers, Cell, Nil, Link
<1>6. p # c /\ c # q /\ q # p /\ t.hParent[c] = p /\ t.child[g][p] # c
  <2>1. Links(t.child, t.hParent)
    BY <1>1, Fields DEF Links
  <2> QED
    BY <1>1, <1>2, <1>3, <2>1, Family DEF Tree
\* The heights before.
<1>7. ht \in [Link -> Nat] /\ ht[Nil] = 0
  BY <1>1 DEF Even
<1>8. PICK x : x = ht[t.child[g][p]]
  OBVIOUS
<1>9. \A h \in S, k \in Side : t.child[k][h] \in Link /\ ht[t.child[k][h]] \in Nat
  <2>1. \A h \in S, k \in Side : t.child[k][h] \in Link
    BY <1>1, <1>5, Fields
  <2> QED
    BY <1>7, <2>1
<1>10. x \in Nat
  BY <1>1, <1>2, <1>3, <1>8, <1>9
<1>11. ht[m] = x + 1 /\ ht[t.child[f][c]] = x
  <2>1. EvenAt(t.child, t.bf, ht, q, s, e, c)
    BY <1>1, <1>6 DEF Even
  <2>2. /\ Tall(t.child, ht, q, s, e, f, c) = ht[t.child[f][c]]
        /\ Tall(t.child, ht, q, s, e, Other(f), c) = ht[m]
    BY <1>3, <1>4, <1>6 DEF Tall
  <2>3. ht[t.child[f][c]] \in Nat /\ ht[m] \in Nat
    BY <1>1, <1>2, <1>3, <1>4, <1>9
  <2> QED
    BY <1>1, <1>2, <1>3, <1>8, <1>10, <2>1, <2>2, <2>3 DEF EvenAt
<1>12. m \in S
  <2>1. m # Nil
    BY <1>7, <1>10, <1>11
  <2> QED
    BY <1>1, <1>2, <1>3, <1>4, <2>1 DEF Tree, Shape, Kids, Kid
<1>13. m # c /\ t.hParent[m] = c /\ m # p
  <2>1. m # c /\ t.hParent[m] = c
    BY <1>1, <1>2, <1>3, <1>4, <1>12, OneParent
  <2> QED
    BY <1>1, <1>6, <2>1
\* The three steps of the code.
<1>14. PICK v : v = IF t.bf[m] = Higher(f) THEN Higher(g) ELSE EH
  OBVIOUS
<1>15. PICK w : w = IF t.bf[m] = Higher(g) THEN Higher(f) ELSE EH
  OBVIOUS
<1>16. PICK b : b = [t EXCEPT !.bf[p] = v, !.bf[c] = w, !.bf[m] = EH]
  OBVIOUS
<1>17. PICK u1 : u1 = Rotate(b, c, g)
  OBVIOUS
<1>18. PICK u : u = Rotate(u1, p, f)
  OBVIOUS
<1>19. Balance(t, p, f) = u
  BY <1>1, <1>2, <1>3, <1>4, <1>14, <1>15, <1>16, <1>17, <1>18 DEF Balance
<1>20. /\ b \in TreeType /\ Rest(t, b) /\ b.child = t.child /\ b.hParent = t.hParent
       /\ b.hHead = t.hHead
       /\ b.bf[p] = v /\ b.bf[c] = w /\ b.bf[m] = EH
       /\ \A h \in S : h # p /\ h # c /\ h # m => b.bf[h] = t.bf[h]
  <2>1. v \in Int /\ w \in Int
    BY <1>2, <1>3, <1>14, <1>15
  <2> QED
    BY <1>1, <1>2, <1>5, <1>6, <1>12, <1>13, <1>16, <2>1, Fields DEF TreeType, Rest
<1>21. Tree(b, S, lo, hi) /\ Outside(S, t, b)
  BY <1>1, <1>20, BfOnly
\* The first turn.
<1>22. PICK lo1 : lo1 = LoTurned(b.data, lo, c, m, g)
  OBVIOUS
<1>23. PICK hi1 : hi1 = HiTurned(b.data, hi, c, m, g)
  OBVIOUS
<1>24. /\ u1 \in TreeType /\ Rest(b, u1) /\ u1.bf = b.bf /\ Tree(u1, S, lo1, hi1)
       /\ u1.child[g][c] = t.child[f][m] /\ u1.child[f][c] = t.child[f][c]
       /\ u1.child[g][m] = t.child[g][m] /\ u1.child[f][m] = c
       /\ \A h \in S \ {c, m}, k \in Side :
            u1.child[k][h] = IF h = p /\ t.child[k][h] = c THEN m ELSE t.child[k][h]
       /\ u1.hHead = t.hHead
       /\ Kept(S, b, lo, hi, u1, lo1, hi1, lo[c], hi[c]) /\ Outside(S, b, u1)
  <2>1. g \in Side /\ Other(g) = f /\ b.child[g][c] = m /\ p = b.hParent[c] /\ p # Nil
    BY <1>1, <1>2, <1>3, <1>4, <1>5, <1>6, <1>20
  <2> QED
    BY <1>1, <1>12, <1>17, <1>20, <1>21, <1>22, <1>23, <2>1, RotateOK
<1>25. u1.hParent[p] = q /\ lo1[p] = lo[p] /\ hi1[p] = hi[p]
  <2>1. lo[c] = Low(t.data, lo, f, p) /\ hi[c] = Upp(t.data, hi, f, p)
    BY <1>1, OneParent
  <2>2. t.data[p] \in Int
    BY <1>1, <1>5, Fields
  <2>3. ~(lo[c] < b.data[p] /\ b.data[p] < hi[c])
    BY <1>1, <1>20, <2>1, <2>2 DEF Low, Upp, Rest
  <2> QED
    BY <1>1, <1>20, <1>24, <2>3 DEF Kept
<1>26. u1.child[f][p] = m /\ u1.child[g][p] = t.child[g][p]
  BY <1>1, <1>2, <1>3, <1>6, <1>13, <1>24
<1>27. \A h \in S \ {p, c, m}, k \in Side : u1.child[k][h] = t.child[k][h]
  BY <1>24
<1>28. q # m
  <2>1. Links(u1.child, u1.hParent)
    BY <1>24, Fields DEF Links
  <2> QED
    BY <1>1, <1>12, <1>24, <1>25, <1>26, <2>1, Family DEF Tree
\* The second.
<1>29. PICK lo2 : lo2 = LoTurned(u1.data, lo1, p, m, f)
  OBVIOUS
<1>30. PICK hi2 : hi2 = HiTurned(u1.data, hi1, p, m, f)
  OBVIOUS
<1>31. /\ u \in TreeType /\ Rest(u1, u) /\ u.bf = u1.bf /\ Tree(u, S, lo2, hi2)
       /\ u.child[f][p] = u1.child[g][m] /\ u.child[g][p] = u1.child[g][p]
       /\ u.child[f][m] = u1.child[f][m] /\ u.child[g][m] = p
       /\ \A h \in S \ {p, m}, k \in Side :
            u.child[k][h] = IF h = q /\ u1.child[k][h] = p THEN m ELSE u1.child[k][h]
       /\ u.hHead = IF q = Nil THEN m ELSE u1.hHead
       /\ Kept(S, u1, lo1, hi1, u, lo2, hi2, lo1[p], hi1[p]) /\ Outside(S, u1, u)
  BY <1>1, <1>3, <1>12, <1>18, <1>24, <1>25, <1>26, <1>29, <1>30, RotateOK
<1>32. /\ u.child[f][p] = t.child[g][m] /\ u.child[g][p] = t.child[g][p]
       /\ u.child[f][m] = c /\ u.child[g][m] = p
       /\ u.child[f][c] = t.child[f][c] /\ u.child[g][c] = t.child[f][m]
       /\ \A h \in S \ {p, c, m}, k \in Side :
            u.child[k][h] = IF h = q /\ t.child[k][h] = p THEN m ELSE t.child[k][h]
       /\ u.hHead = IF q = Nil THEN m ELSE t.hHead
  BY <1>1, <1>2, <1>3, <1>6, <1>13, <1>24, <1>26, <1>27, <1>31
<1>33. Outside(S, t, u) /\ Rest(t, u)
  BY <1>20, <1>21, <1>24, <1>31 DEF Outside, Rest
<1>34. Kept(S, t, lo, hi, u, lo2, hi2, lo[p], hi[p])
  <2> SUFFICES ASSUME NEW h \in S, ~(lo[p] < t.data[h] /\ t.data[h] < hi[p])
               PROVE  u.hParent[h] = t.hParent[h] /\ lo2[h] = lo[h] /\ hi2[h] = hi[h]
    BY DEF Kept
  <2>1. lo[p] <= lo[c] /\ hi[c] <= hi[p]
    BY <1>1, OneParent
  <2>2. /\ t.data[h] \in Int /\ lo[p] \in Int /\ hi[p] \in Int /\ lo[c] \in Int /\ hi[c] \in Int
    BY <1>1 DEF Tree, Shape, Numbers
  <2>3. ~(lo[c] < t.data[h] /\ t.data[h] < hi[c])
    BY <2>1, <2>2
  <2>4. u1.hParent[h] = t.hParent[h] /\ lo1[h] = lo[h] /\ hi1[h] = hi[h]
    BY <1>20, <1>24, <2>3 DEF Kept, Rest
  <2>5. u1.data = t.data
    BY <1>20, <1>24 DEF Rest
  <2> QED
    BY <1>25, <1>31, <2>4, <2>5 DEF Kept
\* The heights after.
<1>35. PICK mf : mf = ht[t.child[f][m]]
  OBVIOUS
<1>36. PICK mg : mg = ht[t.child[g][m]]
  OBVIOUS
<1>37. /\ mf \in Nat /\ mg \in Nat
       /\ \/ t.bf[m] = EH /\ mf = x /\ mg = x
          \/ t.bf[m] = Higher(f) /\ mf = x /\ mg = x - 1
          \/ t.bf[m] = Higher(g) /\ mf = x - 1 /\ mg = x
  <2>1. EvenAt(t.child, t.bf, ht, q, s, e, m)
    BY <1>1, <1>12, <1>13 DEF Even
  <2>2. /\ Tall(t.child, ht, q, s, e, f, m) = mf
        /\ Tall(t.child, ht, q, s, e, Other(f), m) = mg
    BY <1>3, <1>28, <1>35, <1>36 DEF Tall
  <2>3. mf \in Nat /\ mg \in Nat
    BY <1>1, <1>2, <1>3, <1>9, <1>12, <1>35, <1>36
  <2> QED
    BY <1>1, <1>3, <1>10, <1>11, <2>1, <2>2, <2>3 DEF EvenAt
<1>38. PICK ht2 : ht2 = [ht EXCEPT ![p] = x + 1, ![c] = x + 1, ![m] = x + 2]
  OBVIOUS
<1>39. /\ ht2 \in [Link -> Nat] /\ ht2[Nil] = 0
       /\ ht2[p] = x + 1 /\ ht2[c] = x + 1 /\ ht2[m] = x + 2
       /\ \A h \in Link : h # p /\ h # c /\ h # m => ht2[h] = ht[h]
  <2>1. p \in Link /\ c \in Link /\ m \in Link /\ Nil \in Link /\ p # Nil /\ c # Nil /\ m # Nil
    BY <1>1, <1>5, <1>12 DEF Link
  <2> QED
    BY <1>6, <1>7, <1>10, <1>13, <1>38, <2>1
<1>40. /\ \A h \in S, k \in Side : t.child[k][h] = c => h = p /\ k = f
       /\ \A h \in S, k \in Side : t.child[k][h] = m => h = c /\ k = g
       /\ \A h \in S, k \in Side : t.child[k][h] = p => h = q /\ k = s
  <2>1. \A h \in S, k \in Side : t.child[k][h] = c => h = p /\ k = f
    BY <1>1, OneParent
  <2>2. \A h \in S, k \in Side : t.child[k][h] = m => h = c /\ k = g
    BY <1>1, <1>2, <1>3, <1>4, <1>12, OneParent
  <2>3. ASSUME NEW h \in S, NEW k \in Side, t.child[k][h] = p PROVE h = q /\ k = s
    <3>1. h = q
      BY <1>1, <2>3, OneParent
    <3>2. q # Nil
      BY <1>5, <3>1
    <3> QED
      BY <1>1, <2>3, <3>1, <3>2, OneParent
  <2> QED
    BY <2>1, <2>2, <2>3
<1>41. \A h \in S, k \in Side : t.child[k][h] # p /\ t.child[k][h] # c /\ t.child[k][h] # m
                                => ht2[t.child[k][h]] = ht[t.child[k][h]]
  BY <1>9, <1>39
<1>42. Even(S \ {p, c, m}, u.child, u.bf, ht2, q, s, e)
  <2>1. Even(S \ {p, c, m}, t.child, t.bf, ht, q, s, e)
    BY <1>1 DEF Even
  <2>2. \A h \in S \ {p, c, m} : u.bf[h] = t.bf[h] /\ ht2[h] = ht[h]
    BY <1>5, <1>20, <1>24, <1>31, <1>39
  <2>3. \A h \in S \ {p, c, m}, k \in Side :
          (h = q /\ k = s) \/ ht2[u.child[k][h]] = ht[t.child[k][h]]
    <3> SUFFICES ASSUME NEW h \in S \ {p, c, m}, NEW k \in Side, ~(h = q /\ k = s)
                 PROVE  ht2[u.child[k][h]] = ht[t.child[k][h]]
      OBVIOUS
    <3>1. t.child[k][h] # p /\ t.child[k][h] # c /\ t.child[k][h] # m
      BY <1>40
    <3>2. u.child[k][h] = t.child[k][h]
      BY <1>32, <3>1
    <3> QED
      BY <1>41, <3>1, <3>2
  <2> QED
    BY <1>39, <2>1, <2>2, <2>3, EvenSame
<1>43. /\ t.child[f][m] # p /\ t.child[f][m] # c /\ t.child[f][m] # m
       /\ t.child[g][m] # p /\ t.child[g][m] # c /\ t.child[g][m] # m
       /\ t.child[g][p] # p /\ t.child[g][p] # c /\ t.child[g][p] # m
       /\ t.child[f][c] # p /\ t.child[f][c] # c /\ t.child[f][c] # m
  BY <1>1, <1>2, <1>3, <1>6, <1>12, <1>13, <1>28, <1>40
<1>44. /\ ht2[t.child[f][m]] = mf /\ ht2[t.child[g][m]] = mg
       /\ ht2[t.child[g][p]] = x /\ ht2[t.child[f][c]] = x
  BY <1>1, <1>2, <1>3, <1>8, <1>11, <1>12, <1>35, <1>36, <1>41, <1>43
<1>45. EvenAt(u.child, u.bf, ht2, q, s, e, p)
  <2>1. /\ Tall(u.child, ht2, q, s, e, f, p) = mg
        /\ Tall(u.child, ht2, q, s, e, Other(f), p) = x
    BY <1>3, <1>6, <1>32, <1>44 DEF Tall
  <2>2. u.bf[p] = v
    BY <1>20, <1>24, <1>31
  <2> QED
    BY <1>1, <1>2, <1>3, <1>10, <1>14, <1>37, <1>39, <2>1, <2>2, EvenBy
<1>46. EvenAt(u.child, u.bf, ht2, q, s, e, c)
  <2>1. /\ Tall(u.child, ht2, q, s, e, f, c) = x
        /\ Tall(u.child, ht2, q, s, e, Other(f), c) = mf
    BY <1>3, <1>6, <1>32, <1>44 DEF Tall
  <2>2. u.bf[c] = w
    BY <1>20, <1>24, <1>31
  <2> QED
    BY <1>1, <1>2, <1>3, <1>10, <1>15, <1>37, <1>39, <2>1, <2>2, EvenBy
<1>47. EvenAt(u.child, u.bf, ht2, q, s, e, m)
  <2>1. /\ Tall(u.child, ht2, q, s, e, f, m) = x + 1
        /\ Tall(u.child, ht2, q, s, e, Other(f), m) = x + 1
    BY <1>3, <1>28, <1>32, <1>39 DEF Tall
  <2>2. u.bf[m] = EH
    BY <1>20, <1>24, <1>31
  <2> QED
    BY <1>1, <1>10, <1>39, <2>1, <2>2, EvenBy
<1>48. Even(S, u.child, u.bf, ht2, q, s, e)
  BY <1>42, <1>45, <1>46, <1>47 DEF Even
<1>49. Hangs(u, q, s, m)
  <2>1. q # Nil => q \in S \ {p, c, m}
    BY <1>1, <1>6, <1>28 DEF Tree, Shape, Parents
  <2> QED
    BY <1>1, <1>32, <2>1 DEF Hangs
<1>50. ht2[m] = IF t.bf[c] = EH THEN ht[c] + 1 ELSE ht[c]
  BY <1>1, <1>2, <1>3, <1>8, <1>10, <1>39
<1>52. Level(S, t, ht, ht2, lo[p], hi[p])
  <2> SUFFICES ASSUME NEW h \in S, ~(lo[p] < t.data[h] /\ t.data[h] < hi[p])
               PROVE  ht2[h] = ht[h]
    BY DEF Level
  <2>1. \A k \in S : /\ lo[k] \in Int /\ hi[k] \in Int /\ t.data[k] \in Int
                     /\ lo[k] < t.data[k] /\ t.data[k] < hi[k]
    BY <1>1 DEF Tree, Shape, Numbers, Between
  <2>2. lo[p] <= lo[c] /\ hi[c] <= hi[p]
    BY <1>1, OneParent
  <2>3. lo[c] <= lo[m] /\ hi[m] <= hi[c]
    BY <1>1, <1>2, <1>3, <1>4, <1>12, OneParent
  <2>4. h # p /\ h # c /\ h # m
    BY <1>1, <1>12, <2>1, <2>2, <2>3
  <2> QED
    BY <1>5, <1>39, <2>4
<1>51. Balanced(t, p, S, lo, hi, ht, q, s, e, c, u, lo2, hi2, ht2, m)
  BY <1>12, <1>31, <1>33, <1>34, <1>48, <1>49, <1>50, <1>52 DEF Balanced
<1> QED
  BY <1>19, <1>51

LEMMA BalanceOK ==
  ASSUME NEW t, NEW p, NEW f, NEW S, NEW lo, NEW hi, NEW ht, NEW q, NEW s, NEW e, NEW c,
         BalanceOf(t, p, f, S, lo, hi, ht, q, s, e, c)
  PROVE  \E lo2, hi2, ht2, r :
           Balanced(t, p, S, lo, hi, ht, q, s, e, c, Balance(t, p, f), lo2, hi2, ht2, r)
<1>1. /\ t \in TreeType /\ Tree(t, S, lo, hi)
      /\ p \in S /\ f \in Side /\ c \in S /\ t.child[f][p] = c
      /\ q = t.hParent[p] /\ Even(S \ {p}, t.child, t.bf, ht, q, s, e)
  BY DEF BalanceOf
<1>2. p # c
  BY <1>1, OneParent
<1>3. t.bf[c] = EH \/ t.bf[c] = Higher(f) \/ t.bf[c] = Higher(Other(f))
  <2>1. EvenAt(t.child, t.bf, ht, q, s, e, c)
    BY <1>1, <1>2 DEF Even
  <2> QED
    BY <1>1, <2>1 DEF EvenAt
<1>4. CASE t.bf[c] = EH \/ t.bf[c] = Higher(f)
  BY <1>4, BalanceOnce
<1>5. CASE t.bf[c] = Higher(Other(f))
  BY <1>5, BalanceTwice
<1> QED
  BY <1>3, <1>4, <1>5

-----------------------------------------------------------------------------
(* The way back.  Below the place of h all is done; then it is done below   *)
(* h's own place, s of q, which still counts the height h had.              *)

Lifted(t, S, lo, hi, ht, u, lo2, hi2, ht2, q, s, e, x, y, r) ==
  /\ u \in TreeType /\ Rest(t, u) /\ Tree(u, S, lo2, hi2)
  /\ Even(S, u.child, u.bf, ht2, q, s, e) /\ Hangs(u, q, s, r)
  /\ Kept(S, t, lo, hi, u, lo2, hi2, x, y) /\ Outside(S, t, u)
  /\ Level(S, t, ht, ht2, x, y)

LEMMA EvenShift ==
  ASSUME NEW X, NEW child, NEW bf, NEW ht, NEW q, NEW f, NEW e, NEW q2, NEW s, NEW e2,
         Even(X, child, bf, ht, q, f, e), q \in X => e = ht[child[f][q]],
         q2 \in X => e2 = ht[child[s][q2]]
  PROVE  Even(X, child, bf, ht, q2, s, e2)
<1> SUFFICES ASSUME NEW h \in X PROVE EvenAt(child, bf, ht, q2, s, e2, h)
  BY DEF Even
<1>1. EvenAt(child, bf, ht, q, f, e, h)
  BY DEF Even
<1>2. \A k \in Side : Tall(child, ht, q2, s, e2, k, h) = Tall(child, ht, q, f, e, k, h)
  BY DEF Tall
<1> QED
  BY <1>1, <1>2, Sides DEF EvenAt

\* A node in the middle of the way back.
Way(t, S, lo, hi, ht, h, f, e, q, s, c) ==
  /\ t \in TreeType /\ Tree(t, S, lo, hi) /\ h \in S /\ f \in Side
  /\ e \in Nat /\ Even(S, t.child, t.bf, ht, h, f, e) /\ c = t.child[f][h]
  /\ q = t.hParent[h] /\ s \in Side /\ (q # Nil => t.child[s][q] = h)

\* What follows from it.
WayLaws(t, S, lo, hi, ht, h, f, e, q, s, c) ==
  LET n == ht[t.child[Other(f)][h]]
  IN /\ S \subseteq Cell /\ Nil \notin S /\ h \in Link
     /\ c \in Link /\ ht[c] \in Nat /\ n \in Nat /\ c # h /\ q # h /\ t.child[Other(f)][h] # h
     /\ Hangs(t, q, s, h) /\ (q # Nil => q \in S)
     /\ \A g \in S, k \in Side : t.child[k][g] = h => g = q /\ k = s
     /\ \/ t.bf[h] = EH /\ e = n /\ ht[h] = e + 1
        \/ t.bf[h] = Higher(f) /\ e = n + 1 /\ ht[h] = e + 1
        \/ t.bf[h] = Higher(Other(f)) /\ n = e + 1 /\ ht[h] = n + 1
     /\ Even(S \ {h}, t.child, t.bf, ht, q, s, ht[h])
     /\ \A g \in S, k \in Side : t.child[k][g] \in Link /\ (t.child[k][g] = Nil \/ t.child[k][g] \in S)
     /\ ht \in [Link -> Nat] /\ ht[Nil] = 0

LEMMA WayFacts ==
  ASSUME NEW t, NEW S, NEW lo, NEW hi, NEW ht, NEW h, NEW f, NEW e, NEW q, NEW s, NEW c,
         Way(t, S, lo, hi, ht, h, f, e, q, s, c)
  PROVE  WayLaws(t, S, lo, hi, ht, h, f, e, q, s, c)
<1> DEFINE n == ht[t.child[Other(f)][h]]
<1>1. /\ t \in TreeType /\ Tree(t, S, lo, hi) /\ h \in S /\ f \in Side
      /\ e \in Nat /\ Even(S, t.child, t.bf, ht, h, f, e) /\ c = t.child[f][h]
      /\ q = t.hParent[h] /\ s \in Side /\ (q # Nil => t.child[s][q] = h)
  BY DEF Way
<1>2. S \subseteq Cell /\ Nil \notin S /\ S \subseteq Link
  BY <1>1 DEF Tree, Shape, Numbers, Cell, Nil, Link
<1>3. Other(f) \in Side /\ Other(f) # f
  BY <1>1, Sides
<1>4. ht \in [Link -> Nat] /\ ht[Nil] = 0
  BY <1>1 DEF Even
<1>5. \A g \in S, k \in Side : t.child[k][g] \in Link /\ (t.child[k][g] = Nil \/ t.child[k][g] \in S)
  <2>1. \A g \in S, k \in Side : t.child[k][g] \in Link
    BY <1>1, <1>2, Fields
  <2> QED
    BY <1>1, <2>1 DEF Tree, Shape, Kids, Kid
<1>6. \A g \in S, k \in Side : t.child[k][g] # g
  <2> SUFFICES ASSUME NEW g \in S, NEW k \in Side, t.child[k][g] = g PROVE FALSE
    OBVIOUS
  <2> QED
    BY <1>1, OneParent
<1>7. (q = Nil /\ t.hHead = h) \/ q \in S
  BY <1>1 DEF Tree, Shape, Parents
<1>8. \A g \in S, k \in Side : t.child[k][g] = h => g = q /\ k = s
  <2> SUFFICES ASSUME NEW g \in S, NEW k \in Side, t.child[k][g] = h PROVE g = q /\ k = s
    OBVIOUS
  <2>1. g = q
    BY <1>1, OneParent
  <2> QED
    BY <1>1, <1>2, <2>1, OneParent
<1>9. q # h
  <2>1. q = h => t.child[s][h] = h
    BY <1>1, <1>2
  <2> QED
    BY <1>1, <1>6, <2>1
<1>10. \/ t.bf[h] = EH /\ e = n /\ ht[h] = e + 1
       \/ t.bf[h] = Higher(f) /\ e = n + 1 /\ ht[h] = e + 1
       \/ t.bf[h] = Higher(Other(f)) /\ n = e + 1 /\ ht[h] = n + 1
  <2>1. EvenAt(t.child, t.bf, ht, h, f, e, h)
    BY <1>1 DEF Even
  <2>2. Tall(t.child, ht, h, f, e, f, h) = e /\ Tall(t.child, ht, h, f, e, Other(f), h) = n
    BY <1>3 DEF Tall
  <2> QED
    BY <1>1, <2>1, <2>2 DEF EvenAt
<1>11. Even(S \ {h}, t.child, t.bf, ht, q, s, ht[h])
  <2>1. Even(S \ {h}, t.child, t.bf, ht, h, f, e)
    BY <1>1 DEF Even
  <2>2. q \in S \ {h} => ht[h] = ht[t.child[s][q]]
    BY <1>1, <1>2
  <2> QED
    BY <2>1, <2>2, EvenShift
<1>12. ht[c] \in Nat /\ n \in Nat
  BY <1>1, <1>3, <1>4, <1>5
<1> QED
  BY <1>1, <1>2, <1>3, <1>4, <1>5, <1>6, <1>7, <1>8, <1>9, <1>10, <1>11, <1>12 DEF Hangs, WayLaws

\* Only the balance factor of h changes, and perhaps its height.
BfSet(t, ht, h, f, c, v, w, u, ht2) ==
  LET n == ht[t.child[Other(f)][h]]
  IN /\ u = [t EXCEPT !.bf[h] = v] /\ ht2 = [ht EXCEPT ![h] = w]
     /\ \/ v = EH /\ ht[c] = n /\ w = n + 1
        \/ v = Higher(f) /\ ht[c] = n + 1 /\ w = n + 2
        \/ v = Higher(Other(f)) /\ n = ht[c] + 1 /\ w = n + 1

LEMMA NewBf ==
  ASSUME NEW t, NEW S, NEW lo, NEW hi, NEW ht, NEW h, NEW f, NEW e, NEW q, NEW s, NEW c,
         Way(t, S, lo, hi, ht, h, f, e, q, s, c),
         NEW v, NEW w, NEW u, NEW ht2, BfSet(t, ht, h, f, c, v, w, u, ht2)
  PROVE  Lifted(t, S, lo, hi, ht, u, lo, hi, ht2, q, s, ht[h], lo[h], hi[h], h) /\ ht2[h] = w
<1>0. PICK n : n = ht[t.child[Other(f)][h]]
  OBVIOUS
<1>1. /\ t \in TreeType /\ Tree(t, S, lo, hi) /\ h \in S /\ f \in Side
      /\ c = t.child[f][h] /\ s \in Side
  BY DEF Way
<1>2. /\ S \subseteq Cell /\ Nil \notin S /\ h \in Link
      /\ ht[c] \in Nat /\ n \in Nat /\ c # h /\ q # h /\ t.child[Other(f)][h] # h
      /\ Hangs(t, q, s, h)
      /\ \A g \in S, k \in Side : t.child[k][g] = h => g = q /\ k = s
      /\ Even(S \ {h}, t.child, t.bf, ht, q, s, ht[h])
      /\ \A g \in S, k \in Side : t.child[k][g] \in Link
      /\ ht \in [Link -> Nat] /\ ht[Nil] = 0
  <2>1. WayLaws(t, S, lo, hi, ht, h, f, e, q, s, c)
    BY WayFacts
  <2> QED
    BY <1>0, <2>1 DEF WayLaws
<1>10. /\ u = [t EXCEPT !.bf[h] = v] /\ ht2 = [ht EXCEPT ![h] = w]
       /\ \/ v = EH /\ ht[c] = n /\ w = n + 1
          \/ v = Higher(f) /\ ht[c] = n + 1 /\ w = n + 2
          \/ v = Higher(Other(f)) /\ n = ht[c] + 1 /\ w = n + 1
       /\ v \in Int /\ w \in Nat
  <2>1. Higher(f) \in Int /\ Higher(Other(f)) \in Int /\ EH \in Int
    BY <1>1, Sides
  <2> QED
    BY <1>0, <1>2, <2>1 DEF BfSet
<1>3. /\ u \in TreeType /\ Rest(t, u) /\ u.child = t.child /\ u.hParent = t.hParent
      /\ u.hHead = t.hHead /\ u.bf[h] = v /\ \A g \in S : g # h => u.bf[g] = t.bf[g]
  BY <1>1, <1>2, <1>10, Fields DEF TreeType, Rest
<1>4. Tree(u, S, lo, hi) /\ Outside(S, t, u) /\ Kept(S, t, lo, hi, u, lo, hi, lo[h], hi[h])
  BY <1>1, <1>3, BfOnly
<1>5. /\ ht2 \in [Link -> Nat] /\ ht2[Nil] = 0 /\ ht2[h] = w
      /\ \A g \in Link : g # h => ht2[g] = ht[g]
  BY <1>1, <1>2, <1>10 DEF Link
<1>6. Even(S \ {h}, u.child, u.bf, ht2, q, s, ht[h])
  <2>1. \A g \in S \ {h} : u.bf[g] = t.bf[g] /\ ht2[g] = ht[g]
    BY <1>2, <1>3, <1>5 DEF Link
  <2>2. \A g \in S \ {h}, k \in Side : (g = q /\ k = s) \/ ht2[u.child[k][g]] = ht[t.child[k][g]]
    BY <1>2, <1>3, <1>5
  <2> QED
    BY <1>2, <1>5, <2>1, <2>2, EvenSame
<1>7. EvenAt(u.child, u.bf, ht2, q, s, ht[h], h)
  <2>1. /\ Tall(u.child, ht2, q, s, ht[h], f, h) = ht[c]
        /\ Tall(u.child, ht2, q, s, ht[h], Other(f), h) = n
    BY <1>0, <1>1, <1>2, <1>3, <1>5, Sides DEF Tall
  <2>2. \/ u.bf[h] = EH /\ ht[c] = n /\ ht2[h] = ht[c] + 1
        \/ u.bf[h] = Higher(f) /\ ht[c] = n + 1 /\ ht2[h] = ht[c] + 1
        \/ u.bf[h] = Higher(Other(f)) /\ n = ht[c] + 1 /\ ht2[h] = n + 1
    BY <1>2, <1>3, <1>5, <1>10
  <2> QED
    BY <1>1, <2>1, <2>2, EvenBy
<1>8. Even(S, u.child, u.bf, ht2, q, s, ht[h])
  BY <1>6, <1>7 DEF Even
<1> QED
  <2>1. Level(S, t, ht, ht2, lo[h], hi[h])
    <3>1. lo[h] < t.data[h] /\ t.data[h] < hi[h]
      BY <1>1 DEF Tree, Shape, Between
    <3> QED
      BY <1>2, <1>5, <3>1 DEF Level, Link
  <2> QED
    BY <1>2, <1>3, <1>4, <1>5, <1>8, <2>1 DEF Lifted, Hangs

LEMMA NoChange ==
  ASSUME NEW t, NEW S, NEW lo, NEW hi, NEW ht, NEW h, NEW f, NEW e, NEW q, NEW s, NEW c,
         Way(t, S, lo, hi, ht, h, f, e, q, s, c), ht[c] = e
  PROVE  Lifted(t, S, lo, hi, ht, t, lo, hi, ht, q, s, ht[h], lo[h], hi[h], h)
<1>1. /\ t \in TreeType /\ Tree(t, S, lo, hi) /\ Even(S, t.child, t.bf, ht, h, f, e)
      /\ c = t.child[f][h] /\ (q # Nil => t.child[s][q] = h)
  BY DEF Way
<1>2. Nil \notin S /\ Hangs(t, q, s, h)
  <2>1. WayLaws(t, S, lo, hi, ht, h, f, e, q, s, c)
    BY WayFacts
  <2> QED
    BY <2>1 DEF WayLaws
<1>3. Even(S, t.child, t.bf, ht, q, s, ht[h])
  BY <1>1, <1>2, EvenShift
<1> QED
  BY <1>1, <1>2, <1>3 DEF Lifted, Rest, Kept, Outside, Level

\* Side g of h has become too high.
TooHigh(t, ht, h, g, d) ==
  /\ g \in Side /\ d = t.child[g][h]
  /\ ht[d] = ht[t.child[Other(g)][h]] + 2

LEMMA Rebalanced ==
  ASSUME NEW t, NEW S, NEW lo, NEW hi, NEW ht, NEW h, NEW f, NEW e, NEW q, NEW s, NEW c,
         Way(t, S, lo, hi, ht, h, f, e, q, s, c),
         NEW g, NEW d, TooHigh(t, ht, h, g, d)
  PROVE  \E lo2, hi2, ht2, r :
           /\ Lifted(t, S, lo, hi, ht, Balance(t, h, g), lo2, hi2, ht2, q, s, ht[h], lo[h], hi[h], r)
           /\ r \in S /\ ht2[r] = IF t.bf[d] = EH THEN ht[d] + 1 ELSE ht[d]
<1>0. g \in Side /\ d = t.child[g][h] /\ ht[d] = ht[t.child[Other(g)][h]] + 2
  BY DEF TooHigh
<1>1. /\ t \in TreeType /\ Tree(t, S, lo, hi) /\ h \in S
      /\ q = t.hParent[h] /\ s \in Side /\ (q # Nil => t.child[s][q] = h)
  BY DEF Way
<1>2. /\ Even(S \ {h}, t.child, t.bf, ht, q, s, ht[h])
      /\ \A k \in Side : t.child[k][h] \in Link /\ (t.child[k][h] = Nil \/ t.child[k][h] \in S)
      /\ ht \in [Link -> Nat] /\ ht[Nil] = 0
  <2>1. WayLaws(t, S, lo, hi, ht, h, f, e, q, s, c)
    BY WayFacts
  <2> QED
    BY <1>1, <2>1 DEF WayLaws
<1>3. d \in S
  <2>1. ht[t.child[Other(g)][h]] \in Nat
    BY <1>0, <1>2, Sides
  <2>2. d # Nil
    BY <1>0, <1>2, <2>1
  <2> QED
    BY <1>0, <1>2, <2>2
<1>4. BalanceOf(t, h, g, S, lo, hi, ht, q, s, ht[h], d)
  BY <1>0, <1>1, <1>2, <1>3 DEF BalanceOf
<1>5. PICK lo2, hi2, ht2, r :
         Balanced(t, h, S, lo, hi, ht, q, s, ht[h], d, Balance(t, h, g), lo2, hi2, ht2, r)
  BY <1>4, BalanceOK
<1>6. /\ Lifted(t, S, lo, hi, ht, Balance(t, h, g), lo2, hi2, ht2, q, s, ht[h], lo[h], hi[h], r)
      /\ r \in S /\ ht2[r] = IF t.bf[d] = EH THEN ht[d] + 1 ELSE ht[d]
  BY <1>5 DEF Balanced, Lifted
<1> QED
  BY <1>6

\* What Grown and Shrunk return.
GrownTo(a, t, S, lo, hi, ht, h, q, s, at, u, lo2, hi2, ht2, r, higher) ==
  /\ a = [tree |-> u, taller |-> higher, at |-> at] /\ higher \in BOOLEAN
  /\ r \in S /\ Lifted(t, S, lo, hi, ht, u, lo2, hi2, ht2, q, s, ht[h], lo[h], hi[h], r)
  /\ ht2[r] = (IF higher THEN ht[h] + 1 ELSE ht[h])
  /\ (higher => u.bf[r] # EH)

ShrunkTo(a, t, S, lo, hi, ht, h, q, s, u, lo2, hi2, ht2, r, less) ==
  /\ a = [tree |-> u, lower |-> less] /\ less \in BOOLEAN
  /\ r \in S /\ Lifted(t, S, lo, hi, ht, u, lo2, hi2, ht2, q, s, ht[h], lo[h], hi[h], r)
  /\ ht[h] = (IF less THEN ht2[r] + 1 ELSE ht2[r])

LEMMA GrownOK ==
  ASSUME NEW t, NEW S, NEW lo, NEW hi, NEW ht, NEW h, NEW f, NEW e, NEW q, NEW s, NEW c,
         Way(t, S, lo, hi, ht, h, f, e, q, s, c),
         NEW taller \in BOOLEAN, NEW at, NEW k, f = Toward(t.data[h], k),
         ht[c] = IF taller THEN e + 1 ELSE e,
         taller => t.bf[c] # EH \/ e = 0
  PROVE  \E u, lo2, hi2, ht2, r, higher :
           GrownTo(Grown(h, [tree |-> t, taller |-> taller, at |-> at], k),
                   t, S, lo, hi, ht, h, q, s, at, u, lo2, hi2, ht2, r, higher)
<1> DEFINE a == [tree |-> t, taller |-> taller, at |-> at]
           To(a2, u, lo2, hi2, ht2, r, b) ==
             GrownTo(a2, t, S, lo, hi, ht, h, q, s, at, u, lo2, hi2, ht2, r, b)
           New(u, b) == [tree |-> u, taller |-> b, at |-> at]
<1>1. PICK n : n = ht[t.child[Other(f)][h]]
  OBVIOUS
<1>2. t \in TreeType /\ h \in S /\ f \in Side /\ e \in Nat /\ c = t.child[f][h]
  BY DEF Way
<1>3. /\ S \subseteq Cell /\ ht[c] \in Nat /\ n \in Nat /\ h \in Link
      /\ \/ t.bf[h] = EH /\ e = n /\ ht[h] = e + 1
         \/ t.bf[h] = Higher(f) /\ e = n + 1 /\ ht[h] = e + 1
         \/ t.bf[h] = Higher(Other(f)) /\ n = e + 1 /\ ht[h] = n + 1
      /\ ht \in [Link -> Nat]
  <2>1. WayLaws(t, S, lo, hi, ht, h, f, e, q, s, c)
    BY WayFacts
  <2> QED
    BY <1>1, <2>1 DEF WayLaws
<1>4. /\ Higher(f) # EH /\ Higher(Other(f)) # EH /\ Higher(f) # Higher(Other(f))
      /\ Higher(f) \in Int /\ EH \in Int
  BY <1>2, Sides
<1>5. CASE ~taller
  <2>1. Grown(h, a, k) = New(t, FALSE)
    BY <1>5 DEF Grown
  <2>2. Lifted(t, S, lo, hi, ht, t, lo, hi, ht, q, s, ht[h], lo[h], hi[h], h)
    BY <1>5, NoChange
  <2>3. To(New(t, FALSE), t, lo, hi, ht, h, FALSE)
    BY <1>2, <2>2 DEF GrownTo
  <2> QED
    BY <2>1, <2>3
<1>6. CASE taller /\ t.bf[h] = EH
  <2>1. PICK u : u = [t EXCEPT !.bf[h] = Higher(f)]
    OBVIOUS
  <2>2. PICK ht2 : ht2 = [ht EXCEPT ![h] = n + 2]
    OBVIOUS
  <2>3. Grown(h, a, k) = New(u, TRUE)
    <3>1. Grown(h, a, k) = [a EXCEPT !.tree.bf[h] = Higher(f)]
      BY <1>4, <1>6 DEF Grown
    <3>2. [a EXCEPT !.tree.bf[h] = Higher(f)] = New([t EXCEPT !.bf[h] = Higher(f)], taller)
      OBVIOUS
    <3> QED
      BY <1>6, <2>1, <3>1, <3>2
  <2>4. n + 2 \in Nat /\ ht[c] = n + 1
    BY <1>3, <1>4, <1>6
  <2>5. Lifted(t, S, lo, hi, ht, u, lo, hi, ht2, q, s, ht[h], lo[h], hi[h], h) /\ ht2[h] = n + 2
    <3>1. BfSet(t, ht, h, f, c, Higher(f), n + 2, u, ht2)
      BY <1>1, <2>1, <2>2, <2>4 DEF BfSet
    <3> QED
      BY <3>1, NewBf
  <2>6. u.bf[h] # EH
    BY <1>2, <1>3, <1>4, <2>1, Fields
  <2>7. n + 2 = ht[h] + 1
    BY <1>3, <1>4, <1>6
  <2>8. To(New(u, TRUE), u, lo, hi, ht2, h, TRUE)
    BY <1>2, <2>5, <2>6, <2>7 DEF GrownTo
  <2> QED
    BY <2>3, <2>8
<1>7. CASE taller /\ t.bf[h] = Higher(Other(f))
  <2>1. PICK u : u = [t EXCEPT !.bf[h] = EH]
    OBVIOUS
  <2>2. PICK ht2 : ht2 = [ht EXCEPT ![h] = n + 1]
    OBVIOUS
  <2>3. Grown(h, a, k) = New(u, FALSE)
    BY <1>4, <1>7, <2>1 DEF Grown
  <2>4. n + 1 \in Nat /\ ht[c] = n
    BY <1>3, <1>4, <1>7
  <2>5. Lifted(t, S, lo, hi, ht, u, lo, hi, ht2, q, s, ht[h], lo[h], hi[h], h) /\ ht2[h] = n + 1
    <3>1. BfSet(t, ht, h, f, c, EH, n + 1, u, ht2)
      BY <1>1, <2>1, <2>2, <2>4 DEF BfSet
    <3> QED
      BY <3>1, NewBf
  <2>6. n + 1 = ht[h]
    BY <1>3, <1>4, <1>7
  <2>8. To(New(u, FALSE), u, lo, hi, ht2, h, FALSE)
    BY <1>2, <2>5, <2>6 DEF GrownTo
  <2> QED
    BY <2>3, <2>8
<1>8. CASE taller /\ t.bf[h] = Higher(f)
  <2>1. ht[c] = n + 2 /\ ht[h] = ht[c] /\ t.bf[c] # EH
    BY <1>3, <1>4, <1>8
  <2>4. PICK u : u = Balance(t, h, f)
    OBVIOUS
  <2>2. PICK lo2, hi2, ht2, r :
           /\ Lifted(t, S, lo, hi, ht, u, lo2, hi2, ht2, q, s, ht[h], lo[h], hi[h], r)
           /\ r \in S /\ ht2[r] = IF t.bf[c] = EH THEN ht[c] + 1 ELSE ht[c]
    <3>1. TooHigh(t, ht, h, f, c)
      BY <1>1, <1>2, <2>1 DEF TooHigh
    <3> QED
      BY <2>4, <3>1, Rebalanced
  <2>3. Grown(h, a, k) = New(u, FALSE)
    BY <1>4, <1>8, <2>4 DEF Grown
  <2>5. To(New(u, FALSE), u, lo2, hi2, ht2, r, FALSE)
    BY <2>1, <2>2 DEF GrownTo
  <2> QED
    BY <2>3, <2>5
<1> QED
  BY <1>3, <1>5, <1>6, <1>7, <1>8

LEMMA ShrunkOK ==
  ASSUME NEW t, NEW S, NEW lo, NEW hi, NEW ht, NEW h, NEW f, NEW e, NEW q, NEW s, NEW c,
         Way(t, S, lo, hi, ht, h, f, e, q, s, c),
         NEW lower \in BOOLEAN, e = IF lower THEN ht[c] + 1 ELSE ht[c]
  PROVE  \E u, lo2, hi2, ht2, r, less :
           ShrunkTo(Shrunk(h, [tree |-> t, lower |-> lower], f),
                    t, S, lo, hi, ht, h, q, s, u, lo2, hi2, ht2, r, less)
<1> DEFINE a == [tree |-> t, lower |-> lower]
           To(a2, u, lo2, hi2, ht2, r, b) ==
             ShrunkTo(a2, t, S, lo, hi, ht, h, q, s, u, lo2, hi2, ht2, r, b)
           New(u, b) == [tree |-> u, lower |-> b]
<1>1. PICK n : n = ht[t.child[Other(f)][h]]
  OBVIOUS
<1>2. t \in TreeType /\ h \in S /\ f \in Side /\ e \in Nat /\ c = t.child[f][h]
  BY DEF Way
<1>3. /\ S \subseteq Cell /\ ht[c] \in Nat /\ n \in Nat /\ h \in Link
      /\ \/ t.bf[h] = EH /\ e = n /\ ht[h] = e + 1
         \/ t.bf[h] = Higher(f) /\ e = n + 1 /\ ht[h] = e + 1
         \/ t.bf[h] = Higher(Other(f)) /\ n = e + 1 /\ ht[h] = n + 1
      /\ ht \in [Link -> Nat]
  <2>1. WayLaws(t, S, lo, hi, ht, h, f, e, q, s, c)
    BY WayFacts
  <2> QED
    BY <1>1, <2>1 DEF WayLaws
<1>4. /\ Higher(f) # EH /\ Higher(Other(f)) # EH /\ Higher(f) # Higher(Other(f))
      /\ Higher(f) \in Int /\ EH \in Int /\ Higher(Other(f)) \in Int
      /\ Other(f) \in Side /\ Other(Other(f)) = f
  BY <1>2, Sides
<1>5. CASE ~lower
  <2>1. Shrunk(h, a, f) = New(t, FALSE)
    BY <1>5 DEF Shrunk
  <2>2. Lifted(t, S, lo, hi, ht, t, lo, hi, ht, q, s, ht[h], lo[h], hi[h], h)
    BY <1>5, NoChange
  <2>3. To(New(t, FALSE), t, lo, hi, ht, h, FALSE)
    BY <1>2, <2>2 DEF ShrunkTo
  <2> QED
    BY <2>1, <2>3
<1>6. CASE lower /\ t.bf[h] = Higher(f)
  <2>1. PICK u : u = [t EXCEPT !.bf[h] = EH]
    OBVIOUS
  <2>2. PICK ht2 : ht2 = [ht EXCEPT ![h] = n + 1]
    OBVIOUS
  <2>3. Shrunk(h, a, f) = New(u, TRUE)
    <3>1. Shrunk(h, a, f) = [a EXCEPT !.tree.bf[h] = EH]
      BY <1>4, <1>6 DEF Shrunk
    <3>2. [a EXCEPT !.tree.bf[h] = EH] = New([t EXCEPT !.bf[h] = EH], lower)
      OBVIOUS
    <3> QED
      BY <1>6, <2>1, <3>1, <3>2
  <2>4. n + 1 \in Nat /\ ht[c] = n
    BY <1>3, <1>4, <1>6
  <2>5. Lifted(t, S, lo, hi, ht, u, lo, hi, ht2, q, s, ht[h], lo[h], hi[h], h) /\ ht2[h] = n + 1
    <3>1. BfSet(t, ht, h, f, c, EH, n + 1, u, ht2)
      BY <1>1, <2>1, <2>2, <2>4 DEF BfSet
    <3> QED
      BY <3>1, NewBf
  <2>6. ht[h] = n + 1 + 1
    BY <1>3, <1>4, <1>6
  <2>8. To(New(u, TRUE), u, lo, hi, ht2, h, TRUE)
    BY <1>2, <2>5, <2>6 DEF ShrunkTo
  <2> QED
    BY <2>3, <2>8
<1>7. CASE lower /\ t.bf[h] = EH
  <2>1. PICK u : u = [t EXCEPT !.bf[h] = Higher(Other(f))]
    OBVIOUS
  <2>2. PICK ht2 : ht2 = [ht EXCEPT ![h] = n + 1]
    OBVIOUS
  <2>3. Shrunk(h, a, f) = New(u, FALSE)
    BY <1>4, <1>7, <2>1 DEF Shrunk
  <2>4. n + 1 \in Nat /\ n = ht[c] + 1
    BY <1>3, <1>4, <1>7
  <2>5. Lifted(t, S, lo, hi, ht, u, lo, hi, ht2, q, s, ht[h], lo[h], hi[h], h) /\ ht2[h] = n + 1
    <3>1. BfSet(t, ht, h, f, c, Higher(Other(f)), n + 1, u, ht2)
      BY <1>1, <2>1, <2>2, <2>4 DEF BfSet
    <3> QED
      BY <3>1, NewBf
  <2>6. n + 1 = ht[h]
    BY <1>3, <1>4, <1>7
  <2>8. To(New(u, FALSE), u, lo, hi, ht2, h, FALSE)
    BY <1>2, <2>5, <2>6 DEF ShrunkTo
  <2> QED
    BY <2>3, <2>8
<1>8. CASE lower /\ t.bf[h] = Higher(Other(f))
  <2>1. PICK d : d = t.child[Other(f)][h]
    OBVIOUS
  <2>2. ht[d] = ht[c] + 2 /\ ht[h] = ht[d] + 1 /\ ht[d] \in Nat
    BY <1>1, <1>3, <1>4, <1>8, <2>1
  <2>7. PICK u : u = Balance(t, h, Other(f))
    OBVIOUS
  <2>3. PICK lo2, hi2, ht2, r :
           /\ Lifted(t, S, lo, hi, ht, u, lo2, hi2, ht2, q, s, ht[h], lo[h], hi[h], r)
           /\ r \in S /\ ht2[r] = IF t.bf[d] = EH THEN ht[d] + 1 ELSE ht[d]
    <3>1. TooHigh(t, ht, h, Other(f), d)
      BY <1>2, <1>4, <2>1, <2>2 DEF TooHigh
    <3> QED
      BY <2>7, <3>1, Rebalanced
  <2>4. PICK less : less = (t.bf[d] # EH)
    OBVIOUS
  <2>5. Shrunk(h, a, f) = New(u, less)
    BY <1>4, <1>8, <2>1, <2>4, <2>7 DEF Shrunk
  <2>6. less \in BOOLEAN /\ ht[h] = IF less THEN ht2[r] + 1 ELSE ht2[r]
    BY <2>2, <2>3, <2>4
  <2>8. To(New(u, less), u, lo2, hi2, ht2, r, less)
    BY <2>3, <2>6 DEF ShrunkTo
  <2> QED
    BY <2>5, <2>8
<1> QED
  BY <1>3, <1>5, <1>6, <1>7, <1>8

-----------------------------------------------------------------------------
(* A new leaf.                                                              *)

LEMMA NodeIs ==
  ASSUME NEW t \in TreeType, NEW k \in Int, NEW parent \in Link, NEW free \in Link,
         NEW n \in Cell, n = Position(t), NEW u, u = Node(t, k, parent, free)
  PROVE  /\ u \in TreeType
         /\ \A g \in Side, h \in Cell : u.child[g][h] = IF h = n THEN Nil ELSE t.child[g][h]
         /\ u.hParent = [t.hParent EXCEPT ![n] = parent] /\ u.bf = [t.bf EXCEPT ![n] = EH]
         /\ u.deleted = [t.deleted EXCEPT ![n] = FALSE] /\ u.data = [t.data EXCEPT ![n] = k]
         /\ u.hHead = t.hHead /\ u.free_head = free /\ u.size = t.size + 1
         /\ u.array_size = IF t.free_head = Nil THEN t.array_size + 1 ELSE t.array_size
<1>1. PICK c : c = Alone(t, n)
  OBVIOUS
<1>2. PICK a : a = IF t.free_head = Nil THEN t.array_size + 1 ELSE t.array_size
  OBVIOUS
<1>3. c \in [Side -> [Cell -> Link]] /\ \A g \in Side, h \in Cell : c[g][h] = IF h = n THEN Nil ELSE t.child[g][h]
  BY <1>1, Fields DEF Alone, Link
<1>4. a \in Nat
  BY <1>2, Fields
<1>5. u = [t EXCEPT !.array_size = a, !.free_head = free, !.child = c, !.hParent[n] = parent,
                    !.bf[n] = EH, !.deleted[n] = FALSE, !.data[n] = k, !.size = @ + 1]
  BY <1>1, <1>2 DEF Node
<1>6. EH \in Int
  BY DEF EH
<1>7. /\ u \in TreeType /\ u.child = c
      /\ u.hParent = [t.hParent EXCEPT ![n] = parent] /\ u.bf = [t.bf EXCEPT ![n] = EH]
      /\ u.deleted = [t.deleted EXCEPT ![n] = FALSE] /\ u.data = [t.data EXCEPT ![n] = k]
      /\ u.hHead = t.hHead /\ u.free_head = free /\ u.size = t.size + 1 /\ u.array_size = a
  <2>3. PICK hp : hp = [t.hParent EXCEPT ![n] = parent]
    OBVIOUS
  <2>4. PICK b : b = [t.bf EXCEPT ![n] = EH]
    OBVIOUS
  <2>5. PICK d : d = [t.deleted EXCEPT ![n] = FALSE]
    OBVIOUS
  <2>6. PICK x : x = [t.data EXCEPT ![n] = k]
    OBVIOUS
  <2>7. PICK s : s = t.size + 1
    OBVIOUS
  <2>8. u = [t EXCEPT !.array_size = a, !.free_head = free, !.child = c, !.hParent = hp,
                      !.bf = b, !.deleted = d, !.data = x, !.size = s]
    BY <1>5, <2>3, <2>4, <2>5, <2>6, <2>7
  <2>9. u = [child |-> c, hParent |-> hp, bf |-> b, deleted |-> d, data |-> x,
             hHead |-> t.hHead, free_head |-> free, size |-> s, array_size |-> a]
    BY <2>8 DEF TreeType
  <2>1. /\ u.child = c /\ u.hParent = [t.hParent EXCEPT ![n] = parent]
        /\ u.bf = [t.bf EXCEPT ![n] = EH] /\ u.deleted = [t.deleted EXCEPT ![n] = FALSE]
        /\ u.data = [t.data EXCEPT ![n] = k] /\ u.hHead = t.hHead /\ u.free_head = free
        /\ u.size = t.size + 1 /\ u.array_size = a
        /\ u = [child |-> u.child, hParent |-> u.hParent, bf |-> u.bf, deleted |-> u.deleted,
               data |-> u.data, hHead |-> u.hHead, free_head |-> u.free_head, size |-> u.size,
               array_size |-> u.array_size]
    BY <2>3, <2>4, <2>5, <2>6, <2>7, <2>9
  <2>2. /\ u.hParent \in [Cell -> Link] /\ u.bf \in [Cell -> Int]
        /\ u.deleted \in [Cell -> BOOLEAN] /\ u.data \in [Cell -> Int]
        /\ u.hHead \in Link /\ u.size \in Int
    BY <1>6, <2>1, Fields
  <2> QED
    BY <1>3, <1>4, <2>1, <2>2 DEF TreeType
<1> QED
  BY <1>2, <1>3, <1>7

NextFree(t) == IF t.free_head = Nil THEN Nil ELSE t.hParent[Position(t)]

\* What an insertion does to what relinking does not touch; n is the new node.
Added(t, u, n, k) ==
  /\ u.deleted = [t.deleted EXCEPT ![n] = FALSE] /\ u.data = [t.data EXCEPT ![n] = k]
  /\ u.free_head = NextFree(t) /\ u.size = t.size + 1
  /\ u.array_size = IF t.free_head = Nil THEN t.array_size + 1 ELSE t.array_size

LEMMA LinkedIs ==
  ASSUME NEW t \in TreeType, NEW k \in Int, NEW q \in Link,
         NEW n \in Cell, n = Position(t), n # q, NEW u, u = Linked(t, k, q)
  PROVE  /\ u \in TreeType /\ Added(t, u, n, k)
         /\ \A g \in Side, h \in Cell :
              u.child[g][h] = IF h = q /\ g = Toward(t.data[q], k) THEN n
                              ELSE IF h = n THEN Nil ELSE t.child[g][h]
         /\ u.hParent = [t.hParent EXCEPT ![n] = q] /\ u.bf = [t.bf EXCEPT ![n] = EH]
         /\ u.hHead = IF q = Nil THEN n ELSE t.hHead
<1>1. PICK free : free = NextFree(t)
  OBVIOUS
<1>2. free \in Link
  BY <1>1, Fields DEF NextFree, Link
<1>3. PICK v : v = Node(t, k, q, free)
  OBVIOUS
<1>4. /\ v \in TreeType
      /\ \A g \in Side, h \in Cell : v.child[g][h] = IF h = n THEN Nil ELSE t.child[g][h]
      /\ v.hParent = [t.hParent EXCEPT ![n] = q] /\ v.bf = [t.bf EXCEPT ![n] = EH]
      /\ v.deleted = [t.deleted EXCEPT ![n] = FALSE] /\ v.data = [t.data EXCEPT ![n] = k]
      /\ v.hHead = t.hHead /\ v.free_head = free /\ v.size = t.size + 1
      /\ v.array_size = IF t.free_head = Nil THEN t.array_size + 1 ELSE t.array_size
  BY <1>2, <1>3, NodeIs
<1>5. CASE q = Nil
  <2>1. u = [v EXCEPT !.hHead = n]
    BY <1>1, <1>3, <1>5 DEF Linked, NextFree
  <2>2. /\ u \in TreeType /\ Rest(v, u) /\ u.bf = v.bf /\ u.child = v.child
        /\ u.hParent = v.hParent /\ u.hHead = n
    BY <1>4, <2>1, Fields DEF TreeType, Rest, Link
  <2>3. \A h \in Cell : h # q
    BY <1>5 DEF Cell, Nil
  <2> QED
    BY <1>1, <1>4, <1>5, <2>2, <2>3 DEF Added, Rest
<1>6. CASE q # Nil
  <2>1. PICK s : s = Toward(t.data[q], k)
    OBVIOUS
  <2>2. q \in Cell /\ s \in Side /\ n \in Link
    BY <1>6, <2>1 DEF Link, Toward, Side
  <2>3. u = WithChild(v, s, q, n)
    BY <1>1, <1>3, <1>6, <2>1 DEF Linked, NextFree, WithChild
  <2>4. v \in TreeType
    BY <1>4
  <2>5. /\ u \in TreeType /\ Rest(v, u) /\ u.bf = v.bf
        /\ u.hParent = v.hParent /\ u.hHead = v.hHead
        /\ \A g \in Side, h \in Cell :
              u.child[g][h] = IF g = s /\ h = q THEN n ELSE v.child[g][h]
    BY <2>2, <2>3, <2>4, SetChild, SMTT(20)
  <2> QED
    BY <1>1, <1>4, <1>6, <2>1, <2>5 DEF Added, Rest
<1> QED
  BY <1>5, <1>6

\* The bounds with those of a new leaf.
LeafOf(t, S, lo, hi, q, f, n, k, u, lo2, hi2) ==
  /\ t \in TreeType /\ Tree(t, S, lo, hi) /\ q \in S /\ f \in Side /\ t.child[f][q] = Nil
  /\ n \in Cell \ S /\ k \in Int
  /\ Low(t.data, lo, f, q) < k /\ k < Upp(t.data, hi, f, q)
  /\ u \in TreeType /\ u.data = [t.data EXCEPT ![n] = k]
  /\ u.hParent = [t.hParent EXCEPT ![n] = q] /\ u.hHead = t.hHead
  /\ \A g \in Side, h \in Cell : u.child[g][h] = IF h = q /\ g = f THEN n
                                                  ELSE IF h = n THEN Nil ELSE t.child[g][h]
  /\ lo2 = [lo EXCEPT ![n] = Low(t.data, lo, f, q)]
  /\ hi2 = [hi EXCEPT ![n] = Upp(t.data, hi, f, q)]

LEMMA LeafTree ==
  ASSUME NEW t, NEW S, NEW lo, NEW hi, NEW q, NEW f, NEW n, NEW k, NEW u, NEW lo2, NEW hi2,
         LeafOf(t, S, lo, hi, q, f, n, k, u, lo2, hi2)
  PROVE  Tree(u, S \cup {n}, lo2, hi2)
<1> DEFINE S2 == S \cup {n}
           x == Low(t.data, lo, f, q)
           y == Upp(t.data, hi, f, q)
<1>1. /\ t \in TreeType /\ Shape(S, t.hHead, t.child, t.hParent, t.data, lo, hi)
      /\ q \in S /\ f \in Side /\ t.child[f][q] = Nil
      /\ n \in Cell /\ n \notin S /\ k \in Int /\ u \in TreeType
  BY DEF LeafOf, Tree
<1>2. /\ S \subseteq Cell /\ Nil \notin S /\ Nil # n
      /\ lo \in [Cell -> Int] /\ hi \in [Cell -> Int] /\ t.data \in [Cell -> Int]
  BY <1>1 DEF Shape, Numbers, Cell, Nil
<1>3. x \in Int /\ y \in Int /\ x < k /\ k < y
  BY <1>1, <1>2 DEF LeafOf, Low, Upp
<1>4. /\ lo2 \in [Cell -> Int] /\ hi2 \in [Cell -> Int] /\ u.data \in [Cell -> Int]
      /\ lo2[n] = x /\ hi2[n] = y /\ u.data[n] = k
      /\ \A h \in S : lo2[h] = lo[h] /\ hi2[h] = hi[h] /\ u.data[h] = t.data[h]
  BY <1>1, <1>2, <1>3 DEF LeafOf
<1>5. /\ \A g \in Side, h \in S : u.child[g][h] = IF h = q /\ g = f THEN n ELSE t.child[g][h]
      /\ \A g \in Side : u.child[g][n] = Nil
      /\ u.hParent[n] = q /\ \A h \in S : u.hParent[h] = t.hParent[h]
      /\ u.hHead = t.hHead
  BY <1>1, <1>2, Fields DEF LeafOf
<1>6. /\ \A h \in S : /\ lo[h] \in Int /\ hi[h] \in Int /\ t.data[h] \in Int
                      /\ lo[h] < t.data[h] /\ t.data[h] < hi[h]
      /\ \A g, h \in S : g # h => Apart(t.data, lo, hi, g, h)
      /\ \A h \in S, g \in Side : Kid(S, t.child, t.hParent, t.data, lo, hi, g, h)
  BY <1>1, <1>2 DEF Shape, Between, Nested, Kids
<1>7. \A h \in S : ~(x < t.data[h] /\ t.data[h] < y)
  BY <1>1, <1>2, <1>6 DEF Kid
<1>8. /\ f = "hLeft" => x = lo[q] /\ y = t.data[q]
      /\ f = "hRight" => x = t.data[q] /\ y = hi[q]
      /\ f = "hLeft" \/ f = "hRight"
  BY <1>1 DEF Low, Upp, Side
<1> HIDE DEF x, y
<1>9. Numbers(S2, u.data, lo2, hi2)
  BY <1>1, <1>2, <1>4 DEF Numbers
<1>10. Between(S2, u.data, lo2, hi2)
  BY <1>3, <1>4, <1>6 DEF Between
<1>11. ASSUME NEW h \in S PROVE Apart(u.data, lo2, hi2, h, n) /\ Apart(u.data, lo2, hi2, n, h)
  <2>1. /\ lo2[h] = lo[h] /\ hi2[h] = hi[h] /\ u.data[h] = t.data[h]
        /\ lo[h] \in Int /\ hi[h] \in Int /\ t.data[h] \in Int
        /\ lo[q] \in Int /\ hi[q] \in Int /\ t.data[q] \in Int
        /\ lo[h] < t.data[h] /\ t.data[h] < hi[h] /\ lo[q] < t.data[q] /\ t.data[q] < hi[q]
        /\ ~(x < t.data[h] /\ t.data[h] < y)
    BY <1>1, <1>4, <1>6, <1>7
  <2>2. CASE h = q
    BY <1>3, <1>4, <1>8, <2>1, <2>2 DEF Apart
  <2>3. CASE h # q
    <3>1. Apart(t.data, lo, hi, h, q)
      BY <1>1, <1>6, <2>3
    <3> QED
      BY <1>3, <1>4, <1>8, <2>1, <3>1 DEF Apart
  <2> QED
    BY <2>2, <2>3
<1>12. Nested(S2, u.data, lo2, hi2)
  <2> SUFFICES ASSUME NEW g \in S2, NEW h \in S2, g # h
               PROVE  Apart(u.data, lo2, hi2, g, h)
    BY DEF Nested
  <2>1. CASE g = n \/ h = n
    BY <1>11, <2>1
  <2>2. CASE g # n /\ h # n
    <3>1. Apart(t.data, lo, hi, g, h)
      BY <1>6, <2>2
    <3> QED
      BY <1>4, <2>2, <3>1 DEF Apart
  <2> QED
    BY <2>1, <2>2
<1>13. ASSUME NEW h \in S, NEW g \in Side, h # q \/ g # f
       PROVE  Kid(S2, u.child, u.hParent, u.data, lo2, hi2, g, h)
  <2>1. Kid(S, t.child, t.hParent, t.data, lo, hi, g, h)
    BY <1>6
  <2>2. u.child[g][h] = t.child[g][h]
    BY <1>5, <1>13
  <2>3. Low(u.data, lo2, g, h) = Low(t.data, lo, g, h) /\ Upp(u.data, hi2, g, h) = Upp(t.data, hi, g, h)
    BY <1>4 DEF Low, Upp
  <2>4. CASE t.child[g][h] \in S
    BY <1>2, <1>4, <1>5, <2>1, <2>2, <2>3, <2>4 DEF Kid
  <2>5. CASE t.child[g][h] = Nil
    <3>1. \A j \in S : ~(Low(t.data, lo, g, h) < t.data[j] /\ t.data[j] < Upp(t.data, hi, g, h))
      BY <1>2, <2>1, <2>5 DEF Kid
    <3>2. ~(Low(t.data, lo, g, h) < k /\ k < Upp(t.data, hi, g, h))
      <4>5. PICK l : l = Low(t.data, lo, g, h)
        OBVIOUS
      <4>6. PICK m : m = Upp(t.data, hi, g, h)
        OBVIOUS
      <4>1. /\ lo[h] \in Int /\ hi[h] \in Int /\ t.data[h] \in Int
            /\ lo[q] \in Int /\ hi[q] \in Int /\ t.data[q] \in Int
            /\ lo[h] < t.data[h] /\ t.data[h] < hi[h] /\ lo[q] < t.data[q] /\ t.data[q] < hi[q]
            /\ ~(x < t.data[h] /\ t.data[h] < y)
            /\ ~(l < t.data[q] /\ t.data[q] < m)
        BY <1>1, <1>6, <1>7, <3>1, <4>5, <4>6
      <4>4. \/ g = "hLeft" /\ l = lo[h] /\ m = t.data[h]
            \/ g = "hRight" /\ l = t.data[h] /\ m = hi[h]
        BY <4>5, <4>6 DEF Low, Upp, Side
      <4> SUFFICES ~(l < k /\ k < m)
        BY <4>5, <4>6
      <4>2. CASE h = q
        <5>1. g # f
          BY <1>13, <4>2
        <5> QED
          BY <1>1, <1>3, <1>8, <4>1, <4>2, <4>4, <5>1
      <4>3. CASE h # q
        <5>1. Apart(t.data, lo, hi, h, q)
          BY <1>1, <1>6, <4>3
        <5> QED
          BY <1>1, <1>3, <1>8, <4>1, <4>4, <5>1 DEF Apart
      <4> QED
        BY <4>2, <4>3
    <3> QED
      BY <1>4, <2>2, <2>3, <2>5, <3>1, <3>2 DEF Kid
  <2> QED
    BY <2>1, <2>4, <2>5 DEF Kid
<1>14. Kid(S2, u.child, u.hParent, u.data, lo2, hi2, f, q)
  <2>1. u.child[f][q] = n /\ u.hParent[n] = q
    BY <1>1, <1>5
  <2>2. Low(u.data, lo2, f, q) = x /\ Upp(u.data, hi2, f, q) = y
    BY <1>1, <1>4 DEF Low, Upp, x, y
  <2> QED
    BY <1>4, <2>1, <2>2 DEF Kid
<1>15. ASSUME NEW g \in Side PROVE Kid(S2, u.child, u.hParent, u.data, lo2, hi2, g, n)
  <2>1. u.child[g][n] = Nil
    BY <1>5
  <2>4. PICK l : l = Low(u.data, lo2, g, n)
    OBVIOUS
  <2>5. PICK m : m = Upp(u.data, hi2, g, n)
    OBVIOUS
  <2>3. (l = x /\ m = k) \/ (l = k /\ m = y)
    BY <1>4, <2>4, <2>5 DEF Low, Upp
  <2>2. ASSUME NEW j \in S2 PROVE ~(l < u.data[j] /\ u.data[j] < m)
    <3>1. CASE j = n
      BY <1>1, <1>3, <1>4, <2>3, <3>1
    <3>2. CASE j \in S
      <4>1. /\ ~(x < u.data[j] /\ u.data[j] < y) /\ u.data[j] \in Int
        BY <1>4, <1>6, <1>7, <3>2
      <4> QED
        BY <1>1, <1>3, <2>3, <4>1
    <3> QED
      BY <3>1, <3>2
  <2>6. \A j \in S2 : ~(Low(u.data, lo2, g, n) < u.data[j] /\ u.data[j] < Upp(u.data, hi2, g, n))
    BY <2>2, <2>4, <2>5
  <2> QED
    BY <2>1, <2>6 DEF Kid
<1>16. Kids(S2, u.child, u.hParent, u.data, lo2, hi2)
  BY <1>13, <1>14, <1>15 DEF Kids
<1>17. Parents(S2, u.hHead, u.child, u.hParent)
  <2> SUFFICES ASSUME NEW h \in S2
               PROVE  \/ u.hParent[h] = Nil /\ u.hHead = h
                      \/ u.hParent[h] \in S2 /\ \E g \in Side : u.child[g][u.hParent[h]] = h
    BY DEF Parents
  <2>1. CASE h = n
    BY <1>1, <1>5, <2>1
  <2>2. CASE h \in S
    <3>1. u.hParent[h] = t.hParent[h] /\ u.hHead = t.hHead
      BY <1>5, <2>2
    <3>2. \/ t.hParent[h] = Nil /\ t.hHead = h
          \/ t.hParent[h] \in S /\ \E g \in Side : t.child[g][t.hParent[h]] = h
      BY <1>1, <2>2 DEF Shape, Parents
    <3>3. CASE t.hParent[h] \in S /\ \E g \in Side : t.child[g][t.hParent[h]] = h
      <4>1. PICK g \in Side : t.child[g][t.hParent[h]] = h
        BY <3>3
      <4>2. u.child[g][t.hParent[h]] = h
        BY <1>1, <1>2, <1>5, <2>2, <3>3, <4>1
      <4> QED
        BY <3>1, <3>3, <4>2
    <3> QED
      BY <3>1, <3>2, <3>3
  <2> QED
    BY <2>1, <2>2
<1>18. Root(S2, u.hHead, u.hParent, lo2, hi2)
  <2>1. /\ t.hHead \in S /\ t.hParent[t.hHead] = Nil
        /\ \A h \in S : lo[t.hHead] <= lo[h] /\ hi[h] <= hi[t.hHead]
    BY <1>1 DEF Shape, Root
  <2>2. lo[t.hHead] <= lo[q] /\ hi[q] <= hi[t.hHead]
    BY <1>1, <2>1
  <2>3. lo[t.hHead] <= x /\ y <= hi[t.hHead]
    BY <1>1, <1>6, <1>8, <2>1, <2>2
  <2> QED
    BY <1>4, <1>5, <2>1, <2>3 DEF Root
<1> QED
  BY <1>1, <1>9, <1>10, <1>12, <1>16, <1>17, <1>18 DEF Tree, Shape

-----------------------------------------------------------------------------
(* The way back to the root.  The tree t with the nodes S has become the    *)
(* tree u with the nodes S2: below the place s of q, for data between x and *)
(* y, all is done, and q still counts the height e there.                   *)

Steady(S, t, lo, hi, ht, u, S2, lo2, hi2, ht2, x, y) ==
  \A g \in S : ~(x < t.data[g] /\ t.data[g] < y) =>
    /\ g \in S2 /\ u.data[g] = t.data[g] /\ u.hParent[g] = t.hParent[g]
    /\ lo2[g] = lo[g] /\ hi2[g] = hi[g] /\ ht2[g] = ht[g]

Idle(S, t, u) ==
  \A g \in Cell \ S : u.hParent[g] = t.hParent[g] /\ \A s \in Side : u.child[s][g] = t.child[s][g]

Done(t, S, lo, hi, ht, q, s, e, x, y, u, S2, lo2, hi2, ht2, r) ==
  /\ u \in TreeType /\ Tree(u, S2, lo2, hi2) /\ Even(S2, u.child, u.bf, ht2, q, s, e)
  /\ Hangs(u, q, s, r) /\ Steady(S, t, lo, hi, ht, u, S2, lo2, hi2, ht2, x, y)
  /\ Idle(S \cup S2, t, u)

\* h, below s of q in the old tree, is where that place f is.
Above(t, S, lo, hi, h, f, e, x, y, q, s) ==
  /\ t \in TreeType /\ Tree(t, S, lo, hi) /\ h \in S /\ f \in Side /\ e \in Nat
  /\ x = Low(t.data, lo, f, h) /\ y = Upp(t.data, hi, f, h)
  /\ q = t.hParent[h] /\ s \in Side /\ (q # Nil => t.child[s][q] = h)

\* h is as it was.
Same(t, lo, hi, ht, u, lo2, hi2, ht2, h) ==
  ht2[h] = ht[h] /\ lo2[h] = lo[h] /\ hi2[h] = hi[h] /\ u.data[h] = t.data[h]

LEMMA Upward ==
  ASSUME NEW t, NEW S, NEW lo, NEW hi, NEW ht, NEW h, NEW f, NEW e, NEW x, NEW y,
         NEW q, NEW s, Above(t, S, lo, hi, h, f, e, x, y, q, s),
         NEW u, NEW S2, NEW lo2, NEW hi2, NEW ht2, NEW r,
         Done(t, S, lo, hi, ht, h, f, e, x, y, u, S2, lo2, hi2, ht2, r)
  PROVE  /\ Way(u, S2, lo2, hi2, ht2, h, f, e, q, s, r)
         /\ Same(t, lo, hi, ht, u, lo2, hi2, ht2, h)
<1>1. /\ t \in TreeType /\ Tree(t, S, lo, hi) /\ h \in S /\ f \in Side /\ e \in Nat
      /\ x = Low(t.data, lo, f, h) /\ y = Upp(t.data, hi, f, h)
      /\ q = t.hParent[h] /\ s \in Side /\ (q # Nil => t.child[s][q] = h)
  BY DEF Above
<1>2. /\ u \in TreeType /\ Tree(u, S2, lo2, hi2) /\ Even(S2, u.child, u.bf, ht2, h, f, e)
      /\ Hangs(u, h, f, r) /\ Steady(S, t, lo, hi, ht, u, S2, lo2, hi2, ht2, x, y)
  BY DEF Done
<1>3. \A g \in S : /\ lo[g] \in Int /\ hi[g] \in Int /\ t.data[g] \in Int
                   /\ lo[g] < t.data[g] /\ t.data[g] < hi[g]
  BY <1>1 DEF Tree, Shape, Numbers, Between
<1>4. Nil \notin S /\ Nil \notin S2
  BY <1>1, <1>2 DEF Tree, Shape, Numbers, Cell, Nil
<1>5. ~(x < t.data[h] /\ t.data[h] < y) /\ lo[h] <= x /\ y <= hi[h]
  <2>1. \/ x = lo[h] /\ y = t.data[h]
        \/ x = t.data[h] /\ y = hi[h]
    BY <1>1 DEF Low, Upp
  <2> QED
    BY <1>1, <1>3, <2>1
<1>6. /\ h \in S2 /\ u.data[h] = t.data[h] /\ u.hParent[h] = q
      /\ lo2[h] = lo[h] /\ hi2[h] = hi[h] /\ ht2[h] = ht[h]
  BY <1>1, <1>2, <1>5 DEF Steady
<1>7. r = u.child[f][h]
  BY <1>1, <1>2, <1>4 DEF Hangs
<1>8. q # Nil => u.child[s][q] = h
  <2> SUFFICES ASSUME q # Nil PROVE u.child[s][q] = h
    OBVIOUS
  <2>1. q \in S
    BY <1>1 DEF Tree, Shape, Parents
  <2>2. /\ lo[h] = Low(t.data, lo, s, q) /\ hi[h] = Upp(t.data, hi, s, q)
        /\ lo[q] <= lo[h] /\ hi[h] <= hi[q]
    BY <1>1, <2>1, OneParent
  <2>3. q \in S2 /\ u.data[q] = t.data[q] /\ lo2[q] = lo[q] /\ hi2[q] = hi[q]
    <3>1. ~(lo[h] < t.data[q] /\ t.data[q] < hi[h])
      <4>1. \/ lo[h] = lo[q] /\ hi[h] = t.data[q]
            \/ lo[h] = t.data[q] /\ hi[h] = hi[q]
        BY <2>2 DEF Low, Upp
      <4> QED
        BY <1>1, <1>3, <2>1, <4>1
    <3>2. x \in Int /\ y \in Int
      BY <1>1, <1>3 DEF Low, Upp
    <3>3. ~(x < t.data[q] /\ t.data[q] < y)
      BY <1>1, <1>3, <1>5, <2>1, <3>1, <3>2
    <3> QED
      BY <1>2, <2>1, <3>3 DEF Steady
  <2>4. PICK g \in Side : u.child[g][q] = h
    BY <1>2, <1>6, <2>3 DEF Tree, Shape, Parents
  <2>5. lo2[h] = Low(u.data, lo2, g, q) /\ hi2[h] = Upp(u.data, hi2, g, q)
    BY <1>2, <1>6, <2>3, <2>4, OneParent
  <2>6. g = s
    <3> SUFFICES ASSUME g # s PROVE FALSE
      OBVIOUS
    <3>1. /\ lo[q] < t.data[q] /\ t.data[q] < hi[q]
          /\ lo[q] \in Int /\ hi[q] \in Int /\ t.data[q] \in Int
      BY <1>3, <2>1
    <3>2. (g = "hLeft" /\ s = "hRight") \/ (g = "hRight" /\ s = "hLeft")
      BY <1>1 DEF Side
    <3> QED
      BY <1>6, <2>2, <2>3, <2>5, <3>1, <3>2 DEF Low, Upp
  <2> QED
    BY <2>4, <2>6
<1> QED
  BY <1>1, <1>2, <1>6, <1>7, <1>8 DEF Way, Same

\* After the work at h, the place is the one of h.
LiftedAt(u, S2, lo2, hi2, ht2, v, lo3, hi3, ht3, q, s, ht, lo, hi, h, r2) ==
  Lifted(u, S2, lo2, hi2, ht2, v, lo3, hi3, ht3, q, s, ht[h], lo[h], hi[h], r2)
DoneAt(t, S, lo, hi, ht, q, s, h, u, S2, lo2, hi2, ht2, r) ==
  Done(t, S, lo, hi, ht, q, s, ht[h], lo[h], hi[h], u, S2, lo2, hi2, ht2, r)

LEMMA Onward ==
  ASSUME NEW t, NEW S, NEW lo, NEW hi, NEW ht, NEW h, NEW f, NEW e, NEW x, NEW y,
         NEW q, NEW s, Above(t, S, lo, hi, h, f, e, x, y, q, s),
         NEW u, NEW S2, NEW lo2, NEW hi2, NEW ht2, NEW r,
         Done(t, S, lo, hi, ht, h, f, e, x, y, u, S2, lo2, hi2, ht2, r),
         NEW v, NEW lo3, NEW hi3, NEW ht3, NEW r2,
         LiftedAt(u, S2, lo2, hi2, ht2, v, lo3, hi3, ht3, q, s, ht, lo, hi, h, r2)
  PROVE  /\ DoneAt(t, S, lo, hi, ht, q, s, h, v, S2, lo3, hi3, ht3, r2)
         /\ Rest(u, v)
<1>1. /\ t \in TreeType /\ Tree(t, S, lo, hi) /\ h \in S
      /\ x = Low(t.data, lo, f, h) /\ y = Upp(t.data, hi, f, h)
  BY DEF Above
<1>2. /\ Steady(S, t, lo, hi, ht, u, S2, lo2, hi2, ht2, x, y)
      /\ Idle(S \cup S2, t, u)
  BY DEF Done
<1>3. /\ v \in TreeType /\ Rest(u, v) /\ Tree(v, S2, lo3, hi3)
      /\ Even(S2, v.child, v.bf, ht3, q, s, ht[h]) /\ Hangs(v, q, s, r2)
      /\ Kept(S2, u, lo2, hi2, v, lo3, hi3, lo[h], hi[h]) /\ Outside(S2, u, v)
      /\ Level(S2, u, ht2, ht3, lo[h], hi[h])
  BY DEF LiftedAt, Lifted
<1>4. \A g \in S : lo[g] \in Int /\ hi[g] \in Int /\ t.data[g] \in Int
  BY <1>1 DEF Tree, Shape, Numbers
<1>5. x \in Int /\ y \in Int /\ lo[h] <= x /\ y <= hi[h]
  <2>1. \/ x = lo[h] /\ y = t.data[h]
        \/ x = t.data[h] /\ y = hi[h]
    BY <1>1 DEF Low, Upp
  <2>2. lo[h] < t.data[h] /\ t.data[h] < hi[h]
    BY <1>1 DEF Tree, Shape, Between
  <2> QED
    BY <1>1, <1>4, <2>1, <2>2
<1>6. Steady(S, t, lo, hi, ht, v, S2, lo3, hi3, ht3, lo[h], hi[h])
  <2> SUFFICES ASSUME NEW g \in S, ~(lo[h] < t.data[g] /\ t.data[g] < hi[h])
               PROVE  /\ g \in S2 /\ v.data[g] = t.data[g] /\ v.hParent[g] = t.hParent[g]
                      /\ lo3[g] = lo[g] /\ hi3[g] = hi[g] /\ ht3[g] = ht[g]
    BY DEF Steady
  <2>1. ~(x < t.data[g] /\ t.data[g] < y)
    BY <1>1, <1>4, <1>5
  <2>2. /\ g \in S2 /\ u.data[g] = t.data[g] /\ u.hParent[g] = t.hParent[g]
        /\ lo2[g] = lo[g] /\ hi2[g] = hi[g] /\ ht2[g] = ht[g]
    BY <1>2, <2>1 DEF Steady
  <2>3. v.hParent[g] = u.hParent[g] /\ lo3[g] = lo2[g] /\ hi3[g] = hi2[g] /\ ht3[g] = ht2[g]
    BY <1>3, <2>2 DEF Kept, Level
  <2> QED
    BY <1>3, <2>2, <2>3 DEF Rest
<1>7. Idle(S \cup S2, t, v)
  BY <1>2, <1>3 DEF Idle, Outside
<1> QED
  BY <1>3, <1>6, <1>7 DEF Done, DoneAt

\* A tree with nothing left to do.
AVL(t, S, lo, hi, ht) ==
  t \in TreeType /\ Tree(t, S, lo, hi) /\ Even(S, t.child, t.bf, ht, Nil, "hLeft", 0)

LEMMA AVLFacts ==
  ASSUME NEW t, NEW S, NEW lo, NEW hi, NEW ht, AVL(t, S, lo, hi, ht)
  PROVE  /\ t \in TreeType /\ Tree(t, S, lo, hi)
         /\ S \in SUBSET Cell /\ Nil \notin S /\ S \subseteq Link
         /\ ht \in [Link -> Nat] /\ ht[Nil] = 0
         /\ \A h \in S, f \in Side :
              /\ t.child[f][h] = Nil \/ t.child[f][h] \in S
              /\ t.child[f][h] \in Link /\ ht[t.child[f][h]] \in Nat
              /\ t.child[f][h] = Nil =>
                   \A g \in S : ~(Low(t.data, lo, f, h) < t.data[g] /\ t.data[g] < Upp(t.data, hi, f, h))
         /\ \A h \in S : /\ lo[h] \in Int /\ hi[h] \in Int /\ t.data[h] \in Int
                         /\ lo[h] < t.data[h] /\ t.data[h] < hi[h]
         /\ t.hHead = Nil \/ t.hHead \in S
<1>1. t \in TreeType /\ Tree(t, S, lo, hi) /\ Even(S, t.child, t.bf, ht, Nil, "hLeft", 0)
  BY DEF AVL
<1>2. S \in SUBSET Cell /\ Nil \notin S /\ S \subseteq Link
  BY <1>1 DEF Tree, Shape, Numbers, Cell, Nil, Link
<1>3. ht \in [Link -> Nat] /\ ht[Nil] = 0
  BY <1>1 DEF Even
<1>4. \A h \in S : /\ lo[h] \in Int /\ hi[h] \in Int /\ t.data[h] \in Int
                   /\ lo[h] < t.data[h] /\ t.data[h] < hi[h]
  BY <1>1 DEF Tree, Shape, Numbers, Between
<1>5. ASSUME NEW h \in S, NEW f \in Side
      PROVE  /\ t.child[f][h] = Nil \/ t.child[f][h] \in S
             /\ t.child[f][h] \in Link /\ ht[t.child[f][h]] \in Nat
             /\ t.child[f][h] = Nil =>
                  \A g \in S : ~(Low(t.data, lo, f, h) < t.data[g] /\ t.data[g] < Upp(t.data, hi, f, h))
  <2>1. Kid(S, t.child, t.hParent, t.data, lo, hi, f, h)
    BY <1>1 DEF Tree, Shape, Kids
  <2>2. t.child[f][h] \in Link
    BY <1>2, <1>1, Fields
  <2> QED
    BY <1>2, <1>3, <2>1, <2>2 DEF Kid
<1>6. t.hHead = Nil \/ t.hHead \in S
  BY <1>1 DEF Tree, Shape, Root
<1> QED
  BY <1>1, <1>2, <1>3, <1>4, <1>5, <1>6

\* A new leaf, linked where its key belongs.
NewLeaf(t, S, lo, hi, ht, q, f, n, k, u) ==
  /\ AVL(t, S, lo, hi, ht) /\ q \in S /\ f = Toward(t.data[q], k) /\ t.child[f][q] = Nil
  /\ n = Position(t) /\ n \in Cell \ S /\ k \in Int
  /\ Low(t.data, lo, f, q) < k /\ k < Upp(t.data, hi, f, q)
  /\ u = Linked(t, k, q)

LEMMA LeafDone ==
  ASSUME NEW t, NEW S, NEW lo, NEW hi, NEW ht, NEW q, NEW f, NEW n, NEW k, NEW u,
         NewLeaf(t, S, lo, hi, ht, q, f, n, k, u)
  PROVE  \E lo2, hi2, ht2 :
           /\ Done(t, S, lo, hi, ht, q, f, 0, Low(t.data, lo, f, q), Upp(t.data, hi, f, q),
                   u, S \cup {n}, lo2, hi2, ht2, n)
           /\ ht2[n] = 1 /\ Added(t, u, n, k)
<1>1. /\ AVL(t, S, lo, hi, ht) /\ q \in S /\ f = Toward(t.data[q], k) /\ t.child[f][q] = Nil
      /\ n = Position(t) /\ n \in Cell /\ n \notin S /\ k \in Int
      /\ Low(t.data, lo, f, q) < k /\ k < Upp(t.data, hi, f, q)
      /\ u = Linked(t, k, q)
  BY DEF NewLeaf
<1>2. /\ t \in TreeType /\ Tree(t, S, lo, hi)
      /\ S \in SUBSET Cell /\ Nil \notin S /\ S \subseteq Link
      /\ ht \in [Link -> Nat] /\ ht[Nil] = 0
      /\ \A h \in S : lo[h] \in Int /\ hi[h] \in Int /\ t.data[h] \in Int
      /\ \A h \in S, g \in Side : t.child[g][h] = Nil \/ t.child[g][h] \in S
  BY <1>1, AVLFacts
<1>3. f \in Side /\ q \in Link /\ q # Nil /\ n # q
  BY <1>1, <1>2 DEF Toward, Side
<1>4. /\ u \in TreeType /\ Added(t, u, n, k)
      /\ \A g \in Side, h \in Cell :
           u.child[g][h] = IF h = q /\ g = f THEN n ELSE IF h = n THEN Nil ELSE t.child[g][h]
      /\ u.hParent = [t.hParent EXCEPT ![n] = q] /\ u.bf = [t.bf EXCEPT ![n] = EH]
      /\ u.hHead = t.hHead
  <2>1. t \in TreeType /\ k \in Int /\ q \in Link /\ n \in Cell /\ n = Position(t) /\ n # q /\ u = Linked(t, k, q)
    BY <1>1, <1>2, <1>3
  <2> QED
    BY <1>1, <1>3, <2>1, LinkedIs
<1>5. PICK lo2 : lo2 = [lo EXCEPT ![n] = Low(t.data, lo, f, q)]
  OBVIOUS
<1>6. PICK hi2 : hi2 = [hi EXCEPT ![n] = Upp(t.data, hi, f, q)]
  OBVIOUS
<1>7. PICK ht2 : ht2 = [ht EXCEPT ![n] = 1]
  OBVIOUS
<1>8. u.data = [t.data EXCEPT ![n] = k]
  BY <1>4 DEF Added
<1>9. Tree(u, S \cup {n}, lo2, hi2)
  <2>1. LeafOf(t, S, lo, hi, q, f, n, k, u, lo2, hi2)
    BY <1>1, <1>2, <1>3, <1>4, <1>5, <1>6, <1>8 DEF LeafOf
  <2> QED
    BY <2>1, LeafTree
<1>10. n \in Link /\ n # Nil /\ Nil \in Link
  BY <1>1 DEF Link, Cell, Nil
<1>11. /\ ht2 \in [Link -> Nat] /\ ht2[Nil] = 0 /\ ht2[n] = 1
       /\ \A h \in Link : h # n => ht2[h] = ht[h]
  BY <1>2, <1>7, <1>10
<1>12. u.bf[n] = EH /\ \A h \in S : u.bf[h] = t.bf[h]
  BY <1>1, <1>2, <1>4, Fields
<1>13. Even(S, u.child, u.bf, ht2, q, f, 0)
  <2>1. Even(S, t.child, t.bf, ht, Nil, "hLeft", 0)
    BY <1>1 DEF AVL
  <2>2. Even(S, t.child, t.bf, ht, q, f, 0)
    BY <1>1, <1>2, <2>1, EvenShift
  <2>3. \A h \in S : ht2[h] = ht[h]
    BY <1>1, <1>2, <1>11
  <2>4. \A h \in S, g \in Side : (h = q /\ g = f) \/ ht2[u.child[g][h]] = ht[t.child[g][h]]
    <3> SUFFICES ASSUME NEW h \in S, NEW g \in Side, ~(h = q /\ g = f)
                 PROVE  ht2[u.child[g][h]] = ht[t.child[g][h]]
      OBVIOUS
    <3>1. u.child[g][h] = t.child[g][h]
      BY <1>1, <1>2, <1>4
    <3>2. t.child[g][h] = Nil \/ t.child[g][h] \in S
      BY <1>2
    <3> QED
      BY <1>1, <1>2, <1>10, <1>11, <3>1, <3>2
  <2> QED
    BY <1>11, <1>12, <2>2, <2>3, <2>4, EvenSame
<1>14. EvenAt(u.child, u.bf, ht2, q, f, 0, n)
  <2>1. u.child[f][n] = Nil /\ u.child[Other(f)][n] = Nil
    BY <1>1, <1>3, <1>4, Sides
  <2>2. /\ Tall(u.child, ht2, q, f, 0, f, n) = 0
        /\ Tall(u.child, ht2, q, f, 0, Other(f), n) = 0
    BY <1>3, <1>11, <2>1 DEF Tall
  <2>3. ht2[n] = 0 + 1
    BY <1>11
  <2> QED
    BY <1>3, <1>12, <2>2, <2>3, EvenBy
<1>15. Even(S \cup {n}, u.child, u.bf, ht2, q, f, 0)
  BY <1>13, <1>14 DEF Even
<1>16. Hangs(u, q, f, n)
  BY <1>1, <1>2, <1>3, <1>4 DEF Hangs
<1>17. \A x, y : Steady(S, t, lo, hi, ht, u, S \cup {n}, lo2, hi2, ht2, x, y)
  <2>1. /\ \A g \in S : lo2[g] = lo[g] /\ hi2[g] = hi[g]
    BY <1>1, <1>2, <1>5, <1>6 DEF Tree, Shape, Numbers
  <2>2. \A g \in S : u.data[g] = t.data[g] /\ u.hParent[g] = t.hParent[g]
    BY <1>1, <1>2, <1>4, <1>8, Fields
  <2> QED
    BY <1>1, <1>2, <1>11, <2>1, <2>2 DEF Steady
<1>18. Idle(S \cup (S \cup {n}), t, u)
  <2> SUFFICES ASSUME NEW g \in Cell, g \notin S, g # n
               PROVE  u.hParent[g] = t.hParent[g] /\ \A s \in Side : u.child[s][g] = t.child[s][g]
    BY DEF Idle
  <2>1. g # q /\ t.hParent \in [Cell -> Link]
    BY <1>1, <1>2, Fields
  <2> QED
    BY <1>4, <2>1
<1>19. Done(t, S, lo, hi, ht, q, f, 0, Low(t.data, lo, f, q), Upp(t.data, hi, f, q),
            u, S \cup {n}, lo2, hi2, ht2, n)
  BY <1>4, <1>9, <1>15, <1>16, <1>17, <1>18 DEF Done
<1> QED
  BY <1>4, <1>11, <1>19

\* The first node.
LEMMA FirstLeaf ==
  ASSUME NEW t, NEW lo, NEW hi, NEW ht, AVL(t, {}, lo, hi, ht),
         NEW k \in Int, NEW n \in Cell, n = Position(t), NEW u, u = Linked(t, k, Nil)
  PROVE  /\ \E lo2, hi2, ht2 : AVL(u, {n}, lo2, hi2, ht2)
         /\ Added(t, u, n, k) /\ Idle({n}, t, u)
<1>2. /\ t \in TreeType /\ ht \in [Link -> Nat] /\ ht[Nil] = 0
  BY AVLFacts
<1>3. n # Nil /\ Nil \in Link /\ n \in Link
  BY DEF Cell, Nil, Link
<1>4. /\ u \in TreeType /\ Added(t, u, n, k)
      /\ \A g \in Side, h \in Cell : u.child[g][h] = IF h = n THEN Nil ELSE t.child[g][h]
      /\ u.hParent = [t.hParent EXCEPT ![n] = Nil] /\ u.bf = [t.bf EXCEPT ![n] = EH]
      /\ u.hHead = n
  <2>1. \A h \in Cell : h # Nil
    BY DEF Cell, Nil
  <2>2. t \in TreeType /\ Nil \in Link /\ n # Nil
    BY <1>2, <1>3
  <2>3. /\ u \in TreeType /\ Added(t, u, n, k)
        /\ \A g \in Side, h \in Cell :
             u.child[g][h] = IF h = Nil /\ g = Toward(t.data[Nil], k) THEN n
                             ELSE IF h = n THEN Nil ELSE t.child[g][h]
        /\ u.hParent = [t.hParent EXCEPT ![n] = Nil] /\ u.bf = [t.bf EXCEPT ![n] = EH]
        /\ u.hHead = IF Nil = Nil THEN n ELSE t.hHead
    BY <2>2, LinkedIs
  <2> QED
    BY <2>1, <2>3
<1>5. PICK lo2 : lo2 = [h \in Cell |-> k - 1]
  OBVIOUS
<1>6. PICK hi2 : hi2 = [h \in Cell |-> k + 1]
  OBVIOUS
<1>7. PICK ht2 : ht2 = [ht EXCEPT ![n] = 1]
  OBVIOUS
<1>8. u.data[n] = k /\ u.data \in [Cell -> Int] /\ u.hParent[n] = Nil /\ u.bf[n] = EH
  BY <1>2, <1>4, Fields DEF Added
<1>9. Tree(u, {n}, lo2, hi2)
  <2>1. Numbers({n}, u.data, lo2, hi2)
    BY <1>5, <1>6, <1>8 DEF Numbers
  <2>2. Between({n}, u.data, lo2, hi2)
    BY <1>5, <1>6, <1>8 DEF Between
  <2>3. Nested({n}, u.data, lo2, hi2)
    BY DEF Nested
  <2>4. Kids({n}, u.child, u.hParent, u.data, lo2, hi2)
    <3> SUFFICES ASSUME NEW g \in Side PROVE Kid({n}, u.child, u.hParent, u.data, lo2, hi2, g, n)
      BY DEF Kids
    <3>1. u.child[g][n] = Nil
      BY <1>4
    <3>2. ~(Low(u.data, lo2, g, n) < k /\ k < Upp(u.data, hi2, g, n))
      BY <1>8 DEF Low, Upp
    <3> QED
      BY <1>8, <3>1, <3>2 DEF Kid
  <2>5. Parents({n}, u.hHead, u.child, u.hParent)
    BY <1>4, <1>8 DEF Parents
  <2>6. Root({n}, u.hHead, u.hParent, lo2, hi2)
    BY <1>4, <1>5, <1>6, <1>8 DEF Root
  <2> QED
    BY <1>4, <2>1, <2>2, <2>3, <2>4, <2>5, <2>6 DEF Tree, Shape
<1>10. ht2 \in [Link -> Nat] /\ ht2[Nil] = 0 /\ ht2[n] = 1
  BY <1>2, <1>3, <1>7
<1>11. EvenAt(u.child, u.bf, ht2, Nil, "hLeft", 0, n)
  <2>1. "hLeft" \in Side
    BY DEF Side
  <2>2. /\ Tall(u.child, ht2, Nil, "hLeft", 0, "hLeft", n) = 0
        /\ Tall(u.child, ht2, Nil, "hLeft", 0, Other("hLeft"), n) = 0
    BY <1>3, <1>4, <1>10, <2>1, Sides DEF Tall
  <2>3. ht2[n] = 0 + 1
    BY <1>10
  <2> QED
    BY <1>8, <2>1, <2>2, <2>3, EvenBy
<1>12. AVL(u, {n}, lo2, hi2, ht2)
  BY <1>4, <1>9, <1>10, <1>11 DEF AVL, Even
<1>13. Idle({n}, t, u)
  BY <1>2, <1>4, Fields DEF Idle
<1> QED
  BY <1>4, <1>12, <1>13

-----------------------------------------------------------------------------
(* A node with a child on one side at most is taken out.                    *)

ChildCut(child, par, p, c) ==
  [g \in Side |-> [h \in Cell |-> IF h = par[p] /\ child[g][h] = p THEN c ELSE child[g][h]]]
ParCut(par, p, c) == [h \in Cell |-> IF h = c THEN par[p] ELSE par[h]]
RootCut(root, par, p, c) == IF par[p] = Nil THEN c ELSE root
LoCut(data, lo, p) == [h \in Cell |-> IF lo[h] = data[p] THEN lo[p] ELSE lo[h]]
HiCut(data, hi, p) == [h \in Cell |-> IF hi[h] = data[p] THEN hi[p] ELSE hi[h]]

\* p has no child but c, on side f.
Cut(S, root, child, par, data, lo, hi, p, f, c) ==
  /\ Links(child, par) /\ Shape(S, root, child, par, data, lo, hi)
  /\ p \in S /\ f \in Side /\ c = child[f][p] /\ child[Other(f)][p] = Nil

LEMMA CutBounds ==
  ASSUME NEW S, NEW root, NEW child, NEW par, NEW data, NEW lo, NEW hi, NEW p, NEW f, NEW c,
         Cut(S, root, child, par, data, lo, hi, p, f, c)
  PROVE  LET lo2 == LoCut(data, lo, p)
             hi2 == HiCut(data, hi, p)
         IN /\ Numbers(S \ {p}, data, lo2, hi2) /\ Between(S \ {p}, data, lo2, hi2)
            /\ Nested(S \ {p}, data, lo2, hi2)
            /\ f = "hLeft" => \A h \in S \ {p} : lo[h] # data[p]
            /\ f = "hRight" => \A h \in S \ {p} : hi[h] # data[p]
<1> DEFINE lo2 == LoCut(data, lo, p)
           hi2 == HiCut(data, hi, p)
<1>1. /\ Numbers(S, data, lo, hi) /\ Between(S, data, lo, hi) /\ Nested(S, data, lo, hi)
      /\ p \in S /\ f \in Side /\ child[Other(f)][p] = Nil
      /\ Kid(S, child, par, data, lo, hi, Other(f), p)
  BY Sides DEF Cut, Shape, Kids
<1>2. S \in SUBSET Cell /\ Nil \notin S
  BY <1>1 DEF Numbers, Cell, Nil
<1>3. \A h \in S : /\ lo[h] \in Int /\ hi[h] \in Int /\ data[h] \in Int
                   /\ lo[h] < data[h] /\ data[h] < hi[h]
  BY <1>1 DEF Numbers, Between
<1>4. /\ f = "hLeft" => \A g \in S : ~(data[p] < data[g] /\ data[g] < hi[p])
      /\ f = "hRight" => \A g \in S : ~(lo[p] < data[g] /\ data[g] < data[p])
      /\ f = "hLeft" \/ f = "hRight"
  BY <1>1, <1>2 DEF Kid, Low, Upp, Other, Side
<1>5. /\ lo2 \in [Cell -> Int] /\ hi2 \in [Cell -> Int]
      /\ \A h \in S : /\ lo2[h] = IF lo[h] = data[p] THEN lo[p] ELSE lo[h]
                      /\ hi2[h] = IF hi[h] = data[p] THEN hi[p] ELSE hi[h]
  BY <1>1, <1>2 DEF LoCut, HiCut, Numbers
<1> HIDE DEF lo2, hi2
<1>6. ASSUME NEW h \in S \ {p}
      PROVE  /\ Apart(data, lo, hi, h, p)
             /\ f = "hLeft" => lo[h] # data[p]
             /\ f = "hRight" => hi[h] # data[p]
  <2>1. Apart(data, lo, hi, h, p)
    BY <1>1 DEF Nested
  <2> QED
    BY <1>1, <1>3, <1>4, <2>1 DEF Apart
<1>7. Numbers(S \ {p}, data, lo2, hi2)
  BY <1>1, <1>5 DEF Numbers
<1>8. Between(S \ {p}, data, lo2, hi2)
  <2> SUFFICES ASSUME NEW h \in S \ {p} PROVE lo2[h] < data[h] /\ data[h] < hi2[h]
    BY DEF Between
  <2> QED
    BY <1>1, <1>3, <1>5
<1>9. Nested(S \ {p}, data, lo2, hi2)
  <2> SUFFICES ASSUME NEW g \in S \ {p}, NEW h \in S \ {p}, g # h
               PROVE  Apart(data, lo2, hi2, g, h)
    BY DEF Nested
  <2>1. Apart(data, lo, hi, g, h)
    BY <1>1 DEF Nested
  <2>2. Apart(data, lo, hi, g, p) /\ Apart(data, lo, hi, h, p)
    BY <1>6
  <2>3. CASE f = "hLeft"
    <3>1. /\ lo2[g] = lo[g] /\ lo2[h] = lo[h]
          /\ hi2[g] = IF hi[g] = data[p] THEN hi[p] ELSE hi[g]
          /\ hi2[h] = IF hi[h] = data[p] THEN hi[p] ELSE hi[h]
      BY <1>5, <1>6, <2>3
    <3>2. /\ ~(data[p] < data[g] /\ data[g] < hi[p]) /\ ~(data[p] < data[h] /\ data[h] < hi[p])
      BY <1>4, <2>3
    <3> QED
      BY <1>1, <1>3, <2>1, <2>2, <3>1, <3>2 DEF Apart
  <2>4. CASE f = "hRight"
    <3>1. /\ hi2[g] = hi[g] /\ hi2[h] = hi[h]
          /\ lo2[g] = IF lo[g] = data[p] THEN lo[p] ELSE lo[g]
          /\ lo2[h] = IF lo[h] = data[p] THEN lo[p] ELSE lo[h]
      BY <1>5, <1>6, <2>4
    <3>2. /\ ~(lo[p] < data[g] /\ data[g] < data[p]) /\ ~(lo[p] < data[h] /\ data[h] < data[p])
      BY <1>4, <2>4
    <3> QED
      BY <1>1, <1>3, <2>1, <2>2, <3>1, <3>2 DEF Apart
  <2> QED
    BY <1>4, <2>3, <2>4
<1> QED
  BY <1>6, <1>7, <1>8, <1>9 DEF lo2, hi2

LEMMA CutShape ==
  ASSUME NEW S, NEW root, NEW child, NEW par, NEW data, NEW lo, NEW hi, NEW p, NEW f, NEW c,
         Cut(S, root, child, par, data, lo, hi, p, f, c)
  PROVE  Shape(S \ {p}, RootCut(root, par, p, c), ChildCut(child, par, p, c),
               ParCut(par, p, c), data, LoCut(data, lo, p), HiCut(data, hi, p))
<1>1. PICK lo2 : lo2 = LoCut(data, lo, p)
  OBVIOUS
<1>2. PICK hi2 : hi2 = HiCut(data, hi, p)
  OBVIOUS
<1>3. PICK child2 : child2 = ChildCut(child, par, p, c)
  OBVIOUS
<1>4. PICK par2 : par2 = ParCut(par, p, c)
  OBVIOUS
<1>5. PICK root2 : root2 = RootCut(root, par, p, c)
  OBVIOUS
<1>6. PICK q : q = par[p]
  OBVIOUS
<1>7. /\ Links(child, par) /\ Shape(S, root, child, par, data, lo, hi)
      /\ p \in S /\ f \in Side /\ c = child[f][p] /\ child[Other(f)][p] = Nil
      /\ Other(f) \in Side /\ \A g \in Side : g = f \/ g = Other(f)
  BY Sides DEF Cut
<1>8. S \in SUBSET Cell /\ Nil \notin S /\ p \in Cell
  BY <1>7 DEF Shape, Numbers, Cell, Nil
<1>9. \A h \in S : /\ lo[h] \in Int /\ hi[h] \in Int /\ data[h] \in Int
                   /\ lo[h] < data[h] /\ data[h] < hi[h]
  BY <1>7 DEF Shape, Numbers, Between
<1>10. /\ Numbers(S \ {p}, data, lo2, hi2) /\ Between(S \ {p}, data, lo2, hi2)
       /\ Nested(S \ {p}, data, lo2, hi2)
       /\ f = "hLeft" => \A h \in S \ {p} : lo[h] # data[p]
       /\ f = "hRight" => \A h \in S \ {p} : hi[h] # data[p]
  BY <1>1, <1>2, CutBounds
<1>11. \A h \in S : /\ lo2[h] = IF lo[h] = data[p] THEN lo[p] ELSE lo[h]
                    /\ hi2[h] = IF hi[h] = data[p] THEN hi[p] ELSE hi[h]
  BY <1>1, <1>2, <1>8 DEF LoCut, HiCut
<1>12. /\ \A h \in S, g \in Side : child2[g][h] = IF h = q /\ child[g][h] = p THEN c ELSE child[g][h]
       /\ \A h \in S : par2[h] = IF h = c THEN q ELSE par[h]
       /\ root2 = IF q = Nil THEN c ELSE root
  BY <1>3, <1>4, <1>5, <1>6, <1>8 DEF ChildCut, ParCut, RootCut
<1>13. \A h \in S, g \in Side : child[g][h] = Nil \/ child[g][h] \in S
  BY <1>7 DEF Shape, Kids, Kid
<1>14. \A h \in S, g \in Side : child[g][h] \in S =>
        /\ par[child[g][h]] = h /\ lo[child[g][h]] = Low(data, lo, g, h)
        /\ hi[child[g][h]] = Upp(data, hi, g, h) /\ child[g][h] # h
  BY <1>7, <1>8, Family DEF Shape, Kids, Kid
<1>15. (q = Nil /\ root = p) \/ (q \in S /\ q # p /\ \E g \in Side : child[g][q] = p)
  <2>1. (q = Nil /\ root = p) \/ (q \in S /\ \E g \in Side : child[g][q] = p)
    BY <1>6, <1>7 DEF Shape, Parents
  <2> QED
    BY <1>7, <1>14, <2>1
<1>16. c # p /\ (c # Nil => c \in S \ {p} /\ par[c] = p /\ c # q)
  <2>1. c = Nil \/ (c \in S /\ par[c] = p /\ c # p)
    BY <1>7, <1>13, <1>14
  <2>2. c \in S => c # q
    BY <1>6, <1>7, Family
  <2> QED
    BY <1>7, <1>8, <2>1, <2>2
\* The one child has the bounds p had.
<1>17. c # Nil => lo2[c] = lo[p] /\ hi2[c] = hi[p]
  <2> SUFFICES ASSUME c # Nil PROVE lo2[c] = lo[p] /\ hi2[c] = hi[p]
    OBVIOUS
  <2>1. c \in S /\ lo[c] = Low(data, lo, f, p) /\ hi[c] = Upp(data, hi, f, p)
    BY <1>7, <1>14, <1>16
  <2> QED
    BY <1>7, <1>9, <1>11, <2>1 DEF Low, Upp, Side
<1>18. c = Nil => \A g \in S \ {p} : ~(lo[p] < data[g] /\ data[g] < hi[p])
  <2> SUFFICES ASSUME c = Nil, NEW g \in S \ {p} PROVE ~(lo[p] < data[g] /\ data[g] < hi[p])
    OBVIOUS
  <2>1. Kid(S, child, par, data, lo, hi, "hLeft", p) /\ Kid(S, child, par, data, lo, hi, "hRight", p)
    BY <1>7 DEF Shape, Kids, Side
  <2>2. child["hLeft"][p] = Nil /\ child["hRight"][p] = Nil
    BY <1>7 DEF Side, Other
  <2>3. ~(lo[p] < data[g] /\ data[g] < data[p]) /\ ~(data[p] < data[g] /\ data[g] < hi[p])
    BY <1>8, <2>1, <2>2 DEF Kid, Low, Upp
  <2>4. data[g] # data[p]
    <3>1. Apart(data, lo, hi, g, p)
      BY <1>7 DEF Shape, Nested
    <3> QED
      BY <1>7, <1>9, <3>1 DEF Apart
  <2> QED
    BY <1>7, <1>9, <2>3, <2>4
<1>19. \A h \in S \ {p} : data[h] # data[p] /\ Apart(data, lo, hi, h, p)
  <2> SUFFICES ASSUME NEW h \in S \ {p} PROVE data[h] # data[p] /\ Apart(data, lo, hi, h, p)
    OBVIOUS
  <2>1. Apart(data, lo, hi, h, p)
    BY <1>7 DEF Shape, Nested
  <2> QED
    BY <1>7, <1>9, <2>1 DEF Apart
<1>20. ASSUME NEW h \in S \ {p}, NEW g \in Side
       PROVE  Kid(S \ {p}, child2, par2, data, lo2, hi2, g, h)
  <2>1. Kid(S, child, par, data, lo, hi, g, h)
    BY <1>7 DEF Shape, Kids
  <2>2. PICK k : k = child[g][h]
    OBVIOUS
  <2>3. PICK l : l = Low(data, lo, g, h)
    OBVIOUS
  <2>4. PICK m : m = Upp(data, hi, g, h)
    OBVIOUS
  <2>5. /\ Low(data, lo2, g, h) = IF l = data[p] THEN lo[p] ELSE l
        /\ Upp(data, hi2, g, h) = IF m = data[p] THEN hi[p] ELSE m
    BY <1>11, <1>19, <2>3, <2>4 DEF Low, Upp
  <2>6. CASE k = Nil
    <3>1. child2[g][h] = Nil
      <4>1. h \in S /\ child[g][h] # p
        BY <1>7, <1>8, <2>2, <2>6
      <4> QED
        BY <1>12, <2>2, <2>6, <4>1
    <3>2. \A j \in S : ~(l < data[j] /\ data[j] < m)
      BY <1>8, <2>1, <2>2, <2>3, <2>4, <2>6 DEF Kid
    <3>3. (g = "hLeft" /\ l = lo[h] /\ m = data[h]) \/ (g = "hRight" /\ l = data[h] /\ m = hi[h])
      BY <2>3, <2>4 DEF Low, Upp, Side
    <3>5. PICK l2 : l2 = Low(data, lo2, g, h)
      OBVIOUS
    <3>6. PICK m2 : m2 = Upp(data, hi2, g, h)
      OBVIOUS
    <3>4. ASSUME NEW j \in S \ {p} PROVE ~(l2 < data[j] /\ data[j] < m2)
      <4>1. ~(l < data[j] /\ data[j] < m) /\ ~(l < data[p] /\ data[p] < m)
        BY <1>7, <3>2
      <4>2. /\ lo[h] \in Int /\ hi[h] \in Int /\ data[h] \in Int /\ lo[h] < data[h] /\ data[h] < hi[h]
            /\ lo[p] \in Int /\ hi[p] \in Int /\ data[p] \in Int /\ lo[p] < data[p] /\ data[p] < hi[p]
            /\ data[j] \in Int /\ data[j] # data[p] /\ data[h] # data[p]
        BY <1>7, <1>9, <1>19
      <4>3. Apart(data, lo, hi, h, p)
        BY <1>19
      <4>4. /\ l2 = IF l = data[p] THEN lo[p] ELSE l
            /\ m2 = IF m = data[p] THEN hi[p] ELSE m
        BY <2>5, <3>5, <3>6
      <4>5. /\ f = "hLeft" => lo[h] # data[p]
            /\ f = "hRight" => hi[h] # data[p]
            /\ f = "hLeft" => ~(data[p] < data[j] /\ data[j] < hi[p])
            /\ f = "hRight" => ~(lo[p] < data[j] /\ data[j] < data[p])
            /\ f = "hLeft" \/ f = "hRight"
        <5>1. Kid(S, child, par, data, lo, hi, Other(f), p)
          BY <1>7 DEF Shape, Kids
        <5>2. ~(Low(data, lo, Other(f), p) < data[j] /\ data[j] < Upp(data, hi, Other(f), p))
          BY <1>7, <1>8, <5>1 DEF Kid
        <5> QED
          BY <1>7, <1>10, <5>2 DEF Low, Upp, Side, Other
      <4>6. CASE f = "hLeft"
        <5>1. l2 = l /\ (m2 # m => m = hi[h])
          BY <3>3, <4>2, <4>4, <4>5, <4>6
        <5> QED
          BY <3>3, <4>1, <4>2, <4>3, <4>4, <4>5, <4>6, <5>1 DEF Apart
      <4>7. CASE f = "hRight"
        <5>1. m2 = m /\ (l2 # l => l = lo[h])
          BY <3>3, <4>2, <4>4, <4>5, <4>7
        <5> QED
          BY <3>3, <4>1, <4>2, <4>3, <4>4, <4>5, <4>7, <5>1 DEF Apart
      <4> QED
        BY <4>5, <4>6, <4>7
    <3> QED
      BY <3>1, <3>4, <3>5, <3>6 DEF Kid
  <2>7. CASE k # Nil /\ k # p
    <3>1. /\ k \in S \ {p} /\ par[k] = h /\ lo[k] = l /\ hi[k] = m
      BY <1>13, <1>14, <2>2, <2>3, <2>4, <2>7
    <3>2. child2[g][h] = k
      BY <1>12, <2>2, <2>7
    <3>3. par2[k] = h
      <4>1. k # c
        BY <1>16, <2>7, <3>1
      <4> QED
        BY <1>12, <3>1, <4>1
    <3>4. lo2[k] = Low(data, lo2, g, h) /\ hi2[k] = Upp(data, hi2, g, h)
      BY <1>11, <2>5, <3>1
    <3> QED
      BY <3>1, <3>2, <3>3, <3>4 DEF Kid
  <2>8. CASE k = p
    <3>1. h = q /\ lo[p] = l /\ hi[p] = m
      <4>1. h \in S /\ child[g][h] = p /\ p \in S
        BY <1>7, <2>2, <2>8
      <4>2. par[p] = h /\ lo[p] = Low(data, lo, g, h) /\ hi[p] = Upp(data, hi, g, h)
        BY <1>14, <4>1
      <4> QED
        BY <1>6, <2>3, <2>4, <4>2
    <3>2. child2[g][h] = c
      BY <1>12, <2>2, <2>8, <3>1
    <3>3. Low(data, lo2, g, h) = lo[p] /\ Upp(data, hi2, g, h) = hi[p]
      BY <1>7, <1>9, <2>5, <3>1
    <3>4. CASE c = Nil
      BY <1>18, <3>2, <3>3, <3>4 DEF Kid
    <3>5. CASE c # Nil
      <4>1. c \in S \ {p} /\ par2[c] = h
        BY <1>12, <1>16, <3>1, <3>5
      <4> QED
        BY <1>17, <3>2, <3>3, <3>5, <4>1 DEF Kid
    <3> QED
      BY <3>4, <3>5
  <2> QED
    BY <2>6, <2>7, <2>8
<1>21. Parents(S \ {p}, root2, child2, par2)
  <2> SUFFICES ASSUME NEW h \in S \ {p}
               PROVE  \/ par2[h] = Nil /\ root2 = h
                      \/ par2[h] \in S \ {p} /\ \E g \in Side : child2[g][par2[h]] = h
    BY DEF Parents
  <2>1. CASE h = c
    <3>1. par2[h] = q
      BY <1>12, <2>1
    <3>2. CASE q = Nil
      BY <1>12, <2>1, <3>1, <3>2
    <3>3. CASE q # Nil
      <4>1. PICK g \in Side : child[g][q] = p
        BY <1>15, <3>3
      <4>2. child2[g][q] = c
        BY <1>12, <1>15, <3>3, <4>1
      <4> QED
        BY <1>15, <2>1, <3>1, <3>3, <4>2
    <3> QED
      BY <3>2, <3>3
  <2>2. CASE h # c
    <3>1. par2[h] = par[h]
      BY <1>12, <2>2
    <3>2. (par[h] = Nil /\ root = h) \/ (par[h] \in S /\ \E g \in Side : child[g][par[h]] = h)
      BY <1>7 DEF Shape, Parents
    <3>3. CASE par[h] = Nil /\ root = h
      <4>1. q # Nil
        BY <1>8, <1>15, <3>3
      <4> QED
        BY <1>12, <3>1, <3>3, <4>1
    <3>4. CASE par[h] \in S /\ \E g \in Side : child[g][par[h]] = h
      <4>1. PICK g \in Side : child[g][par[h]] = h
        BY <3>4
      <4>2. par[h] # p
        BY <1>7, <1>8, <2>2, <4>1
      <4>3. child2[g][par[h]] = h
        BY <1>12, <3>4, <4>1
      <4> QED
        BY <3>1, <3>4, <4>2, <4>3
    <3> QED
      BY <3>2, <3>3, <3>4
  <2> QED
    BY <2>1, <2>2
<1>22. Root(S \ {p}, root2, par2, lo2, hi2)
  <2>1. /\ root \in S /\ par[root] = Nil
        /\ \A h \in S : lo[root] <= lo[h] /\ hi[h] <= hi[root]
    BY <1>7 DEF Shape, Root
  <2>2. CASE q # Nil
    <3>1. root2 = root /\ root \in S \ {p} /\ par2[root] = Nil
      <4>1. root # p
        BY <1>6, <2>1, <2>2
      <4>2. root # c
        BY <1>7, <1>8, <1>16, <2>1
      <4> QED
        BY <1>12, <2>1, <2>2, <4>1, <4>2
    <3>2. ASSUME NEW h \in S \ {p} PROVE lo2[root] <= lo2[h] /\ hi2[h] <= hi2[root]
      <4>1. lo[root] <= lo[h] /\ hi[h] <= hi[root] /\ lo[root] <= lo[p] /\ hi[p] <= hi[root]
        BY <1>7, <2>1
      <4> QED
        BY <1>7, <1>9, <1>11, <2>1, <4>1
    <3> QED
      BY <3>1, <3>2 DEF Root
  <2>3. CASE q = Nil
    <3>1. root = p /\ root2 = c
      BY <1>12, <1>15, <2>3, <1>8
    <3>2. CASE c = Nil
      <4>1. S \ {p} = {}
        <5> SUFFICES ASSUME NEW h \in S \ {p} PROVE FALSE
          OBVIOUS
        <5>1. ~(lo[p] < data[h] /\ data[h] < hi[p])
          BY <1>18, <3>2
        <5>2. lo[p] <= lo[h] /\ hi[h] <= hi[p]
          BY <2>1, <3>1
        <5> QED
          BY <1>7, <1>9, <5>1, <5>2
      <4> QED
        BY <3>1, <3>2, <4>1 DEF Root
    <3>3. CASE c # Nil
      <4>1. c \in S \ {p} /\ par2[c] = Nil
        BY <1>12, <1>16, <2>3, <3>3
      <4>2. ASSUME NEW h \in S \ {p} PROVE lo[p] <= lo2[h] /\ hi2[h] <= hi[p]
        <5>1. lo[p] <= lo[h] /\ hi[h] <= hi[p]
          BY <2>1, <3>1
        <5> QED
          BY <1>7, <1>9, <1>11, <5>1
      <4> QED
        BY <1>17, <3>1, <3>3, <4>1, <4>2 DEF Root
    <3> QED
      BY <3>2, <3>3
  <2> QED
    BY <2>2, <2>3
<1> QED
  BY <1>1, <1>2, <1>3, <1>4, <1>5, <1>10, <1>20, <1>21, <1>22 DEF Shape, Kids

-----------------------------------------------------------------------------
(* A node outside, whose key comes just before the one of p, takes the      *)
(* place of p.                                                              *)

Old(p, r, h) == IF h = r THEN p ELSE h
Shift(data, p, r, x) == IF data[r] <= x /\ x <= data[p] THEN data[r] ELSE x
ChildPut(child, par, p, r) ==
  [g \in Side |-> [h \in Cell |-> IF h = r THEN child[g][p]
                                  ELSE IF h = par[p] /\ child[g][h] = p THEN r ELSE child[g][h]]]
ParPut(child, par, p, r) ==
  [h \in Cell |-> IF h = r THEN par[p]
                  ELSE IF h = child["hLeft"][p] \/ h = child["hRight"][p] THEN r ELSE par[h]]
RootPut(root, par, p, r) == IF par[p] = Nil THEN r ELSE root
BoundPut(data, b, p, r) == [h \in Cell |-> Shift(data, p, r, b[Old(p, r, h)])]

Put(S, root, child, par, data, lo, hi, p, r) ==
  /\ Links(child, par) /\ Shape(S, root, child, par, data, lo, hi)
  /\ p \in S /\ r \in Cell \ S /\ lo[p] < data[r] /\ data[r] < data[p]
  /\ \A g \in S : ~(data[r] <= data[g] /\ data[g] < data[p])

LEMMA Shifts ==
  ASSUME NEW data \in [Cell -> Int], NEW p \in Cell, NEW r \in Cell
  PROVE  /\ \A x \in Int : Shift(data, p, r, x) \in Int
         /\ \A x, y \in Int : x <= y => Shift(data, p, r, x) <= Shift(data, p, r, y)
         /\ \A x, y \in Int : Shift(data, p, r, x) < Shift(data, p, r, y) => x < y
         /\ \A x \in Int : ~(data[r] <= x /\ x <= data[p]) => Shift(data, p, r, x) = x
         /\ \A x, y \in Int : x < y => \/ Shift(data, p, r, x) < Shift(data, p, r, y)
                                       \/ data[r] <= x /\ y <= data[p]
BY DEF Shift

LEMMA PutShape ==
  ASSUME NEW S, NEW root, NEW child, NEW par, NEW data, NEW lo, NEW hi, NEW p, NEW r,
         Put(S, root, child, par, data, lo, hi, p, r)
  PROVE  Shape((S \ {p}) \cup {r}, RootPut(root, par, p, r), ChildPut(child, par, p, r),
               ParPut(child, par, p, r), data, BoundPut(data, lo, p, r),
               BoundPut(data, hi, p, r))
<1> DEFINE O(h) == Old(p, r, h)
           Z(x) == Shift(data, p, r, x)
<1>1. PICK lo2 : lo2 = BoundPut(data, lo, p, r)
  OBVIOUS
<1>2. PICK hi2 : hi2 = BoundPut(data, hi, p, r)
  OBVIOUS
<1>3. PICK child2 : child2 = ChildPut(child, par, p, r)
  OBVIOUS
<1>4. PICK par2 : par2 = ParPut(child, par, p, r)
  OBVIOUS
<1>5. PICK root2 : root2 = RootPut(root, par, p, r)
  OBVIOUS
<1>6. PICK S2 : S2 = (S \ {p}) \cup {r}
  OBVIOUS
<1>7. /\ Links(child, par) /\ Shape(S, root, child, par, data, lo, hi)
      /\ p \in S /\ r \in Cell /\ r \notin S /\ lo[p] < data[r] /\ data[r] < data[p]
      /\ \A g \in S : ~(data[r] <= data[g] /\ data[g] < data[p])
  BY DEF Put
<1>8. /\ S \in SUBSET Cell /\ Nil \notin S /\ p \in Cell /\ r # Nil /\ S2 \in SUBSET Cell /\ Nil \notin S2
      /\ data \in [Cell -> Int] /\ lo \in [Cell -> Int] /\ hi \in [Cell -> Int]
  BY <1>6, <1>7 DEF Shape, Numbers, Cell, Nil
<1>9. \A h \in Cell : lo[h] \in Int /\ hi[h] \in Int /\ data[h] \in Int
  BY <1>8
<1>10. \A h \in S2 : O(h) \in S /\ (O(h) = p <=> h = r)
  BY <1>6, <1>7 DEF Old
<1>11. \A g, h \in S2 : O(g) = O(h) => g = h
  BY <1>6, <1>7 DEF Old
<1>12. /\ lo2 \in [Cell -> Int] /\ hi2 \in [Cell -> Int]
       /\ \A h \in S2 : lo2[h] = Z(lo[O(h)]) /\ hi2[h] = Z(hi[O(h)])
  <2>1. \A x \in Int : Z(x) \in Int
    BY <1>7, <1>8, Shifts
  <2>2. \A h \in Cell : O(h) \in Cell
    BY <1>8 DEF Old
  <2>3. \A h \in Cell : Z(lo[O(h)]) \in Int /\ Z(hi[O(h)]) \in Int
    BY <1>9, <2>1, <2>2
  <2> HIDE DEF O, Z
  <2>4. lo2 = [h \in Cell |-> Z(lo[O(h)])] /\ hi2 = [h \in Cell |-> Z(hi[O(h)])]
    BY <1>1, <1>2 DEF BoundPut, O, Z
  <2> QED
    BY <1>8, <2>3, <2>4
\* The key p had is the only one that moves.
<1>13. \A h \in S2 : data[h] = Z(data[O(h)])
  <2> SUFFICES ASSUME NEW h \in S2 PROVE data[h] = Z(data[O(h)])
    OBVIOUS
  <2>1. CASE h = r
    BY <1>7, <1>9, <1>8, <2>1 DEF Old, Shift
  <2>2. CASE h # r
    <3>1. h \in S /\ h # p
      BY <1>6, <2>2
    <3>2. Apart(data, lo, hi, h, p)
      BY <1>7, <3>1 DEF Shape, Nested
    <3>3. lo[h] < data[h] /\ data[h] < hi[h] /\ lo[p] < data[p] /\ data[p] < hi[p]
      BY <1>7, <3>1 DEF Shape, Between
    <3>4. data[h] # data[p]
      BY <1>8, <1>9, <3>1, <3>2, <3>3 DEF Apart
    <3>5. ~(data[r] <= data[h] /\ data[h] < data[p])
      BY <1>7, <3>1
    <3>6. data[h] \in Int /\ data[p] \in Int /\ data[r] \in Int
      BY <1>7, <1>8
    <3> QED
      BY <2>2, <3>4, <3>5, <3>6 DEF Old, Shift
  <2> QED
    BY <2>1, <2>2
<1>14. /\ \A x, y \in Int : x <= y => Z(x) <= Z(y)
       /\ \A x, y \in Int : Z(x) < Z(y) => x < y
       /\ \A x, y \in Int : x < y => Z(x) < Z(y) \/ (data[r] <= x /\ y <= data[p])
  BY <1>7, <1>8, Shifts
<1> HIDE DEF O, Z
<1>15. Numbers(S2, data, lo2, hi2)
  BY <1>8, <1>12 DEF Numbers
<1>16. Between(S2, data, lo2, hi2)
  <2> SUFFICES ASSUME NEW h \in S2 PROVE lo2[h] < data[h] /\ data[h] < hi2[h]
    BY DEF Between
  <2>1. PICK g \in S : g = O(h)
    BY <1>10
  <2>2. lo[g] < data[g] /\ data[g] < hi[g] /\ lo[g] \in Int /\ hi[g] \in Int /\ data[g] \in Int
    BY <1>8, <1>9, <1>7 DEF Shape, Between
  <2>3. lo2[h] = Z(lo[g]) /\ hi2[h] = Z(hi[g]) /\ data[h] = Z(data[g])
    BY <1>12, <1>13, <2>1
  <2>4. ~(data[r] <= lo[g] /\ data[g] <= data[p]) /\ ~(data[r] <= data[g] /\ hi[g] <= data[p])
    <3>1. data[r] \in Int /\ data[p] \in Int /\ lo[p] \in Int /\ hi[p] \in Int /\ data[p] < hi[p]
      BY <1>7, <1>8, <1>9 DEF Shape, Between
    <3>2. ~(data[r] <= data[g] /\ data[g] < data[p])
      BY <1>7
    <3>3. CASE g = p
      BY <1>7, <2>2, <3>1, <3>3
    <3>4. CASE g # p
      <4>1. Apart(data, lo, hi, g, p)
        BY <1>7, <3>4 DEF Shape, Nested
      <4>2. data[g] # data[p]
        BY <1>7, <2>2, <3>1, <4>1 DEF Apart
      <4> QED
        BY <2>2, <3>1, <3>2, <4>2
    <3> QED
      BY <3>3, <3>4
  <2> QED
    BY <1>14, <2>2, <2>3, <2>4
<1>17. Nested(S2, data, lo2, hi2)
  <2> SUFFICES ASSUME NEW g \in S2, NEW h \in S2, g # h
               PROVE  Apart(data, lo2, hi2, g, h)
    BY DEF Nested
  <2>1. PICK a \in S : a = O(g)
    BY <1>10
  <2>2. PICK b \in S : b = O(h)
    BY <1>10
  <2>3. a # b
    BY <1>11, <2>1, <2>2
  <2>4. Apart(data, lo, hi, a, b)
    BY <1>7, <2>3 DEF Shape, Nested
  <2>5. /\ lo2[g] = Z(lo[a]) /\ hi2[g] = Z(hi[a]) /\ data[g] = Z(data[a])
        /\ lo2[h] = Z(lo[b]) /\ hi2[h] = Z(hi[b]) /\ data[h] = Z(data[b])
    BY <1>12, <1>13, <2>1, <2>2
  <2>6. /\ lo[a] \in Int /\ hi[a] \in Int /\ data[a] \in Int
        /\ lo[b] \in Int /\ hi[b] \in Int /\ data[b] \in Int
    BY <1>8, <1>9
  <2> QED
    BY <1>14, <2>4, <2>5, <2>6 DEF Apart
<1>18. /\ \A h \in S2, g \in Side :
            child2[g][h] = IF h = r THEN child[g][p]
                           ELSE IF h = par[p] /\ child[g][h] = p THEN r ELSE child[g][h]
       /\ \A h \in S2 : par2[h] = IF h = r THEN par[p]
                                  ELSE IF h = child["hLeft"][p] \/ h = child["hRight"][p] THEN r
                                  ELSE par[h]
       /\ root2 = IF par[p] = Nil THEN r ELSE root
  BY <1>3, <1>4, <1>5, <1>8 DEF ChildPut, ParPut, RootPut
<1>19. \A h \in S, g \in Side : child[g][h] = Nil \/ child[g][h] \in S
  BY <1>7 DEF Shape, Kids, Kid
<1>20. \A h \in S, g \in Side : child[g][h] \in S =>
        /\ par[child[g][h]] = h /\ lo[child[g][h]] = Low(data, lo, g, h)
        /\ hi[child[g][h]] = Upp(data, hi, g, h) /\ child[g][h] # h
  BY <1>7, <1>8, Family DEF Shape, Kids, Kid
<1>21. par[p] # p /\ ((par[p] = Nil /\ root = p) \/ (par[p] \in S /\ \E g \in Side : child[g][par[p]] = p))
  <2>1. (par[p] = Nil /\ root = p) \/ (par[p] \in S /\ \E g \in Side : child[g][par[p]] = p)
    BY <1>7 DEF Shape, Parents
  <2> QED
    BY <1>7, <1>8, <1>20, <2>1
\* The links, with p renamed.
<1>22. ASSUME NEW h \in S2, NEW g \in Side
       PROVE  \/ child[g][O(h)] = Nil /\ child2[g][h] = Nil
              \/ /\ child[g][O(h)] \in S /\ child2[g][h] \in S2
                 /\ O(child2[g][h]) = child[g][O(h)] /\ par2[child2[g][h]] = h
  <2>1. CASE h = r
    <3>1. O(h) = p /\ child2[g][h] = child[g][p]
      BY <1>18, <2>1 DEF O, Old
    <3>2. CASE child[g][p] = Nil
      BY <3>1, <3>2
    <3>3. CASE child[g][p] # Nil
      <4>1. child[g][p] \in S /\ child[g][p] # p /\ child[g][p] # r
        BY <1>7, <1>19, <1>20, <3>3
      <4>2. child[g][p] \in S2 /\ O(child[g][p]) = child[g][p]
        BY <1>6, <4>1 DEF O, Old
      <4>3. par2[child[g][p]] = r
        BY <1>18, <4>1, <4>2 DEF Side
      <4> QED
        BY <2>1, <3>1, <4>1, <4>2, <4>3
    <3> QED
      BY <3>2, <3>3
  <2>2. CASE h # r
    <3>1. O(h) = h /\ h \in S /\ h # p
      BY <1>6, <2>2 DEF O, Old
    <3>2. CASE child[g][h] = Nil
      <4>1. child[g][h] # p
        BY <1>7, <1>8, <3>2
      <4> QED
        BY <1>18, <2>2, <3>1, <3>2, <4>1
    <3>3. CASE child[g][h] = p
      <4>1. par[p] = h
        BY <1>7, <1>20, <3>1, <3>3
      <4>2. child2[g][h] = r
        BY <1>18, <2>2, <3>3, <4>1
      <4>3. r \in S2 /\ O(r) = p /\ par2[r] = h
        BY <1>6, <1>18, <4>1 DEF O, Old
      <4> QED
        BY <1>7, <3>1, <3>3, <4>2, <4>3
    <3>4. CASE child[g][h] \in S /\ child[g][h] # p
      <4>1. PICK k : k = child[g][h]
        OBVIOUS
      <4>2. child2[g][h] = k
        BY <1>18, <2>2, <3>4, <4>1
      <4>3. k \in S2 /\ O(k) = k /\ k # r /\ par[k] = h
        BY <1>6, <1>7, <1>20, <3>1, <3>4, <4>1 DEF O, Old
      <4>4. k # child["hLeft"][p] /\ k # child["hRight"][p]
        BY <1>7, <1>20, <3>1, <3>4, <4>1, <4>3 DEF Side
      <4>5. par2[k] = h
        BY <1>18, <4>3, <4>4
      <4> QED
        BY <3>1, <3>4, <4>1, <4>2, <4>3, <4>5
    <3> QED
      BY <1>19, <3>1, <3>2, <3>3, <3>4
  <2> QED
    BY <2>1, <2>2
<1>23. ASSUME NEW h \in S2, NEW g \in Side
       PROVE  Kid(S2, child2, par2, data, lo2, hi2, g, h)
  <2>1. PICK b \in S : b = O(h)
    BY <1>10
  <2>2. Kid(S, child, par, data, lo, hi, g, b)
    BY <1>7 DEF Shape, Kids
  <2>3. PICK l : l = Low(data, lo, g, b)
    OBVIOUS
  <2>4. PICK m : m = Upp(data, hi, g, b)
    OBVIOUS
  <2>5. /\ Low(data, lo2, g, h) = Z(l) /\ Upp(data, hi2, g, h) = Z(m)
        /\ l \in Int /\ m \in Int
    <3>1. data[h] = Z(data[b]) /\ lo2[h] = Z(lo[b]) /\ hi2[h] = Z(hi[b])
      BY <1>12, <1>13, <2>1
    <3>2. data[b] \in Int /\ lo[b] \in Int /\ hi[b] \in Int
      BY <1>8, <1>9
    <3> QED
      BY <2>3, <2>4, <3>1, <3>2 DEF Low, Upp
  <2>6. CASE child[g][b] = Nil /\ child2[g][h] = Nil
    <3>1. \A j \in S : ~(l < data[j] /\ data[j] < m)
      BY <1>8, <2>2, <2>3, <2>4, <2>6 DEF Kid
    <3>2. ASSUME NEW j \in S2 PROVE ~(Z(l) < data[j] /\ data[j] < Z(m))
      <4>1. PICK i \in S : i = O(j)
        BY <1>10
      <4>2. data[j] = Z(data[i]) /\ data[i] \in Int
        BY <1>8, <1>9, <1>13, <4>1
      <4> QED
        BY <1>14, <2>5, <3>1, <4>2
    <3> QED
      BY <2>5, <2>6, <3>2 DEF Kid
  <2>7. CASE /\ child[g][b] \in S /\ child2[g][h] \in S2
             /\ O(child2[g][h]) = child[g][b] /\ par2[child2[g][h]] = h
    <3>1. PICK k \in S2 : k = child2[g][h]
      BY <2>7
    <3>2. lo2[k] = Z(lo[O(k)]) /\ hi2[k] = Z(hi[O(k)])
      BY <1>12
    <3>3. lo[O(k)] = l /\ hi[O(k)] = m
      BY <1>20, <2>3, <2>4, <2>7, <3>1
    <3> QED
      BY <2>5, <2>7, <3>1, <3>2, <3>3 DEF Kid
  <2> QED
    BY <1>22, <2>1, <2>6, <2>7
<1>24. Parents(S2, root2, child2, par2)
  <2> SUFFICES ASSUME NEW h \in S2
               PROVE  \/ par2[h] = Nil /\ root2 = h
                      \/ par2[h] \in S2 /\ \E g \in Side : child2[g][par2[h]] = h
    BY DEF Parents
  <2>1. CASE h = r
    <3>1. par2[h] = par[p]
      BY <1>18, <2>1
    <3>2. CASE par[p] = Nil
      BY <1>18, <2>1, <3>1, <3>2
    <3>3. CASE par[p] # Nil
      <4>1. PICK g \in Side : child[g][par[p]] = p
        BY <1>21, <3>3
      <4>2. par[p] \in S2 /\ par[p] # r
        BY <1>6, <1>7, <1>21, <3>3
      <4>3. child2[g][par[p]] = r
        BY <1>18, <4>1, <4>2
      <4> QED
        BY <2>1, <3>1, <4>2, <4>3
    <3> QED
      BY <3>2, <3>3
  <2>2. CASE h # r
    <3>1. h \in S /\ h # p
      BY <1>6, <2>2
    <3>2. CASE h = child["hLeft"][p] \/ h = child["hRight"][p]
      <4>1. par2[h] = r /\ r \in S2
        BY <1>6, <1>18, <2>2, <3>2
      <4>2. PICK g \in Side : child[g][p] = h
        BY <3>2 DEF Side
      <4>3. child2[g][r] = h
        BY <1>18, <4>1, <4>2
      <4> QED
        BY <4>1, <4>3
    <3>3. CASE h # child["hLeft"][p] /\ h # child["hRight"][p]
      <4>1. par2[h] = par[h]
        BY <1>18, <2>2, <3>3
      <4>2. (par[h] = Nil /\ root = h) \/ (par[h] \in S /\ \E g \in Side : child[g][par[h]] = h)
        BY <1>7, <3>1 DEF Shape, Parents
      <4>3. CASE par[h] = Nil /\ root = h
        <5>1. par[p] # Nil
          BY <1>8, <1>21, <3>1, <4>3
        <5> QED
          BY <1>18, <4>1, <4>3, <5>1
      <4>4. CASE par[h] \in S /\ \E g \in Side : child[g][par[h]] = h
        <5>1. PICK g \in Side : child[g][par[h]] = h
          BY <4>4
        <5>2. par[h] # p
          BY <3>3, <5>1 DEF Side
        <5>3. par[h] \in S2 /\ par[h] # r
          BY <1>6, <1>7, <4>4, <5>2
        <5>4. child2[g][par[h]] = h
          BY <1>18, <3>1, <5>1, <5>3
        <5> QED
          BY <4>1, <5>3, <5>4
      <4> QED
        BY <4>2, <4>3, <4>4
    <3> QED
      BY <3>2, <3>3
  <2> QED
    BY <2>1, <2>2
<1>25. Root(S2, root2, par2, lo2, hi2)
  <2>1. /\ root \in S /\ par[root] = Nil
        /\ \A h \in S : lo[root] <= lo[h] /\ hi[h] <= hi[root]
    BY <1>7 DEF Shape, Root
  <2>2. root2 \in S2 /\ O(root2) = root /\ par2[root2] = Nil
    <3>1. CASE par[p] = Nil
      <4>1. root = p
        BY <1>8, <1>21, <3>1
      <4> QED
        BY <1>6, <1>18, <3>1, <4>1 DEF O, Old
    <3>2. CASE par[p] # Nil
      <4>1. root # p /\ root # r /\ root2 = root
        BY <1>7, <1>18, <2>1, <3>2
      <4>2. root # child["hLeft"][p] /\ root # child["hRight"][p]
        BY <1>7, <1>8, <1>20, <2>1 DEF Side
      <4> QED
        BY <1>6, <1>18, <2>1, <4>1, <4>2 DEF O, Old
    <3> QED
      BY <3>1, <3>2
  <2>3. ASSUME NEW h \in S2 PROVE lo2[root2] <= lo2[h] /\ hi2[h] <= hi2[root2]
    <3>1. lo2[root2] = Z(lo[root]) /\ hi2[root2] = Z(hi[root])
      BY <1>12, <2>2
    <3>2. lo2[h] = Z(lo[O(h)]) /\ hi2[h] = Z(hi[O(h)]) /\ O(h) \in S
      BY <1>10, <1>12
    <3>3. /\ lo[root] <= lo[O(h)] /\ hi[O(h)] <= hi[root]
          /\ lo[root] \in Int /\ hi[root] \in Int /\ lo[O(h)] \in Int /\ hi[O(h)] \in Int
      BY <1>8, <1>9, <2>1, <3>2
    <3> QED
      BY <1>14, <3>1, <3>2, <3>3
  <2> QED
    BY <2>2, <2>3 DEF Root
<1> QED
  BY <1>1, <1>2, <1>3, <1>4, <1>5, <1>6, <1>15, <1>16, <1>17, <1>23, <1>24, <1>25 DEF Shape, Kids

\* A node with no child, or one.
Single(t, S, lo, hi, ht, p, f, c, q, s) ==
  /\ AVL(t, S, lo, hi, ht) /\ p \in S /\ f \in Side
  /\ c = t.child[f][p] /\ t.child[Other(f)][p] = Nil
  /\ q = t.hParent[p] /\ s \in Side /\ (q # Nil => t.child[s][q] = p)

\* The side p is on below its parent.
LEMMA SideOf ==
  ASSUME NEW t, NEW S, NEW lo, NEW hi, NEW ht, AVL(t, S, lo, hi, ht), NEW p \in S,
         NEW q, q = t.hParent[p], NEW g \in Side
  PROVE  /\ q = Nil \/ q \in S
         /\ q # Nil => (t.child[g][q] = p <=> g = IF t.child["hLeft"][q] = p THEN "hLeft" ELSE "hRight")
         /\ q # p
<1>1. t \in TreeType /\ Tree(t, S, lo, hi) /\ Nil \notin S
  BY AVLFacts
<1>2. q = Nil \/ (q \in S /\ \E k \in Side : t.child[k][q] = p)
  BY <1>1 DEF Tree, Shape, Parents
<1>3. \A h \in S, k \in Side, j \in Side : t.child[k][h] = p /\ t.child[j][h] = p => k = j
  <2> SUFFICES ASSUME NEW h \in S, NEW k \in Side, NEW j \in Side,
                      t.child[k][h] = p, t.child[j][h] = p
               PROVE  k = j
    OBVIOUS
  <2> QED
    BY <1>1, OneParent
<1>4. q # p
  <2>1. ASSUME NEW k \in Side, t.child[k][p] = p PROVE FALSE
    BY <1>1, <2>1, OneParent
  <2> QED
    BY <1>1, <1>2, <2>1
<1>5. q # Nil => (t.child[g][q] = p <=> g = IF t.child["hLeft"][q] = p THEN "hLeft" ELSE "hRight")
  <2> SUFFICES ASSUME q # Nil
               PROVE  t.child[g][q] = p <=> g = IF t.child["hLeft"][q] = p THEN "hLeft" ELSE "hRight"
    OBVIOUS
  <2>1. PICK k \in Side : t.child[k][q] = p
    BY <1>2
  <2> QED
    BY <1>2, <1>3, <2>1 DEF Side
<1> QED
  BY <1>2, <1>4, <1>5

LEMMA UnlinkIs ==
  ASSUME NEW t, NEW S, NEW lo, NEW hi, NEW ht, NEW p, NEW f, NEW c, NEW q, NEW s,
         Single(t, S, lo, hi, ht, p, f, c, q, s)
  PROVE  \E u : /\ Unlinked(t, p) = [tree |-> u, lower |-> TRUE]
                /\ u \in TreeType /\ Rest(t, u) /\ u.bf = t.bf
                /\ u.child = ChildCut(t.child, t.hParent, p, c)
                /\ u.hParent = ParCut(t.hParent, p, c)
                /\ u.hHead = RootCut(t.hHead, t.hParent, p, c)
<1>1. /\ AVL(t, S, lo, hi, ht) /\ p \in S /\ f \in Side
      /\ c = t.child[f][p] /\ t.child[Other(f)][p] = Nil /\ q = t.hParent[p]
      /\ Other(f) \in Side /\ Other(f) # f
  BY Sides DEF Single
<1>2. /\ t \in TreeType /\ S \in SUBSET Cell /\ Nil \notin S
      /\ c = Nil \/ c \in S
  BY <1>1, AVLFacts
<1>3. PICK g : g = IF t.child["hLeft"][q] = p THEN "hLeft" ELSE "hRight"
  OBVIOUS
<1>4. g \in Side /\ (q = Nil \/ q \in S) /\ p \in Cell /\ Nil \in Link /\ Nil \notin Cell
  BY <1>1, <1>2, <1>3, SideOf DEF Side, Link, Cell, Nil
<1>5. q # Nil => \A k \in Side : t.child[k][q] = p <=> k = g
  <2> SUFFICES ASSUME q # Nil, NEW k \in Side PROVE t.child[k][q] = p <=> k = g
    OBVIOUS
  <2> QED
    BY <1>1, <1>3, SideOf
<1>6. /\ t.child \in [Side -> [Cell -> Link]] /\ t.hParent \in [Cell -> Link] /\ t.hHead \in Link
  BY <1>2, Fields
<1>7. CASE c = Nil
  <2>1. t.child["hLeft"][p] = Nil /\ t.child["hRight"][p] = Nil
    BY <1>1, <1>7 DEF Side, Other
  <2>2. PICK u : u = IF q = Nil THEN [t EXCEPT !.hHead = Nil] ELSE WithChild(t, g, q, Nil)
    OBVIOUS
  <2>3. Unlinked(t, p) = [tree |-> u, lower |-> TRUE]
    BY <1>1, <1>3, <2>1, <2>2 DEF Unlinked, WithChild
  <2>4. ParCut(t.hParent, p, c) = t.hParent
    BY <1>4, <1>6, <1>7 DEF ParCut
  <2>5. CASE q = Nil
    <3>1. /\ u \in TreeType /\ Rest(t, u) /\ u.bf = t.bf /\ u.child = t.child
          /\ u.hParent = t.hParent /\ u.hHead = Nil
      BY <1>2, <1>4, <2>2, <2>5, Fields DEF TreeType, Rest
    <3>2. ChildCut(t.child, t.hParent, p, c) = t.child
      BY <1>1, <1>4, <1>6, <2>5 DEF ChildCut
    <3>3. RootCut(t.hHead, t.hParent, p, c) = Nil
      BY <1>1, <1>7, <2>5 DEF RootCut
    <3> QED
      BY <2>3, <2>4, <3>1, <3>2, <3>3
  <2>6. CASE q # Nil
    <3>1. q \in Cell /\ u = WithChild(t, g, q, Nil)
      BY <1>2, <1>4, <2>2, <2>6
    <3>2. /\ u \in TreeType /\ Rest(t, u) /\ u.bf = t.bf
          /\ u.hParent = t.hParent /\ u.hHead = t.hHead
          /\ \A k \in Side, h \in Cell :
               u.child[k][h] = IF k = g /\ h = q THEN Nil ELSE t.child[k][h]
      BY <1>2, <1>4, <3>1, SetChild
    <3>3. u.child = ChildCut(t.child, t.hParent, p, c)
      <4>1. u.child \in [Side -> [Cell -> Link]]
        BY <3>2, Fields
      <4>2. ASSUME NEW k \in Side PROVE u.child[k] = ChildCut(t.child, t.hParent, p, c)[k]
        <5>1. \A h \in Cell : u.child[k][h] = IF h = q /\ t.child[k][h] = p THEN c ELSE t.child[k][h]
          BY <1>5, <1>7, <2>6, <3>2
        <5> QED
          BY <1>1, <4>1, <5>1 DEF ChildCut
      <4> QED
        BY <4>1, <4>2 DEF ChildCut
    <3>4. RootCut(t.hHead, t.hParent, p, c) = t.hHead
      BY <1>1, <2>6 DEF RootCut
    <3> QED
      BY <2>3, <2>4, <3>2, <3>3, <3>4
  <2> QED
    BY <2>5, <2>6
<1>8. CASE c # Nil
  <2>1. /\ c \in Cell
        /\ c = IF t.child["hLeft"][p] # Nil THEN t.child["hLeft"][p] ELSE t.child["hRight"][p]
        /\ ~(t.child["hLeft"][p] # Nil /\ t.child["hRight"][p] # Nil)
        /\ ~(t.child["hLeft"][p] = Nil /\ t.child["hRight"][p] = Nil)
    BY <1>1, <1>2, <1>8 DEF Side, Other
  <2>2. PICK u : u = ChangeRoot(t, p, c)
    OBVIOUS
  <2>3. Unlinked(t, p) = [tree |-> u, lower |-> TRUE]
    BY <2>1, <2>2 DEF Unlinked
  <2>4. /\ u \in TreeType /\ Rest(t, u) /\ u.bf = t.bf
        /\ u.hHead = IF q = Nil THEN c ELSE t.hHead
        /\ \A k \in Cell : u.hParent[k] = IF k = c THEN q ELSE t.hParent[k]
        /\ \A k \in Side, h \in Cell :
              u.child[k][h] = IF h = q /\ k = IF t.child["hLeft"][q] = p THEN "hLeft" ELSE "hRight"
                              THEN c ELSE t.child[k][h]
    BY <1>1, <1>2, <1>4, <2>1, <2>2, ChangeRootIs
  <2>5. u.child \in [Side -> [Cell -> Link]] /\ u.hParent \in [Cell -> Link]
    BY <2>4, Fields
  <2>6. u.child = ChildCut(t.child, t.hParent, p, c)
    <3>1. ASSUME NEW k \in Side PROVE u.child[k] = ChildCut(t.child, t.hParent, p, c)[k]
      <4>1. \A h \in Cell : u.child[k][h] = IF h = q /\ t.child[k][h] = p THEN c ELSE t.child[k][h]
        BY <1>3, <1>4, <1>5, <2>4
      <4> QED
        BY <1>1, <2>5, <4>1 DEF ChildCut
    <3> QED
      BY <2>5, <3>1 DEF ChildCut
  <2>7. u.hParent = ParCut(t.hParent, p, c)
    BY <1>1, <2>4, <2>5 DEF ParCut
  <2> QED
    BY <1>1, <2>3, <2>4, <2>6, <2>7 DEF RootCut
<1> QED
  BY <1>7, <1>8

OneMore(ht, p, c) == ht[p] = ht[c] + 1 /\ ht[c] \in Nat

\* The heights: only the parent of p has one side lower than it counts.
LEMMA CutEven ==
  ASSUME NEW t, NEW S, NEW lo, NEW hi, NEW ht, NEW p, NEW f, NEW c, NEW q, NEW s,
         Single(t, S, lo, hi, ht, p, f, c, q, s)
  PROVE  /\ Even(S \ {p}, ChildCut(t.child, t.hParent, p, c), t.bf, ht, q, s, ht[p])
         /\ OneMore(ht, p, c)
<1>1. /\ AVL(t, S, lo, hi, ht) /\ p \in S /\ f \in Side
      /\ c = t.child[f][p] /\ t.child[Other(f)][p] = Nil /\ q = t.hParent[p]
      /\ s \in Side /\ (q # Nil => t.child[s][q] = p)
      /\ Other(f) \in Side
  BY Sides DEF Single
<1>2. /\ t \in TreeType /\ S \in SUBSET Cell /\ Nil \notin S
      /\ ht \in [Link -> Nat] /\ ht[Nil] = 0 /\ ht[c] \in Nat
      /\ Even(S, t.child, t.bf, ht, Nil, "hLeft", 0)
      /\ Tree(t, S, lo, hi)
  <2>1. Even(S, t.child, t.bf, ht, Nil, "hLeft", 0)
    BY <1>1 DEF AVL
  <2> QED
    BY <1>1, <2>1, AVLFacts
<1>3. Even(S \ {p}, t.child, t.bf, ht, q, s, ht[p])
  <2>1. Even(S \ {p}, t.child, t.bf, ht, Nil, "hLeft", 0)
    BY <1>2 DEF Even
  <2>2. q \in S => ht[p] = ht[t.child[s][q]]
    BY <1>1, <1>2
  <2> QED
    BY <1>2, <2>1, <2>2, EvenShift
<1>4. PICK child2 : child2 = ChildCut(t.child, t.hParent, p, c)
  OBVIOUS
<1>5. \A h \in S \ {p}, g \in Side : (h = q /\ g = s) \/ ht[child2[g][h]] = ht[t.child[g][h]]
  <2> SUFFICES ASSUME NEW h \in S \ {p}, NEW g \in Side, ~(h = q /\ g = s)
               PROVE  ht[child2[g][h]] = ht[t.child[g][h]]
    OBVIOUS
  <2>1. ~(h = q /\ t.child[g][h] = p)
    <3> SUFFICES ASSUME h = q, t.child[g][h] = p PROVE FALSE
      OBVIOUS
    <3>1. t.child[s][q] = p /\ q # Nil
      BY <1>1, <1>2
    <3> QED
      BY <1>1, <1>2, <3>1, OneParent
  <2>2. child2[g][h] = t.child[g][h]
    BY <1>1, <1>2, <1>4, <2>1 DEF ChildCut
  <2> QED
    BY <2>2
<1>6. Even(S \ {p}, child2, t.bf, ht, q, s, ht[p])
  BY <1>2, <1>3, <1>5, EvenSame
<1>7. ht[p] = ht[c] + 1
  <2>1. EvenAt(t.child, t.bf, ht, Nil, "hLeft", 0, p)
    BY <1>1, <1>2 DEF Even
  <2>2. /\ Tall(t.child, ht, Nil, "hLeft", 0, f, p) = ht[c]
        /\ Tall(t.child, ht, Nil, "hLeft", 0, Other(f), p) = 0
    BY <1>1, <1>2 DEF Tall
  <2> QED
    BY <1>1, <1>2, <2>1, <2>2 DEF EvenAt
<1> QED
  BY <1>2, <1>4, <1>6, <1>7 DEF OneMore

\* Nodes that are not below p have no bound in the range of p.
LEMMA BoundsOut ==
  ASSUME NEW S, NEW data, NEW lo, NEW hi, Numbers(S, data, lo, hi), Between(S, data, lo, hi),
         Nested(S, data, lo, hi), NEW p \in S, NEW g \in S,
         ~(lo[p] < data[g] /\ data[g] < hi[p])
  PROVE  /\ lo[g] <= lo[p] \/ hi[p] <= lo[g]
         /\ hi[g] <= lo[p] \/ hi[p] <= hi[g]
         /\ g # p
<1>1. /\ lo[p] \in Int /\ hi[p] \in Int /\ data[p] \in Int /\ lo[p] < data[p] /\ data[p] < hi[p]
      /\ lo[g] \in Int /\ hi[g] \in Int /\ data[g] \in Int /\ lo[g] < data[g] /\ data[g] < hi[g]
  BY DEF Numbers, Between
<1>2. g # p
  BY <1>1
<1>3. Apart(data, lo, hi, g, p)
  BY <1>2 DEF Nested
<1> QED
  BY <1>1, <1>2, <1>3 DEF Apart

CutTo(t, S, lo, hi, ht, p, q, s, c) ==
  \E u, lo2, hi2, ht2, less :
    /\ Unlinked(t, p) = [tree |-> u, lower |-> less] /\ Rest(t, u)
    /\ Done(t, S, lo, hi, ht, q, s, ht[p], lo[p], hi[p], u, S \ {p}, lo2, hi2, ht2, c)
    /\ less \in BOOLEAN /\ ht[p] = (IF less THEN ht2[c] + 1 ELSE ht2[c])

LEMMA CutDone ==
  ASSUME NEW t, NEW S, NEW lo, NEW hi, NEW ht, NEW p, NEW f, NEW c, NEW q, NEW s,
         Single(t, S, lo, hi, ht, p, f, c, q, s)
  PROVE  CutTo(t, S, lo, hi, ht, p, q, s, c)
<1>1. /\ AVL(t, S, lo, hi, ht) /\ p \in S /\ f \in Side
      /\ c = t.child[f][p] /\ t.child[Other(f)][p] = Nil /\ q = t.hParent[p]
      /\ s \in Side /\ (q # Nil => t.child[s][q] = p)
  BY DEF Single
<1>2. /\ t \in TreeType /\ S \in SUBSET Cell /\ Nil \notin S /\ Tree(t, S, lo, hi)
      /\ c = Nil \/ c \in S
      /\ q = Nil \/ q \in S
  BY <1>1, AVLFacts, SideOf
<1>3. PICK u : /\ Unlinked(t, p) = [tree |-> u, lower |-> TRUE]
               /\ u \in TreeType /\ Rest(t, u) /\ u.bf = t.bf
               /\ u.child = ChildCut(t.child, t.hParent, p, c)
               /\ u.hParent = ParCut(t.hParent, p, c)
               /\ u.hHead = RootCut(t.hHead, t.hParent, p, c)
  BY UnlinkIs
<1>4. PICK lo2 : lo2 = LoCut(t.data, lo, p)
  OBVIOUS
<1>5. PICK hi2 : hi2 = HiCut(t.data, hi, p)
  OBVIOUS
<1>6. Shape(S, t.hHead, t.child, t.hParent, t.data, lo, hi) /\ Links(t.child, t.hParent)
  BY <1>2, Fields DEF Tree, Links
<1>7. Tree(u, S \ {p}, lo2, hi2)
  <2>1. Cut(S, t.hHead, t.child, t.hParent, t.data, lo, hi, p, f, c)
    BY <1>1, <1>6 DEF Cut
  <2>2. Shape(S \ {p}, u.hHead, u.child, u.hParent, t.data, lo2, hi2)
    BY <1>3, <1>4, <1>5, <2>1, CutShape
  <2> QED
    BY <1>3, <2>2 DEF Tree, Rest
<1>8. /\ Even(S \ {p}, u.child, u.bf, ht, q, s, ht[p])
      /\ ht[p] = ht[c] + 1
  <2>1. /\ Even(S \ {p}, ChildCut(t.child, t.hParent, p, c), t.bf, ht, q, s, ht[p])
        /\ OneMore(ht, p, c)
    BY CutEven
  <2> QED
    BY <1>3, <2>1 DEF OneMore
<1>9. t.child \in [Side -> [Cell -> Link]] /\ t.hParent \in [Cell -> Link]
  BY <1>2, Fields
<1>10. Hangs(u, q, s, c)
  <2>1. CASE q = Nil
    BY <1>1, <1>3, <2>1 DEF Hangs, RootCut
  <2>2. CASE q # Nil
    <3>1. q \in Cell /\ t.child[s][q] = p
      BY <1>1, <1>2, <2>2
    <3>2. u.child[s][q] = c
      BY <1>1, <1>3, <3>1 DEF ChildCut
    <3> QED
      BY <2>2, <3>2 DEF Hangs
  <2> QED
    BY <2>1, <2>2
<1>11. Steady(S, t, lo, hi, ht, u, S \ {p}, lo2, hi2, ht, lo[p], hi[p])
  <2> SUFFICES ASSUME NEW g \in S, ~(lo[p] < t.data[g] /\ t.data[g] < hi[p])
               PROVE  /\ g \in S \ {p} /\ u.data[g] = t.data[g] /\ u.hParent[g] = t.hParent[g]
                      /\ lo2[g] = lo[g] /\ hi2[g] = hi[g]
    BY DEF Steady
  <2>1. /\ lo[g] <= lo[p] \/ hi[p] <= lo[g]
        /\ hi[g] <= lo[p] \/ hi[p] <= hi[g]
        /\ g # p
    BY <1>1, <1>6, BoundsOut DEF Shape
  <2>2. /\ lo[p] \in Int /\ hi[p] \in Int /\ t.data[p] \in Int /\ lo[p] < t.data[p] /\ t.data[p] < hi[p]
        /\ lo[g] \in Int /\ hi[g] \in Int /\ t.data[g] \in Int
        /\ \A h \in S : t.data[h] \in Int /\ lo[h] \in Int /\ hi[h] \in Int /\ lo[h] < t.data[h] /\ t.data[h] < hi[h]
    BY <1>1, <1>6 DEF Shape, Numbers, Between
  <2>3. lo2[g] = lo[g] /\ hi2[g] = hi[g]
    <3>1. lo[g] # t.data[p] /\ hi[g] # t.data[p]
      BY <2>1, <2>2
    <3> QED
      BY <1>2, <1>4, <1>5, <3>1 DEF LoCut, HiCut
  <2>4. g # c
    <3> SUFFICES ASSUME g = c PROVE FALSE
      OBVIOUS
    <3>1. lo[p] <= lo[c] /\ hi[c] <= hi[p]
      BY <1>1, <1>2, OneParent
    <3>2. lo[g] < t.data[g] /\ t.data[g] < hi[g]
      BY <2>2
    <3> QED
      BY <2>2, <3>1, <3>2
  <2>5. u.hParent[g] = t.hParent[g]
    BY <1>2, <1>3, <2>4 DEF ParCut
  <2> QED
    BY <1>3, <2>1, <2>3, <2>5 DEF Rest
<1>12. Idle(S \cup (S \ {p}), t, u)
  <2> SUFFICES ASSUME NEW g \in Cell, g \notin S
               PROVE  u.hParent[g] = t.hParent[g] /\ \A k \in Side : u.child[k][g] = t.child[k][g]
    BY DEF Idle
  <2>1. g # c /\ g # q
    BY <1>2 DEF Cell, Nil
  <2> QED
    BY <1>1, <1>3, <2>1 DEF ChildCut, ParCut
<1>13. Done(t, S, lo, hi, ht, q, s, ht[p], lo[p], hi[p], u, S \ {p}, lo2, hi2, ht, c)
  BY <1>3, <1>7, <1>8, <1>10, <1>11, <1>12 DEF Done
<1>14. PICK less \in BOOLEAN : less = TRUE
  OBVIOUS
<1>15. ht[p] = IF less THEN ht[c] + 1 ELSE ht[c]
  BY <1>8, <1>14
<1>16. Unlinked(t, p) = [tree |-> u, lower |-> less] /\ Rest(t, u)
  BY <1>3, <1>14
<1> QED
  BY <1>13, <1>14, <1>15, <1>16 DEF CutTo

-----------------------------------------------------------------------------
(* A node with two children: r, the last of its left side, takes its place. *)

Twin(t, S, lo, hi, ht, p, r, q, s, up, left, right) ==
  /\ AVL(t, S, lo, hi, ht) /\ p \in S /\ r \in S
  /\ left = t.child["hLeft"][p] /\ left \in S /\ right = t.child["hRight"][p] /\ right \in S
  /\ t.child["hRight"][r] = Nil /\ hi[r] = t.data[p] /\ lo[p] <= lo[r]
  /\ up = t.hParent[r] /\ (r = left \/ (up \in S /\ t.child["hRight"][up] = r))
  /\ q = t.hParent[p] /\ s \in Side /\ (q # Nil => t.child[s][q] = p)

\* Who is not whom.
TwinLaws(t, S, lo, hi, p, r, q, up, left, right) ==
  /\ r # p /\ left # right /\ right # r /\ up \in S /\ up # r /\ up # q /\ q # p /\ q # r
  /\ (up = p) = (r = left) /\ (q = Nil \/ q \in S)
  /\ LET below == t.child["hLeft"][r]
     IN below = Nil \/ (/\ below \in S /\ t.hParent[below] = r
                        /\ below # p /\ below # r /\ below # left /\ below # right /\ below # up)
  /\ t.hParent[left] = p /\ t.hParent[right] = p
  /\ lo[p] < t.data[r] /\ t.data[r] < t.data[p]
  /\ \A g \in S \ {r} : ~(t.data[r] <= t.data[g] /\ t.data[g] < t.data[p])

LEMMA TwinFacts ==
  ASSUME NEW t, NEW S, NEW lo, NEW hi, NEW ht, NEW p, NEW r, NEW q, NEW s, NEW up,
         NEW left, NEW right, Twin(t, S, lo, hi, ht, p, r, q, s, up, left, right)
  PROVE  TwinLaws(t, S, lo, hi, p, r, q, up, left, right)
<1>1. /\ AVL(t, S, lo, hi, ht) /\ p \in S /\ r \in S
      /\ left = t.child["hLeft"][p] /\ left \in S /\ right = t.child["hRight"][p] /\ right \in S
      /\ t.child["hRight"][r] = Nil /\ hi[r] = t.data[p] /\ lo[p] <= lo[r]
      /\ up = t.hParent[r] /\ (r = left \/ (up \in S /\ t.child["hRight"][up] = r))
      /\ q = t.hParent[p] /\ s \in Side /\ (q # Nil => t.child[s][q] = p)
  BY DEF Twin
<1>2. /\ t \in TreeType /\ Tree(t, S, lo, hi) /\ S \in SUBSET Cell /\ Nil \notin S
      /\ \A h \in S : /\ lo[h] \in Int /\ hi[h] \in Int /\ t.data[h] \in Int
                      /\ lo[h] < t.data[h] /\ t.data[h] < hi[h]
      /\ \A h \in S, f \in Side : t.child[f][h] = Nil \/ t.child[f][h] \in S
      /\ \A g \in S : ~(Low(t.data, lo, "hRight", r) < t.data[g] /\ t.data[g] < Upp(t.data, hi, "hRight", r))
  BY <1>1, AVLFacts DEF Side
<1>3. "hLeft" \in Side /\ "hRight" \in Side /\ "hLeft" # "hRight"
  BY DEF Side
<1>4. /\ t.hParent[left] = p /\ left # p
      /\ \A g \in S, k \in Side : t.child[k][g] = left => g = p /\ k = "hLeft"
      /\ lo[left] = lo[p] /\ hi[left] = t.data[p]
  BY <1>1, <1>2, <1>3, OneParent DEF Low, Upp
<1>5. /\ t.hParent[right] = p /\ right # p
      /\ \A g \in S, k \in Side : t.child[k][g] = right => g = p /\ k = "hRight"
      /\ lo[right] = t.data[p] /\ hi[right] = hi[p]
  BY <1>1, <1>2, <1>3, OneParent DEF Low, Upp
<1>6. left # right
  BY <1>1, <1>3, <1>4
<1>7. r # p /\ right # r
  BY <1>1, <1>2, <1>5
<1>8. q # p /\ (q = Nil \/ q \in S)
  BY <1>1, <1>3, SideOf
<1>9. q # Nil => ~(lo[p] < t.data[q] /\ t.data[q] < hi[p])
  <2> SUFFICES ASSUME q # Nil PROVE ~(lo[p] < t.data[q] /\ t.data[q] < hi[p])
    OBVIOUS
  <2>1. lo[p] = Low(t.data, lo, s, q) /\ hi[p] = Upp(t.data, hi, s, q)
    BY <1>1, <1>2, <1>8, OneParent
  <2>2. lo[q] \in Int /\ hi[q] \in Int /\ t.data[q] \in Int /\ lo[q] < t.data[q] /\ t.data[q] < hi[q]
    BY <1>2, <1>8
  <2> QED
    BY <1>1, <2>1, <2>2 DEF Low, Upp, Side
<1>10. /\ lo[p] < t.data[r] /\ t.data[r] < t.data[p]
  BY <1>1, <1>2
<1>11. q # r
  BY <1>1, <1>2, <1>9, <1>10
<1>12. /\ up \in S /\ up # r /\ (up = p) = (r = left)
       /\ \E k \in Side : t.child[k][up] = r
  <2>1. CASE r = left
    BY <1>1, <1>3, <1>4, <2>1
  <2>2. CASE r # left
    <3>1. up \in S /\ t.child["hRight"][up] = r
      BY <1>1, <2>2
    <3>2. up # r
      BY <1>1, <1>2, <1>3, <3>1, OneParent
    <3>3. up # p
      BY <1>1, <1>7, <3>1
    <3> QED
      BY <1>3, <2>2, <3>1, <3>2, <3>3
  <2> QED
    BY <2>1, <2>2
<1>13. up # q
  <2>1. CASE r = left
    BY <1>8, <1>12, <2>1
  <2>2. CASE r # left
    <3>1. /\ up \in S /\ t.child["hRight"][up] = r /\ up # p
      BY <1>1, <1>12, <2>2
    <3>2. lo[r] = t.data[up] /\ hi[r] = hi[up]
      BY <1>1, <1>2, <1>3, <3>1, OneParent DEF Low, Upp
    <3>3. Apart(t.data, lo, hi, up, p)
      BY <1>1, <1>2, <3>1 DEF Tree, Shape, Nested
    <3>4. lo[p] < t.data[up] /\ t.data[up] < hi[p]
      <4>1. /\ lo[up] \in Int /\ hi[up] \in Int /\ t.data[up] \in Int
            /\ lo[up] < t.data[up] /\ t.data[up] < hi[up]
            /\ lo[p] \in Int /\ hi[p] \in Int /\ t.data[p] \in Int
            /\ lo[p] < t.data[p] /\ t.data[p] < hi[p]
        BY <1>1, <1>2, <3>1
      <4> QED
        BY <1>1, <3>2, <3>3, <4>1 DEF Apart
    <3> QED
      BY <1>1, <1>2, <1>8, <1>9, <3>1, <3>4
  <2> QED
    BY <2>1, <2>2
<1>14. PICK below : below = t.child["hLeft"][r]
  OBVIOUS
<1>15. below = Nil \/ (/\ below \in S /\ t.hParent[below] = r
                       /\ below # p /\ below # r /\ below # left /\ below # right /\ below # up)
  <2> SUFFICES ASSUME below # Nil
               PROVE  /\ below \in S /\ t.hParent[below] = r
                      /\ below # p /\ below # r /\ below # left /\ below # right /\ below # up
    OBVIOUS
  <2>1. below \in S
    BY <1>1, <1>2, <1>3, <1>14
  <2>2. t.hParent[below] = r /\ below # r /\ lo[r] <= lo[below] /\ hi[below] = t.data[r]
    BY <1>1, <1>2, <1>3, <1>14, <2>1, OneParent DEF Low, Upp
  <2>3. below # p
    BY <1>1, <1>2, <1>10, <2>1, <2>2
  <2>4. below # left /\ below # right
    BY <1>4, <1>5, <1>7, <2>2
  <2>5. below # up
    <3> SUFFICES ASSUME below = up PROVE FALSE
      OBVIOUS
    <3>1. PICK k \in Side : t.child[k][up] = r
      BY <1>12
    <3>2. lo[up] <= lo[r] /\ hi[r] <= hi[up]
      BY <1>1, <1>2, <1>12, <3>1, OneParent
    <3> QED
      BY <1>1, <1>2, <1>10, <1>12, <2>1, <2>2, <3>2
  <2> QED
    BY <2>1, <2>2, <2>3, <2>4, <2>5
<1>16. \A g \in S \ {r} : ~(t.data[r] <= t.data[g] /\ t.data[g] < t.data[p])
  <2> SUFFICES ASSUME NEW g \in S, g # r PROVE ~(t.data[r] <= t.data[g] /\ t.data[g] < t.data[p])
    OBVIOUS
  <2>1. ~(t.data[r] < t.data[g] /\ t.data[g] < t.data[p])
    BY <1>1, <1>2, <1>3 DEF Low, Upp
  <2>2. Apart(t.data, lo, hi, g, r)
    BY <1>1, <1>2 DEF Tree, Shape, Nested
  <2>3. /\ lo[g] \in Int /\ hi[g] \in Int /\ t.data[g] \in Int
        /\ lo[g] < t.data[g] /\ t.data[g] < hi[g]
        /\ lo[r] \in Int /\ hi[r] \in Int /\ t.data[r] \in Int
        /\ lo[r] < t.data[r] /\ t.data[r] < hi[r] /\ t.data[p] \in Int
    BY <1>1, <1>2
  <2> QED
    BY <2>1, <2>2, <2>3 DEF Apart
<1> QED
  BY <1>4, <1>5, <1>6, <1>7, <1>8, <1>10, <1>11, <1>12, <1>13, <1>14, <1>15, <1>16 DEF TwinLaws

\* What Moved does, field by field.
MovedTo(t, S, p, r, q, up, left, right, u) ==
  LET below == t.child["hLeft"][r]
  IN /\ u \in TreeType /\ Rest(t, u) /\ u.hHead = (IF q = Nil THEN r ELSE t.hHead)
     /\ u.bf = [t.bf EXCEPT ![r] = t.bf[p]]
     /\ \A h \in Cell : u.hParent[h] = IF h = r THEN q
                                       ELSE IF h = left \/ h = right THEN r
                                       ELSE IF h = below /\ up # p THEN up ELSE t.hParent[h]
     /\ \A g \in Side, h \in Cell :
          u.child[g][h] = IF h = r THEN IF g = "hRight" THEN right ELSE IF up = p THEN below ELSE left
                          ELSE IF h = q /\ t.child[g][h] = p THEN r
                          ELSE IF h = up /\ up # p /\ g = "hRight" THEN below
                          ELSE t.child[g][h]

LEMMA MovedIs ==
  ASSUME NEW t, NEW S, NEW lo, NEW hi, NEW ht, NEW p, NEW r, NEW q, NEW s, NEW up,
         NEW left, NEW right, Twin(t, S, lo, hi, ht, p, r, q, s, up, left, right),
         NEW u, u = Moved(t, p, r)
  PROVE  MovedTo(t, S, p, r, q, up, left, right, u)
<1>1. PICK below : below = t.child["hLeft"][r]
  OBVIOUS
<1>2. /\ AVL(t, S, lo, hi, ht) /\ p \in S /\ r \in S
      /\ left = t.child["hLeft"][p] /\ left \in S /\ right = t.child["hRight"][p] /\ right \in S
      /\ up = t.hParent[r] /\ q = t.hParent[p]
  BY DEF Twin
<1>3. /\ r # p /\ left # right /\ right # r /\ up \in S /\ up # r /\ up # q /\ q # p /\ q # r
      /\ (up = p) = (r = left) /\ (q = Nil \/ q \in S)
      /\ below = Nil \/ (/\ below \in S /\ t.hParent[below] = r
                         /\ below # p /\ below # r /\ below # left /\ below # right /\ below # up)
      /\ t.hParent[left] = p /\ t.hParent[right] = p
  BY <1>1, TwinFacts DEF TwinLaws
<1>4. /\ t \in TreeType /\ S \in SUBSET Cell /\ Nil \notin S /\ S \subseteq Link /\ Nil \notin Cell
  BY <1>2, AVLFacts DEF Cell, Nil
<1>5. "hLeft" \in Side /\ "hRight" \in Side /\ "hLeft" # "hRight" /\ \A g \in Side : g = "hLeft" \/ g = "hRight"
  BY DEF Side
<1>6. p \in Cell /\ r \in Cell /\ up \in Cell /\ below \in Link /\ left \in Link /\ right \in Link /\ r \in Link /\ up \in Link /\ q \in Link
  BY <1>2, <1>3, <1>4 DEF Link
<1>7. PICK u0 : u0 = WithChild(t, "hRight", up, below)
  OBVIOUS
<1>8. PICK u1 : u1 = IF up = p THEN t ELSE SetParent(u0, below, up)
  OBVIOUS
<1>9. /\ u0 \in TreeType /\ Rest(t, u0) /\ u0.bf = t.bf
      /\ u0.hParent = t.hParent /\ u0.hHead = t.hHead
      /\ \A g \in Side, k \in Cell :
           u0.child[g][k] = IF g = "hRight" /\ k = up THEN below ELSE t.child[g][k]
  <2>1. t \in TreeType /\ "hRight" \in Side /\ up \in Cell /\ below \in Link
    BY <1>4, <1>5, <1>6
  <2>2. /\ u0 \in TreeType /\ Rest(t, u0) /\ u0.bf = t.bf
        /\ u0.hParent = t.hParent /\ u0.hHead = t.hHead
        /\ \A g \in Side, k \in Cell :
             u0.child[g][k] = IF g = "hRight" /\ k = up THEN below ELSE t.child[g][k]
    BY <1>7, <2>1, SetChild
  <2> QED
    BY <2>2
<1>10. /\ u1 \in TreeType /\ Rest(t, u1) /\ u1.bf = t.bf /\ u1.hHead = t.hHead
       /\ \A g \in Side, k \in Cell :
            u1.child[g][k] = IF up # p /\ g = "hRight" /\ k = up THEN below ELSE t.child[g][k]
       /\ \A k \in Cell : u1.hParent[k] = IF up # p /\ k = below THEN up ELSE t.hParent[k]
  <2>1. CASE up = p
    BY <1>4, <1>8, <2>1 DEF Rest
  <2>2. CASE up # p
    <3>1. u1 = SetParent(u0, below, up)
      BY <1>8, <2>2
    <3>2. /\ u1 \in TreeType /\ Rest(u0, u1) /\ u1.bf = u0.bf
          /\ u1.child = u0.child /\ u1.hHead = u0.hHead
          /\ \A k \in Cell : u1.hParent[k] = IF k = below THEN up ELSE u0.hParent[k]
      <4>1. u0 \in TreeType /\ below \in Link /\ up \in Link
        BY <1>6, <1>9
      <4> QED
        BY <3>1, <4>1, SetPar
    <3> QED
      BY <1>9, <2>2, <3>2 DEF Rest
  <2> QED
    BY <2>1, <2>2
<1>11. u1.hParent[p] = q /\ u1.child["hLeft"][p] = left
       /\ (q # Nil => \A g \in Side : u1.child[g][q] = t.child[g][q])
  BY <1>2, <1>3, <1>4, <1>5, <1>6, <1>10
<1>12. PICK v : v = ChangeRoot(u1, p, r)
  OBVIOUS
<1>13. /\ v \in TreeType /\ Rest(u1, v) /\ v.bf = u1.bf
       /\ v.hHead = IF q = Nil THEN r ELSE u1.hHead
       /\ \A k \in Cell : v.hParent[k] = IF k = r THEN q ELSE u1.hParent[k]
       /\ \A g \in Side, k \in Cell :
             v.child[g][k] = IF k = q /\ g = IF u1.child["hLeft"][q] = p THEN "hLeft" ELSE "hRight"
                             THEN r ELSE u1.child[g][k]
  BY <1>6, <1>10, <1>11, <1>12, ChangeRootIs
<1>14. \A g \in Side, k \in Cell :
             v.child[g][k] = IF k = q /\ t.child[g][k] = p THEN r ELSE u1.child[g][k]
  <2> SUFFICES ASSUME NEW g \in Side, NEW k \in Cell
               PROVE  v.child[g][k] = IF k = q /\ t.child[g][k] = p THEN r ELSE u1.child[g][k]
    OBVIOUS
  <2>1. CASE k # q
    BY <1>13, <2>1
  <2>2. CASE k = q
    <3>1. q # Nil
      BY <1>4, <2>2
    <3>2. t.child[g][q] = p <=> g = IF t.child["hLeft"][q] = p THEN "hLeft" ELSE "hRight"
      BY <1>2, <3>1, SideOf
    <3> QED
      BY <1>5, <1>11, <1>13, <2>2, <3>1, <3>2
  <2> QED
    BY <2>1, <2>2
<1>15. PICK w0 : w0 = WithChild(v, "hLeft", r, left)
  OBVIOUS
<1>16. PICK w : w = IF up = p THEN v ELSE SetParent(w0, left, r)
  OBVIOUS
<1>17. /\ w0 \in TreeType /\ Rest(v, w0) /\ w0.bf = v.bf
       /\ w0.hParent = v.hParent /\ w0.hHead = v.hHead
       /\ \A g \in Side, k \in Cell :
            w0.child[g][k] = IF g = "hLeft" /\ k = r THEN left ELSE v.child[g][k]
  <2>1. v \in TreeType /\ "hLeft" \in Side /\ r \in Cell /\ left \in Link
    BY <1>5, <1>6, <1>13
  <2>2. /\ w0 \in TreeType /\ Rest(v, w0) /\ w0.bf = v.bf
        /\ w0.hParent = v.hParent /\ w0.hHead = v.hHead
        /\ \A g \in Side, k \in Cell :
             w0.child[g][k] = IF g = "hLeft" /\ k = r THEN left ELSE v.child[g][k]
    BY <1>15, <2>1, SetChild
  <2> QED
    BY <2>2
<1>18. /\ w \in TreeType /\ Rest(v, w) /\ w.bf = v.bf /\ w.hHead = v.hHead
       /\ \A g \in Side, k \in Cell :
            w.child[g][k] = IF up # p /\ g = "hLeft" /\ k = r THEN left ELSE v.child[g][k]
       /\ \A k \in Cell : w.hParent[k] = IF up # p /\ k = left THEN r ELSE v.hParent[k]
  <2>1. CASE up = p
    BY <1>13, <1>16, <2>1 DEF Rest
  <2>2. CASE up # p
    <3>1. w = SetParent(w0, left, r)
      BY <1>16, <2>2
    <3>2. /\ w \in TreeType /\ Rest(w0, w) /\ w.bf = w0.bf
          /\ w.child = w0.child /\ w.hHead = w0.hHead
          /\ \A k \in Cell : w.hParent[k] = IF k = left THEN r ELSE w0.hParent[k]
      <4>1. w0 \in TreeType /\ left \in Link /\ r \in Link
        BY <1>6, <1>17
      <4> QED
        BY <3>1, <4>1, SetPar
    <3> QED
      BY <1>17, <2>2, <3>2 DEF Rest
  <2> QED
    BY <2>1, <2>2
<1>19. PICK b : b = t.bf[p]
  OBVIOUS
<1>20. PICK z0 : z0 = [w EXCEPT !.bf[r] = b]
  OBVIOUS
<1>21. /\ z0 \in TreeType /\ Rest(w, z0) /\ z0.bf = [w.bf EXCEPT ![r] = b]
       /\ z0.child = w.child /\ z0.hParent = w.hParent /\ z0.hHead = w.hHead
  <2>1. b \in Int
    BY <1>4, <1>6, <1>19, Fields
  <2> QED
    BY <1>6, <1>18, <1>20, <2>1, Fields DEF TreeType, Rest
<1>22. PICK z1 : z1 = WithChild(z0, "hRight", r, right)
  OBVIOUS
<1>23. /\ z1 \in TreeType /\ Rest(z0, z1) /\ z1.bf = z0.bf
       /\ z1.hParent = z0.hParent /\ z1.hHead = z0.hHead
       /\ \A g \in Side, k \in Cell :
            z1.child[g][k] = IF g = "hRight" /\ k = r THEN right ELSE z0.child[g][k]
  <2>1. z0 \in TreeType /\ "hRight" \in Side /\ r \in Cell /\ right \in Link
    BY <1>5, <1>6, <1>21
  <2>2. /\ z1 \in TreeType /\ Rest(z0, z1) /\ z1.bf = z0.bf
        /\ z1.hParent = z0.hParent /\ z1.hHead = z0.hHead
        /\ \A g \in Side, k \in Cell :
             z1.child[g][k] = IF g = "hRight" /\ k = r THEN right ELSE z0.child[g][k]
    BY <1>22, <2>1, SetChild
  <2> QED
    BY <2>2
<1>24. u = SetParent(z1, right, r)
  <2>1. z1 = [w EXCEPT !.bf[r] = b, !.child["hRight"][r] = right]
    BY <1>20, <1>22 DEF WithChild
  <2> QED
    BY <1>1, <1>2, <1>7, <1>8, <1>11, <1>12, <1>15, <1>16, <1>19, <2>1 DEF Moved, WithChild
<1>25. /\ u \in TreeType /\ Rest(z1, u) /\ u.bf = z1.bf
       /\ u.child = z1.child /\ u.hHead = z1.hHead
       /\ \A k \in Cell : u.hParent[k] = IF k = right THEN r ELSE z1.hParent[k]
  <2>1. z1 \in TreeType /\ right \in Link /\ r \in Link
    BY <1>6, <1>23
  <2> QED
    BY <1>24, <2>1, SetPar
<1>26. Rest(t, u) /\ u.hHead = (IF q = Nil THEN r ELSE t.hHead) /\ u.bf = [t.bf EXCEPT ![r] = b]
  BY <1>10, <1>13, <1>18, <1>21, <1>23, <1>25 DEF Rest
<1>27. \A h \in Cell : u.hParent[h] = IF h = r THEN q
                                      ELSE IF h = left \/ h = right THEN r
                                      ELSE IF h = below /\ up # p THEN up ELSE t.hParent[h]
  <2> SUFFICES ASSUME NEW h \in Cell
               PROVE u.hParent[h] = IF h = r THEN q
                                      ELSE IF h = left \/ h = right THEN r
                                      ELSE IF h = below /\ up # p THEN up ELSE t.hParent[h]
    OBVIOUS
  <2>1. u.hParent[h] = IF h = right THEN r ELSE IF up # p /\ h = left THEN r
                       ELSE IF h = r THEN q ELSE IF up # p /\ h = below THEN up ELSE t.hParent[h]
    BY <1>10, <1>13, <1>18, <1>21, <1>23, <1>25
  <2> QED
    BY <1>3, <2>1
<1>28. \A g \in Side, h \in Cell :
          u.child[g][h] = IF h = r THEN IF g = "hRight" THEN right ELSE IF up = p THEN below ELSE left
                          ELSE IF h = q /\ t.child[g][h] = p THEN r
                          ELSE IF h = up /\ up # p /\ g = "hRight" THEN below
                          ELSE t.child[g][h]
  <2> SUFFICES ASSUME NEW g \in Side, NEW h \in Cell
               PROVE u.child[g][h] = IF h = r THEN IF g = "hRight" THEN right ELSE IF up = p THEN below ELSE left
                          ELSE IF h = q /\ t.child[g][h] = p THEN r
                          ELSE IF h = up /\ up # p /\ g = "hRight" THEN below
                          ELSE t.child[g][h]
    OBVIOUS
  <2>1. u.child[g][h] = IF g = "hRight" /\ h = r THEN right
                        ELSE IF up # p /\ g = "hLeft" /\ h = r THEN left
                        ELSE IF h = q /\ t.child[g][h] = p THEN r
                        ELSE IF up # p /\ g = "hRight" /\ h = up THEN below ELSE t.child[g][h]
    BY <1>10, <1>14, <1>18, <1>21, <1>23, <1>25
  <2> QED
    BY <1>1, <1>3, <1>5, <2>1
<1> QED
  BY <1>1, <1>19, <1>25, <1>26, <1>27, <1>28 DEF MovedTo

\* A tree depends on its links at its nodes only.
LEMMA ShapeSame ==
  ASSUME NEW S, NEW root, NEW child, NEW par, NEW data, NEW lo, NEW hi,
         Shape(S, root, child, par, data, lo, hi), NEW child2, NEW par2,
         \A h \in S : par2[h] = par[h] /\ \A g \in Side : child2[g][h] = child[g][h]
  PROVE  Shape(S, root, child2, par2, data, lo, hi)
<1>1. /\ Kids(S, child, par, data, lo, hi) /\ Parents(S, root, child, par)
      /\ Root(S, root, par, lo, hi)
  BY DEF Shape
<1>2. Kids(S, child2, par2, data, lo, hi)
  <2> SUFFICES ASSUME NEW h \in S, NEW f \in Side PROVE Kid(S, child2, par2, data, lo, hi, f, h)
    BY DEF Kids
  <2>1. Kid(S, child, par, data, lo, hi, f, h)
    BY <1>1 DEF Kids
  <2> QED
    BY <2>1 DEF Kid
<1>3. Parents(S, root, child2, par2)
  <2> SUFFICES ASSUME NEW h \in S
               PROVE  \/ par2[h] = Nil /\ root = h
                      \/ par2[h] \in S /\ \E f \in Side : child2[f][par2[h]] = h
    BY DEF Parents
  <2> QED
    BY <1>1 DEF Parents
<1>4. Root(S, root, par2, lo, hi)
  BY <1>1 DEF Root
<1> QED
  BY <1>2, <1>3, <1>4 DEF Shape

\* The bounds after r has taken the place of p.
LoMoved(t, lo, p, r) == BoundPut(t.data, LoCut(t.data, lo, r), p, r)
HiMoved(t, hi, p, r) == BoundPut(t.data, HiCut(t.data, hi, r), p, r)

LEMMA MovedShape ==
  ASSUME NEW t, NEW S, NEW lo, NEW hi, NEW ht, NEW p, NEW r, NEW q, NEW s, NEW up,
         NEW left, NEW right, Twin(t, S, lo, hi, ht, p, r, q, s, up, left, right),
         NEW u, u = Moved(t, p, r)
  PROVE  Tree(u, S \ {p}, LoMoved(t, lo, p, r), HiMoved(t, hi, p, r))
<1>1. PICK below : below = t.child["hLeft"][r]
  OBVIOUS
<1>2. /\ AVL(t, S, lo, hi, ht) /\ p \in S /\ r \in S /\ t.child["hRight"][r] = Nil
      /\ left = t.child["hLeft"][p] /\ left \in S /\ right = t.child["hRight"][p] /\ right \in S
      /\ up = t.hParent[r] /\ q = t.hParent[p]
      /\ (r = left \/ (up \in S /\ t.child["hRight"][up] = r))
  BY DEF Twin
<1>3. /\ r # p /\ left # right /\ right # r /\ up \in S /\ up # r /\ up # q /\ q # p /\ q # r
      /\ (up = p) = (r = left) /\ (q = Nil \/ q \in S)
      /\ below = Nil \/ (/\ below \in S /\ t.hParent[below] = r
                         /\ below # p /\ below # r /\ below # left /\ below # right /\ below # up)
      /\ t.hParent[left] = p /\ t.hParent[right] = p
      /\ lo[p] < t.data[r] /\ t.data[r] < t.data[p]
      /\ \A g \in S \ {r} : ~(t.data[r] <= t.data[g] /\ t.data[g] < t.data[p])
  BY <1>1, TwinFacts DEF TwinLaws
<1>4. /\ t \in TreeType /\ Tree(t, S, lo, hi) /\ S \in SUBSET Cell /\ Nil \notin S
  BY <1>2, AVLFacts
<1>5. "hLeft" \in Side /\ "hRight" \in Side /\ Other("hLeft") = "hRight" /\ "hLeft" # "hRight"
      /\ \A g \in Side : g = "hLeft" \/ g = "hRight"
  BY DEF Side, Other
<1>6. /\ u \in TreeType /\ Rest(t, u) /\ u.hHead = (IF q = Nil THEN r ELSE t.hHead)
      /\ \A h \in Cell : u.hParent[h] = IF h = r THEN q
                                        ELSE IF h = left \/ h = right THEN r
                                        ELSE IF h = below /\ up # p THEN up ELSE t.hParent[h]
      /\ \A g \in Side, h \in Cell :
           u.child[g][h] = IF h = r THEN IF g = "hRight" THEN right ELSE IF up = p THEN below ELSE left
                           ELSE IF h = q /\ t.child[g][h] = p THEN r
                           ELSE IF h = up /\ up # p /\ g = "hRight" THEN below
                           ELSE t.child[g][h]
  <2>1. MovedTo(t, S, p, r, q, up, left, right, u)
    BY MovedIs
  <2> QED
    BY <1>1, <2>1 DEF MovedTo
<1>7. Links(t.child, t.hParent) /\ Shape(S, t.hHead, t.child, t.hParent, t.data, lo, hi)
  BY <1>4, Fields DEF Links, Tree
<1>8. Cut(S, t.hHead, t.child, t.hParent, t.data, lo, hi, r, "hLeft", below)
  BY <1>1, <1>2, <1>5, <1>7 DEF Cut
<1>10. PICK lo1 : lo1 = LoCut(t.data, lo, r)
  OBVIOUS
<1>11. PICK hi1 : hi1 = HiCut(t.data, hi, r)
  OBVIOUS
<1>12. PICK child1 : child1 = ChildCut(t.child, t.hParent, r, below)
  OBVIOUS
<1>13. PICK par1 : par1 = ParCut(t.hParent, r, below)
  OBVIOUS
<1>14. RootCut(t.hHead, t.hParent, r, below) = t.hHead
  BY <1>2, <1>3, <1>4 DEF RootCut
<1>15. Shape(S \ {r}, t.hHead, child1, par1, t.data, lo1, hi1)
  BY <1>8, <1>10, <1>11, <1>12, <1>13, <1>14, CutShape
<1>16. p \in Cell /\ r \in Cell /\ up \in Cell /\ left \in Cell /\ right \in Cell
  BY <1>2, <1>3, <1>4
<1>17. /\ \A h \in Cell : par1[h] = IF h = below THEN up ELSE t.hParent[h]
       /\ \A g \in Side, h \in Cell : child1[g][h] = IF h = up /\ t.child[g][h] = r THEN below ELSE t.child[g][h]
  BY <1>2, <1>12, <1>13 DEF ParCut, ChildCut
<1>18. Links(child1, par1)
  <2>1. below \in Link /\ up \in Link /\ t.child \in [Side -> [Cell -> Link]] /\ t.hParent \in [Cell -> Link]
    BY <1>1, <1>4, <1>5, <1>16, Fields DEF Link
  <2>2. child1 \in [Side -> [Cell -> Link]]
    BY <1>12, <2>1 DEF ChildCut
  <2>3. par1 \in [Cell -> Link]
    BY <1>2, <1>13, <2>1 DEF ParCut
  <2> QED
    BY <2>2, <2>3 DEF Links
<1>19. lo1[p] = lo[p]
  <2>1. lo1[p] = IF lo[p] = t.data[r] THEN lo[r] ELSE lo[p]
    BY <1>10, <1>16 DEF LoCut
  <2>2. lo[p] \in Int /\ t.data[r] \in Int
    BY <1>2, AVLFacts
  <2> QED
    BY <1>3, <2>1, <2>2
<1>20. Put(S \ {r}, t.hHead, child1, par1, t.data, lo1, hi1, p, r)
  <2>1. p \in S \ {r} /\ r \in Cell \ (S \ {r}) /\ lo1[p] < t.data[r] /\ t.data[r] < t.data[p]
        /\ \A g \in S \ {r} : ~(t.data[r] <= t.data[g] /\ t.data[g] < t.data[p])
    BY <1>2, <1>3, <1>16, <1>19
  <2> QED
    BY <1>15, <1>18, <2>1 DEF Put
<1>21. Shape(((S \ {r}) \ {p}) \cup {r}, RootPut(t.hHead, par1, p, r), ChildPut(child1, par1, p, r),
             ParPut(child1, par1, p, r), t.data, BoundPut(t.data, lo1, p, r), BoundPut(t.data, hi1, p, r))
  BY <1>20, PutShape
<1>22. ((S \ {r}) \ {p}) \cup {r} = S \ {p}
  BY <1>2, <1>3
<1>23. par1[p] = q
  BY <1>2, <1>3, <1>4, <1>16, <1>17
<1>24. RootPut(t.hHead, par1, p, r) = u.hHead
  BY <1>6, <1>23 DEF RootPut
<1>25. \A g \in Side, h \in S : t.child[g][h] = r => h = up /\ g = IF up = p THEN "hLeft" ELSE "hRight"
  <2>1. \E k \in Side : t.child[k][up] = r /\ k = IF up = p THEN "hLeft" ELSE "hRight"
    BY <1>2, <1>3, <1>5
  <2> QED
    BY <1>2, <1>3, <1>4, <2>1, OneParent
<1>26. child1["hRight"][p] = right /\ child1["hLeft"][p] = IF up = p THEN below ELSE left
  BY <1>2, <1>3, <1>5, <1>16, <1>17
<1>27. ASSUME NEW h \in S \ {p}
       PROVE  /\ u.hParent[h] = ParPut(child1, par1, p, r)[h]
              /\ \A g \in Side : u.child[g][h] = ChildPut(child1, par1, p, r)[g][h]
  <2>1. h \in Cell /\ h # p
    BY <1>4
  <2>2. ParPut(child1, par1, p, r)[h] =
          IF h = r THEN q ELSE IF h = right \/ (up = p /\ h = below) \/ (up # p /\ h = left) THEN r
          ELSE par1[h]
    BY <1>23, <1>26, <2>1 DEF ParPut
  <2>3. u.hParent[h] = ParPut(child1, par1, p, r)[h]
    <3>1. par1[h] = IF h = below THEN up ELSE t.hParent[h]
      BY <1>17, <2>1
    <3>2. u.hParent[h] = IF h = r THEN q ELSE IF h = left \/ h = right THEN r
                         ELSE IF h = below /\ up # p THEN up ELSE t.hParent[h]
      BY <1>6, <2>1
    <3>3. up = p => (h = left) = (h = r)
      BY <1>3
    <3>4. h = below => h # r /\ h # left /\ h # right /\ t.hParent[h] = r
      BY <1>3, <1>4
    <3> QED
      BY <2>2, <3>1, <3>2, <3>3, <3>4
  <2>4. ASSUME NEW g \in Side
        PROVE  u.child[g][h] = ChildPut(child1, par1, p, r)[g][h]
    <3>1. ChildPut(child1, par1, p, r)[g][h] =
            IF h = r THEN child1[g][p] ELSE IF h = q /\ child1[g][h] = p THEN r ELSE child1[g][h]
      BY <1>23, <2>1 DEF ChildPut
    <3>2. CASE h = r
      BY <1>5, <1>6, <1>26, <2>1, <3>1, <3>2
    <3>3. CASE h = q
      BY <1>3, <1>6, <1>17, <2>1, <3>1, <3>3
    <3>4. CASE h = up
      <4>1. up # p /\ up # r /\ t.child["hRight"][up] = r
        BY <1>2, <1>3, <2>1, <3>4
      <4>2. t.child[g][up] = r <=> g = "hRight"
        BY <1>2, <1>3, <1>25, <4>1
      <4> QED
        BY <1>3, <1>6, <1>17, <2>1, <3>1, <3>4, <4>1, <4>2
    <3>5. CASE h # r /\ h # q /\ h # up
      BY <1>6, <1>17, <2>1, <3>1, <3>5
    <3> QED
      BY <3>2, <3>3, <3>4, <3>5
  <2> QED
    BY <2>3, <2>4
<1>28. Shape(S \ {p}, u.hHead, ChildPut(child1, par1, p, r), ParPut(child1, par1, p, r), t.data,
             LoMoved(t, lo, p, r), HiMoved(t, hi, p, r))
  BY <1>10, <1>11, <1>21, <1>22, <1>24 DEF LoMoved, HiMoved
<1>29. Shape(S \ {p}, u.hHead, u.child, u.hParent, t.data, LoMoved(t, lo, p, r), HiMoved(t, hi, p, r))
  BY <1>27, <1>28, ShapeSame
<1> QED
  BY <1>6, <1>29 DEF Tree, Rest

\* The facts about the move that the next lemmas need.
MoveLaws(t, S, lo, hi, ht, p, r, q, s, up, left, right, below, u, child1, s1) ==
  /\ t \in TreeType /\ Tree(t, S, lo, hi) /\ S \in SUBSET Cell /\ Nil \notin S /\ Nil \notin Cell
  /\ p \in S /\ r \in S /\ left \in S /\ right \in S /\ up \in S /\ below = t.child["hLeft"][r]
  /\ t.hParent[r] = up
  /\ r # p /\ left # right /\ right # r /\ up # r /\ up # q /\ q # p /\ q # r
  /\ (up = p) = (r = left) /\ (q = Nil \/ q \in S) /\ left # p /\ right # p
  /\ below = Nil \/ (below \in S /\ below # p /\ below # r)
  /\ s1 = (IF up = p THEN "hLeft" ELSE "hRight")
  /\ \A g \in Side, h \in S : t.child[g][h] = r <=> h = up /\ g = s1
  /\ \A g \in Side, h \in S : t.child[g][h] = p => h = q /\ g = s
  /\ (q # Nil => t.child[s][q] = p)
  /\ child1 = ChildCut(t.child, t.hParent, r, below)
  /\ \A g \in Side, h \in S : child1[g][h] = IF h = up /\ g = s1 THEN below ELSE t.child[g][h]
  /\ u \in TreeType /\ Rest(t, u) /\ u.bf = [t.bf EXCEPT ![r] = t.bf[p]]
  /\ u.hHead = (IF q = Nil THEN r ELSE t.hHead)
  /\ \A g \in Side, h \in S \ {p, r} :
       u.child[g][h] = IF h = q /\ g = s THEN r ELSE child1[g][h]
  /\ \A g \in Side : u.child[g][r] = child1[g][p]
  /\ \A h \in Cell : u.hParent[h] = IF h = r THEN q
                                    ELSE IF h = left \/ h = right THEN r
                                    ELSE IF h = below /\ up # p THEN up ELSE t.hParent[h]
  /\ \A g \in Side, h \in Cell : h \notin S => u.child[g][h] = t.child[g][h]

LEMMA MoveFacts ==
  ASSUME NEW t, NEW S, NEW lo, NEW hi, NEW ht, NEW p, NEW r, NEW q, NEW s, NEW up,
         NEW left, NEW right, Twin(t, S, lo, hi, ht, p, r, q, s, up, left, right),
         NEW u, u = Moved(t, p, r)
  PROVE  \E below, child1, s1 :
           MoveLaws(t, S, lo, hi, ht, p, r, q, s, up, left, right, below, u, child1, s1)
<1>1. PICK below : below = t.child["hLeft"][r]
  OBVIOUS
<1>2. /\ AVL(t, S, lo, hi, ht) /\ p \in S /\ r \in S /\ t.child["hRight"][r] = Nil
      /\ left = t.child["hLeft"][p] /\ left \in S /\ right = t.child["hRight"][p] /\ right \in S
      /\ up = t.hParent[r] /\ q = t.hParent[p] /\ s \in Side /\ (q # Nil => t.child[s][q] = p)
      /\ (r = left \/ (up \in S /\ t.child["hRight"][up] = r))
  BY DEF Twin
<1>3. /\ r # p /\ left # right /\ right # r /\ up \in S /\ up # r /\ up # q /\ q # p /\ q # r
      /\ (up = p) = (r = left) /\ (q = Nil \/ q \in S)
      /\ below = Nil \/ (/\ below \in S /\ t.hParent[below] = r
                         /\ below # p /\ below # r /\ below # left /\ below # right /\ below # up)
      /\ t.hParent[left] = p /\ t.hParent[right] = p
  BY <1>1, TwinFacts DEF TwinLaws
<1>4. /\ t \in TreeType /\ Tree(t, S, lo, hi) /\ S \in SUBSET Cell /\ Nil \notin S /\ Nil \notin Cell
  BY <1>2, AVLFacts DEF Cell, Nil
<1>5. "hLeft" \in Side /\ "hRight" \in Side /\ "hLeft" # "hRight"
      /\ \A g \in Side : g = "hLeft" \/ g = "hRight"
  BY DEF Side
<1>6. /\ u \in TreeType /\ Rest(t, u) /\ u.hHead = (IF q = Nil THEN r ELSE t.hHead)
      /\ u.bf = [t.bf EXCEPT ![r] = t.bf[p]]
      /\ \A h \in Cell : u.hParent[h] = IF h = r THEN q
                                        ELSE IF h = left \/ h = right THEN r
                                        ELSE IF h = below /\ up # p THEN up ELSE t.hParent[h]
      /\ \A g \in Side, h \in Cell :
           u.child[g][h] = IF h = r THEN IF g = "hRight" THEN right ELSE IF up = p THEN below ELSE left
                           ELSE IF h = q /\ t.child[g][h] = p THEN r
                           ELSE IF h = up /\ up # p /\ g = "hRight" THEN below
                           ELSE t.child[g][h]
  <2>1. MovedTo(t, S, p, r, q, up, left, right, u)
    BY MovedIs
  <2> QED
    BY <1>1, <2>1 DEF MovedTo
<1>7. PICK child1 : child1 = ChildCut(t.child, t.hParent, r, below)
  OBVIOUS
<1>8. PICK s1 : s1 = IF up = p THEN "hLeft" ELSE "hRight"
  OBVIOUS
<1>9. s1 \in Side /\ t.child[s1][up] = r
  BY <1>2, <1>3, <1>5, <1>8
<1>10. \A g \in Side, h \in S : t.child[g][h] = r <=> h = up /\ g = s1
  BY <1>2, <1>3, <1>4, <1>9, OneParent
<1>11. \A g \in Side, h \in S : t.child[g][h] = p => h = q /\ g = s
  <2> SUFFICES ASSUME NEW g \in Side, NEW h \in S, t.child[g][h] = p PROVE h = q /\ g = s
    OBVIOUS
  <2>1. h = q
    BY <1>2, <1>4, OneParent
  <2>2. t.child[s][q] = p
    BY <1>2, <1>4, <2>1
  <2> QED
    BY <1>2, <1>4, <2>1, <2>2, OneParent
<1>12. \A g \in Side, h \in S : child1[g][h] = IF h = up /\ g = s1 THEN below ELSE t.child[g][h]
  <2> SUFFICES ASSUME NEW g \in Side, NEW h \in S
               PROVE  child1[g][h] = IF h = up /\ g = s1 THEN below ELSE t.child[g][h]
    OBVIOUS
  <2>1. child1[g][h] = IF h = up /\ t.child[g][h] = r THEN below ELSE t.child[g][h]
    BY <1>2, <1>4, <1>7 DEF ChildCut
  <2> QED
    BY <1>10, <2>1
<1>13. left # p /\ right # p
  BY <1>2, <1>4, <1>5, OneParent
<1>14. \A g \in Side, h \in S \ {p, r} :
          u.child[g][h] = IF h = q /\ g = s THEN r ELSE child1[g][h]
  <2> SUFFICES ASSUME NEW g \in Side, NEW h \in S, h # r, h # p
               PROVE  u.child[g][h] = IF h = q /\ g = s THEN r ELSE child1[g][h]
    OBVIOUS
  <2>1. u.child[g][h] = IF h = q /\ t.child[g][h] = p THEN r
                        ELSE IF h = up /\ up # p /\ g = "hRight" THEN below ELSE t.child[g][h]
    BY <1>4, <1>6
  <2>2. h = q /\ t.child[g][h] = p <=> h = q /\ g = s
    BY <1>2, <1>4, <1>11
  <2>3. child1[g][h] = IF h = up /\ g = s1 THEN below ELSE t.child[g][h]
    BY <1>12
  <2>4. CASE up # p
    BY <1>8, <2>1, <2>2, <2>3, <2>4
  <2>5. CASE up = p
    <3>1. CASE h = q
      BY <1>3, <2>1, <2>2, <2>3, <2>5, <3>1
    <3>2. CASE h # q /\ h # p
      BY <2>1, <2>3, <2>5, <3>2
    <3> QED
      BY <3>1, <3>2
  <2> QED
    BY <2>4, <2>5
<1>15. \A g \in Side : u.child[g][r] = child1[g][p]
  <2> SUFFICES ASSUME NEW g \in Side PROVE u.child[g][r] = child1[g][p]
    OBVIOUS
  <2>1. u.child[g][r] = IF g = "hRight" THEN right ELSE IF up = p THEN below ELSE left
    BY <1>2, <1>4, <1>6
  <2>2. child1[g][p] = IF p = up /\ g = s1 THEN below ELSE t.child[g][p]
    BY <1>2, <1>12
  <2> QED
    BY <1>2, <1>5, <1>8, <2>1, <2>2
<1>16. \A g \in Side, h \in Cell : h \notin S => u.child[g][h] = t.child[g][h]
  <2> SUFFICES ASSUME NEW g \in Side, NEW h \in Cell, h \notin S PROVE u.child[g][h] = t.child[g][h]
    OBVIOUS
  <2>1. h # r /\ h # q /\ h # up
    BY <1>2, <1>3, <1>4
  <2> QED
    BY <1>6, <2>1
<1>17. /\ p \in S /\ r \in S /\ left \in S /\ right \in S /\ up \in S /\ below = t.child["hLeft"][r]
       /\ t.hParent[r] = up /\ (q # Nil => t.child[s][q] = p)
  BY <1>1, <1>2, <1>3
<1>18. /\ r # p /\ left # right /\ right # r /\ up # r /\ up # q /\ q # p /\ q # r
       /\ (up = p) = (r = left) /\ (q = Nil \/ q \in S)
       /\ below = Nil \/ (below \in S /\ below # p /\ below # r)
  BY <1>3
<1>19. MoveLaws(t, S, lo, hi, ht, p, r, q, s, up, left, right, below, u, child1, s1)
  BY <1>4, <1>6, <1>7, <1>8, <1>10, <1>11, <1>12, <1>13, <1>14, <1>15, <1>16, <1>17, <1>18, Zenon
     DEF MoveLaws
<1> QED
  BY <1>19


\* The heights after the move: r has p's, and only the place r came from has
\* become lower.
HtMoved(ht, p, r) == [ht EXCEPT ![r] = ht[p]]
Seat(p, r, up) == IF up = p THEN r ELSE up
SeatSide(p, up) == IF up = p THEN "hLeft" ELSE "hRight"

LEMMA MovedEven ==
  ASSUME NEW t, NEW S, NEW lo, NEW hi, NEW ht, NEW p, NEW r, NEW q, NEW s, NEW up,
         NEW left, NEW right, Twin(t, S, lo, hi, ht, p, r, q, s, up, left, right),
         NEW u, u = Moved(t, p, r), NEW below, below = t.child["hLeft"][r]
  PROVE  /\ Even(S \ {p}, u.child, u.bf, HtMoved(ht, p, r), Seat(p, r, up), SeatSide(p, up), ht[r])
         /\ OneMore(ht, r, below) /\ below # r
         /\ Hangs(u, Seat(p, r, up), SeatSide(p, up), below)
<1>1. PICK b, child1, s1 : MoveLaws(t, S, lo, hi, ht, p, r, q, s, up, left, right, b, u, child1, s1)
  BY MoveFacts
<1>2. /\ t \in TreeType /\ S \in SUBSET Cell /\ Nil \notin S
      /\ p \in S /\ r \in S /\ up \in S /\ b = below
      /\ r # p /\ up # r /\ up # q /\ q # p /\ q # r
      /\ (q = Nil \/ q \in S) /\ below # r
      /\ s1 = (IF up = p THEN "hLeft" ELSE "hRight")
      /\ \A g \in Side, h \in S : t.child[g][h] = r <=> h = up /\ g = s1
      /\ \A g \in Side, h \in S : t.child[g][h] = p => h = q /\ g = s
      /\ (q # Nil => t.child[s][q] = p)
      /\ child1 = ChildCut(t.child, t.hParent, r, below)
      /\ \A g \in Side, h \in S : child1[g][h] = IF h = up /\ g = s1 THEN below ELSE t.child[g][h]
      /\ u.bf = [t.bf EXCEPT ![r] = t.bf[p]]
      /\ \A g \in Side, h \in S \ {p, r} :
           u.child[g][h] = IF h = q /\ g = s THEN r ELSE child1[g][h]
      /\ \A g \in Side : u.child[g][r] = child1[g][p]
  BY <1>1 DEF MoveLaws, Nil
<1>3. /\ AVL(t, S, lo, hi, ht) /\ up = t.hParent[r] /\ t.child["hRight"][r] = Nil /\ s \in Side
  BY DEF Twin
<1>4. s1 \in Side /\ t.child[s1][up] = r /\ Other("hLeft") = "hRight" /\ "hLeft" \in Side
  BY <1>2 DEF Side, Other
<1>5. Single(t, S, lo, hi, ht, r, "hLeft", below, up, s1)
  BY <1>2, <1>3, <1>4 DEF Single
<1>6. Even(S \ {r}, child1, t.bf, ht, up, s1, ht[r]) /\ OneMore(ht, r, below)
  BY <1>2, <1>5, CutEven
<1>7. PICK ht2 : ht2 = HtMoved(ht, p, r)
  OBVIOUS
<1>8. ht \in [Link -> Nat] /\ ht[Nil] = 0 /\ S \subseteq Link /\ Nil \in Link
  BY <1>3, AVLFacts DEF Link
<1>9. /\ ht2 \in [Link -> Nat] /\ ht2[Nil] = 0 /\ ht2[r] = ht[p]
      /\ \A h \in Link : h # r => ht2[h] = ht[h]
  BY <1>2, <1>7, <1>8 DEF HtMoved
<1>10. PICK up2 : up2 = Seat(p, r, up)
  OBVIOUS
<1>11. s1 = SeatSide(p, up)
  BY <1>2 DEF SeatSide
<1>12. \A g \in Side, h \in S : t.child[g][h] \in Link
  BY <1>2, Fields
<1>13. below \in Link
  BY <1>2, <1>4, <1>12
<1>14. \A g \in Side, h \in S : child1[g][h] \in Link /\ child1[g][h] # r
  BY <1>2, <1>12, <1>13
<1>15. ASSUME NEW h \in S \ {p}
       PROVE  EvenAt(u.child, u.bf, ht2, up2, s1, ht[r], h)
  <2>1. CASE h = r
    <3>1. EvenAt(child1, t.bf, ht, up, s1, ht[r], p)
      BY <1>2, <1>6 DEF Even
    <3>2. ASSUME NEW g \in Side
          PROVE  Tall(u.child, ht2, up2, s1, ht[r], g, r) = Tall(child1, ht, up, s1, ht[r], g, p)
      <4>1. u.child[g][r] = child1[g][p] /\ ht2[u.child[g][r]] = ht[child1[g][p]]
        BY <1>2, <1>9, <1>14
      <4>2. (r = up2) = (p = up)
        BY <1>2, <1>10 DEF Seat
      <4> QED
        BY <4>1, <4>2 DEF Tall
    <3>3. u.bf[r] = t.bf[p] /\ ht2[r] = ht[p]
      BY <1>2, <1>9, Fields
    <3> QED
      BY <2>1, <3>1, <3>2, <3>3, Sides DEF EvenAt
  <2>2. CASE h # r
    <3>1. EvenAt(child1, t.bf, ht, up, s1, ht[r], h)
      BY <1>6, <2>2 DEF Even
    <3>2. (h = up2) = (h = up)
      BY <1>2, <1>10, <2>2 DEF Seat
    <3>3. ASSUME NEW g \in Side
          PROVE  Tall(u.child, ht2, up2, s1, ht[r], g, h) = Tall(child1, ht, up, s1, ht[r], g, h)
      <4>1. CASE h = q /\ g = s
        <5>1. child1[g][h] = p /\ u.child[g][h] = r /\ h # up
          BY <1>2, <2>2, <4>1
        <5> QED
          BY <1>9, <3>2, <5>1 DEF Tall
      <4>2. CASE ~(h = q /\ g = s)
        <5>1. u.child[g][h] = child1[g][h]
          BY <1>2, <2>2, <4>2
        <5>2. ht2[u.child[g][h]] = ht[child1[g][h]]
          BY <1>9, <1>14, <5>1
        <5> QED
          BY <3>2, <5>2 DEF Tall
      <4> QED
        BY <4>1, <4>2
    <3>4. u.bf[h] = t.bf[h] /\ ht2[h] = ht[h]
      BY <1>2, <1>8, <1>9, <2>2, Fields
    <3> QED
      BY <3>1, <3>3, <3>4, Sides DEF EvenAt
  <2> QED
    BY <2>1, <2>2
<1>16. Even(S \ {p}, u.child, u.bf, ht2, up2, s1, ht[r])
  BY <1>9, <1>15 DEF Even
<1>17. Hangs(u, up2, s1, below)
  <2>1. CASE up = p
    <3>1. up2 = r /\ u.child[s1][r] = below
      BY <1>2, <1>4, <1>10, <2>1 DEF Seat
    <3> QED
      BY <1>2, <3>1 DEF Hangs
  <2>2. CASE up # p
    <3>1. up2 = up /\ u.child[s1][up] = below
      BY <1>2, <1>4, <1>10, <2>2 DEF Seat
    <3> QED
      BY <1>2, <3>1 DEF Hangs
  <2> QED
    BY <2>1, <2>2
<1> QED
  BY <1>2, <1>6, <1>7, <1>10, <1>11, <1>16, <1>17

\* The bounds after the move.
LEMMA MovedBounds ==
  ASSUME NEW t, NEW S, NEW lo, NEW hi, NEW ht, NEW p, NEW r, NEW q, NEW s, NEW up,
         NEW left, NEW right, Twin(t, S, lo, hi, ht, p, r, q, s, up, left, right),
         NEW lo2, lo2 = LoMoved(t, lo, p, r), NEW hi2, hi2 = HiMoved(t, hi, p, r)
  PROVE  /\ lo2[r] = lo[p] /\ hi2[r] = hi[p]
         /\ \A h \in S \ {p, r} : lo[p] <= lo[h] /\ hi[h] = t.data[p] =>
              lo2[h] = lo[h] /\ hi2[h] = t.data[r]
         /\ \A h \in S : ~(lo[p] < t.data[h] /\ t.data[h] < hi[p]) => lo2[h] = lo[h] /\ hi2[h] = hi[h]
<1>1. /\ AVL(t, S, lo, hi, ht) /\ p \in S /\ r \in S /\ hi[r] = t.data[p]
  BY DEF Twin
<1>2. /\ r # p /\ lo[p] < t.data[r] /\ t.data[r] < t.data[p]
      /\ \A g \in S \ {r} : ~(t.data[r] <= t.data[g] /\ t.data[g] < t.data[p])
  BY TwinFacts DEF TwinLaws
<1>3. /\ t \in TreeType /\ Tree(t, S, lo, hi) /\ S \in SUBSET Cell /\ Nil \notin S
      /\ \A h \in S : /\ lo[h] \in Int /\ hi[h] \in Int /\ t.data[h] \in Int
                      /\ lo[h] < t.data[h] /\ t.data[h] < hi[h]
  BY <1>1, AVLFacts
<1>4. PICK lo1 : lo1 = LoCut(t.data, lo, r)
  OBVIOUS
<1>5. PICK hi1 : hi1 = HiCut(t.data, hi, r)
  OBVIOUS
<1>6. \A h \in Cell : /\ lo1[h] = (IF lo[h] = t.data[r] THEN lo[r] ELSE lo[h])
                      /\ hi1[h] = (IF hi[h] = t.data[r] THEN hi[r] ELSE hi[h])
  BY <1>4, <1>5 DEF LoCut, HiCut
<1>7. \A h \in Cell : /\ lo2[h] = Shift(t.data, p, r, lo1[Old(p, r, h)])
                      /\ hi2[h] = Shift(t.data, p, r, hi1[Old(p, r, h)])
  BY <1>4, <1>5 DEF LoMoved, HiMoved, BoundPut
<1>8. lo2[r] = lo[p] /\ hi2[r] = hi[p]
  <2>1. lo1[p] = lo[p] /\ hi1[p] = hi[p]
    BY <1>1, <1>2, <1>3, <1>6
  <2>2. lo2[r] = Shift(t.data, p, r, lo1[p]) /\ hi2[r] = Shift(t.data, p, r, hi1[p])
    BY <1>1, <1>3, <1>7 DEF Old
  <2> QED
    BY <1>1, <1>2, <1>3, <2>1, <2>2 DEF Shift
<1>9. ASSUME NEW h \in S \ {p, r}, lo[p] <= lo[h], hi[h] = t.data[p]
      PROVE  lo2[h] = lo[h] /\ hi2[h] = t.data[r]
  <2>1. /\ lo[h] \in Int /\ hi[h] \in Int /\ t.data[h] \in Int
        /\ lo[h] < t.data[h] /\ t.data[h] < hi[h]
        /\ lo[p] \in Int /\ hi[p] \in Int /\ t.data[p] \in Int
        /\ lo[r] \in Int /\ hi[r] \in Int /\ t.data[r] \in Int
        /\ lo[r] < t.data[r] /\ t.data[r] < hi[r]
        /\ t.data[p] < hi[p] /\ lo[p] < t.data[p]
    BY <1>1, <1>3
  <2>2. t.data[h] < t.data[r]
    BY <1>2, <1>9, <2>1
  <2>3. lo1[h] = lo[h] /\ hi1[h] = hi[h]
    BY <1>2, <1>3, <1>6, <1>9, <2>1, <2>2
  <2>4. lo2[h] = Shift(t.data, p, r, lo[h]) /\ hi2[h] = Shift(t.data, p, r, hi[h])
    BY <1>3, <1>7, <2>3 DEF Old
  <2> QED
    BY <1>2, <1>9, <2>1, <2>2, <2>4 DEF Shift
<1>10. ASSUME NEW h \in S, ~(lo[p] < t.data[h] /\ t.data[h] < hi[p])
       PROVE  lo2[h] = lo[h] /\ hi2[h] = hi[h]
  <2>1. /\ lo[h] <= lo[p] \/ hi[p] <= lo[h]
        /\ hi[h] <= lo[p] \/ hi[p] <= hi[h]
        /\ h # p
    <3>1. Numbers(S, t.data, lo, hi) /\ Between(S, t.data, lo, hi) /\ Nested(S, t.data, lo, hi)
      BY <1>3 DEF Tree, Shape
    <3> QED
      BY <1>1, <1>10, <3>1, BoundsOut
  <2>2. /\ lo[h] \in Int /\ hi[h] \in Int /\ t.data[h] \in Int
        /\ lo[h] < t.data[h] /\ t.data[h] < hi[h]
        /\ lo[p] \in Int /\ hi[p] \in Int /\ t.data[p] \in Int
        /\ lo[r] \in Int /\ hi[r] \in Int /\ t.data[r] \in Int
        /\ t.data[p] < hi[p] /\ lo[p] < t.data[p]
    BY <1>1, <1>3
  <2>3. h # r
    BY <1>1, <1>2, <1>10, <2>2
  <2>4. lo1[h] = lo[h] /\ hi1[h] = hi[h]
    BY <1>2, <1>3, <1>6, <2>1, <2>2
  <2>5. lo2[h] = Shift(t.data, p, r, lo[h]) /\ hi2[h] = Shift(t.data, p, r, hi[h])
    BY <1>3, <1>7, <2>3, <2>4 DEF Old
  <2> QED
    BY <1>2, <2>1, <2>2, <2>5 DEF Shift
<1> QED
  BY <1>8, <1>9, <1>10

\* Nothing changes outside the range of p.
Settled(t, S, lo, hi, ht, p, r, q, s, u) ==
  /\ Steady(S, t, lo, hi, ht, u, S \ {p}, LoMoved(t, lo, p, r), HiMoved(t, hi, p, r),
            HtMoved(ht, p, r), lo[p], hi[p])
  /\ Idle(S \cup (S \ {p}), t, u) /\ Rest(t, u) /\ u \in TreeType /\ u.hParent[r] = q
  /\ (q # Nil => u.child[s][q] = r)

LEMMA MovedSteady ==
  ASSUME NEW t, NEW S, NEW lo, NEW hi, NEW ht, NEW p, NEW r, NEW q, NEW s, NEW up,
         NEW left, NEW right, Twin(t, S, lo, hi, ht, p, r, q, s, up, left, right),
         NEW u, u = Moved(t, p, r)
  PROVE  Settled(t, S, lo, hi, ht, p, r, q, s, u)
<1>1. PICK below, child1, s1 : MoveLaws(t, S, lo, hi, ht, p, r, q, s, up, left, right, below, u, child1, s1)
  BY MoveFacts
<1>2. /\ t \in TreeType /\ Tree(t, S, lo, hi) /\ S \in SUBSET Cell /\ Nil \notin S
      /\ p \in S /\ r \in S /\ left \in S /\ right \in S /\ below = t.child["hLeft"][r]
      /\ q # p /\ q # r /\ (q = Nil \/ q \in S)
      /\ below = Nil \/ (below \in S /\ below # p /\ below # r)
      /\ u \in TreeType /\ Rest(t, u)
      /\ \A g \in Side, h \in S \ {p, r} :
           u.child[g][h] = IF h = q /\ g = s THEN r ELSE child1[g][h]
      /\ \A h \in Cell : u.hParent[h] = IF h = r THEN q
                                        ELSE IF h = left \/ h = right THEN r
                                        ELSE IF h = below /\ up # p THEN up ELSE t.hParent[h]
      /\ \A g \in Side, h \in Cell : h \notin S => u.child[g][h] = t.child[g][h]
  BY <1>1, Zenon DEF MoveLaws
<1>3. /\ AVL(t, S, lo, hi, ht) /\ left = t.child["hLeft"][p] /\ right = t.child["hRight"][p]
      /\ "hLeft" \in Side /\ "hRight" \in Side /\ s \in Side
  BY DEF Twin, Side
<1>4. \A h \in S : /\ lo[h] \in Int /\ hi[h] \in Int /\ t.data[h] \in Int
                   /\ lo[h] < t.data[h] /\ t.data[h] < hi[h]
  BY <1>3, AVLFacts
<1>5. /\ lo[p] < t.data[r] /\ t.data[r] < hi[p] /\ lo[p] <= lo[r] /\ hi[r] <= hi[p]
  <2>1. lo[p] < t.data[r] /\ t.data[r] < t.data[p] /\ lo[p] <= lo[r] /\ hi[r] = t.data[p]
    <3>1. TwinLaws(t, S, lo, hi, p, r, q, up, left, right)
      BY TwinFacts
    <3> QED
      BY <3>1 DEF TwinLaws, Twin
  <2> QED
    BY <1>2, <1>4, <2>1
<1>6. /\ lo[p] <= lo[left] /\ hi[left] <= hi[p] /\ lo[p] <= lo[right] /\ hi[right] <= hi[p]
  BY <1>2, <1>3, OneParent
<1>7. below # Nil => lo[r] <= lo[below] /\ hi[below] <= hi[r]
  BY <1>2, <1>3, OneParent
<1>8. ASSUME NEW h \in S, ~(lo[p] < t.data[h] /\ t.data[h] < hi[p])
      PROVE  h # p /\ h # r /\ h # left /\ h # right /\ h # below
  <2>1. h # p /\ h # r
    BY <1>2, <1>4, <1>5, <1>8
  <2>2. h # left /\ h # right
    BY <1>2, <1>4, <1>6, <1>8
  <2>3. h # below
    BY <1>2, <1>4, <1>5, <1>7, <1>8
  <2> QED
    BY <2>1, <2>2, <2>3
<1>9. PICK lo2 : lo2 = LoMoved(t, lo, p, r)
  OBVIOUS
<1>10. PICK hi2 : hi2 = HiMoved(t, hi, p, r)
  OBVIOUS
<1>11. PICK ht2 : ht2 = HtMoved(ht, p, r)
  OBVIOUS
<1>12. Steady(S, t, lo, hi, ht, u, S \ {p}, lo2, hi2, ht2, lo[p], hi[p])
  <2> SUFFICES ASSUME NEW g \in S, ~(lo[p] < t.data[g] /\ t.data[g] < hi[p])
               PROVE  /\ g \in S \ {p} /\ u.data[g] = t.data[g] /\ u.hParent[g] = t.hParent[g]
                      /\ lo2[g] = lo[g] /\ hi2[g] = hi[g] /\ ht2[g] = ht[g]
    BY DEF Steady
  <2>1. g # p /\ g # r /\ g # left /\ g # right /\ g # below /\ g \in Cell
    BY <1>2, <1>8
  <2>2. u.hParent[g] = t.hParent[g] /\ u.data[g] = t.data[g]
    BY <1>2, <2>1 DEF Rest
  <2>3. lo2[g] = lo[g] /\ hi2[g] = hi[g]
    BY <1>9, <1>10, MovedBounds
  <2>4. ht2[g] = ht[g]
    <3>1. ht \in [Link -> Nat] /\ g \in Link
      BY <1>3, AVLFacts
    <3> QED
      BY <1>11, <2>1, <3>1 DEF HtMoved
  <2> QED
    BY <2>1, <2>2, <2>3, <2>4
<1>13. Idle(S \cup (S \ {p}), t, u)
  <2> SUFFICES ASSUME NEW g \in Cell, g \notin S
               PROVE  u.hParent[g] = t.hParent[g] /\ \A k \in Side : u.child[k][g] = t.child[k][g]
    BY DEF Idle
  <2>1. g # r /\ g # left /\ g # right /\ g # below
    BY <1>2 DEF Cell, Nil
  <2> QED
    BY <1>2, <2>1
<1>14. u.hParent[r] = q /\ (q # Nil => u.child[s][q] = r)
  BY <1>2, <1>3
<1> QED
  BY <1>2, <1>9, <1>10, <1>11, <1>12, <1>13, <1>14 DEF Settled

-----------------------------------------------------------------------------
(* Recursive functions.  The ones of the model go down the tree, or along   *)
(* another order that ends, so there is a function that does what they say. *)

\* A set of numbers that is not empty has a least one.
LEMMA Least ==
  ASSUME NEW T \in SUBSET Nat, T # {}
  PROVE  \E x \in T : \A y \in T : x <= y
<1>1. PICK x \in T : \A y \in T : ~(<<y, x>> \in OpToRel(<, Nat))
  BY NatLessThanWellFounded, WFMin
<1>2. \A y \in T : ~(y < x)
  BY <1>1 DEF OpToRel
<1> QED
  BY <1>2

\* Induction along a measure m.
LEMMA Deep ==
  ASSUME NEW X, NEW m \in [X -> Nat], NEW T,
         \A x \in X : (\A y \in X : m[y] < m[x] => y \in T) => x \in T
  PROVE  X \subseteq T
<1> SUFFICES ASSUME X \ T # {} PROVE FALSE
  OBVIOUS
<1> DEFINE N == {m[x] : x \in X \ T}
<1>1. N \in SUBSET Nat /\ N # {}
  OBVIOUS
<1>2. PICK n \in N : \A k \in N : n <= k
  BY <1>1, Least
<1>3. PICK x \in X \ T : m[x] = n
  BY <1>2
<1>4. \A y \in X : m[y] < m[x] => y \in T
  <2> SUFFICES ASSUME NEW y \in X, m[y] < m[x], y \notin T PROVE FALSE
    OBVIOUS
  <2>1. m[y] \in N /\ m[y] \in Nat /\ m[x] \in Nat
    OBVIOUS
  <2>2. m[x] <= m[y]
    BY <1>2, <1>3, <2>1
  <2> QED
    BY <2>1, <2>2
<1> QED
  BY <1>3, <1>4

\* Induction, for a set of numbers.
LEMMA Inductive ==
  ASSUME NEW T, 0 \in T, \A n \in Nat : n \in T => n + 1 \in T
  PROVE  Nat \subseteq T
<1>1. PICK m : m = [n \in Nat |-> n]
  OBVIOUS
<1>2. m \in [Nat -> Nat] /\ \A n \in Nat : m[n] = n
  BY <1>1
<1>3. ASSUME NEW x \in Nat, \A y \in Nat : m[y] < m[x] => y \in T
      PROVE  x \in T
  <2>1. CASE x = 0
    BY <2>1
  <2>2. CASE x # 0
    <3>1. x - 1 \in Nat /\ m[x - 1] < m[x] /\ (x - 1) + 1 = x
      BY <1>2, <2>2
    <3> QED
      BY <1>3, <3>1
  <2> QED
    BY <2>1, <2>2
<1> QED
  BY <1>2, <1>3, Deep

\* What the recursive functions do at x, with F for themselves.
FarBody(t, f, F, x) == IF t.child[f][x] = Nil THEN x ELSE F[t.child[f][x]]

MostBody(t, p, F, x) ==
  LET next == t.child["hRight"][x]
  IN IF next = Nil THEN [tree |-> Moved(t, p, x), lower |-> TRUE] ELSE Shrunk(x, F[next], "hRight")

IntoBody(t, k, F, x) ==
  LET next == t.child[Toward(t.data[x], k)][x]
  IN IF t.data[x] = k THEN [tree |-> t, taller |-> FALSE, at |-> x]
     ELSE Grown(x, IF next = Nil THEN [tree |-> Linked(t, k, x), taller |-> TRUE, at |-> Position(t)]
                   ELSE F[next], k)

FromBody(t, k, F, x) ==
  LET d == t.data[x]
      f == Toward(d, k)
      a == Unlinked(t, x)
  IN CASE x = Nil -> [tree |-> t, lower |-> FALSE]
       [] x # Nil /\ d = k -> [a EXCEPT !.tree = Freed(a.tree, x)]
       [] OTHER -> Shrunk(x, F[t.child[f][x]], f)

BelowBody(t, F, x) ==
  IF x = Nil THEN {} ELSE {x} \cup F[t.child["hLeft"][x]] \cup F[t.child["hRight"][x]]

TallBody(t, F, x) ==
  IF x = Nil THEN 0 ELSE 1 + Higher2(F[t.child["hLeft"][x]], F[t.child["hRight"][x]])

DownBody(t, k, strict, F, x) ==
  IF x = Nil THEN Nil
  ELSE LET d == t.data[x]
           left == F[t.child["hLeft"][x]]
       IN CASE k < d -> IF left = Nil THEN x ELSE left
            [] d < k \/ (d = k /\ strict) -> F[t.child["hRight"][x]]
            [] OTHER -> x

UpBody(t, f, F, x) ==
  LET p == t.hParent[x] IN IF p # Nil /\ IsOn(t, p, f) THEN F[p] ELSE p

FilledBody(put, F, i) == IF i = 0 THEN Empty ELSE Inserted(F[i - 1], put[i]).tree

FreeBody(t, F, n) ==
  IF n = 0 THEN t.free_head ELSE IF F[n - 1] = Nil THEN Nil ELSE t.hParent[F[n - 1]]

PartBody(i, F, x) ==
  LET mid == (x.from + x.to) \div 2
  IN CASE i < mid -> F[[from |-> x.from, to |-> mid, hParent |-> mid]]
       [] i > mid -> F[[from |-> mid + 1, to |-> x.to, hParent |-> mid]]
       [] OTHER -> x

RoomBody(F, l) == IF l = 0 THEN 0 ELSE 2 * F[l - 1] + 1

Body(c, F, x) ==
  CASE c.kind = "far"  -> FarBody(c.t, c.f, F, x)
    [] c.kind = "most" -> MostBody(c.t, c.p, F, x)
    [] c.kind = "into" -> IntoBody(c.t, c.k, F, x)
    [] c.kind = "from" -> FromBody(c.t, c.k, F, x)
    [] c.kind = "below" -> BelowBody(c.t, F, x)
    [] c.kind = "tall" -> TallBody(c.t, F, x)
    [] c.kind = "down" -> DownBody(c.t, c.k, c.strict, F, x)
    [] c.kind = "up" -> UpBody(c.t, c.f, F, x)
    [] c.kind = "filled" -> FilledBody(c.put, F, x)
    [] c.kind = "free" -> FreeBody(c.t, F, x)
    [] c.kind = "part" -> PartBody(c.i, F, x)
    [] OTHER -> RoomBody(F, x)

\* It asks only for what comes before x.
Grounded(c, X, m) ==
  \A x \in X : \A F, G : (\A y \in X : m[y] < m[x] => F[y] = G[y]) => Body(c, F, x) = Body(c, G, x)

Good(c, X, m, n, F) == \A x \in X : m[x] < n => F[x] = Body(c, F, x)

LEMMA GoodSame ==
  ASSUME NEW c, NEW X, NEW m \in [X -> Nat], Grounded(c, X, m), NEW n \in Nat, NEW k \in Nat,
         NEW F, NEW G, Good(c, X, m, n, F), Good(c, X, m, k, G)
  PROVE  \A x \in X : m[x] < n /\ m[x] < k => F[x] = G[x]
<1> DEFINE T == {x \in X : m[x] < n /\ m[x] < k => F[x] = G[x]}
<1>1. ASSUME NEW x \in X, \A y \in X : m[y] < m[x] => y \in T PROVE x \in T
  <2> SUFFICES ASSUME m[x] < n, m[x] < k PROVE F[x] = G[x]
    OBVIOUS
  <2>1. ASSUME NEW y \in X, m[y] < m[x] PROVE F[y] = G[y]
    <3>1. m[y] \in Nat /\ m[x] \in Nat
      OBVIOUS
    <3>2. m[y] < n /\ m[y] < k
      BY <2>1, <3>1
    <3> QED
      BY <1>1, <2>1, <3>2
  <2>2. Body(c, F, x) = Body(c, G, x)
    BY <2>1 DEF Grounded
  <2> QED
    BY <2>2 DEF Good
<1> HIDE DEF T
<1>2. X \subseteq T
  BY <1>1, Deep
<1> QED
  BY <1>2 DEF T

LEMMA Approximated ==
  ASSUME NEW c, NEW X, NEW m \in [X -> Nat], Grounded(c, X, m), NEW n \in Nat
  PROVE  \E F : Good(c, X, m, n, F)
<1> DEFINE T == {k \in Nat : \E F : Good(c, X, m, k, F)}
<1>1. 0 \in T
  <2>1. \A x \in X : ~(m[x] < 0)
    OBVIOUS
  <2> QED
    BY <2>1 DEF Good
<1>2. ASSUME NEW k \in Nat, k \in T PROVE k + 1 \in T
  <2>1. PICK F : Good(c, X, m, k, F)
    BY <1>2
  <2>2. PICK G : G = [x \in X |-> Body(c, F, x)]
    OBVIOUS
  <2>3. \A x \in X : G[x] = Body(c, F, x)
    BY <2>2
  <2>4. ASSUME NEW x \in X, m[x] < k + 1 PROVE G[x] = Body(c, G, x)
    <3>1. ASSUME NEW y \in X, m[y] < m[x] PROVE F[y] = G[y]
      <4>1. m[y] \in Nat /\ m[x] \in Nat
        OBVIOUS
      <4>2. m[y] < k
        BY <2>4, <3>1, <4>1
      <4> QED
        BY <2>1, <2>3, <4>2 DEF Good
    <3>2. Body(c, F, x) = Body(c, G, x)
      BY <3>1 DEF Grounded
    <3> QED
      BY <2>3, <3>2
  <2>5. Good(c, X, m, k + 1, G)
    BY <2>4 DEF Good
  <2> QED
    BY <2>5
<1> HIDE DEF T
<1>3. Nat \subseteq T
  BY <1>1, <1>2, Inductive
<1> QED
  BY <1>3 DEF T

LEMMA Defined ==
  ASSUME NEW c, NEW X, NEW m \in [X -> Nat], Grounded(c, X, m)
  PROVE  \E F : F = [x \in X |-> Body(c, F, x)]
<1> DEFINE A(n) == CHOOSE F : Good(c, X, m, n, F)
<1>1. ASSUME NEW n \in Nat PROVE Good(c, X, m, n, A(n))
  BY <1>1, Approximated
<1>2. PICK H : H = [x \in X |-> A(m[x] + 1)[x]]
  OBVIOUS
<1>3. \A x \in X : H[x] = A(m[x] + 1)[x]
  BY <1>2
<1> HIDE DEF A
<1>4. ASSUME NEW x \in X PROVE H[x] = Body(c, H, x)
  <2>1. PICK F : F = A(m[x] + 1)
    OBVIOUS
  <2>2. m[x] \in Nat /\ m[x] + 1 \in Nat /\ m[x] < m[x] + 1
    OBVIOUS
  <2>3. Good(c, X, m, m[x] + 1, F)
    BY <1>1, <2>1, <2>2
  <2>4. ASSUME NEW y \in X, m[y] < m[x] PROVE F[y] = H[y]
    <3>1. m[y] \in Nat /\ m[y] + 1 \in Nat /\ m[y] < m[y] + 1 /\ m[y] < m[x] + 1
      BY <2>2, <2>4
    <3>2. Good(c, X, m, m[y] + 1, A(m[y] + 1))
      BY <1>1, <3>1
    <3>3. F[y] = A(m[y] + 1)[y]
      BY <2>2, <2>3, <3>1, <3>2, GoodSame
    <3> QED
      BY <1>3, <3>3
  <2>5. Body(c, F, x) = Body(c, H, x)
    BY <2>4 DEF Grounded
  <2>6. F[x] = Body(c, F, x)
    BY <2>2, <2>3 DEF Good
  <2> QED
    BY <1>3, <2>1, <2>5, <2>6
<1>5. H = [x \in X |-> Body(c, H, x)]
  BY <1>2, <1>4
<1> QED
  BY <1>5

\* Cells that are not nodes have no children.
Bare(t, S) == \A h \in Cell \ S, f \in Side : t.child[f][h] = Nil

\* The heights are a measure for the way down.
LEMMA Falls ==
  ASSUME NEW t, NEW S, NEW lo, NEW hi, NEW ht, AVL(t, S, lo, hi, ht)
  PROVE  \A h \in S, f \in Side : ht[t.child[f][h]] < ht[h]
<1> SUFFICES ASSUME NEW h \in S, NEW f \in Side PROVE ht[t.child[f][h]] < ht[h]
  OBVIOUS
<1>1. /\ Nil \notin S /\ Other(f) \in Side
      /\ ht[t.child[f][h]] \in Nat /\ ht[t.child[Other(f)][h]] \in Nat
  BY AVLFacts, Sides
<1>2. EvenAt(t.child, t.bf, ht, Nil, "hLeft", 0, h)
  BY DEF AVL, Even
<1>3. /\ Tall(t.child, ht, Nil, "hLeft", 0, f, h) = ht[t.child[f][h]]
      /\ Tall(t.child, ht, Nil, "hLeft", 0, Other(f), h) = ht[t.child[Other(f)][h]]
  BY <1>1 DEF Tall
<1>4. PICK m : m = ht[t.child[f][h]]
  OBVIOUS
<1>5. PICK n : n = ht[t.child[Other(f)][h]]
  OBVIOUS
<1>6. \/ t.bf[h] = EH /\ m = n /\ ht[h] = m + 1
      \/ t.bf[h] = Higher(f) /\ m = n + 1 /\ ht[h] = m + 1
      \/ t.bf[h] = Higher(Other(f)) /\ n = m + 1 /\ ht[h] = n + 1
  BY <1>2, <1>3, <1>4, <1>5 DEF EvenAt
<1> QED
  BY <1>1, <1>4, <1>5, <1>6

\* The last node e from g on along the links f.
EdgeAt(t, S, lo, hi, g, f, e) ==
  /\ e \in S /\ t.child[f][e] = Nil /\ lo[g] <= lo[e] /\ hi[e] <= hi[g]
  /\ (IF f = "hLeft" THEN lo[e] = lo[g] ELSE hi[e] = hi[g])
  /\ (e = g \/ (t.hParent[e] \in S /\ t.child[f][t.hParent[e]] = e))

LEMMA EdgeIs ==
  ASSUME NEW t, NEW S, NEW lo, NEW hi, NEW ht, AVL(t, S, lo, hi, ht), Bare(t, S),
         NEW g \in S, NEW f \in Side
  PROVE  EdgeAt(t, S, lo, hi, g, f, Edge(t, g, f))
<1>1. /\ t \in TreeType /\ Tree(t, S, lo, hi) /\ S \in SUBSET Cell /\ Nil \notin S /\ S \subseteq Link
      /\ ht \in [Link -> Nat] /\ ht[Nil] = 0 /\ Cell \subseteq Link
      /\ \A h \in S, s \in Side : t.child[s][h] = Nil \/ t.child[s][h] \in S
      /\ \A h \in S : lo[h] \in Int /\ hi[h] \in Int /\ t.data[h] \in Int
  BY AVLFacts DEF Link
<1>2. PICK c : c = [kind |-> "far", t |-> t, f |-> f]
  OBVIOUS
<1>3. \A F, x : Body(c, F, x) = FarBody(t, f, F, x)
  BY <1>2 DEF Body
<1>4. PICK m : m = [h \in Cell |-> IF h \in S THEN ht[h] ELSE 0]
  OBVIOUS
<1>5. m \in [Cell -> Nat] /\ \A h \in S : m[h] = ht[h]
  BY <1>1, <1>4
<1>6. Grounded(c, Cell, m)
  <2> SUFFICES ASSUME NEW x \in Cell, NEW F, NEW G,
                      \A y \in Cell : m[y] < m[x] => F[y] = G[y]
               PROVE  FarBody(t, f, F, x) = FarBody(t, f, G, x)
    BY <1>3 DEF Grounded
  <2>1. CASE t.child[f][x] = Nil
    BY <2>1 DEF FarBody
  <2>2. CASE t.child[f][x] # Nil
    <3>1. x \in S /\ t.child[f][x] \in S
      BY <1>1, <2>2 DEF Bare
    <3>2. m[t.child[f][x]] < m[x] /\ t.child[f][x] \in Cell
      BY <1>1, <1>5, <3>1, Falls
    <3> QED
      BY <3>2 DEF FarBody
  <2> QED
    BY <2>1, <2>2
<1>7. \E F : F = [x \in Cell |-> Body(c, F, x)]
  BY <1>5, <1>6, Defined
<1>8. PICK F : F = [x \in Cell |-> FarBody(t, f, F, x)] /\ Edge(t, g, f) = F[g]
  <2>1. \E F : F = [x \in Cell |-> FarBody(t, f, F, x)]
    BY <1>3, <1>7
  <2> QED
    BY <2>1 DEF Edge, FarBody
<1>9. \A x \in Cell : F[x] = IF t.child[f][x] = Nil THEN x ELSE F[t.child[f][x]]
  BY <1>8 DEF FarBody
<1> DEFINE T == {x \in S : EdgeAt(t, S, lo, hi, x, f, F[x])}
<1>10. PICK n : n = [x \in S |-> ht[x]]
  OBVIOUS
<1>11. n \in [S -> Nat] /\ \A x \in S : n[x] = ht[x]
  BY <1>1, <1>10
<1>12. ASSUME NEW x \in S, \A y \in S : n[y] < n[x] => y \in T PROVE x \in T
  <2>1. CASE t.child[f][x] = Nil
    <3>1. F[x] = x
      BY <1>1, <1>9, <2>1
    <3> QED
      BY <1>1, <2>1, <3>1 DEF EdgeAt
  <2>2. CASE t.child[f][x] # Nil
    <3>1. PICK y : y = t.child[f][x]
      OBVIOUS
    <3>2. y \in S /\ F[x] = F[y]
      BY <1>1, <1>9, <2>2, <3>1
    <3>3. n[y] < n[x]
      BY <1>11, <3>1, <3>2, Falls
    <3>4. EdgeAt(t, S, lo, hi, y, f, F[y])
      BY <1>12, <3>2, <3>3
    <3>5. /\ lo[y] = Low(t.data, lo, f, x) /\ hi[y] = Upp(t.data, hi, f, x) /\ t.hParent[y] = x
          /\ lo[x] <= lo[y] /\ hi[y] <= hi[x]
      BY <1>1, <3>1, <3>2, OneParent
    <3>6. IF f = "hLeft" THEN lo[y] = lo[x] ELSE hi[y] = hi[x]
      BY <3>5 DEF Low, Upp
    <3>7. PICK e : e = F[y]
      OBVIOUS
    <3>8. /\ e \in S /\ t.child[f][e] = Nil /\ lo[y] <= lo[e] /\ hi[e] <= hi[y]
          /\ (IF f = "hLeft" THEN lo[e] = lo[y] ELSE hi[e] = hi[y])
          /\ (e = y \/ (t.hParent[e] \in S /\ t.child[f][t.hParent[e]] = e))
      BY <3>4, <3>7 DEF EdgeAt
    <3>9. lo[x] <= lo[e] /\ hi[e] <= hi[x]
      BY <1>1, <3>2, <3>5, <3>8
    <3>10. t.hParent[e] \in S /\ t.child[f][t.hParent[e]] = e
      BY <3>1, <3>5, <3>8
    <3>11. EdgeAt(t, S, lo, hi, x, f, e)
      BY <3>6, <3>8, <3>9, <3>10 DEF EdgeAt
    <3> QED
      BY <3>2, <3>7, <3>11
  <2> QED
    BY <2>1, <2>2
<1> HIDE DEF T
<1>13. S \subseteq T
  BY <1>11, <1>12, Deep
<1> QED
  BY <1>8, <1>13 DEF T

\* The call on the way back that has come to the place s of q, where the tree
\* was e high: what it brings, at worst a place lower by one, or higher by one.
\* In what is not a link, and in the cells Y given back, the tree is now like w.
Parked(Y, w, u) ==
  \A g \in Y : u.hParent[g] = w.hParent[g] /\ \A f \in Side : u.child[f][g] = w.child[f][g]

Lower(Y, w, t, S, lo, hi, ht, S2, q, s, e, x, y, a) ==
  \E u, lo2, hi2, ht2, r, less :
    /\ a = [tree |-> u, lower |-> less] /\ less \in BOOLEAN /\ Rest(w, u) /\ Parked(Y, w, u)
    /\ Done(t, S, lo, hi, ht, q, s, e, x, y, u, S2, lo2, hi2, ht2, r)
    /\ e = (IF less THEN ht2[r] + 1 ELSE ht2[r])

Raised(w, t, S, lo, hi, ht, S2, at, q, s, e, x, y, a) ==
  \E u, lo2, hi2, ht2, r, higher :
    /\ a = [tree |-> u, taller |-> higher, at |-> at] /\ higher \in BOOLEAN /\ Rest(w, u)
    /\ Done(t, S, lo, hi, ht, q, s, e, x, y, u, S2, lo2, hi2, ht2, r)
    /\ ht2[r] = (IF higher THEN e + 1 ELSE e)
    /\ (higher => u.bf[r] # EH \/ e = 0)

LEMMA LowerStep ==
  ASSUME NEW Y, NEW w, NEW t, NEW S, NEW lo, NEW hi, NEW ht, NEW S2, NEW h, NEW f, NEW e,
         NEW x, NEW y, NEW a, Y \subseteq Cell \ S2, Lower(Y, w, t, S, lo, hi, ht, S2, h, f, e, x, y, a),
         NEW q, NEW s, Above(t, S, lo, hi, h, f, e, x, y, q, s)
  PROVE  Lower(Y, w, t, S, lo, hi, ht, S2, q, s, ht[h], lo[h], hi[h], Shrunk(h, a, f))
<1>1. PICK u, lo2, hi2, ht2, r, less :
         /\ a = [tree |-> u, lower |-> less] /\ less \in BOOLEAN /\ Rest(w, u) /\ Parked(Y, w, u)
         /\ Done(t, S, lo, hi, ht, h, f, e, x, y, u, S2, lo2, hi2, ht2, r)
         /\ e = (IF less THEN ht2[r] + 1 ELSE ht2[r])
  BY DEF Lower
<1>2. Done(t, S, lo, hi, ht, h, f, e, x, y, u, S2, lo2, hi2, ht2, r)
  BY <1>1
<1>3. /\ Way(u, S2, lo2, hi2, ht2, h, f, e, q, s, r)
      /\ Same(t, lo, hi, ht, u, lo2, hi2, ht2, h)
  BY <1>2, Upward
<1>4. PICK v, lo3, hi3, ht3, r2, less2 :
         ShrunkTo(Shrunk(h, [tree |-> u, lower |-> less], f),
                  u, S2, lo2, hi2, ht2, h, q, s, v, lo3, hi3, ht3, r2, less2)
  BY <1>1, <1>3, ShrunkOK
<1>5. /\ Shrunk(h, a, f) = [tree |-> v, lower |-> less2] /\ less2 \in BOOLEAN
      /\ LiftedAt(u, S2, lo2, hi2, ht2, v, lo3, hi3, ht3, q, s, ht, lo, hi, h, r2)
      /\ ht[h] = (IF less2 THEN ht3[r2] + 1 ELSE ht3[r2])
  BY <1>1, <1>3, <1>4 DEF ShrunkTo, Same, LiftedAt
<1>6. /\ DoneAt(t, S, lo, hi, ht, q, s, h, v, S2, lo3, hi3, ht3, r2)
      /\ Rest(u, v)
  <2>1. LiftedAt(u, S2, lo2, hi2, ht2, v, lo3, hi3, ht3, q, s, ht, lo, hi, h, r2)
    BY <1>5
  <2> QED
    BY <1>2, <2>1, Onward
<1>7. Rest(w, v)
  BY <1>1, <1>6 DEF Rest
<1>8. Parked(Y, w, v)
  <2>1. Outside(S2, u, v)
    BY <1>5 DEF LiftedAt, Lifted
  <2> QED
    BY <1>1, <2>1 DEF Parked, Outside
<1> QED
  BY <1>5, <1>6, <1>7, <1>8 DEF Lower, DoneAt

LEMMA RaiseStep ==
  ASSUME NEW w, NEW t, NEW S, NEW lo, NEW hi, NEW ht, NEW S2, NEW h, NEW f, NEW e,
         NEW x, NEW y, NEW a, NEW at, Raised(w, t, S, lo, hi, ht, S2, at, h, f, e, x, y, a),
         NEW q, NEW s, Above(t, S, lo, hi, h, f, e, x, y, q, s),
         NEW k, f = Toward(t.data[h], k)
  PROVE  Raised(w, t, S, lo, hi, ht, S2, at, q, s, ht[h], lo[h], hi[h], Grown(h, a, k))
<1>1. PICK u, lo2, hi2, ht2, r, higher :
         /\ a = [tree |-> u, taller |-> higher, at |-> at] /\ higher \in BOOLEAN /\ Rest(w, u)
         /\ Done(t, S, lo, hi, ht, h, f, e, x, y, u, S2, lo2, hi2, ht2, r)
         /\ ht2[r] = (IF higher THEN e + 1 ELSE e)
         /\ (higher => u.bf[r] # EH \/ e = 0)
  BY DEF Raised
<1>2. Done(t, S, lo, hi, ht, h, f, e, x, y, u, S2, lo2, hi2, ht2, r)
  BY <1>1
<1>3. /\ Way(u, S2, lo2, hi2, ht2, h, f, e, q, s, r)
      /\ Same(t, lo, hi, ht, u, lo2, hi2, ht2, h)
  BY <1>2, Upward
<1>4. PICK v, lo3, hi3, ht3, r2, higher2 :
         GrownTo(Grown(h, [tree |-> u, taller |-> higher, at |-> at], k),
                 u, S2, lo2, hi2, ht2, h, q, s, at, v, lo3, hi3, ht3, r2, higher2)
  <2>1. f = Toward(u.data[h], k)
    BY <1>3 DEF Same
  <2> QED
    BY <1>1, <1>3, <2>1, GrownOK
<1>5. /\ Grown(h, a, k) = [tree |-> v, taller |-> higher2, at |-> at] /\ higher2 \in BOOLEAN
      /\ LiftedAt(u, S2, lo2, hi2, ht2, v, lo3, hi3, ht3, q, s, ht, lo, hi, h, r2)
      /\ ht3[r2] = (IF higher2 THEN ht[h] + 1 ELSE ht[h]) /\ (higher2 => v.bf[r2] # EH)
  BY <1>1, <1>3, <1>4 DEF GrownTo, Same, LiftedAt
<1>6. /\ DoneAt(t, S, lo, hi, ht, q, s, h, v, S2, lo3, hi3, ht3, r2)
      /\ Rest(u, v)
  <2>1. LiftedAt(u, S2, lo2, hi2, ht2, v, lo3, hi3, ht3, q, s, ht, lo, hi, h, r2)
    BY <1>5
  <2> QED
    BY <1>2, <2>1, Onward
<1>7. Rest(w, v)
  BY <1>1, <1>6 DEF Rest
<1> QED
  BY <1>5, <1>6, <1>7 DEF Raised, DoneAt

-----------------------------------------------------------------------------
(* A node with two children is taken out: from where r was, all nodes on    *)
(* the way to the left child are balanced again, then r in its new place.   *)

\* The nodes on the way from the left child to r.
Spine(t, S, lo, hi, p, left) ==
  {h \in S : /\ lo[p] <= lo[h] /\ hi[h] = t.data[p]
             /\ (h = left \/ (t.hParent[h] \in S \ {p} /\ t.child["hRight"][t.hParent[h]] = h))}

SpineParent(t, r, left, h) == IF h = left THEN r ELSE t.hParent[h]
SpineSide(left, h) == IF h = left THEN "hLeft" ELSE "hRight"

MostLaw(M, S2, lo2, hi2, ht2, t, lo, ht, r, left, h, a) ==
  Lower({}, M, M, S2, lo2, hi2, ht2, S2, SpineParent(t, r, left, h), SpineSide(left, h),
        ht[h], lo[h], t.data[r], a)

\* The bounds and heights after the move.
MoveBounds(t, S, lo, hi, ht, p, r, lo2, hi2, ht2) ==
  lo2 = LoMoved(t, lo, p, r) /\ hi2 = HiMoved(t, hi, p, r) /\ ht2 = HtMoved(ht, p, r)

SpineLaws(t, S, lo, hi, p, r, left, right, h, y) ==
  /\ y = Nil => h = r
  /\ y # Nil => /\ y \in Spine(t, S, lo, hi, p, left) /\ y # left /\ t.hParent[y] = h
                /\ lo[y] = t.data[h] /\ h # r
  /\ h # p /\ h # right /\ left \in Spine(t, S, lo, hi, p, left)

LEMMA SpineFacts ==
  ASSUME NEW t, NEW S, NEW lo, NEW hi, NEW ht, NEW p, NEW r, NEW q, NEW s, NEW up,
         NEW left, NEW right, Twin(t, S, lo, hi, ht, p, r, q, s, up, left, right),
         NEW h \in Spine(t, S, lo, hi, p, left), NEW y, y = t.child["hRight"][h]
  PROVE  SpineLaws(t, S, lo, hi, p, r, left, right, h, y)
<1>1. /\ AVL(t, S, lo, hi, ht) /\ p \in S /\ r \in S /\ t.child["hRight"][r] = Nil
      /\ left = t.child["hLeft"][p] /\ left \in S /\ right = t.child["hRight"][p] /\ right \in S
      /\ hi[r] = t.data[p]
  BY DEF Twin
<1>2. /\ t \in TreeType /\ Tree(t, S, lo, hi) /\ S \in SUBSET Cell /\ Nil \notin S
      /\ \A g \in S : /\ lo[g] \in Int /\ hi[g] \in Int /\ t.data[g] \in Int
                      /\ lo[g] < t.data[g] /\ t.data[g] < hi[g]
  BY <1>1, AVLFacts
<1>3. "hLeft" \in Side /\ "hRight" \in Side
  BY DEF Side
<1>4. /\ h \in S /\ lo[p] <= lo[h] /\ hi[h] = t.data[p]
      /\ (h = left \/ (t.hParent[h] \in S \ {p} /\ t.child["hRight"][t.hParent[h]] = h))
  BY DEF Spine
<1>5. /\ t.data[r] < t.data[p]
      /\ \A g \in S \ {r} : ~(t.data[r] <= t.data[g] /\ t.data[g] < t.data[p])
  <2>1. TwinLaws(t, S, lo, hi, p, r, q, up, left, right)
    BY TwinFacts
  <2> QED
    BY <2>1 DEF TwinLaws
<1>6. /\ lo[left] = lo[p] /\ hi[left] = t.data[p] /\ t.hParent[left] = p
      /\ hi[right] = hi[p]
  BY <1>1, <1>2, <1>3, OneParent DEF Low, Upp
<1>7. h # p /\ h # right
  BY <1>1, <1>2, <1>4, <1>6
<1>8. left \in Spine(t, S, lo, hi, p, left)
  BY <1>1, <1>2, <1>6 DEF Spine
<1>9. ASSUME y = Nil PROVE h = r
  <2>1. ~(t.data[h] < t.data[r] /\ t.data[r] < hi[h])
    <3>1. ~(Low(t.data, lo, "hRight", h) < t.data[r] /\ t.data[r] < Upp(t.data, hi, "hRight", h))
      <4>1. AVL(t, S, lo, hi, ht) /\ h \in S /\ r \in S /\ "hRight" \in Side /\ t.child["hRight"][h] = Nil
        BY <1>1, <1>3, <1>4, <1>9
      <4> QED
        BY <4>1, AVLFacts
    <3>2. Low(t.data, lo, "hRight", h) = t.data[h] /\ Upp(t.data, hi, "hRight", h) = hi[h]
      BY <1>3 DEF Low, Upp
    <3> QED
      BY <3>1, <3>2
  <2>2. t.data[h] < t.data[p]
    BY <1>2, <1>4
  <2> QED
    BY <1>1, <1>2, <1>4, <1>5, <2>1, <2>2
<1>10. ASSUME y # Nil
       PROVE  /\ y \in Spine(t, S, lo, hi, p, left) /\ y # left /\ t.hParent[y] = h
              /\ lo[y] = t.data[h] /\ h # r
  <2>1. y \in S /\ h # r
    BY <1>1, <1>3, <1>4, <1>10, AVLFacts
  <2>2. t.hParent[y] = h /\ lo[y] = t.data[h] /\ hi[y] = hi[h]
    BY <1>2, <1>3, <1>4, <2>1, OneParent DEF Low, Upp
  <2>3. lo[p] <= lo[y]
    BY <1>1, <1>2, <1>4, <2>2
  <2> QED
    BY <1>4, <1>6, <1>7, <2>1, <2>2, <2>3 DEF Spine
<1> QED
  BY <1>7, <1>8, <1>9, <1>10 DEF SpineLaws

LEMMA MostStart ==
  ASSUME NEW t, NEW S, NEW lo, NEW hi, NEW ht, NEW p, NEW r, NEW q, NEW s, NEW up,
         NEW left, NEW right, Twin(t, S, lo, hi, ht, p, r, q, s, up, left, right),
         NEW M, M = Moved(t, p, r), NEW lo2, NEW hi2, NEW ht2,
         MoveBounds(t, S, lo, hi, ht, p, r, lo2, hi2, ht2)
  PROVE  MostLaw(M, S \ {p}, lo2, hi2, ht2, t, lo, ht, r, left, r, [tree |-> M, lower |-> TRUE])
<1>1. PICK below : below = t.child["hLeft"][r]
  OBVIOUS
<1>2. /\ AVL(t, S, lo, hi, ht) /\ p \in S /\ r \in S /\ up = t.hParent[r]
  BY DEF Twin
<1>3. lo2 = LoMoved(t, lo, p, r) /\ hi2 = HiMoved(t, hi, p, r) /\ ht2 = HtMoved(ht, p, r)
  BY DEF MoveBounds
<1>4. (up = p) = (r = left)
  <2>1. TwinLaws(t, S, lo, hi, p, r, q, up, left, right)
    BY TwinFacts
  <2> QED
    BY <2>1 DEF TwinLaws
<1>5. SpineParent(t, r, left, r) = Seat(p, r, up) /\ SpineSide(left, r) = SeatSide(p, up)
  BY <1>2, <1>4 DEF SpineParent, SpineSide, Seat, SeatSide
<1>6. /\ Even(S \ {p}, M.child, M.bf, HtMoved(ht, p, r), Seat(p, r, up), SeatSide(p, up), ht[r])
      /\ OneMore(ht, r, below) /\ below # r
      /\ Hangs(M, Seat(p, r, up), SeatSide(p, up), below)
  BY <1>1, MovedEven
<1>7. Tree(M, S \ {p}, lo2, hi2) /\ M \in TreeType
  <2>1. Settled(t, S, lo, hi, ht, p, r, q, s, M)
    BY MovedSteady
  <2> QED
    BY <1>3, <2>1, MovedShape DEF Settled
<1>8. Done(M, S \ {p}, lo2, hi2, ht2, Seat(p, r, up), SeatSide(p, up), ht[r], lo[r], t.data[r],
           M, S \ {p}, lo2, hi2, ht2, below)
  BY <1>3, <1>6, <1>7 DEF Done, Steady, Idle
<1>9. ht2[below] = ht[below]
  <2>1. below \in Link /\ ht \in [Link -> Nat]
    BY <1>1, <1>2, AVLFacts DEF Side
  <2> QED
    BY <1>3, <1>6, <2>1 DEF HtMoved
<1>10. ht[r] = ht2[below] + 1
  BY <1>6, <1>9 DEF OneMore
<1>11. Rest(M, M)
  BY DEF Rest
<1>12. PICK less \in BOOLEAN : less = TRUE
  OBVIOUS
<1>13. Lower({}, M, M, S \ {p}, lo2, hi2, ht2, S \ {p}, Seat(p, r, up), SeatSide(p, up),
             ht[r], lo[r], t.data[r], [tree |-> M, lower |-> less])
  <2>1. ht[r] = (IF less THEN ht2[below] + 1 ELSE ht2[below])
    BY <1>10, <1>12
  <2> QED
    BY <1>8, <1>11, <2>1 DEF Lower, Parked
<1> QED
  BY <1>5, <1>12, <1>13 DEF MostLaw

LEMMA MostStep ==
  ASSUME NEW t, NEW S, NEW lo, NEW hi, NEW ht, NEW p, NEW r, NEW q, NEW s, NEW up,
         NEW left, NEW right, Twin(t, S, lo, hi, ht, p, r, q, s, up, left, right),
         NEW M, M = Moved(t, p, r), NEW lo2, NEW hi2, NEW ht2,
         MoveBounds(t, S, lo, hi, ht, p, r, lo2, hi2, ht2),
         NEW h \in Spine(t, S, lo, hi, p, left), NEW y, y = t.child["hRight"][h], y # Nil,
         NEW a, MostLaw(M, S \ {p}, lo2, hi2, ht2, t, lo, ht, r, left, y, a)
  PROVE  MostLaw(M, S \ {p}, lo2, hi2, ht2, t, lo, ht, r, left, h, Shrunk(h, a, "hRight"))
<1>1. PICK below, child1, s1 : MoveLaws(t, S, lo, hi, ht, p, r, q, s, up, left, right, below, M, child1, s1)
  BY MoveFacts
<1>2. /\ t \in TreeType /\ Tree(t, S, lo, hi) /\ S \in SUBSET Cell /\ Nil \notin S
      /\ p \in S /\ r \in S /\ left \in S /\ right \in S /\ up \in S /\ below = t.child["hLeft"][r]
      /\ r # p /\ (up = p) = (r = left)
      /\ s1 = (IF up = p THEN "hLeft" ELSE "hRight")
      /\ \A g \in Side, k \in S : t.child[g][k] = r <=> k = up /\ g = s1
      /\ (q # Nil => t.child[s][q] = p)
      /\ \A g \in Side, k \in S : child1[g][k] = IF k = up /\ g = s1 THEN below ELSE t.child[g][k]
      /\ Rest(t, M)
      /\ \A g \in Side, k \in S \ {p, r} :
           M.child[g][k] = IF k = q /\ g = s THEN r ELSE child1[g][k]
      /\ \A g \in Side : M.child[g][r] = child1[g][p]
      /\ \A k \in Cell : M.hParent[k] = IF k = r THEN q
                                        ELSE IF k = left \/ k = right THEN r
                                        ELSE IF k = below /\ up # p THEN up ELSE t.hParent[k]
  BY <1>1, Zenon DEF MoveLaws
<1>3. /\ AVL(t, S, lo, hi, ht) /\ left = t.child["hLeft"][p] /\ t.child["hRight"][r] = Nil
      /\ hi[r] = t.data[p]
  BY DEF Twin
<1>4. /\ "hLeft" \in Side /\ "hRight" \in Side /\ "hLeft" # "hRight"
  BY DEF Side
<1>5. /\ h \in S /\ lo[p] <= lo[h] /\ hi[h] = t.data[p]
      /\ (h = left \/ (t.hParent[h] \in S \ {p} /\ t.child["hRight"][t.hParent[h]] = h))
  BY DEF Spine
<1>6. /\ y \in S /\ y # left /\ t.hParent[y] = h /\ lo[y] = t.data[h] /\ h # r /\ h # p /\ h # right
  <2>1. SpineLaws(t, S, lo, hi, p, r, left, right, h, y)
    BY SpineFacts
  <2> QED
    BY <2>1 DEF SpineLaws, Spine
<1>7. /\ lo2[h] = lo[h] /\ hi2[h] = t.data[r]
  <2>1. lo2 = LoMoved(t, lo, p, r) /\ hi2 = HiMoved(t, hi, p, r)
    BY DEF MoveBounds
  <2> QED
    BY <1>5, <1>6, <2>1, MovedBounds
<1>8. ht2[h] = ht[h] /\ ht[y] \in Nat
  <2>1. ht2 = HtMoved(ht, p, r)
    BY DEF MoveBounds
  <2>2. ht \in [Link -> Nat] /\ h \in Link /\ y \in Link
    BY <1>3, <1>5, <1>6, AVLFacts
  <2> QED
    BY <1>6, <2>1, <2>2 DEF HtMoved
<1>9. PICK qh : qh = SpineParent(t, r, left, h)
  OBVIOUS
<1>10. PICK sh : sh = SpineSide(left, h)
  OBVIOUS
<1>11. sh \in Side /\ qh = M.hParent[h]
  <2>1. h # below
    <3> SUFFICES ASSUME h = below PROVE FALSE
      OBVIOUS
    <3>1. hi[h] = t.data[r]
      BY <1>2, <1>4, <1>5, OneParent DEF Upp
    <3>2. t.data[r] < hi[r] /\ t.data[r] \in Int /\ hi[r] \in Int
      BY <1>2, <1>3, AVLFacts
    <3> QED
      BY <1>3, <1>5, <3>1, <3>2
  <2> QED
    BY <1>2, <1>4, <1>5, <1>6, <1>9, <1>10, <2>1 DEF SpineParent, SpineSide
<1>12. qh # Nil => M.child[sh][qh] = h
  <2>1. CASE h = left
    <3>1. qh = r /\ sh = "hLeft"
      BY <1>9, <1>10, <2>1 DEF SpineParent, SpineSide
    <3>2. p # up
      BY <1>2, <1>6, <2>1
    <3>3. M.child["hLeft"][r] = t.child["hLeft"][p]
      BY <1>2, <1>4, <3>2
    <3> QED
      BY <1>3, <2>1, <3>1, <3>3
  <2>2. CASE h # left
    <3>1. qh = t.hParent[h] /\ sh = "hRight"
      BY <1>9, <1>10, <2>2 DEF SpineParent, SpineSide
    <3>2. qh \in S /\ qh # p /\ t.child["hRight"][qh] = h
      BY <1>5, <2>2, <3>1
    <3>3. qh # r
      BY <1>2, <1>3, <1>5, <3>2
    <3>4. ~(qh = q /\ "hRight" = s)
      BY <1>2, <1>6, <3>2
    <3>5. ~(qh = up /\ "hRight" = s1)
      BY <1>2, <1>4, <1>6, <3>2
    <3> QED
      BY <1>2, <1>4, <3>1, <3>2, <3>3, <3>4, <3>5
  <2> QED
    BY <2>1, <2>2
<1>13. Above(M, S \ {p}, lo2, hi2, h, "hRight", ht[y], lo[y], t.data[r], qh, sh)
  <2>1. M \in TreeType /\ Tree(M, S \ {p}, lo2, hi2)
    <3>1. lo2 = LoMoved(t, lo, p, r) /\ hi2 = HiMoved(t, hi, p, r)
      BY DEF MoveBounds
    <3> QED
      BY <1>1, <3>1, MovedShape, Zenon DEF MoveLaws
  <2>2. lo[y] = Low(M.data, lo2, "hRight", h) /\ t.data[r] = Upp(M.data, hi2, "hRight", h)
    BY <1>2, <1>4, <1>6, <1>7 DEF Low, Upp, Rest
  <2> QED
    BY <1>4, <1>5, <1>6, <1>8, <1>11, <1>12, <2>1, <2>2 DEF Above
<1>14. Lower({}, M, M, S \ {p}, lo2, hi2, ht2, S \ {p}, h, "hRight", ht[y], lo[y], t.data[r], a)
  BY <1>6 DEF MostLaw, SpineParent, SpineSide
<1>15. Lower({}, M, M, S \ {p}, lo2, hi2, ht2, S \ {p}, qh, sh, ht2[h], lo2[h], hi2[h], Shrunk(h, a, "hRight"))
  BY <1>13, <1>14, LowerStep
<1> QED
  BY <1>7, <1>8, <1>9, <1>10, <1>15 DEF MostLaw

\* A node with two children, all of whose left side can be walked.
Pair(t, S, lo, hi, ht, p, q, s, left, right) ==
  /\ AVL(t, S, lo, hi, ht) /\ Bare(t, S) /\ p \in S
  /\ left = t.child["hLeft"][p] /\ left \in S /\ right = t.child["hRight"][p] /\ right \in S
  /\ q = t.hParent[p] /\ s \in Side /\ (q # Nil => t.child[s][q] = p)

LEMMA PairTwin ==
  ASSUME NEW t, NEW S, NEW lo, NEW hi, NEW ht, NEW p, NEW q, NEW s, NEW left, NEW right,
         Pair(t, S, lo, hi, ht, p, q, s, left, right),
         NEW r, r = Edge(t, left, "hRight"), NEW up, up = t.hParent[r]
  PROVE  Twin(t, S, lo, hi, ht, p, r, q, s, up, left, right)
<1>1. /\ AVL(t, S, lo, hi, ht) /\ Bare(t, S) /\ p \in S
      /\ left = t.child["hLeft"][p] /\ left \in S /\ right = t.child["hRight"][p] /\ right \in S
      /\ q = t.hParent[p] /\ s \in Side /\ (q # Nil => t.child[s][q] = p)
  BY DEF Pair
<1>2. "hLeft" \in Side /\ "hRight" \in Side /\ "hRight" # "hLeft"
  BY DEF Side
<1>3. /\ t \in TreeType /\ Tree(t, S, lo, hi)
      /\ lo[p] \in Int /\ lo[left] \in Int
  BY <1>1, AVLFacts
<1>4. EdgeAt(t, S, lo, hi, left, "hRight", r)
  BY <1>1, <1>2, EdgeIs
<1>5. /\ r \in S /\ t.child["hRight"][r] = Nil /\ lo[left] <= lo[r] /\ hi[r] = hi[left]
      /\ (r = left \/ (t.hParent[r] \in S /\ t.child["hRight"][t.hParent[r]] = r))
  BY <1>2, <1>4 DEF EdgeAt
<1>6. lo[left] = lo[p] /\ hi[left] = t.data[p]
  BY <1>1, <1>2, <1>3, OneParent DEF Low, Upp
<1> QED
  BY <1>1, <1>5, <1>6 DEF Twin

LEMMA MostIs ==
  ASSUME NEW t, NEW S, NEW lo, NEW hi, NEW ht, NEW p, NEW q, NEW s, NEW left, NEW right,
         Pair(t, S, lo, hi, ht, p, q, s, left, right),
         NEW r, r = Edge(t, left, "hRight"), NEW M, M = Moved(t, p, r),
         NEW lo2, NEW hi2, NEW ht2, MoveBounds(t, S, lo, hi, ht, p, r, lo2, hi2, ht2)
  PROVE  \E a : /\ Replaced(t, p) = Shrunk(r, a, "hLeft")
                /\ MostLaw(M, S \ {p}, lo2, hi2, ht2, t, lo, ht, r, left, left, a)
<1>1. PICK up : up = t.hParent[r]
  OBVIOUS
<1>2. Twin(t, S, lo, hi, ht, p, r, q, s, up, left, right)
  BY <1>1, PairTwin
<1>3. AVL(t, S, lo, hi, ht) /\ Bare(t, S) /\ p \in S /\ left = t.child["hLeft"][p] /\ left \in S
      /\ "hRight" \in Side
  BY DEF Pair, Side
<1>4. /\ S \in SUBSET Cell /\ Nil \notin S /\ ht \in [Link -> Nat] /\ S \subseteq Link
      /\ \A h \in S : t.child["hRight"][h] = Nil \/ t.child["hRight"][h] \in S
  BY <1>3, AVLFacts
<1>5. PICK c : c = [kind |-> "most", t |-> t, p |-> p]
  OBVIOUS
<1>6. \A F, x : Body(c, F, x) = MostBody(t, p, F, x)
  BY <1>5 DEF Body
<1>7. PICK m : m = [h \in Cell |-> IF h \in S THEN ht[h] ELSE 0]
  OBVIOUS
<1>8. m \in [Cell -> Nat] /\ \A h \in S : m[h] = ht[h]
  BY <1>4, <1>7
<1>9. Grounded(c, Cell, m)
  <2> SUFFICES ASSUME NEW x \in Cell, NEW F, NEW G,
                      \A y \in Cell : m[y] < m[x] => F[y] = G[y]
               PROVE  MostBody(t, p, F, x) = MostBody(t, p, G, x)
    BY <1>6 DEF Grounded
  <2>1. CASE t.child["hRight"][x] = Nil
    BY <2>1 DEF MostBody
  <2>2. CASE t.child["hRight"][x] # Nil
    <3>1. x \in S /\ t.child["hRight"][x] \in S
      BY <1>3, <1>4, <2>2 DEF Bare
    <3>2. m[t.child["hRight"][x]] < m[x] /\ t.child["hRight"][x] \in Cell
      BY <1>3, <1>4, <1>8, <3>1, Falls
    <3> QED
      BY <3>2 DEF MostBody
  <2> QED
    BY <2>1, <2>2
<1>10. \E F : F = [x \in Cell |-> Body(c, F, x)]
  BY <1>8, <1>9, Defined
<1>11. PICK F : /\ F = [x \in Cell |-> MostBody(t, p, F, x)]
                /\ Replaced(t, p) = Shrunk(r, IF r = left THEN [tree |-> Moved(t, p, left), lower |-> TRUE]
                                              ELSE F[left], "hLeft")
  <2>1. \E F : F = [x \in Cell |-> MostBody(t, p, F, x)]
    BY <1>6, <1>10
  <2> QED
    BY <1>3, <2>1 DEF Replaced, MostBody
<1>12. \A x \in Cell : F[x] = MostBody(t, p, F, x)
  BY <1>11
<1>13. PICK P : P = Spine(t, S, lo, hi, p, left)
  OBVIOUS
<1>14. P \subseteq S
  BY <1>13 DEF Spine
<1>15. PICK n : n = [x \in P |-> ht[x]]
  OBVIOUS
<1>16. n \in [P -> Nat] /\ \A x \in P : n[x] = ht[x]
  BY <1>4, <1>14, <1>15
<1> DEFINE T == {x \in P : MostLaw(M, S \ {p}, lo2, hi2, ht2, t, lo, ht, r, left, x, F[x])}
<1>17. ASSUME NEW x \in P, \A y \in P : n[y] < n[x] => y \in T PROVE x \in T
  <2>1. PICK y : y = t.child["hRight"][x]
    OBVIOUS
  <2>4. SpineLaws(t, S, lo, hi, p, r, left, right, x, y)
    <3>1. x \in Spine(t, S, lo, hi, p, left)
      BY <1>13
    <3> QED
      BY <1>2, <2>1, <3>1, SpineFacts
  <2>2. CASE y = Nil
    <3>1. x = r
      BY <2>2, <2>4 DEF SpineLaws
    <3>2. F[x] = [tree |-> M, lower |-> TRUE]
      BY <1>4, <1>12, <1>14, <2>1, <2>2, <3>1 DEF MostBody
    <3>3. MostLaw(M, S \ {p}, lo2, hi2, ht2, t, lo, ht, r, left, r, [tree |-> M, lower |-> TRUE])
      BY <1>2, MostStart
    <3> QED
      BY <3>1, <3>2, <3>3
  <2>3. CASE y # Nil
    <3>1. y \in P
      BY <1>13, <2>3, <2>4 DEF SpineLaws
    <3>2. n[y] < n[x]
      BY <1>3, <1>14, <1>16, <2>1, <3>1, Falls
    <3>3. MostLaw(M, S \ {p}, lo2, hi2, ht2, t, lo, ht, r, left, y, F[y])
      BY <1>17, <3>1, <3>2
    <3>4. F[x] = Shrunk(x, F[y], "hRight")
      BY <1>4, <1>12, <1>14, <2>1, <2>3 DEF MostBody
    <3>5. x \in Spine(t, S, lo, hi, p, left)
      BY <1>13
    <3>6. MostLaw(M, S \ {p}, lo2, hi2, ht2, t, lo, ht, r, left, x, Shrunk(x, F[y], "hRight"))
      BY <1>2, <2>1, <2>3, <3>3, <3>5, MostStep
    <3> QED
      BY <3>4, <3>6
  <2> QED
    BY <2>2, <2>3
<1> HIDE DEF T
<1>18. P \subseteq T
  BY <1>16, <1>17, Deep
<1>19. left \in P
  <2>1. left \in Spine(t, S, lo, hi, p, left)
    <3>1. t \in TreeType /\ Tree(t, S, lo, hi) /\ lo[p] \in Int /\ "hLeft" \in Side
      BY <1>3, AVLFacts DEF Side
    <3>2. lo[left] = lo[p] /\ hi[left] = t.data[p]
      BY <1>3, <3>1, OneParent DEF Low, Upp
    <3> QED
      BY <1>3, <3>1, <3>2 DEF Spine
  <2> QED
    BY <1>13, <2>1
<1>20. MostLaw(M, S \ {p}, lo2, hi2, ht2, t, lo, ht, r, left, left, F[left])
  BY <1>18, <1>19 DEF T
<1>21. r = left => F[left] = [tree |-> Moved(t, p, left), lower |-> TRUE]
  <2>1. t.child["hRight"][r] = Nil
    BY <1>2 DEF Twin
  <2> QED
    BY <1>3, <1>4, <1>12, <2>1 DEF MostBody
<1> QED
  BY <1>11, <1>20, <1>21

LEMMA PairDone ==
  ASSUME NEW t, NEW S, NEW lo, NEW hi, NEW ht, NEW p, NEW q, NEW s, NEW left, NEW right,
         Pair(t, S, lo, hi, ht, p, q, s, left, right)
  PROVE  Lower({}, t, t, S, lo, hi, ht, S \ {p}, q, s, ht[p], lo[p], hi[p], Unlinked(t, p))
<1>1. PICK r : r = Edge(t, left, "hRight")
  OBVIOUS
<1>2. PICK up : up = t.hParent[r]
  OBVIOUS
<1>3. Twin(t, S, lo, hi, ht, p, r, q, s, up, left, right)
  BY <1>1, <1>2, PairTwin
<1>4. /\ AVL(t, S, lo, hi, ht) /\ p \in S /\ left = t.child["hLeft"][p] /\ left \in S
      /\ right = t.child["hRight"][p] /\ right \in S /\ s \in Side
  BY DEF Pair
<1>5. PICK M : M = Moved(t, p, r)
  OBVIOUS
<1>6. PICK lo2 : lo2 = LoMoved(t, lo, p, r)
  OBVIOUS
<1>7. PICK hi2 : hi2 = HiMoved(t, hi, p, r)
  OBVIOUS
<1>8. PICK ht2 : ht2 = HtMoved(ht, p, r)
  OBVIOUS
<1>9. MoveBounds(t, S, lo, hi, ht, p, r, lo2, hi2, ht2)
  BY <1>6, <1>7, <1>8 DEF MoveBounds
<1>10. PICK a : /\ Replaced(t, p) = Shrunk(r, a, "hLeft")
                /\ MostLaw(M, S \ {p}, lo2, hi2, ht2, t, lo, ht, r, left, left, a)
  BY <1>1, <1>5, <1>9, MostIs
<1>11. Lower({}, M, M, S \ {p}, lo2, hi2, ht2, S \ {p}, r, "hLeft", ht[left], lo[left], t.data[r], a)
  BY <1>10 DEF MostLaw, SpineParent, SpineSide
<1>12. /\ Steady(S, t, lo, hi, ht, M, S \ {p}, lo2, hi2, ht2, lo[p], hi[p])
       /\ Idle(S \cup (S \ {p}), t, M) /\ Rest(t, M) /\ M \in TreeType /\ M.hParent[r] = q
       /\ (q # Nil => M.child[s][q] = r)
  <2>1. Settled(t, S, lo, hi, ht, p, r, q, s, M)
    BY <1>3, <1>5, MovedSteady
  <2> QED
    BY <1>6, <1>7, <1>8, <2>1 DEF Settled
<1>13. lo2[r] = lo[p] /\ hi2[r] = hi[p]
  BY <1>3, <1>6, <1>7, MovedBounds
<1>14. /\ S \in SUBSET Cell /\ Nil \notin S /\ S \subseteq Link /\ ht \in [Link -> Nat]
       /\ t \in TreeType /\ Tree(t, S, lo, hi) /\ "hLeft" \in Side
  BY <1>4, AVLFacts DEF Side
<1>15. r \in S /\ r # p
  <2>1. TwinLaws(t, S, lo, hi, p, r, q, up, left, right)
    BY <1>3, TwinFacts
  <2> QED
    BY <1>3, <2>1 DEF TwinLaws, Twin
<1>16. ht2[r] = ht[p]
  BY <1>8, <1>14, <1>15 DEF HtMoved
<1>17. Above(M, S \ {p}, lo2, hi2, r, "hLeft", ht[left], lo[left], t.data[r], q, s)
  <2>1. Tree(M, S \ {p}, lo2, hi2)
    BY <1>3, <1>5, <1>6, <1>7, MovedShape
  <2>2. lo[left] = lo[p]
    BY <1>4, <1>14, OneParent DEF Low
  <2>3. lo[left] = Low(M.data, lo2, "hLeft", r) /\ t.data[r] = Upp(M.data, hi2, "hLeft", r)
    BY <1>12, <1>13, <2>2 DEF Low, Upp, Rest
  <2>4. ht[left] \in Nat
    BY <1>4, <1>14
  <2> QED
    BY <1>4, <1>12, <1>14, <1>15, <2>1, <2>3, <2>4 DEF Above
<1>18. Lower({}, M, M, S \ {p}, lo2, hi2, ht2, S \ {p}, q, s, ht2[r], lo2[r], hi2[r], Shrunk(r, a, "hLeft"))
  BY <1>11, <1>17, LowerStep
<1>19. Lower({}, M, M, S \ {p}, lo2, hi2, ht2, S \ {p}, q, s, ht[p], lo[p], hi[p], Replaced(t, p))
  BY <1>10, <1>13, <1>16, <1>18
<1>20. Unlinked(t, p) = Replaced(t, p)
  BY <1>4, <1>14 DEF Unlinked
<1>21. PICK u, lo3, hi3, ht3, r2, less :
         /\ Replaced(t, p) = [tree |-> u, lower |-> less] /\ less \in BOOLEAN /\ Rest(M, u)
         /\ Done(M, S \ {p}, lo2, hi2, ht2, q, s, ht[p], lo[p], hi[p], u, S \ {p}, lo3, hi3, ht3, r2)
         /\ ht[p] = (IF less THEN ht3[r2] + 1 ELSE ht3[r2])
  BY <1>19 DEF Lower
<1>22. Done(t, S, lo, hi, ht, q, s, ht[p], lo[p], hi[p], u, S \ {p}, lo3, hi3, ht3, r2)
  <2>1. /\ u \in TreeType /\ Tree(u, S \ {p}, lo3, hi3) /\ Even(S \ {p}, u.child, u.bf, ht3, q, s, ht[p])
        /\ Hangs(u, q, s, r2)
        /\ Steady(S \ {p}, M, lo2, hi2, ht2, u, S \ {p}, lo3, hi3, ht3, lo[p], hi[p])
        /\ Idle((S \ {p}) \cup (S \ {p}), M, u)
    BY <1>21 DEF Done
  <2>2. Steady(S, t, lo, hi, ht, u, S \ {p}, lo3, hi3, ht3, lo[p], hi[p])
    <3> SUFFICES ASSUME NEW g \in S, ~(lo[p] < t.data[g] /\ t.data[g] < hi[p])
                 PROVE  /\ g \in S \ {p} /\ u.data[g] = t.data[g] /\ u.hParent[g] = t.hParent[g]
                        /\ lo3[g] = lo[g] /\ hi3[g] = hi[g] /\ ht3[g] = ht[g]
      BY DEF Steady
    <3>1. /\ g \in S \ {p} /\ M.data[g] = t.data[g] /\ M.hParent[g] = t.hParent[g]
          /\ lo2[g] = lo[g] /\ hi2[g] = hi[g] /\ ht2[g] = ht[g]
      BY <1>12 DEF Steady
    <3>2. ~(lo[p] < M.data[g] /\ M.data[g] < hi[p])
      BY <3>1
    <3>3. /\ u.data[g] = M.data[g] /\ u.hParent[g] = M.hParent[g]
          /\ lo3[g] = lo2[g] /\ hi3[g] = hi2[g] /\ ht3[g] = ht2[g]
      BY <2>1, <3>1, <3>2 DEF Steady
    <3> QED
      BY <3>1, <3>3
  <2>3. Idle(S \cup (S \ {p}), t, u)
    <3> SUFFICES ASSUME NEW g \in Cell, g \notin S
                 PROVE  u.hParent[g] = t.hParent[g] /\ \A k \in Side : u.child[k][g] = t.child[k][g]
      BY DEF Idle
    <3>1. M.hParent[g] = t.hParent[g] /\ \A k \in Side : M.child[k][g] = t.child[k][g]
      BY <1>12 DEF Idle
    <3>2. u.hParent[g] = M.hParent[g] /\ \A k \in Side : u.child[k][g] = M.child[k][g]
      BY <2>1 DEF Idle
    <3> QED
      BY <3>1, <3>2
  <2> QED
    BY <2>1, <2>2, <2>3 DEF Done
<1>23. Rest(t, u)
  BY <1>12, <1>21 DEF Rest
<1> QED
  BY <1>20, <1>21, <1>22, <1>23 DEF Lower, Parked

\* Any node can be taken out.
LEMMA UnlinkedDone ==
  ASSUME NEW t, NEW S, NEW lo, NEW hi, NEW ht, AVL(t, S, lo, hi, ht), Bare(t, S), NEW p \in S,
         NEW q, q = t.hParent[p], NEW s \in Side, q # Nil => t.child[s][q] = p
  PROVE  Lower({}, t, t, S, lo, hi, ht, S \ {p}, q, s, ht[p], lo[p], hi[p], Unlinked(t, p))
<1>1. \A f \in Side : t.child[f][p] = Nil \/ t.child[f][p] \in S
  BY AVLFacts
<1>2. CASE \E f \in Side : t.child[Other(f)][p] = Nil
  <2>1. PICK f \in Side : t.child[Other(f)][p] = Nil
    BY <1>2
  <2>2. PICK c : c = t.child[f][p]
    OBVIOUS
  <2>3. Single(t, S, lo, hi, ht, p, f, c, q, s)
    BY <2>1, <2>2 DEF Single
  <2>4. CutTo(t, S, lo, hi, ht, p, q, s, c)
    BY <2>3, CutDone
  <2> QED
    BY <2>4 DEF CutTo, Lower, Parked
<1>3. CASE ~\E f \in Side : t.child[Other(f)][p] = Nil
  <2>1. "hLeft" \in Side /\ "hRight" \in Side /\ Other("hLeft") = "hRight" /\ Other("hRight") = "hLeft"
    BY DEF Side, Other
  <2>2. t.child["hLeft"][p] \in S /\ t.child["hRight"][p] \in S
    BY <1>1, <1>3, <2>1
  <2>3. PICK left : left = t.child["hLeft"][p]
    OBVIOUS
  <2>4. PICK right : right = t.child["hRight"][p]
    OBVIOUS
  <2>5. Pair(t, S, lo, hi, ht, p, q, s, left, right)
    BY <2>2, <2>3, <2>4 DEF Pair
  <2> QED
    BY <2>5, PairDone
<1> QED
  BY <1>2, <1>3

\* The cell is given back.
FreedTo(t, p, u) ==
  /\ u \in TreeType
  /\ \A g \in Side, h \in Cell : u.child[g][h] = IF h = p THEN Nil ELSE t.child[g][h]
  /\ u.hParent = [t.hParent EXCEPT ![p] = t.free_head] /\ u.bf = [t.bf EXCEPT ![p] = EH]
  /\ u.deleted = [t.deleted EXCEPT ![p] = TRUE] /\ u.data = t.data
  /\ u.hHead = t.hHead /\ u.free_head = p /\ u.size = t.size - 1
  /\ u.array_size = t.array_size

LEMMA FreedIs ==
  ASSUME NEW t \in TreeType, NEW p \in Cell
  PROVE  FreedTo(t, p, Freed(t, p))
<1>1. PICK c : c = Alone(t, p)
  OBVIOUS
<1>2. PICK u : u = Freed(t, p)
  OBVIOUS
<1>3. c \in [Side -> [Cell -> Link]] /\ \A g \in Side, h \in Cell : c[g][h] = IF h = p THEN Nil ELSE t.child[g][h]
  BY <1>1, Fields DEF Alone, Link
<1>4. PICK hp : hp = [t.hParent EXCEPT ![p] = t.free_head]
  OBVIOUS
<1>5. PICK b : b = [t.bf EXCEPT ![p] = EH]
  OBVIOUS
<1>6. PICK d : d = [t.deleted EXCEPT ![p] = TRUE]
  OBVIOUS
<1>7. PICK n : n = t.size - 1
  OBVIOUS
<1>8. u = [t EXCEPT !.child = c, !.hParent = hp, !.bf = b, !.deleted = d, !.free_head = p, !.size = n]
  BY <1>1, <1>2, <1>4, <1>5, <1>6, <1>7 DEF Freed
<1>9. u = [child |-> c, hParent |-> hp, bf |-> b, deleted |-> d, data |-> t.data,
           hHead |-> t.hHead, free_head |-> p, size |-> n, array_size |-> t.array_size]
  BY <1>8 DEF TreeType
<1>10. EH \in Int /\ p \in Link
  BY DEF EH, Link
<1>11. /\ hp \in [Cell -> Link] /\ b \in [Cell -> Int] /\ d \in [Cell -> BOOLEAN] /\ n \in Int
       /\ t.data \in [Cell -> Int] /\ t.hHead \in Link /\ t.array_size \in Nat
  BY <1>4, <1>5, <1>6, <1>7, <1>10, Fields
<1>12. u \in TreeType
  BY <1>3, <1>9, <1>10, <1>11 DEF TreeType
<1>13. /\ u.child = c /\ u.hParent = hp /\ u.bf = b /\ u.deleted = d /\ u.data = t.data
       /\ u.hHead = t.hHead /\ u.free_head = p /\ u.size = n /\ u.array_size = t.array_size
  BY <1>9
<1> QED
  BY <1>2, <1>3, <1>4, <1>5, <1>6, <1>7, <1>12, <1>13 DEF FreedTo

LEMMA FreedDone ==
  ASSUME NEW t, NEW S, NEW lo, NEW hi, NEW ht, AVL(t, S, lo, hi, ht), NEW p \in S,
         NEW q, q = t.hParent[p], NEW s \in Side, NEW e, NEW u, Rest(t, u),
         NEW lo2, NEW hi2, NEW ht2, NEW r,
         Done(t, S, lo, hi, ht, q, s, e, lo[p], hi[p], u, S \ {p}, lo2, hi2, ht2, r),
         NEW v, v = Freed(u, p), NEW w, w = Freed(t, p)
  PROVE  /\ Done(t, S, lo, hi, ht, q, s, e, lo[p], hi[p], v, S \ {p}, lo2, hi2, ht2, r)
         /\ Rest(w, v) /\ Parked({p}, w, v)
<1>1. /\ t \in TreeType /\ S \in SUBSET Cell /\ Nil \notin S /\ p \in Cell
      /\ \A h \in S : /\ lo[h] \in Int /\ hi[h] \in Int /\ t.data[h] \in Int
                      /\ lo[h] < t.data[h] /\ t.data[h] < hi[h]
  BY AVLFacts
<1>2. /\ u \in TreeType /\ Tree(u, S \ {p}, lo2, hi2) /\ Even(S \ {p}, u.child, u.bf, ht2, q, s, e)
      /\ Hangs(u, q, s, r)
      /\ Steady(S, t, lo, hi, ht, u, S \ {p}, lo2, hi2, ht2, lo[p], hi[p])
      /\ Idle(S \cup (S \ {p}), t, u)
  BY DEF Done
<1>3. FreedTo(u, p, v)
  BY <1>1, <1>2, FreedIs
<1>4. FreedTo(t, p, w)
  BY <1>1, FreedIs
<1>5. (q = Nil \/ q \in S) /\ q # p
  BY <1>1, SideOf DEF Side
<1>6. /\ u.hParent \in [Cell -> Link] /\ u.bf \in [Cell -> Int] /\ t.hParent \in [Cell -> Link]
  BY <1>1, <1>2, Fields
<1>7. /\ \A h \in Cell : h # p => /\ v.hParent[h] = u.hParent[h] /\ v.bf[h] = u.bf[h]
                                 /\ \A g \in Side : v.child[g][h] = u.child[g][h]
      /\ v.data = u.data /\ v.hHead = u.hHead /\ v \in TreeType
  BY <1>1, <1>3, <1>6 DEF FreedTo
<1>8. Tree(v, S \ {p}, lo2, hi2)
  <2>1. Shape(S \ {p}, u.hHead, u.child, u.hParent, u.data, lo2, hi2)
    BY <1>2 DEF Tree
  <2>2. \A h \in S \ {p} : v.hParent[h] = u.hParent[h] /\ \A g \in Side : v.child[g][h] = u.child[g][h]
    BY <1>1, <1>7
  <2>3. Shape(S \ {p}, u.hHead, v.child, v.hParent, u.data, lo2, hi2)
    BY <2>1, <2>2, ShapeSame
  <2> QED
    BY <1>7, <2>3 DEF Tree
<1>9. Even(S \ {p}, v.child, v.bf, ht2, q, s, e)
  <2>1. ht2 \in [Link -> Nat] /\ ht2[Nil] = 0
    BY <1>2 DEF Even
  <2>2. \A h \in S \ {p} : v.bf[h] = u.bf[h] /\ ht2[h] = ht2[h]
    BY <1>1, <1>7
  <2>3. \A h \in S \ {p}, g \in Side : (h = q /\ g = s) \/ ht2[v.child[g][h]] = ht2[u.child[g][h]]
    BY <1>1, <1>7
  <2> QED
    BY <1>2, <2>1, <2>2, <2>3, EvenSame
<1>10. Hangs(v, q, s, r)
  <2>1. CASE q = Nil
    BY <1>2, <1>7, <2>1 DEF Hangs
  <2>2. CASE q # Nil
    <3>1. u.child[s][q] = r
      BY <1>2, <2>2 DEF Hangs
    <3>2. q \in Cell /\ q # p
      BY <1>1, <1>5, <2>2
    <3>3. v.child[s][q] = r
      BY <1>7, <3>1, <3>2
    <3> QED
      BY <2>2, <3>3 DEF Hangs
  <2> QED
    BY <2>1, <2>2
<1>11. Steady(S, t, lo, hi, ht, v, S \ {p}, lo2, hi2, ht2, lo[p], hi[p])
  BY <1>1, <1>2, <1>7 DEF Steady
<1>12. Idle(S \cup (S \ {p}), t, v)
  BY <1>1, <1>2, <1>7 DEF Idle
<1>13. Rest(w, v)
  BY <1>3, <1>4 DEF Rest, FreedTo
<1>14. Parked({p}, w, v)
  <2>1. v.hParent[p] = u.free_head /\ w.hParent[p] = t.free_head
    BY <1>1, <1>3, <1>4, <1>6 DEF FreedTo
  <2>2. u.free_head = t.free_head
    BY DEF Rest
  <2>3. \A g \in Side : v.child[g][p] = Nil /\ w.child[g][p] = Nil
    BY <1>1, <1>3, <1>4 DEF FreedTo
  <2> QED
    BY <2>1, <2>2, <2>3 DEF Parked
<1> QED
  BY <1>7, <1>8, <1>9, <1>10, <1>11, <1>12, <1>13, <1>14 DEF Done

-----------------------------------------------------------------------------
(* Erasure.                                                                 *)

\* A measure for the ways down that end at Nil.
Depth(S, ht) == [h \in Link |-> IF h = Nil THEN 0 ELSE IF h \in S THEN ht[h] + 1 ELSE 1]

DepthLaws(t, S, ht, m) ==
  /\ m \in [Link -> Nat] /\ Cell \subseteq Link /\ Nil \in Link /\ \A h \in Link : h = Nil \/ h \in Cell
  /\ \A h \in Cell, f \in Side : t.child[f][h] \in Link /\ m[t.child[f][h]] < m[h]

LEMMA DepthFalls ==
  ASSUME NEW t, NEW S, NEW lo, NEW hi, NEW ht, AVL(t, S, lo, hi, ht), Bare(t, S),
         NEW m, m = Depth(S, ht)
  PROVE  DepthLaws(t, S, ht, m)
<1>1. /\ t \in TreeType /\ S \in SUBSET Cell /\ Nil \notin S /\ S \subseteq Link
      /\ ht \in [Link -> Nat] /\ ht[Nil] = 0
  BY AVLFacts
<1>2. Cell \subseteq Link /\ Nil \in Link /\ (\A h \in Link : h = Nil \/ h \in Cell) /\ Nil \notin Cell
  BY DEF Link, Cell, Nil
<1>3. \A h \in Link : m[h] = IF h = Nil THEN 0 ELSE IF h \in S THEN ht[h] + 1 ELSE 1
  BY DEF Depth
<1>4. m \in [Link -> Nat]
  <2>1. m = [h \in Link |-> IF h = Nil THEN 0 ELSE IF h \in S THEN ht[h] + 1 ELSE 1]
    BY DEF Depth
  <2>2. \A h \in Link : (IF h = Nil THEN 0 ELSE IF h \in S THEN ht[h] + 1 ELSE 1) \in Nat
    BY <1>1
  <2> QED
    BY <2>1, <2>2
<1>5. ASSUME NEW h \in Cell, NEW f \in Side
      PROVE  t.child[f][h] \in Link /\ m[t.child[f][h]] < m[h]
  <2>1. h # Nil /\ h \in Link /\ t.child[f][h] \in Link
    BY <1>1, <1>2, Fields
  <2>2. CASE h \in S
    <3>1. t.child[f][h] = Nil \/ t.child[f][h] \in S
      BY <2>2, AVLFacts
    <3>2. ht[t.child[f][h]] < ht[h]
      BY <2>2, Falls
    <3>3. m[h] = ht[h] + 1
      BY <1>3, <2>1, <2>2
    <3>4. ht[h] \in Nat /\ ht[t.child[f][h]] \in Nat
      BY <1>1, <2>1
    <3>5. m[t.child[f][h]] = 0 \/ m[t.child[f][h]] = ht[t.child[f][h]] + 1
      BY <1>1, <1>2, <1>3, <3>1
    <3> QED
      BY <2>1, <3>2, <3>3, <3>4, <3>5
  <2>3. CASE h \notin S
    <3>1. t.child[f][h] = Nil
      BY <2>3 DEF Bare
    <3>2. m[t.child[f][h]] = 0 /\ m[h] = 1
      BY <1>2, <1>3, <2>1, <2>3, <3>1
    <3> QED
      BY <2>1, <3>2
  <2> QED
    BY <2>2, <2>3
<1> QED
  BY <1>2, <1>4, <1>5 DEF DepthLaws

\* No two nodes have the same data.
LEMMA DataDiffer ==
  ASSUME NEW t, NEW S, NEW lo, NEW hi, NEW ht, AVL(t, S, lo, hi, ht),
         NEW g \in S, NEW h \in S, t.data[g] = t.data[h]
  PROVE  g = h
<1> SUFFICES ASSUME g # h PROVE FALSE
  OBVIOUS
<1>1. Apart(t.data, lo, hi, g, h)
  BY DEF AVL, Tree, Shape, Nested
<1>2. \A x \in S : /\ lo[x] \in Int /\ hi[x] \in Int /\ t.data[x] \in Int
                   /\ lo[x] < t.data[x] /\ t.data[x] < hi[x]
  BY AVLFacts
<1> QED
  BY <1>1, <1>2 DEF Apart

\* Where a key that belongs below h goes on to.
LEMMA TowardIs ==
  ASSUME NEW t, NEW S, NEW lo, NEW hi, NEW ht, AVL(t, S, lo, hi, ht),
         NEW h \in S, NEW k \in Int, lo[h] < k, k < hi[h], k # t.data[h],
         NEW f, f = Toward(t.data[h], k)
  PROVE  /\ f \in Side /\ Low(t.data, lo, f, h) < k /\ k < Upp(t.data, hi, f, h)
<1>1. lo[h] \in Int /\ hi[h] \in Int /\ t.data[h] \in Int
  BY AVLFacts
<1> QED
  BY <1>1 DEF Toward, Side, Low, Upp

\* p has come out of the tree, the others are a tree.
Removed(t, S, p, u) ==
  /\ \E lo2, hi2, ht2 : AVL(u, S \ {p}, lo2, hi2, ht2)
  /\ Rest(Freed(t, p), u) /\ Parked({p}, Freed(t, p), u) /\ Idle(S, t, u)

LEMMA LowerRoot ==
  ASSUME NEW w, NEW t, NEW S, NEW lo, NEW hi, NEW ht, NEW p, NEW s, NEW e, NEW x, NEW y, NEW a,
         w = Freed(t, p), Lower({p}, w, t, S, lo, hi, ht, S \ {p}, Nil, s, e, x, y, a), S \in SUBSET Cell
  PROVE  Removed(t, S, p, a.tree)
<1>1. PICK u, lo2, hi2, ht2, r, less :
         /\ a = [tree |-> u, lower |-> less] /\ less \in BOOLEAN /\ Rest(w, u) /\ Parked({p}, w, u)
         /\ Done(t, S, lo, hi, ht, Nil, s, e, x, y, u, S \ {p}, lo2, hi2, ht2, r)
         /\ e = (IF less THEN ht2[r] + 1 ELSE ht2[r])
  BY DEF Lower
<1>2. /\ u \in TreeType /\ Tree(u, S \ {p}, lo2, hi2) /\ Even(S \ {p}, u.child, u.bf, ht2, Nil, s, e)
      /\ Idle(S \cup (S \ {p}), t, u)
  BY <1>1 DEF Done
<1>3. Nil \notin S
  BY DEF Cell, Nil
<1>4. Even(S \ {p}, u.child, u.bf, ht2, Nil, "hLeft", 0)
  BY <1>2, <1>3, EvenShift
<1>5. AVL(u, S \ {p}, lo2, hi2, ht2)
  BY <1>2, <1>4 DEF AVL
<1>6. Idle(S, t, u)
  BY <1>2 DEF Idle
<1> QED
  BY <1>1, <1>5, <1>6 DEF Removed

\* What the recursion of the erasure of p brings at h.
FromLaw(t, S, lo, hi, ht, p, h, a) ==
  \A q, s : q = t.hParent[h] /\ s \in Side /\ (q # Nil => t.child[s][q] = h) =>
    Lower({p}, Freed(t, p), t, S, lo, hi, ht, S \ {p}, q, s, ht[h], lo[h], hi[h], a)

LEMMA FromHere ==
  ASSUME NEW t, NEW S, NEW lo, NEW hi, NEW ht, AVL(t, S, lo, hi, ht), Bare(t, S), NEW p \in S,
         NEW a, a = Unlinked(t, p)
  PROVE  FromLaw(t, S, lo, hi, ht, p, p, [a EXCEPT !.tree = Freed(a.tree, p)])
<1> SUFFICES ASSUME NEW q, NEW s, q = t.hParent[p], s \in Side, q # Nil => t.child[s][q] = p
             PROVE  Lower({p}, Freed(t, p), t, S, lo, hi, ht, S \ {p}, q, s, ht[p], lo[p], hi[p],
                          [a EXCEPT !.tree = Freed(a.tree, p)])
  BY DEF FromLaw
<1>1. Lower({}, t, t, S, lo, hi, ht, S \ {p}, q, s, ht[p], lo[p], hi[p], a)
  BY UnlinkedDone
<1>2. PICK u, lo2, hi2, ht2, r, less :
         /\ a = [tree |-> u, lower |-> less] /\ less \in BOOLEAN /\ Rest(t, u) /\ Parked({}, t, u)
         /\ Done(t, S, lo, hi, ht, q, s, ht[p], lo[p], hi[p], u, S \ {p}, lo2, hi2, ht2, r)
         /\ ht[p] = (IF less THEN ht2[r] + 1 ELSE ht2[r])
  BY <1>1 DEF Lower
<1>3. PICK v : v = Freed(u, p)
  OBVIOUS
<1>4. PICK w : w = Freed(t, p)
  OBVIOUS
<1>5. PICK e : e = ht[p]
  OBVIOUS
<1>6. Done(t, S, lo, hi, ht, q, s, e, lo[p], hi[p], u, S \ {p}, lo2, hi2, ht2, r)
  BY <1>2, <1>5
<1>7. /\ Done(t, S, lo, hi, ht, q, s, e, lo[p], hi[p], v, S \ {p}, lo2, hi2, ht2, r)
      /\ Rest(w, v) /\ Parked({p}, w, v)
  <2>1. Rest(t, u)
    BY <1>2
  <2> QED
    BY <1>3, <1>4, <1>6, <2>1, FreedDone
<1>8. [a EXCEPT !.tree = Freed(a.tree, p)] = [tree |-> v, lower |-> less]
  BY <1>2, <1>3
<1>9. Lower({p}, w, t, S, lo, hi, ht, S \ {p}, q, s, e, lo[p], hi[p], [tree |-> v, lower |-> less])
  BY <1>2, <1>5, <1>7 DEF Lower
<1> QED
  BY <1>4, <1>5, <1>8, <1>9

LEMMA FromThere ==
  ASSUME NEW t, NEW S, NEW lo, NEW hi, NEW ht, AVL(t, S, lo, hi, ht), NEW p \in S,
         NEW h \in S, NEW f \in Side, NEW y \in S, y = t.child[f][h],
         NEW a, FromLaw(t, S, lo, hi, ht, p, y, a)
  PROVE  FromLaw(t, S, lo, hi, ht, p, h, Shrunk(h, a, f))
<1> SUFFICES ASSUME NEW q, NEW s, q = t.hParent[h], s \in Side, q # Nil => t.child[s][q] = h
             PROVE  Lower({p}, Freed(t, p), t, S, lo, hi, ht, S \ {p}, q, s, ht[h], lo[h], hi[h],
                          Shrunk(h, a, f))
  BY DEF FromLaw
<1>1. t \in TreeType /\ Tree(t, S, lo, hi) /\ S \in SUBSET Cell /\ ht \in [Link -> Nat] /\ S \subseteq Link
  BY AVLFacts
<1>2. t.hParent[y] = h /\ lo[y] = Low(t.data, lo, f, h) /\ hi[y] = Upp(t.data, hi, f, h)
  BY <1>1, OneParent
<1>3. PICK w : w = Freed(t, p)
  OBVIOUS
<1>4. PICK e : e = ht[y]
  OBVIOUS
<1>5. PICK x : x = lo[y]
  OBVIOUS
<1>6. PICK z : z = hi[y]
  OBVIOUS
<1>7. Lower({p}, w, t, S, lo, hi, ht, S \ {p}, h, f, e, x, z, a)
  BY <1>2, <1>3, <1>4, <1>5, <1>6 DEF FromLaw
<1>8. Above(t, S, lo, hi, h, f, e, x, z, q, s)
  BY <1>1, <1>2, <1>4, <1>5, <1>6 DEF Above
<1>9. {p} \subseteq Cell \ (S \ {p})
  BY <1>1
<1>10. Lower({p}, w, t, S, lo, hi, ht, S \ {p}, q, s, ht[h], lo[h], hi[h], Shrunk(h, a, f))
  BY <1>7, <1>8, <1>9, LowerStep
<1> QED
  BY <1>3, <1>10

LEMMA ErasedIs ==
  ASSUME NEW t, NEW S, NEW lo, NEW hi, NEW ht, AVL(t, S, lo, hi, ht), Bare(t, S), NEW p \in S,
         NEW k, k = t.data[p]
  PROVE  Removed(t, S, p, Erased(t, k))
<1>1. /\ t \in TreeType /\ Tree(t, S, lo, hi) /\ S \in SUBSET Cell /\ Nil \notin S /\ S \subseteq Link
      /\ ht \in [Link -> Nat] /\ k \in Int
      /\ \A h \in S : /\ lo[h] \in Int /\ hi[h] \in Int /\ t.data[h] \in Int
                      /\ lo[h] < t.data[h] /\ t.data[h] < hi[h]
  BY AVLFacts
<1>2. PICK c : c = [kind |-> "from", t |-> t, k |-> k]
  OBVIOUS
<1>3. \A F, x : Body(c, F, x) = FromBody(t, k, F, x)
  BY <1>2 DEF Body
<1>4. PICK m : m = Depth(S, ht)
  OBVIOUS
<1>5. DepthLaws(t, S, ht, m)
  BY <1>4, DepthFalls
<1>6. Grounded(c, Link, m)
  <2> SUFFICES ASSUME NEW x \in Link, NEW F, NEW G,
                      \A y \in Link : m[y] < m[x] => F[y] = G[y]
               PROVE  FromBody(t, k, F, x) = FromBody(t, k, G, x)
    BY <1>3 DEF Grounded
  <2>1. CASE x = Nil
    BY <2>1 DEF FromBody
  <2>2. CASE x # Nil
    <3>1. x \in Cell /\ Toward(t.data[x], k) \in Side
      BY <1>5, <2>2 DEF DepthLaws, Toward, Side
    <3>2. F[t.child[Toward(t.data[x], k)][x]] = G[t.child[Toward(t.data[x], k)][x]]
      BY <1>5, <3>1 DEF DepthLaws
    <3> QED
      BY <2>2, <3>2 DEF FromBody
  <2> QED
    BY <2>1, <2>2
<1>7. \E F : F = [x \in Link |-> Body(c, F, x)]
  <2>1. m \in [Link -> Nat]
    BY <1>5 DEF DepthLaws
  <2> QED
    BY <1>6, <2>1, Defined
<1>8. PICK F : F = [x \in Link |-> FromBody(t, k, F, x)] /\ Erased(t, k) = F[t.hHead].tree
  <2>1. \E F : F = [x \in Link |-> FromBody(t, k, F, x)]
    BY <1>3, <1>7
  <2> QED
    BY <2>1 DEF Erased, FromBody
<1>9. \A x \in Link : F[x] = FromBody(t, k, F, x)
  BY <1>8
<1> DEFINE T == {x \in S : lo[x] < k /\ k < hi[x] => FromLaw(t, S, lo, hi, ht, p, x, F[x])}
<1>10. PICK n : n = [x \in S |-> ht[x]]
  OBVIOUS
<1>11. n \in [S -> Nat] /\ \A x \in S : n[x] = ht[x]
  BY <1>1, <1>10
<1>12. ASSUME NEW x \in S, \A y \in S : n[y] < n[x] => y \in T PROVE x \in T
  <2> SUFFICES ASSUME lo[x] < k, k < hi[x] PROVE FromLaw(t, S, lo, hi, ht, p, x, F[x])
    OBVIOUS
  <2>1. x \in Link /\ x # Nil
    BY <1>1
  <2>2. CASE t.data[x] = k
    <3>1. x = p
      BY <2>2, DataDiffer
    <3>2. PICK a : a = Unlinked(t, p)
      OBVIOUS
    <3>3. F[p] = [a EXCEPT !.tree = Freed(a.tree, p)]
      BY <1>9, <2>1, <2>2, <3>1, <3>2 DEF FromBody
    <3>4. FromLaw(t, S, lo, hi, ht, p, p, [a EXCEPT !.tree = Freed(a.tree, p)])
      BY <3>2, FromHere
    <3> QED
      BY <3>1, <3>3, <3>4
  <2>3. CASE t.data[x] # k
    <3>1. PICK f : f = Toward(t.data[x], k)
      OBVIOUS
    <3>2. f \in Side /\ Low(t.data, lo, f, x) < k /\ k < Upp(t.data, hi, f, x)
      BY <1>1, <2>3, <3>1, TowardIs
    <3>3. PICK y : y = t.child[f][x]
      OBVIOUS
    <3>4. y \in S
      <4>1. \/ y = Nil /\ \A g \in S : ~(Low(t.data, lo, f, x) < t.data[g] /\ t.data[g] < Upp(t.data, hi, f, x))
            \/ y \in S
        BY <3>2, <3>3, AVLFacts
      <4> QED
        BY <3>2, <4>1
    <3>5. n[y] < n[x]
      BY <1>11, <3>2, <3>3, <3>4, Falls
    <3>6. lo[y] = Low(t.data, lo, f, x) /\ hi[y] = Upp(t.data, hi, f, x)
      BY <1>1, <3>2, <3>3, <3>4, OneParent
    <3>7. PICK a : a = F[y]
      OBVIOUS
    <3>8. FromLaw(t, S, lo, hi, ht, p, y, a)
      BY <1>12, <3>2, <3>4, <3>5, <3>6, <3>7
    <3>9. F[x] = Shrunk(x, a, f)
      BY <1>9, <2>1, <2>3, <3>1, <3>3, <3>7 DEF FromBody
    <3>10. FromLaw(t, S, lo, hi, ht, p, x, Shrunk(x, a, f))
      BY <3>2, <3>3, <3>4, <3>8, FromThere
    <3> QED
      BY <3>9, <3>10
  <2> QED
    BY <2>2, <2>3
<1> HIDE DEF T
<1>13. S \subseteq T
  BY <1>11, <1>12, Deep
<1>14. PICK g : g = t.hHead
  OBVIOUS
<1>15. g \in S /\ t.hParent[g] = Nil /\ lo[g] <= lo[p] /\ hi[p] <= hi[g]
  BY <1>1, <1>14 DEF Tree, Shape, Root
<1>16. lo[g] < k /\ k < hi[g]
  BY <1>1, <1>15
<1>17. FromLaw(t, S, lo, hi, ht, p, g, F[g])
  BY <1>13, <1>15, <1>16 DEF T
<1>18. PICK w : w = Freed(t, p)
  OBVIOUS
<1>19. "hLeft" \in Side
  BY DEF Side
<1>20. Lower({p}, w, t, S, lo, hi, ht, S \ {p}, Nil, "hLeft", ht[g], lo[g], hi[g], F[g])
  BY <1>15, <1>17, <1>18, <1>19 DEF FromLaw
<1>21. PICK e : e = ht[g]
  OBVIOUS
<1>22. Removed(t, S, p, F[g].tree)
  BY <1>1, <1>18, <1>20, LowerRoot
<1> QED
  BY <1>8, <1>14, <1>22

-----------------------------------------------------------------------------
(* Insertion.                                                               *)

\* The bounds of the root can be any that are wide enough.
Widened(bound, at, v) == [h \in Cell |-> IF bound[h] = at THEN v ELSE bound[h]]

LEMMA Widen ==
  ASSUME NEW t, NEW S, NEW lo, NEW hi, NEW ht, AVL(t, S, lo, hi, ht), NEW k \in Int,
         NEW g \in S, g = t.hHead
  PROVE  \E lo2, hi2 : AVL(t, S, lo2, hi2, ht) /\ lo2[g] < k /\ k < hi2[g]
<1>1. /\ t \in TreeType /\ Shape(S, t.hHead, t.child, t.hParent, t.data, lo, hi)
      /\ Even(S, t.child, t.bf, ht, Nil, "hLeft", 0)
  BY DEF AVL, Tree
<1>2. /\ Numbers(S, t.data, lo, hi) /\ Between(S, t.data, lo, hi) /\ Nested(S, t.data, lo, hi)
      /\ Kids(S, t.child, t.hParent, t.data, lo, hi) /\ Parents(S, t.hHead, t.child, t.hParent)
      /\ Root(S, t.hHead, t.hParent, lo, hi)
  BY <1>1 DEF Shape
<1>3. PICK L \in Int : L = lo[g]
  BY <1>2 DEF Numbers
<1>4. PICK U \in Int : U = hi[g]
  BY <1>2 DEF Numbers
<1>5. PICK M \in Int : M <= L /\ M < k
  <2>1. L - 1 \in Int /\ k - 1 \in Int /\ L - 1 <= L /\ k - 1 < k
    OBVIOUS
  <2>2. CASE L < k
    BY <2>2
  <2>3. CASE ~(L < k)
    <3>1. k - 1 <= L /\ k - 1 < k
      BY <2>3
    <3> QED
      BY <2>1, <3>1
  <2> QED
    BY <2>2, <2>3
<1>6. PICK N \in Int : U <= N /\ k < N
  <2>1. CASE k < U
    BY <2>1
  <2>2. CASE ~(k < U)
    <3>1. U <= k + 1 /\ k < k + 1 /\ k + 1 \in Int
      BY <2>2
    <3> QED
      BY <3>1
  <2> QED
    BY <2>1, <2>2
<1>7. PICK lo2 : lo2 = Widened(lo, L, M)
  OBVIOUS
<1>8. PICK hi2 : hi2 = Widened(hi, U, N)
  OBVIOUS
<1>9. \A h \in S : /\ lo[h] \in Int /\ hi[h] \in Int /\ t.data[h] \in Int
                   /\ lo[h] < t.data[h] /\ t.data[h] < hi[h]
                   /\ L <= lo[h] /\ hi[h] <= U
  <2>1. \A h \in S : L <= lo[h] /\ hi[h] <= U
    BY <1>2, <1>3, <1>4 DEF Root
  <2> QED
    BY <1>2, <2>1 DEF Numbers, Between
<1>10. /\ S \in SUBSET Cell /\ t.data \in [Cell -> Int]
       /\ lo2 \in [Cell -> Int] /\ hi2 \in [Cell -> Int]
       /\ \A h \in Cell : /\ lo2[h] = IF lo[h] = L THEN M ELSE lo[h]
                          /\ hi2[h] = IF hi[h] = U THEN N ELSE hi[h]
  BY <1>2, <1>7, <1>8 DEF Numbers, Widened
<1>11. \A h \in S : /\ lo2[h] \in Int /\ hi2[h] \in Int
                    /\ lo2[h] = IF lo[h] = L THEN M ELSE lo[h]
                    /\ hi2[h] = IF hi[h] = U THEN N ELSE hi[h]
  BY <1>10
<1>12. Numbers(S, t.data, lo2, hi2)
  BY <1>10 DEF Numbers
<1>13. Between(S, t.data, lo2, hi2)
  <2> SUFFICES ASSUME NEW h \in S PROVE lo2[h] < t.data[h] /\ t.data[h] < hi2[h]
    BY DEF Between
  <2> QED
    BY <1>5, <1>6, <1>9, <1>11
<1>14. Nested(S, t.data, lo2, hi2)
  <2> SUFFICES ASSUME NEW a \in S, NEW b \in S, a # b PROVE Apart(t.data, lo2, hi2, a, b)
    BY DEF Nested
  <2>1. Apart(t.data, lo, hi, a, b)
    BY <1>2 DEF Nested
  <2>2. /\ lo[a] \in Int /\ hi[a] \in Int /\ t.data[a] \in Int
        /\ lo[a] < t.data[a] /\ t.data[a] < hi[a] /\ L <= lo[a] /\ hi[a] <= U
    BY <1>9
  <2>3. /\ lo[b] \in Int /\ hi[b] \in Int /\ t.data[b] \in Int
        /\ lo[b] < t.data[b] /\ t.data[b] < hi[b] /\ L <= lo[b] /\ hi[b] <= U
    BY <1>9
  <2>4. /\ lo2[a] = IF lo[a] = L THEN M ELSE lo[a]
        /\ hi2[a] = IF hi[a] = U THEN N ELSE hi[a]
        /\ lo2[b] = IF lo[b] = L THEN M ELSE lo[b]
        /\ hi2[b] = IF hi[b] = U THEN N ELSE hi[b]
    BY <1>11
  <2> QED
    BY <1>5, <1>6, <2>1, <2>2, <2>3, <2>4 DEF Apart
<1>15. Kids(S, t.child, t.hParent, t.data, lo2, hi2)
  <2> SUFFICES ASSUME NEW h \in S, NEW f \in Side
               PROVE  Kid(S, t.child, t.hParent, t.data, lo2, hi2, f, h)
    BY DEF Kids
  <2>1. Kid(S, t.child, t.hParent, t.data, lo, hi, f, h)
    BY <1>2 DEF Kids
  <2>2. \/ f = "hLeft" /\ Low(t.data, lo, f, h) = lo[h] /\ Upp(t.data, hi, f, h) = t.data[h]
           /\ Low(t.data, lo2, f, h) = lo2[h] /\ Upp(t.data, hi2, f, h) = t.data[h]
        \/ f = "hRight" /\ Low(t.data, lo, f, h) = t.data[h] /\ Upp(t.data, hi, f, h) = hi[h]
           /\ Low(t.data, lo2, f, h) = t.data[h] /\ Upp(t.data, hi2, f, h) = hi2[h]
    BY DEF Side, Low, Upp
  <2>3. /\ lo[h] \in Int /\ hi[h] \in Int /\ t.data[h] \in Int
        /\ lo[h] < t.data[h] /\ t.data[h] < hi[h] /\ L <= lo[h] /\ hi[h] <= U
    BY <1>9
  <2>4. /\ lo2[h] = IF lo[h] = L THEN M ELSE lo[h]
        /\ hi2[h] = IF hi[h] = U THEN N ELSE hi[h]
    BY <1>11
  <2>5. CASE /\ t.child[f][h] = Nil
             /\ \A d \in S : ~(Low(t.data, lo, f, h) < t.data[d] /\ t.data[d] < Upp(t.data, hi, f, h))
    <3>1. ASSUME NEW d \in S
          PROVE  ~(Low(t.data, lo2, f, h) < t.data[d] /\ t.data[d] < Upp(t.data, hi2, f, h))
      <4>1. ~(Low(t.data, lo, f, h) < t.data[d] /\ t.data[d] < Upp(t.data, hi, f, h))
        BY <2>5
      <4>2. t.data[d] \in Int /\ L < t.data[d] /\ t.data[d] < U
        BY <1>9
      <4> QED
        BY <2>2, <2>3, <2>4, <4>1, <4>2
    <3> QED
      BY <2>5, <3>1 DEF Kid
  <2>6. CASE /\ t.child[f][h] \in S /\ t.hParent[t.child[f][h]] = h
             /\ lo[t.child[f][h]] = Low(t.data, lo, f, h) /\ hi[t.child[f][h]] = Upp(t.data, hi, f, h)
    <3>1. PICK c \in S : c = t.child[f][h]
      BY <2>6
    <3>2. /\ lo2[c] = IF lo[c] = L THEN M ELSE lo[c]
          /\ hi2[c] = IF hi[c] = U THEN N ELSE hi[c]
      BY <1>11
    <3>3. lo[c] = Low(t.data, lo, f, h) /\ hi[c] = Upp(t.data, hi, f, h)
      BY <2>6, <3>1
    <3>4. lo2[c] = Low(t.data, lo2, f, h) /\ hi2[c] = Upp(t.data, hi2, f, h)
      BY <2>2, <2>3, <2>4, <3>2, <3>3
    <3> QED
      BY <2>6, <3>1, <3>4 DEF Kid
  <2> QED
    BY <2>1, <2>5, <2>6 DEF Kid
<1>16. Root(S, t.hHead, t.hParent, lo2, hi2)
  <2>1. g \in S /\ t.hParent[g] = Nil
    BY <1>2 DEF Root
  <2>2. ASSUME NEW h \in S PROVE lo2[g] <= lo2[h] /\ hi2[h] <= hi2[g]
    BY <1>3, <1>4, <1>5, <1>6, <1>9, <1>11
  <2> QED
    BY <2>1, <2>2 DEF Root
<1>17. AVL(t, S, lo2, hi2, ht)
  BY <1>1, <1>2, <1>12, <1>13, <1>14, <1>15, <1>16 DEF AVL, Tree, Shape
<1>18. lo2[g] < k /\ k < hi2[g]
  BY <1>3, <1>4, <1>5, <1>6, <1>11
<1> QED
  BY <1>17, <1>18

\* A function that does what the recursion of the insertion says.
IntoIs(t, k, F) ==
  /\ F = [x \in Cell |-> IntoBody(t, k, F, x)]
  /\ t.hHead # Nil => Inserted(t, k) = F[t.hHead]

LEMMA IntoDefined ==
  ASSUME NEW t, NEW S, NEW lo, NEW hi, NEW ht, AVL(t, S, lo, hi, ht), Bare(t, S), NEW k
  PROVE  \E F : IntoIs(t, k, F)
<1>2. PICK c : c = [kind |-> "into", t |-> t, k |-> k]
  OBVIOUS
<1>3. \A F, x : Body(c, F, x) = IntoBody(t, k, F, x)
  BY <1>2 DEF Body
<1>4. PICK d : d = Depth(S, ht)
  OBVIOUS
<1>5. DepthLaws(t, S, ht, d)
  BY <1>4, DepthFalls
<1>6. PICK m : m = [x \in Cell |-> d[x]]
  OBVIOUS
<1>7. m \in [Cell -> Nat] /\ \A x \in Cell : m[x] = d[x]
  BY <1>5, <1>6 DEF DepthLaws
<1>8. Grounded(c, Cell, m)
  <2> SUFFICES ASSUME NEW x \in Cell, NEW F, NEW G,
                      \A y \in Cell : m[y] < m[x] => F[y] = G[y]
               PROVE  IntoBody(t, k, F, x) = IntoBody(t, k, G, x)
    BY <1>3 DEF Grounded
  <2>1. PICK next : next = t.child[Toward(t.data[x], k)][x]
    OBVIOUS
  <2>2. next \in Link /\ d[next] < d[x]
    BY <1>5, <2>1 DEF DepthLaws, Toward, Side
  <2>3. next = Nil \/ next \in Cell
    BY <1>5, <2>2 DEF DepthLaws
  <2>4. next = Nil \/ F[next] = G[next]
    BY <1>7, <2>2, <2>3
  <2> QED
    BY <2>1, <2>4 DEF IntoBody
<1>9. \E F : F = [x \in Cell |-> Body(c, F, x)]
  BY <1>7, <1>8, Defined
<1>10. \E F : F = [x \in Cell |-> IntoBody(t, k, F, x)]
  BY <1>3, <1>9
<1> QED
  BY <1>10 DEF IntoIs, Inserted, IntoBody

\* A key that is there is found and nothing is changed.
LEMMA InsertedOld ==
  ASSUME NEW t, NEW S, NEW lo, NEW hi, NEW ht, AVL(t, S, lo, hi, ht), Bare(t, S),
         NEW p \in S, NEW k, k = t.data[p]
  PROVE  Inserted(t, k) = [tree |-> t, taller |-> FALSE, at |-> p]
<1>1. /\ t \in TreeType /\ Tree(t, S, lo, hi) /\ S \in SUBSET Cell /\ Nil \notin S /\ S \subseteq Link
      /\ ht \in [Link -> Nat] /\ k \in Int
      /\ \A h \in S : /\ lo[h] \in Int /\ hi[h] \in Int /\ t.data[h] \in Int
                      /\ lo[h] < t.data[h] /\ t.data[h] < hi[h]
  BY AVLFacts
<1>2. PICK F : IntoIs(t, k, F)
  BY IntoDefined
<1>3. PICK a : a = [tree |-> t, taller |-> FALSE, at |-> p]
  OBVIOUS
<1>9. \A x \in S : F[x] = IntoBody(t, k, F, x)
  BY <1>1, <1>2 DEF IntoIs
<1> DEFINE T == {x \in S : lo[x] < k /\ k < hi[x] => F[x] = a}
<1>10. PICK n : n = [x \in S |-> ht[x]]
  OBVIOUS
<1>11. n \in [S -> Nat] /\ \A x \in S : n[x] = ht[x]
  BY <1>1, <1>10
<1>12. ASSUME NEW x \in S, \A y \in S : n[y] < n[x] => y \in T PROVE x \in T
  <2> SUFFICES ASSUME lo[x] < k, k < hi[x] PROVE F[x] = a
    OBVIOUS
  <2>2. CASE t.data[x] = k
    <3>1. x = p
      BY <2>2, DataDiffer
    <3> QED
      BY <1>3, <1>9, <2>2, <3>1 DEF IntoBody
  <2>3. CASE t.data[x] # k
    <3>1. PICK f : f = Toward(t.data[x], k)
      OBVIOUS
    <3>2. f \in Side /\ Low(t.data, lo, f, x) < k /\ k < Upp(t.data, hi, f, x)
      BY <1>1, <2>3, <3>1, TowardIs
    <3>3. PICK y : y = t.child[f][x]
      OBVIOUS
    <3>4. y \in S
      <4>1. \/ y = Nil /\ \A g \in S : ~(Low(t.data, lo, f, x) < t.data[g] /\ t.data[g] < Upp(t.data, hi, f, x))
            \/ y \in S
        BY <3>2, <3>3, AVLFacts
      <4> QED
        BY <3>2, <4>1
    <3>5. n[y] < n[x]
      BY <1>11, <3>2, <3>3, <3>4, Falls
    <3>6. lo[y] = Low(t.data, lo, f, x) /\ hi[y] = Upp(t.data, hi, f, x)
      BY <1>1, <3>2, <3>3, <3>4, OneParent
    <3>8. F[y] = a
      BY <1>12, <3>2, <3>4, <3>5, <3>6
    <3>9. F[x] = Grown(x, a, k)
      BY <1>1, <1>9, <2>3, <3>1, <3>3, <3>4, <3>8 DEF IntoBody
    <3>10. Grown(x, a, k) = a
      BY <1>3 DEF Grown
    <3> QED
      BY <3>9, <3>10
  <2> QED
    BY <2>2, <2>3
<1> HIDE DEF T
<1>13. S \subseteq T
  BY <1>11, <1>12, Deep
<1>14. PICK g : g = t.hHead
  OBVIOUS
<1>15. g \in S /\ lo[g] <= lo[p] /\ hi[p] <= hi[g]
  BY <1>1, <1>14 DEF Tree, Shape, Root
<1>16. lo[g] < k /\ k < hi[g]
  BY <1>1, <1>15
<1>17. F[g] = a
  BY <1>13, <1>15, <1>16 DEF T
<1> QED
  BY <1>1, <1>2, <1>3, <1>14, <1>15, <1>17 DEF IntoIs

\* n is the new node of k, the others stay.
Planted(t, S, n, k, u) ==
  /\ \E lo2, hi2, ht2 : AVL(u, S \cup {n}, lo2, hi2, ht2)
  /\ Added(t, u, n, k) /\ Idle(S \cup {n}, t, u)

\* What the recursion of the insertion brings at h.
IntoLaw(t, S, lo, hi, ht, n, k, h, a) ==
  \A q, s : q = t.hParent[h] /\ s \in Side /\ (q # Nil => t.child[s][q] = h) =>
    \E w : /\ Added(t, w, n, k)
           /\ Raised(w, t, S, lo, hi, ht, S \cup {n}, n, q, s, ht[h], lo[h], hi[h], a)

LEMMA IntoStep ==
  ASSUME NEW t, NEW S, NEW lo, NEW hi, NEW ht, AVL(t, S, lo, hi, ht), NEW h \in S,
         NEW n, NEW k, NEW f, f = Toward(t.data[h], k), NEW w, Added(t, w, n, k), NEW e \in Nat,
         NEW x, x = Low(t.data, lo, f, h), NEW y, y = Upp(t.data, hi, f, h),
         NEW a, Raised(w, t, S, lo, hi, ht, S \cup {n}, n, h, f, e, x, y, a)
  PROVE  IntoLaw(t, S, lo, hi, ht, n, k, h, Grown(h, a, k))
<1> SUFFICES ASSUME NEW q, NEW s, q = t.hParent[h], s \in Side, q # Nil => t.child[s][q] = h
             PROVE  \E w3 : /\ Added(t, w3, n, k)
                            /\ Raised(w3, t, S, lo, hi, ht, S \cup {n}, n, q, s, ht[h], lo[h], hi[h],
                                      Grown(h, a, k))
  BY DEF IntoLaw
<1>1. t \in TreeType /\ Tree(t, S, lo, hi)
  BY AVLFacts
<1>2. f \in Side
  BY DEF Toward, Side
<1>3. Above(t, S, lo, hi, h, f, e, x, y, q, s)
  BY <1>1, <1>2 DEF Above
<1>4. Raised(w, t, S, lo, hi, ht, S \cup {n}, n, q, s, ht[h], lo[h], hi[h], Grown(h, a, k))
  BY <1>3, RaiseStep
<1> QED
  BY <1>4

LEMMA IntoLeaf ==
  ASSUME NEW t, NEW S, NEW lo, NEW hi, NEW ht, NEW h, NEW f, NEW n, NEW k, NEW u,
         NewLeaf(t, S, lo, hi, ht, h, f, n, k, u)
  PROVE  IntoLaw(t, S, lo, hi, ht, n, k, h, Grown(h, [tree |-> u, taller |-> TRUE, at |-> n], k))
<1>1. /\ AVL(t, S, lo, hi, ht) /\ h \in S /\ f = Toward(t.data[h], k)
  BY DEF NewLeaf
<1>2. PICK x : x = Low(t.data, lo, f, h)
  OBVIOUS
<1>3. PICK y : y = Upp(t.data, hi, f, h)
  OBVIOUS
<1>4. PICK lo2, hi2, ht2 :
        /\ Done(t, S, lo, hi, ht, h, f, 0, Low(t.data, lo, f, h), Upp(t.data, hi, f, h),
                u, S \cup {n}, lo2, hi2, ht2, n)
        /\ ht2[n] = 1 /\ Added(t, u, n, k)
  BY LeafDone
<1>5. PICK e \in Nat : e = 0
  OBVIOUS
<1>6. PICK higher \in BOOLEAN : higher = TRUE
  OBVIOUS
<1>7. PICK a : a = [tree |-> u, taller |-> higher, at |-> n]
  OBVIOUS
<1>8. Done(t, S, lo, hi, ht, h, f, e, x, y, u, S \cup {n}, lo2, hi2, ht2, n)
  BY <1>2, <1>3, <1>4, <1>5
<1>9. ht2[n] = IF higher THEN e + 1 ELSE e
  BY <1>4, <1>5, <1>6
<1>10. Rest(u, u)
  BY DEF Rest
<1>11. Raised(u, t, S, lo, hi, ht, S \cup {n}, n, h, f, e, x, y, a)
  BY <1>5, <1>7, <1>8, <1>9, <1>10 DEF Raised
<1>12. IntoLaw(t, S, lo, hi, ht, n, k, h, Grown(h, a, k))
  <2>1. Added(t, u, n, k)
    BY <1>4
  <2> QED
    BY <1>1, <1>2, <1>3, <1>11, <2>1, IntoStep
<1> QED
  BY <1>6, <1>7, <1>12

LEMMA RaisedRoot ==
  ASSUME NEW w, NEW t, NEW S, NEW lo, NEW hi, NEW ht, NEW n, NEW k, NEW s, NEW e, NEW x, NEW y, NEW a,
         Raised(w, t, S, lo, hi, ht, S \cup {n}, n, Nil, s, e, x, y, a), Added(t, w, n, k),
         S \cup {n} \in SUBSET Cell
  PROVE  Planted(t, S, n, k, a.tree) /\ a.at = n
<1>1. PICK u, lo2, hi2, ht2, r, higher :
         /\ a = [tree |-> u, taller |-> higher, at |-> n] /\ higher \in BOOLEAN /\ Rest(w, u)
         /\ Done(t, S, lo, hi, ht, Nil, s, e, x, y, u, S \cup {n}, lo2, hi2, ht2, r)
         /\ ht2[r] = (IF higher THEN e + 1 ELSE e)
         /\ (higher => u.bf[r] # EH \/ e = 0)
  BY DEF Raised
<1>2. /\ u \in TreeType /\ Tree(u, S \cup {n}, lo2, hi2) /\ Even(S \cup {n}, u.child, u.bf, ht2, Nil, s, e)
      /\ Idle(S \cup (S \cup {n}), t, u)
  BY <1>1 DEF Done
<1>3. Nil \notin S \cup {n}
  BY DEF Cell, Nil
<1>4. Even(S \cup {n}, u.child, u.bf, ht2, Nil, "hLeft", 0)
  BY <1>2, <1>3, EvenShift
<1>5. AVL(u, S \cup {n}, lo2, hi2, ht2)
  BY <1>2, <1>4 DEF AVL
<1>6. Idle(S \cup {n}, t, u)
  BY <1>2 DEF Idle
<1>7. Added(t, u, n, k)
  BY <1>1 DEF Added, Rest
<1> QED
  BY <1>1, <1>5, <1>6, <1>7 DEF Planted

LEMMA InsertedNew ==
  ASSUME NEW t, NEW S, NEW lo, NEW hi, NEW ht, AVL(t, S, lo, hi, ht), Bare(t, S),
         NEW k \in Int, \A h \in S : t.data[h] # k, NEW n, n = Position(t), n \in Cell \ S
  PROVE  Planted(t, S, n, k, Inserted(t, k).tree) /\ Inserted(t, k).at = n
<1>1. /\ t \in TreeType /\ Tree(t, S, lo, hi) /\ S \in SUBSET Cell /\ Nil \notin S /\ S \subseteq Link
      /\ ht \in [Link -> Nat]
      /\ t.hHead = Nil \/ t.hHead \in S
  BY AVLFacts
<1>2. CASE t.hHead = Nil
  <2>1. S = {}
    BY <1>1, <1>2 DEF Tree, Shape, Root
  <2>2. PICK u : u = Linked(t, k, Nil)
    OBVIOUS
  <2>3. Inserted(t, k) = [tree |-> u, taller |-> TRUE, at |-> n]
    BY <1>2, <2>2 DEF Inserted
  <2>4. AVL(t, {}, lo, hi, ht)
    BY <2>1
  <2>5. /\ \E lo2, hi2, ht2 : AVL(u, {n}, lo2, hi2, ht2)
        /\ Added(t, u, n, k) /\ Idle({n}, t, u)
    BY <2>2, <2>4, FirstLeaf
  <2>6. S \cup {n} = {n}
    BY <2>1
  <2>7. Planted(t, S, n, k, u)
    BY <2>5, <2>6 DEF Planted
  <2> QED
    BY <2>3, <2>7
<1>3. CASE t.hHead # Nil
  <2>1. PICK g \in S : g = t.hHead
    BY <1>1, <1>3
  <2>2. PICK lo1, hi1 : AVL(t, S, lo1, hi1, ht) /\ lo1[g] < k /\ k < hi1[g]
    BY <2>1, Widen
  <2>3. PICK F : IntoIs(t, k, F)
    BY IntoDefined
  <2>4. /\ t \in TreeType /\ Tree(t, S, lo1, hi1)
        /\ \A h \in S : /\ lo1[h] \in Int /\ hi1[h] \in Int /\ t.data[h] \in Int
                        /\ lo1[h] < t.data[h] /\ t.data[h] < hi1[h]
    BY <2>2, AVLFacts
  <2>9. \A x \in S : F[x] = IntoBody(t, k, F, x)
    BY <1>1, <2>3 DEF IntoIs
  <2> DEFINE T == {x \in S : lo1[x] < k /\ k < hi1[x] => IntoLaw(t, S, lo1, hi1, ht, n, k, x, F[x])}
  <2>10. PICK m : m = [x \in S |-> ht[x]]
    OBVIOUS
  <2>11. m \in [S -> Nat] /\ \A x \in S : m[x] = ht[x]
    BY <1>1, <2>10
  <2>12. ASSUME NEW x \in S, \A y \in S : m[y] < m[x] => y \in T PROVE x \in T
    <3> SUFFICES ASSUME lo1[x] < k, k < hi1[x] PROVE IntoLaw(t, S, lo1, hi1, ht, n, k, x, F[x])
      OBVIOUS
    <3>1. PICK f : f = Toward(t.data[x], k)
      OBVIOUS
    <3>2. f \in Side /\ Low(t.data, lo1, f, x) < k /\ k < Upp(t.data, hi1, f, x)
      <4>1. k # t.data[x]
        OBVIOUS
      <4> QED
        BY <2>2, <3>1, <4>1, TowardIs
    <3>3. PICK y : y = t.child[f][x]
      OBVIOUS
    <3>4. y = Nil \/ y \in S
      BY <2>2, <3>2, <3>3, AVLFacts
    <3>5. CASE y = Nil
      <4>1. PICK u : u = Linked(t, k, x)
        OBVIOUS
      <4>2. NewLeaf(t, S, lo1, hi1, ht, x, f, n, k, u)
        BY <2>2, <3>1, <3>2, <3>3, <3>5, <4>1 DEF NewLeaf
      <4>3. F[x] = Grown(x, [tree |-> u, taller |-> TRUE, at |-> n], k)
        BY <2>9, <3>1, <3>3, <3>5, <4>1 DEF IntoBody
      <4>4. IntoLaw(t, S, lo1, hi1, ht, n, k, x, Grown(x, [tree |-> u, taller |-> TRUE, at |-> n], k))
        BY <4>2, IntoLeaf
      <4> QED
        BY <4>3, <4>4
    <3>6. CASE y # Nil
      <4>1. y \in S
        BY <3>4, <3>6
      <4>2. m[y] < m[x]
        <5>1. ht[t.child[f][x]] < ht[x]
          BY <2>2, <3>2, Falls
        <5> QED
          BY <2>11, <3>3, <4>1, <5>1
      <4>3. lo1[y] = Low(t.data, lo1, f, x) /\ hi1[y] = Upp(t.data, hi1, f, x) /\ t.hParent[y] = x
        BY <2>4, <3>2, <3>3, <4>1, OneParent
      <4>4. PICK a : a = F[y]
        OBVIOUS
      <4>5. IntoLaw(t, S, lo1, hi1, ht, n, k, y, a)
        BY <2>12, <3>2, <4>1, <4>2, <4>3, <4>4
      <4>6. PICK e \in Nat : e = ht[y]
        BY <1>1, <4>1
      <4>7. PICK z : z = lo1[y]
        OBVIOUS
      <4>8. PICK v : v = hi1[y]
        OBVIOUS
      <4>9. PICK w : Added(t, w, n, k) /\ Raised(w, t, S, lo1, hi1, ht, S \cup {n}, n, x, f, e, z, v, a)
        BY <3>2, <3>3, <4>3, <4>5, <4>6, <4>7, <4>8 DEF IntoLaw
      <4>10. z = Low(t.data, lo1, f, x) /\ v = Upp(t.data, hi1, f, x)
        BY <4>3, <4>7, <4>8
      <4>11. IntoLaw(t, S, lo1, hi1, ht, n, k, x, Grown(x, a, k))
        <5>1. AVL(t, S, lo1, hi1, ht) /\ Added(t, w, n, k)
          BY <2>2, <4>9
        <5>2. Raised(w, t, S, lo1, hi1, ht, S \cup {n}, n, x, f, e, z, v, a)
          BY <4>9
        <5> QED
          BY <3>1, <4>10, <5>1, <5>2, IntoStep
      <4>12. F[x] = Grown(x, a, k)
        BY <2>9, <3>1, <3>3, <3>6, <4>4 DEF IntoBody
      <4> QED
        BY <4>11, <4>12
    <3> QED
      BY <3>5, <3>6
  <2> HIDE DEF T
  <2>13. S \subseteq T
    BY <2>11, <2>12, Deep
  <2>14. IntoLaw(t, S, lo1, hi1, ht, n, k, g, F[g])
    BY <2>2, <2>13 DEF T
  <2>15. t.hParent[g] = Nil
    BY <1>1, <1>3, <2>1 DEF Tree, Shape, Root
  <2>16. "hLeft" \in Side
    BY DEF Side
  <2>17. PICK a : a = F[g]
    OBVIOUS
  <2>18. PICK w : /\ Added(t, w, n, k)
                  /\ Raised(w, t, S, lo1, hi1, ht, S \cup {n}, n, Nil, "hLeft", ht[g], lo1[g], hi1[g], a)
    BY <2>14, <2>15, <2>16, <2>17 DEF IntoLaw
  <2>19. S \cup {n} \in SUBSET Cell
    BY <1>1
  <2>20. Planted(t, S, n, k, a.tree) /\ a.at = n
    BY <2>18, <2>19, RaisedRoot
  <2>21. Inserted(t, k) = a
    BY <1>3, <2>1, <2>3, <2>17 DEF IntoIs
  <2> QED
    BY <2>20, <2>21
<1> QED
  BY <1>2, <1>3
=============================================================================
