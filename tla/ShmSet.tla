-------------------------------- MODULE ShmSet --------------------------------
(***************************************************************************)
(* T_SHMSET_NO_MUTEX (src/shmfc/shmSet_NoMutex.h), the set in shared       *)
(* memory that the maps, the sets of lists, the indexes and the cache are  *)
(* made of: a balanced (AVL) tree whose nodes are cells of a T_ARRAY and   *)
(* whose links are handles, the numbers of cells.                          *)
(*                                                                         *)
(* The users of a set hold its lock for a call, so a call is one step.     *)
(* The code's recursions over the tree are recursive functions on cells,   *)
(* with a case for the way down and a call for the way back.  Cells given  *)
(* back are chained through hParent and used again before the array grows. *)
(***************************************************************************)
EXTENDS Integers, Sequences, FiniteSets

CONSTANTS
  Key,        \* the data, in the order of T_COMP
  MaxNodes,   \* the most cells any program has memory for
  Program     \* programs that use a set: the keys they put in first, the keys
              \* they use then, the cells Reserve can get from the system, and,
              \* as a bound, how many calls they make

ASSUME KeyAssumption == Key \subseteq Nat
ASSUME NodesAssumption == MaxNodes \in Nat \ {0}
ASSUME ProgramAssumption ==
  \A p \in Program : /\ p.put \in Seq(Key) /\ Len(p.put) <= p.cells
                     /\ p.use \subseteq Key /\ p.cells \in 1..MaxNodes /\ p.calls \in Nat

VARIABLES
  tree,    \* the cells field by field, with hLeft and hRight in child, then hHead,
           \* free_head and size of TREE_HEAD, and the array's size
  it,      \* the handle of the iterator the last call returned, Nil if none
  isNew,   \* the second part of what insert returned
  program, \* the program that uses the set
  calls    \* how many calls it has made

vars == <<tree, it, isNew, program, calls>>

Nil == -1                    \* no node, and end()
Cell == 0..MaxNodes - 1
Link == Cell \cup {Nil}
Side == {"hLeft", "hRight"}
LH == 1                      \* the left side is higher
EH == 0
RH == -1
NoData == -1                 \* what is in a cell nothing was written to
Everywhere(v) == [h \in Cell |-> v]
Empty == [child |-> [f \in Side |-> Everywhere(Nil)], hParent |-> Everywhere(Nil),
          bf |-> Everywhere(EH), deleted |-> Everywhere(FALSE), data |-> Everywhere(NoData),
          hHead |-> Nil, free_head |-> Nil, size |-> 0, array_size |-> 0]

\* Both links are treated alike: f is the link to one side, Other(f) the other.
Other(f) == IF f = "hLeft" THEN "hRight" ELSE "hLeft"
Higher(f) == IF f = "hLeft" THEN LH ELSE RH
Toward(d, k) == IF k < d THEN "hLeft" ELSE "hRight"
SetParent(t, h, p) == IF h = Nil THEN t ELSE [t EXCEPT !.hParent[h] = p]
Alone(t, h) == [f \in Side |-> [t.child[f] EXCEPT ![h] = Nil]]

-----------------------------------------------------------------------------
(* Rotations.                                                              *)

\* des takes the place of src below src's parent.
ChangeRoot(t, src, des) ==
  LET p == t.hParent[src]
      u == [t EXCEPT !.hParent[des] = p]
  IN IF p = Nil THEN [u EXCEPT !.hHead = des]
     ELSE [u EXCEPT !.child[IF t.child["hLeft"][p] = src THEN "hLeft" ELSE "hRight"][p] = des]

\* The child on side f comes up, p goes down on the other side.
Rotate(t, p, f) ==
  LET c == t.child[f][p]
      inner == t.child[Other(f)][c]
      u == ChangeRoot(SetParent([t EXCEPT !.child[f][p] = inner], inner, p), p, c)
  IN [u EXCEPT !.hParent[p] = c, !.child[Other(f)][c] = p]

\* p is too high on side f: one rotation, or two when the inner grandchild is.
Balance(t, p, f) ==
  LET s == Higher(f)
      c == t.child[f][p]
      m == t.child[Other(f)][c]
      g == t.bf[m]
  IN CASE t.bf[c] = EH -> Rotate([t EXCEPT !.bf[p] = s, !.bf[c] = -s], p, f)
       [] t.bf[c] = s  -> Rotate([t EXCEPT !.bf[p] = EH, !.bf[c] = EH], p, f)
       [] OTHER ->
            Rotate(Rotate([t EXCEPT !.bf[p] = IF g = s THEN -s ELSE EH,
                                    !.bf[c] = IF g = -s THEN s ELSE EH, !.bf[m] = EH],
                          c, Other(f)), p, f)

-----------------------------------------------------------------------------
(* Ways through the tree.                                                  *)

\* The cells that are nodes.
Live(t) == {h \in 0..t.array_size - 1 : ~t.deleted[h]}

\* From h on along the links f to the last, as _begin and _end go.
Edge(t, h, f) ==
  LET far[g \in Cell] == IF t.child[f][g] = Nil THEN g ELSE far[t.child[f][g]]
  IN far[h]

Begin(t) == IF t.hHead = Nil THEN Nil ELSE Edge(t, t.hHead, "hLeft")
RBegin(t) == IF t.hHead = Nil THEN Nil ELSE Edge(t, t.hHead, "hRight")

\* isRight and, for f = "hLeft", isLeft, which is also said of the root.
IsOn(t, h, f) ==
  LET p == t.hParent[h]
      right == p # Nil /\ t.child["hRight"][p] = h
  IN right <=> f = "hRight"

\* Mutant: the way up from a right child ends at the first parent.
WrongStep(t, h, f) ==
  IF t.child[f][h] # Nil THEN Edge(t, t.child[f][h], Other(f))
  ELSE LET p == t.hParent[h]
       IN IF p # Nil /\ IsOn(t, h, f) THEN t.hParent[p] ELSE p

\* Up from h to the first node that is not on side f of its parent, or past
\* the root.
Turn(t, h, f) ==
  LET up[g \in Live(t)] ==
        LET p == t.hParent[g] IN IF p # Nil /\ IsOn(t, p, f) THEN up[p] ELSE p
  IN up[h]

\* The next node, ++, for f = "hRight", the one before, --, for f = "hLeft".
Step(t, h, f) ==
  LET p == t.hParent[h]
      top == Turn(t, h, f)
  IN CASE t.child[f][h] # Nil -> Edge(t, t.child[f][h], Other(f))
       [] t.child[f][h] = Nil /\ p # Nil /\ IsOn(t, h, f) ->
            IF top = Nil THEN Nil ELSE t.hParent[top]
       [] OTHER -> p

\* The first node not below k, strictly above it when strict.
Bound(t, k, strict) ==
  LET down[h \in Link] ==
        IF h = Nil THEN Nil
        ELSE LET d == t.data[h]
                 left == down[t.child["hLeft"][h]]
             IN CASE k < d -> IF left = Nil THEN h ELSE left
                  [] d < k \/ (d = k /\ strict) -> down[t.child["hRight"][h]]
                  [] OTHER -> h
  IN down[t.hHead]

Find(t, k) ==
  LET h == Bound(t, k, FALSE)
  IN IF h # Nil /\ t.data[h] = k THEN h ELSE Nil

-----------------------------------------------------------------------------
(* Insertion.                                                              *)

\* On the way back: the side of h towards k has grown by one, if a.taller.
Grown(h, a, k) ==
  LET t == a.tree
      f == Toward(t.data[h], k)
  IN CASE ~a.taller -> a
       [] a.taller /\ t.bf[h] = EH -> [a EXCEPT !.tree.bf[h] = Higher(f)]
       [] a.taller /\ t.bf[h] = Higher(Other(f)) ->
            [a EXCEPT !.tree.bf[h] = EH, !.taller = FALSE]
       [] OTHER -> [a EXCEPT !.tree = Balance(t, h, f), !.taller = FALSE]

\* The cell the next node gets: the first free one, or one more of the array.
Position(t) == IF t.free_head # Nil THEN t.free_head ELSE t.array_size
Full(t) == t.free_head = Nil /\ t.array_size = program.cells

\* The cell of the next node, taken and made that node; free is the next free one.
Node(t, k, parent, free) ==
  LET h == Position(t)
  IN [t EXCEPT !.array_size = IF t.free_head = Nil THEN @ + 1 ELSE @,
               !.free_head = free, !.child = Alone(t, h), !.hParent[h] = parent,
               !.bf[h] = EH, !.deleted[h] = FALSE, !.data[h] = k, !.size = @ + 1]

\* Mutant: the cell is written before the next free one is read from it.
WrongLinked(t, k, parent) ==
  LET h == Position(t)
      u == Node(t, k, parent, IF t.free_head = Nil THEN Nil ELSE parent)
  IN IF parent = Nil THEN [u EXCEPT !.hHead = h]
     ELSE [u EXCEPT !.child[Toward(t.data[parent], k)][parent] = h]

\* A new node for k below parent.
Linked(t, k, parent) ==
  LET h == Position(t)
      u == Node(t, k, parent, IF t.free_head = Nil THEN Nil ELSE t.hParent[h])
  IN IF parent = Nil THEN [u EXCEPT !.hHead = h]
     ELSE [u EXCEPT !.child[Toward(t.data[parent], k)][parent] = h]

\* The tree with k, whether it has become higher, and the node of k.
Inserted(t, k) ==
  LET new(parent) == [tree |-> Linked(t, k, parent), taller |-> TRUE, at |-> Position(t)]
      into[vp \in Cell] ==
        LET next == t.child[Toward(t.data[vp], k)][vp]
        IN IF t.data[vp] = k THEN [tree |-> t, taller |-> FALSE, at |-> vp]
           ELSE Grown(vp, IF next = Nil THEN new(vp) ELSE into[next], k)
  IN IF t.hHead = Nil THEN new(Nil) ELSE into[t.hHead]

-----------------------------------------------------------------------------
(* Erasure.                                                                *)

\* Mutant: a turn is always taken to have made the tree lower.
WrongShrunk(h, a, f) ==
  LET t == a.tree
      g == Other(f)
  IN CASE ~a.lower -> a
       [] a.lower /\ t.bf[h] = Higher(f) -> [a EXCEPT !.tree.bf[h] = EH]
       [] a.lower /\ t.bf[h] = EH -> [a EXCEPT !.tree.bf[h] = Higher(g), !.lower = FALSE]
       [] OTHER -> [a EXCEPT !.tree = Balance(t, h, g)]

\* On the way back: side f of h has become lower by one, if a.lower.
Shrunk(h, a, f) ==
  LET t == a.tree
      g == Other(f)
  IN CASE ~a.lower -> a
       [] a.lower /\ t.bf[h] = Higher(f) -> [a EXCEPT !.tree.bf[h] = EH]
       [] a.lower /\ t.bf[h] = EH -> [a EXCEPT !.tree.bf[h] = Higher(g), !.lower = FALSE]
       [] OTHER -> [a EXCEPT !.tree = Balance(t, h, g), !.lower = t.bf[t.child[g][h]] # EH]

\* r, the right-most node of p's left side, takes p's place.
Moved(t, p, r) ==
  LET up == t.hParent[r]
      below == t.child["hLeft"][r]
      u == IF up = p THEN t
           ELSE SetParent([t EXCEPT !.child["hRight"][up] = below], below, up)
      v == ChangeRoot(u, p, r)
      w == IF up = p THEN v
           ELSE SetParent([v EXCEPT !.child["hLeft"][r] = u.child["hLeft"][p]],
                          u.child["hLeft"][p], r)
  IN SetParent([w EXCEPT !.bf[r] = t.bf[p], !.child["hRight"][r] = t.child["hRight"][p]],
               t.child["hRight"][p], r)

\* A node with two children: the tree below is balanced again, then its place.
Replaced(t, p) ==
  LET left == t.child["hLeft"][p]
      most[r \in Cell] ==
        LET next == t.child["hRight"][r]
        IN IF next = Nil THEN [tree |-> Moved(t, p, r), lower |-> TRUE]
           ELSE Shrunk(r, most[next], "hRight")
      last == Edge(t, left, "hRight")
      a == IF last = left THEN [tree |-> Moved(t, p, left), lower |-> TRUE] ELSE most[left]
  IN Shrunk(last, a, "hLeft")

\* The node is taken out of the tree, nodes above it are left as they are.
Unlinked(t, p) ==
  LET left == t.child["hLeft"][p]
      right == t.child["hRight"][p]
      up == t.hParent[p]
  IN CASE left # Nil /\ right # Nil -> Replaced(t, p)
       [] left = Nil /\ right = Nil ->
            [tree |-> IF up = Nil THEN [t EXCEPT !.hHead = Nil]
                      ELSE [t EXCEPT !.child[IF t.child["hLeft"][up] = p THEN "hLeft"
                                             ELSE "hRight"][up] = Nil],
             lower |-> TRUE]
       [] OTHER -> [tree |-> ChangeRoot(t, p, IF left # Nil THEN left ELSE right),
                    lower |-> TRUE]

\* The cell goes to the head of the free list; its data stays where it is.
Freed(t, p) ==
  [t EXCEPT !.child = Alone(t, p), !.hParent[p] = t.free_head, !.bf[p] = EH,
            !.deleted[p] = TRUE, !.free_head = p, !.size = @ - 1]

\* The tree without k.
Erased(t, k) ==
  LET from[vp \in Link] ==
        LET d == t.data[vp]
            f == Toward(d, k)
            a == Unlinked(t, vp)
        IN CASE vp = Nil -> [tree |-> t, lower |-> FALSE]
             [] vp # Nil /\ d = k -> [a EXCEPT !.tree = Freed(a.tree, vp)]
             [] OTHER -> Shrunk(vp, from[t.child[f][vp]], f)
  IN from[t.hHead].tree

-----------------------------------------------------------------------------
(* Rebuilding from the array.                                              *)

\* FastRebuild__Layer: the layers a tree of n nodes needs; in l layers there
\* is room for twice as many as in one less, and one.
Layer(n) ==
  LET room[l \in 0..MaxNodes] == IF l = 0 THEN 0 ELSE 2 * room[l - 1] + 1
  IN CHOOSE l \in 0..MaxNodes : room[l] >= n /\ (l = 0 \/ room[l - 1] < n)

\* FastRebuild__SetNode: the part of n sorted nodes that i is in the middle of,
\* and the middle of the part that one was halved from.
Holding(n, i) == {p \in [from : 0..n, to : 0..n, hParent : Link] : p.from <= i /\ i < p.to}
Part(n, i) ==
  LET part[p \in Holding(n, i)] ==
        LET mid == (p.from + p.to) \div 2
        IN CASE i < mid -> part[[from |-> p.from, to |-> mid, hParent |-> mid]]
             [] i > mid -> part[[from |-> mid + 1, to |-> p.to, hParent |-> mid]]
             [] OTHER -> p
  IN part[[from |-> 0, to |-> n, hParent |-> Nil]]

\* The array holds the keys ks, sorted, each once, and nothing else.
Rebuilt(ks) ==
  LET n == Cardinality(ks)
      Sorted(h) == CHOOSE k \in ks : Cardinality({j \in ks : j < k}) = h
      Left(h) == LET a == Part(n, h).from IN IF a = h THEN Nil ELSE (a + h) \div 2
      Right(h) == LET b == Part(n, h).to IN IF h + 1 = b THEN Nil ELSE (h + 1 + b) \div 2
  IN [child |-> [f \in Side |-> [h \in Cell |-> IF h >= n THEN Nil
                                   ELSE IF f = "hLeft" THEN Left(h) ELSE Right(h)]],
      hParent |-> [h \in Cell |-> IF h < n THEN Part(n, h).hParent ELSE Nil],
      bf |-> [h \in Cell |-> IF h < n THEN Layer(h - Part(n, h).from) - Layer(Part(n, h).to - h - 1)
                             ELSE EH],
      deleted |-> Everywhere(FALSE),
      data |-> [h \in Cell |-> IF h < n THEN Sorted(h) ELSE NoData],
      hHead |-> n \div 2, free_head |-> Nil, size |-> n, array_size |-> n]

-----------------------------------------------------------------------------
(* The calls.                                                              *)

\* The set after the first insertions of a program.
Filled(put) ==
  LET filled[i \in 0..Len(put)] ==
        IF i = 0 THEN Empty ELSE Inserted(filled[i - 1], put[i]).tree
  IN filled[Len(put)]

\* A set just made, filled by insertions or by FastRebuild_PushData.
Init ==
  /\ program \in Program
  /\ \/ tree = Filled(program.put)
     \/ program.put # <<>>
        /\ tree = Rebuilt({program.put[i] : i \in 1..Len(program.put)})
  /\ it = Nil /\ isNew = FALSE /\ calls = 0

Call == calls < program.calls /\ calls' = calls + 1 /\ UNCHANGED program

Insert(k) ==
  /\ Call
  /\ ~Full(tree)
  /\ LET a == Inserted(tree, k) IN tree' = a.tree /\ it' = a.at
  /\ isNew' = (tree'.size > tree.size)

\* Reserve finds no memory; the key may even be there, it is not looked for.
Insert_Full ==
  /\ Call
  /\ Full(tree)
  /\ it' = Nil /\ isNew' = FALSE /\ UNCHANGED tree

\* Mutant: a node with two children stays and takes over its neighbour's data.
WrongErase(k) ==
  /\ Call
  /\ LET p == Find(tree, k)
         near == Edge(tree, tree.child["hLeft"][p], "hRight")
         d == tree.data[near]
     IN tree' = IF p = Nil THEN tree
                ELSE IF tree.child["hLeft"][p] = Nil THEN Erased(tree, k)
                ELSE [Erased(tree, d) EXCEPT !.data[p] = d]
  /\ it' = Nil /\ isNew' = FALSE

Erase(k) ==
  /\ Call
  /\ tree' = IF Find(tree, k) = Nil THEN tree ELSE Erased(tree, k)
  /\ it' = Nil /\ isNew' = FALSE

\* Mutant: the iterator steps on when its node is gone.
WrongDeleteAndMoveNext(h) ==
  /\ Call
  /\ tree' = Erased(tree, tree.data[h])
  /\ it' = Step(tree', h, "hRight")
  /\ isNew' = FALSE

DeleteAndMoveNext(h) ==
  /\ Call
  /\ it' = Step(tree, h, "hRight")
  /\ tree' = Erased(tree, tree.data[h])
  /\ isNew' = FALSE

Clear ==
  /\ Call
  /\ tree' = Empty /\ it' = Nil /\ isNew' = FALSE

\* repair, and the end of a fast rebuild, of a set that is not empty: the
\* deleted cells go, the others are sorted and the tree is made anew.
Repair ==
  /\ Call
  /\ Live(tree) # {}
  /\ tree' = Rebuilt({tree.data[h] : h \in Live(tree)})
  /\ it' = Nil /\ isNew' = FALSE

Next ==
  \/ \E k \in program.use : Insert(k) \/ Erase(k)
  \/ Insert_Full \/ Clear \/ Repair
  \/ \E h \in Live(tree) : DeleteAndMoveNext(h)

Spec == Init /\ [][Next]_vars
-----------------------------------------------------------------------------
(* What must hold.                                                         *)

\* The nodes below each node, it included.
Below(t) ==
  LET below[h \in Link] ==
        IF h = Nil THEN {}
        ELSE {h} \cup below[t.child["hLeft"][h]] \cup below[t.child["hRight"][h]]
  IN below
InTree(t) == Below(t)[t.hHead]

Higher2(m, n) == IF m > n THEN m ELSE n
Height(t) ==
  LET tall[h \in Link] ==
        IF h = Nil THEN 0
        ELSE 1 + Higher2(tall[t.child["hLeft"][h]], tall[t.child["hRight"][h]])
  IN tall

\* The free list, cell by cell, then Nil.
FreeList(t) ==
  LET free[n \in 0..MaxNodes] ==
        IF n = 0 THEN t.free_head
        ELSE IF free[n - 1] = Nil THEN Nil ELSE t.hParent[free[n - 1]]
  IN free

(* The variables are in their ranges, and whatever insertions, erasures and *)
(* rebuilds went before, the links make one ordered tree: parents and      *)
(* children name each other, all data on the left are less and all on the  *)
(* right greater, and each balance factor is the difference of two heights *)
(* that differ by one at most (_LBalance, _RBalance, MoveBalance,          *)
(* FastRebuild__SetNode).                                                  *)
TreeOK ==
  LET Kid(f, h) == tree.child[f][h]
      below == Below(tree)
      tall == Height(tree)
  IN /\ tree.hHead \in Link /\ it \in Link
     /\ isNew \in BOOLEAN /\ calls \in 0..program.calls /\ program \in Program
     /\ tree.hHead # Nil => tree.hParent[tree.hHead] = Nil
     /\ \A h \in InTree(tree) :
          /\ \A f \in Side : Kid(f, h) # Nil => tree.hParent[Kid(f, h)] = h
          /\ \A g \in below[Kid("hLeft", h)] : tree.data[g] < tree.data[h]
          /\ \A g \in below[Kid("hRight", h)] : tree.data[h] < tree.data[g]
          /\ tree.bf[h] = tall[Kid("hLeft", h)] - tall[Kid("hRight", h)]
          /\ tree.bf[h] \in {LH, EH, RH}

(* Every cell of the array is in the tree or in the free list, never in     *)
(* both and never twice, the deleted marks say which, and the size in the  *)
(* head counts the tree (____insert and ___erase; _check looks for it).    *)
CellsAccounted ==
  LET list == FreeList(tree)
      free == {list[n] : n \in 0..MaxNodes} \ {Nil}
      used == InTree(tree)
  IN /\ list[MaxNodes] = Nil
     /\ used \cap free = {} /\ used \cup free = 0..tree.array_size - 1
     /\ used = Live(tree) /\ tree.size = Cardinality(used)

(* To go through the set with begin and ++, or from the other end with --,  *)
(* and to look for a key or the bound of one, gives the keys in their      *)
(* order, each once, from every node of every tree.                        *)
WalkExact ==
  LET nodes == InTree(tree)
      First(S) == IF S = {} THEN Nil
                  ELSE CHOOSE h \in S : \A g \in S : tree.data[h] <= tree.data[g]
      Final(S) == IF S = {} THEN Nil
                  ELSE CHOOSE h \in S : \A g \in S : tree.data[g] <= tree.data[h]
  IN /\ Begin(tree) = First(nodes) /\ RBegin(tree) = Final(nodes)
     /\ \A h \in nodes :
          /\ Step(tree, h, "hRight") = First({g \in nodes : tree.data[h] < tree.data[g]})
          /\ Step(tree, h, "hLeft") = Final({g \in nodes : tree.data[g] < tree.data[h]})
     /\ \A k \in Key :
          /\ Find(tree, k) = First({g \in nodes : tree.data[g] = k})
          /\ Bound(tree, k, FALSE) = First({g \in nodes : k <= tree.data[g]})
          /\ Bound(tree, k, TRUE) = First({g \in nodes : k < tree.data[g]})

(* Insertion and erasure relink the nodes and copy none: the handle a       *)
(* program has kept for a key stays that key's until it is erased or the    *)
(* whole set is rebuilt (___erase moves a node, not its data).             *)
HandlesStay ==
  [][~Repair => \A h \in Live(tree) \cap Live(tree') : tree'.data[h] = tree.data[h]]_vars

(* To its users the set is a set of keys: each call puts in or takes out    *)
(* the key it is given and no other, and what it returns is right - the    *)
(* iterator of the key put in, whether it was new, after an erasure on the *)
(* way the next key (insert, erase, DeleteAndMoveNext, Clear, repair).     *)
Keys == INSTANCE KeySet WITH
  End <- NoData, keys <- {tree.data[h] : h \in InTree(tree)},
  at <- IF it = Nil THEN NoData ELSE tree.data[it], isNew <- isNew
ImplementsKeySet ==
  /\ Keys!Spec
  /\ [][/\ \A k \in program.use : /\ Insert(k) => Keys!Insert(k)
                                  /\ Erase(k) => Keys!Erase(k)
        /\ \A h \in Live(tree) :
             DeleteAndMoveNext(h) => Keys!EraseAndMove(tree.data[h])
        /\ Insert_Full => Keys!Refuse
        /\ Clear => Keys!Clear
        /\ Repair => Keys!Rebuild]_vars
===============================================================================
