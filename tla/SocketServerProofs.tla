-------------------------- MODULE SocketServerProofs --------------------------
(***************************************************************************)
(* Proofs about SocketServer: the main loop and its children are a pool,   *)
(* for any number of slots and of children, as processes and as threads.   *)
(***************************************************************************)
EXTENDS SocketServer, FiniteSetTheorems, WellFoundedInduction, TLAPS

-----------------------------------------------------------------------------
(* The inductive invariant *)

MainPlace ==
  {"loop", "check", "admin", "user", "poll", "add", "make", "store", "create",
   "failed", "stopping", "stopped"}
ChildPlace == {"none", "zombie", "serve", "lock", "accept"}
MainRecord == [at : MainPlace, bM : BOOLEAN, count : Nat, mgr : BOOLEAN, i : {0} \cup Slot,
               pid : Child \cup {Nobody}, limit : Nat]
ChildRecord == [at : ChildPlace, i : {0} \cup Slot, mgr : BOOLEAN]

Types ==
  /\ MultiProcessMode \in BOOLEAN /\ max_child \in Slot
  /\ childs \in [Slot -> [pid : Child \cup {Nobody}, isMgrPort : BOOLEAN]]
  /\ main \in MainRecord
  /\ child \in [Child -> ChildRecord]

\* A child that lives is in a slot of its own: the slot has its number, or it is
\* the process that the main loop has just made and whose number it will store.
Stored(c) == child[c].i \in Slot /\ childs[child[c].i].pid = c
BeingStored(c) == main.at = "store" /\ main.pid = c /\ child[c].i = main.i
LiveHaveSlot == \A c \in Live : Stored(c) \/ BeingStored(c)

\* The slot and the number of the child that is being made.
MakingRight ==
  /\ main.at \in {"make", "store", "create"} => main.i \in Slot
  /\ main.at \in {"store", "create"} => main.pid \in Child
  /\ main.at \in {"make", "store"} => childs[main.i].pid = Nobody
  /\ main.at = "store" => MultiProcessMode
  /\ main.at = "create" => childs[main.i].pid = main.pid /\ child[main.pid].at = "none"

\* From the moment it has counted, the main loop is the only one that fills a
\* slot, so there are no more children than it has counted; and that is one less
\* than are allowed, two less for a user.
Counted ==
  {i \in Slot : childs[i].pid # Nobody /\ ~(main.at = "create" /\ i = main.i)}
CountHolds ==
  main.at \in {"admin", "user", "poll", "add", "make", "store", "create"} =>
    /\ Cardinality(Counted) <= main.count
    /\ main.count < main.limit
    /\ main.at \notin {"admin", "user"} /\ ~main.mgr => main.count + 1 < main.limit

IInv == Types /\ LiveHaveSlot /\ MakingRight /\ CountHolds

-----------------------------------------------------------------------------
(* Slots and counting *)

LEMMA SlotsFinite ==
  /\ IsFiniteSet(Slot) /\ Cardinality(Slot) = CSocketServer_MAX_CHILD
  /\ Slot \subseteq Nat \ {0}
  /\ \A S \in SUBSET Slot : IsFiniteSet(S) /\ Cardinality(S) \in Nat
<1>1. IsFiniteSet(Slot) /\ Cardinality(Slot) = CSocketServer_MAX_CHILD
  BY ServerAssumption, FS_Interval DEF Slot
<1>2. \A S \in SUBSET Slot : IsFiniteSet(S)
  BY <1>1, FS_Subset
<1>3. \A S \in SUBSET Slot : Cardinality(S) \in Nat
  BY <1>2, FS_CardinalityType
<1> QED
  BY <1>1, <1>2, <1>3, ServerAssumption DEF Slot

LEMMA SmallerSet ==
  ASSUME NEW S \in SUBSET Slot, NEW T \in SUBSET Slot, T \subseteq S
  PROVE  Cardinality(T) <= Cardinality(S)
BY SlotsFinite, FS_Subset

LEMMA OneMore ==
  ASSUME NEW S \in SUBSET Slot, NEW i \in S
  PROVE  Cardinality(S) = Cardinality(S \ {i}) + 1
BY SlotsFinite, FS_RemoveElement

LEMMA LowestSlot ==
  ASSUME NEW free \in SUBSET Slot, free # {}
  PROVE  Min(free) \in free
<1>1. free \subseteq Nat
  BY SlotsFinite
<1>2. PICK x \in free : \A y \in free : ~(<<y, x>> \in OpToRel(<, Nat))
  BY <1>1, NatLessThanWellFounded, WFMin
<1>3. \A y \in free : ~(y < x)
  BY <1>1, <1>2 DEF OpToRel
<1>4. \A y \in free : x <= y
  BY <1>1, <1>3
<1> QED
  BY <1>4 DEF Min

-----------------------------------------------------------------------------
(* What a step of the main loop or of a child changes *)

LEMMA MainGoes ==
  ASSUME main \in MainRecord, NEW place \in MainPlace, GoMain(place)
  PROVE  /\ main' \in MainRecord /\ main'.at = place
         /\ main'.bM = main.bM /\ main'.count = main.count /\ main'.mgr = main.mgr
         /\ main'.i = main.i /\ main'.pid = main.pid /\ main'.limit = main.limit
BY DEF GoMain, MainRecord

LEMMA MainBack ==
  ASSUME main \in MainRecord, BackInLoop
  PROVE  main' \in MainRecord /\ main'.at = "check" /\ main'.limit = 0
BY DEF BackInLoop, Idle, MainRecord, MainPlace

LEMMA ChildGoes ==
  ASSUME Types, NEW c \in Child, NEW place \in ChildPlace, Go(c, place)
  PROVE  /\ child' \in [Child -> ChildRecord]
         /\ child'[c].at = place /\ child'[c].i = child[c].i /\ child'[c].mgr = child[c].mgr
         /\ \A d \in Child : d # c => child'[d] = child[d]
<1>1. child[c] \in ChildRecord
  BY DEF Types
<1>2. child'[c] = [child[c] EXCEPT !.at = place]
  BY DEF Types, Go
<1>3. [child[c] EXCEPT !.at = place] \in ChildRecord
  BY <1>1 DEF ChildRecord
<1> QED
  BY <1>1, <1>2, <1>3 DEF Go, Types, ChildRecord

\* Two children that live are in two slots.
LEMMA OneEach ==
  ASSUME IInv, NEW c \in Live, NEW d \in Live, child[c].i = child[d].i
  PROVE  c = d
<1>1. Nobody \notin Child /\ c \in Child /\ d \in Child
  BY ServerAssumption DEF Live
<1>2. (Stored(c) \/ BeingStored(c)) /\ (Stored(d) \/ BeingStored(d))
  BY DEF IInv, LiveHaveSlot
<1> QED
  BY <1>1, <1>2 DEF IInv, MakingRight, Stored, BeingStored

LEMMA InitIInv == Init => IInv
<1> SUFFICES ASSUME Init PROVE IInv
  OBVIOUS
<1>1. main \in MainRecord /\ main.at = "loop"
  BY DEF Init, Idle, MainRecord, MainPlace
<1>2. EmptySlot \in [pid : Child \cup {Nobody}, isMgrPort : BOOLEAN]
  BY DEF EmptySlot
<1>3. NoChild \in ChildRecord /\ NoChild.at = "none"
  BY DEF NoChild, ChildRecord, ChildPlace
<1>4. Types
  BY <1>1, <1>2, <1>3, ServerAssumption DEF Types, Init, Slot
<1>5. Live = {}
  BY <1>3 DEF Live, Init
<1> QED
  BY <1>1, <1>4, <1>5 DEF IInv, LiveHaveSlot, MakingRight, CountHolds

-----------------------------------------------------------------------------
(* The steps of the main loop *)

SlotRecord == [pid : Child \cup {Nobody}, isMgrPort : BOOLEAN]

\* The collection of ended children takes nothing from those that live.
LEMMA ClearKeeps ==
  ASSUME IInv, main.at # "store", NEW known \in SUBSET Zombies, clearStoppedChild(known)
  PROVE  /\ childs' \in [Slot -> SlotRecord] /\ child' \in [Child -> ChildRecord]
         /\ Live' = Live /\ \A c \in Live : child'[c] = child[c]
         /\ \A c \in Live : child[c].i \in Slot /\ childs'[child[c].i].pid = c
<1>1. NoChild \in ChildRecord /\ NoChild.at = "none"
  BY DEF NoChild, ChildRecord, ChildPlace
<1>2. child' = [c \in Child |-> IF c \in Zombies THEN NoChild ELSE child[c]]
  BY DEF clearStoppedChild
<1>3. Live' = Live /\ \A c \in Live : child'[c] = child[c]
  BY <1>1, <1>2 DEF Live, Zombies
<1>4. child' \in [Child -> ChildRecord]
  BY <1>1, <1>2 DEF IInv, Types
<1>5. childs' = [i \in Slot |-> IF childs[i].pid \in known
                                THEN [childs[i] EXCEPT !.pid = Nobody] ELSE childs[i]]
  BY DEF clearStoppedChild
<1>6. \A i \in Slot : childs[i] \in SlotRecord
  BY DEF IInv, Types, SlotRecord
<1>7. childs' \in [Slot -> SlotRecord]
  <2>1. \A r \in SlotRecord : [r EXCEPT !.pid = Nobody] \in SlotRecord
    BY DEF SlotRecord
  <2> QED
    BY <1>5, <1>6, <2>1
<1>8. ASSUME NEW c \in Live PROVE child[c].i \in Slot /\ childs'[child[c].i].pid = c
  <2>1. Stored(c)
    BY DEF IInv, LiveHaveSlot, BeingStored
  <2>2. c \notin known
    BY DEF Live, Zombies
  <2> QED
    BY <1>5, <2>1, <2>2 DEF Stored
<1> QED
  BY <1>3, <1>4, <1>7, <1>8

LEMMA TurnKeeps ==
  ASSUME IInv, Svr_Turn
  PROVE  IInv'
<1>1. main.at = "loop" /\ main \in MainRecord /\ UNCHANGED <<data, m_sem>>
  BY DEF Svr_Turn, IInv, Types
<1>2. PICK known \in SUBSET Zombies : clearStoppedChild(known)
  BY DEF Svr_Turn
<1>3. /\ childs' \in [Slot -> SlotRecord] /\ child' \in [Child -> ChildRecord]
      /\ Live' = Live /\ \A c \in Live : child'[c] = child[c]
      /\ \A c \in Live : child[c].i \in Slot /\ childs'[child[c].i].pid = c
  BY <1>1, <1>2, ClearKeeps
<1>4. LiveHaveSlot'
  BY <1>3 DEF LiveHaveSlot, Stored
<1> DEFINE count == ChildCount(childs')
           filled == {i \in Slot : childs'[i].pid # Nobody}
<1>5. max_child \in Nat /\ max_child' = max_child /\ MultiProcessMode' = MultiProcessMode
      /\ max_child \in Slot /\ MultiProcessMode \in BOOLEAN
  BY <1>1, SlotsFinite DEF IInv, Types, data
<1>6. count \in Nat /\ count = Cardinality(filled)
  BY SlotsFinite DEF ChildCount
<1> HIDE DEF count, filled
<1>7. CASE BackInLoop
  <2>1. main' \in MainRecord /\ main'.at = "check"
    BY <1>1, <1>7, MainBack
  <2> QED
    BY <1>3, <1>4, <1>5, <2>1 DEF IInv, Types, MakingRight, CountHolds, SlotRecord
<1>8. CASE /\ count < max_child
           /\ main' = [main EXCEPT !.at = IF main.bM THEN "user" ELSE "admin", !.bM = ~@,
                                   !.count = count, !.limit = max_child]
  <2>1. /\ main' \in MainRecord /\ main'.at \in {"user", "admin"} /\ main'.count = count
        /\ main'.limit = max_child
    BY <1>1, <1>5, <1>6, <1>8 DEF MainRecord, MainPlace
  <2>2. Counted' = filled
    BY <2>1 DEF Counted, filled
  <2>3. CountHolds'
    BY <1>6, <1>8, <2>1, <2>2 DEF CountHolds
  <2> QED
    BY <1>3, <1>4, <1>5, <2>1, <2>3 DEF IInv, Types, MakingRight, SlotRecord
<1>9. \/ BackInLoop
      \/ /\ count < max_child
         /\ main' = [main EXCEPT !.at = IF main.bM THEN "user" ELSE "admin", !.bM = ~@,
                                 !.count = count, !.limit = max_child]
  BY <1>5, <1>6 DEF Svr_Turn, count
<1> QED
  BY <1>7, <1>8, <1>9

\* A step that leaves the slots and the children as they are, and the main loop
\* in a place where it has nothing to store.
LEMMA GoOn ==
  ASSUME IInv, UNCHANGED <<MultiProcessMode, childs, child>>, max_child' \in Slot,
         main' \in MainRecord, main.at # "store",
         main'.at \notin {"store", "create"},
         main'.at = "make" => main'.i \in Slot /\ childs[main'.i].pid = Nobody,
         main'.at \in {"admin", "user", "poll", "add", "make"} =>
           /\ main.at \in {"admin", "user", "poll", "add"}
           /\ main'.count = main.count
           /\ main.count < main'.limit
           /\ main'.at \notin {"admin", "user"} /\ ~main'.mgr => main.count + 1 < main'.limit
  PROVE  IInv'
<1>1. Types'
  BY DEF IInv, Types
<1>2. LiveHaveSlot'
  BY DEF IInv, LiveHaveSlot, Live, Stored, BeingStored
<1>3. MakingRight'
  BY DEF MakingRight
<1>4. CountHolds'
  <2>1. main'.at \in {"admin", "user", "poll", "add", "make"} => Counted' = Counted
    BY DEF Counted
  <2> QED
    BY <2>1 DEF IInv, CountHolds
<1> QED
  BY <1>1, <1>2, <1>3, <1>4 DEF IInv

LEMMA PortKeeps ==
  ASSUME IInv, Svr_Admin \/ Svr_User \/ Svr_Poll
  PROVE  IInv'
<1>1. /\ main \in MainRecord /\ main.at \in {"admin", "user", "poll"} /\ max_child' \in Slot
      /\ max_child \in Nat
      /\ UNCHANGED <<MultiProcessMode, childs, child>>
  BY SlotsFinite DEF Svr_Admin, Svr_User, Svr_Poll, IInv, Types, data
<1>2. CASE BackInLoop
  <2>1. main' \in MainRecord /\ main'.at = "check"
    BY <1>1, <1>2, MainBack
  <2> QED
    BY <1>1, <2>1, GoOn
<1>3. CASE /\ main.at = "admin" /\ main' = [main EXCEPT !.at = "poll", !.mgr = TRUE]
  <2>1. main' \in MainRecord /\ main'.at = "poll" /\ main'.mgr /\ main'.count = main.count
        /\ main'.limit = main.limit
    BY <1>1, <1>3 DEF MainRecord, MainPlace
  <2>2. main.count < main.limit
    BY <1>3 DEF IInv, CountHolds
  <2> QED
    BY <1>1, <2>1, <2>2, GoOn
<1>4. CASE /\ main.at = "user" /\ main.count < max_child - 1
           /\ main' = [main EXCEPT !.at = "poll", !.mgr = FALSE, !.limit = max_child]
  <2>1. main' \in MainRecord /\ main'.at = "poll" /\ main'.count = main.count
        /\ main'.limit = max_child /\ main.count \in Nat
    BY <1>1, <1>4 DEF MainRecord, MainPlace
  <2>2. main.count + 1 < max_child /\ main.count < max_child
    BY <1>1, <1>4, <2>1
  <2> QED
    BY <1>1, <1>4, <2>1, <2>2, GoOn
<1>5. CASE main.at = "poll" /\ GoMain("add")
  <2>1. /\ main' \in MainRecord /\ main'.at = "add"
        /\ main'.count = main.count /\ main'.mgr = main.mgr /\ main'.limit = main.limit
    BY <1>1, <1>5, MainGoes DEF MainPlace
  <2>2. main.count < main.limit /\ (~main.mgr => main.count + 1 < main.limit)
    BY <1>5 DEF IInv, CountHolds
  <2> QED
    BY <1>1, <1>5, <2>1, <2>2, GoOn
<1>6. main.count \in Nat
  BY <1>1 DEF MainRecord
<1> QED
  BY <1>1, <1>2, <1>3, <1>4, <1>5, <1>6 DEF Svr_Admin, Svr_User, Svr_Poll

LEMMA AddChildKeeps ==
  ASSUME IInv, Svr_AddChild
  PROVE  IInv'
<1> DEFINE free == {i \in Slot : childs[i].pid = Nobody}
           s == Min(free)
<1>1. /\ main.at = "add" /\ main \in MainRecord
      /\ UNCHANGED <<data, m_sem, child, lost>>
  BY DEF Svr_AddChild, IInv, Types
<1>2. UNCHANGED <<MultiProcessMode, max_child, child>> /\ max_child' \in Slot
  BY <1>1 DEF IInv, Types, data
<1>3. CASE free = {}
  <2>1. BackInLoop /\ childs' = childs
    BY <1>3 DEF Svr_AddChild
  <2>2. main' \in MainRecord /\ main'.at = "check"
    BY <1>1, <2>1, MainBack
  <2> QED
    BY <1>1, <1>2, <2>1, <2>2, GoOn
<1>4. CASE free # {}
  <2>1. s \in free
    BY <1>4, LowestSlot
  <2>2. /\ main' = [main EXCEPT !.at = "make", !.i = s]
        /\ childs' = [childs EXCEPT ![s].isMgrPort = main.mgr]
    BY <1>4 DEF Svr_AddChild
  <2>3. s \in Slot /\ childs[s].pid = Nobody
    BY <2>1
  <2> HIDE DEF s, free
  <2>4. main' \in MainRecord /\ main'.at = "make" /\ main'.i = s /\ main.mgr \in BOOLEAN
        /\ main'.count = main.count /\ main'.mgr = main.mgr /\ main'.limit = main.limit
    BY <1>1, <2>2, <2>3 DEF MainRecord, MainPlace
  <2>5. /\ childs' \in [Slot -> SlotRecord]
        /\ \A i \in Slot : childs'[i].pid = childs[i].pid
    BY <2>2, <2>3, <2>4 DEF IInv, Types, SlotRecord
  <2>6. Types'
    BY <1>1, <1>2, <2>4, <2>5 DEF IInv, Types, SlotRecord, data
  <2>7. LiveHaveSlot'
    BY <1>1, <1>2, <2>5 DEF IInv, LiveHaveSlot, Live, Stored, BeingStored
  <2>8. MakingRight'
    BY <2>3, <2>4, <2>5 DEF MakingRight
  <2>9. Counted' = Counted
    BY <1>1, <2>4, <2>5 DEF Counted
  <2>10. CountHolds'
    BY <1>1, <2>4, <2>9 DEF IInv, CountHolds
  <2> QED
    BY <2>6, <2>7, <2>8, <2>10 DEF IInv
<1> QED
  BY <1>3, <1>4

LEMMA ForkKeeps ==
  ASSUME IInv, NEW c \in Child, Svr_Fork(c)
  PROVE  IInv'
<1>1. /\ main.at = "make" /\ MultiProcessMode /\ child[c].at = "none"
      /\ main' = [main EXCEPT !.at = "store", !.pid = c]
      /\ UNCHANGED <<data, m_sem, childs, lost>>
  BY DEF Svr_Fork, Lowest
<1>2. PICK at \in {"serve", "zombie"} :
        child' = [child EXCEPT ![c] = [at |-> at, i |-> main.i, mgr |-> main.mgr]]
  BY DEF Svr_Fork
<1>3. main \in MainRecord /\ main.i \in Slot /\ childs[main.i].pid = Nobody
  BY <1>1 DEF IInv, Types, MakingRight
<1>4. /\ main' \in MainRecord /\ main'.at = "store" /\ main'.pid = c /\ main'.i = main.i
      /\ main'.count = main.count /\ main'.mgr = main.mgr /\ main'.limit = main.limit
      /\ main.mgr \in BOOLEAN
  BY <1>1, <1>3 DEF MainRecord, MainPlace
<1>5. [at |-> at, i |-> main.i, mgr |-> main.mgr] \in ChildRecord
  BY <1>3, <1>4 DEF ChildRecord, ChildPlace
<1>6. /\ child' \in [Child -> ChildRecord] /\ child'[c].i = main.i /\ child'[c].at = at
      /\ \A d \in Child : d # c => child'[d] = child[d]
  BY <1>2, <1>5 DEF IInv, Types
<1>7. Types'
  BY <1>1, <1>4, <1>6 DEF IInv, Types, data
<1>8. LiveHaveSlot'
  <2>1. ASSUME NEW d \in Live' PROVE (Stored(d) \/ BeingStored(d))'
    <3>1. CASE d = c
      BY <1>4, <1>6, <3>1 DEF BeingStored
    <3>2. CASE d # c
      <4>1. d \in Live /\ child'[d] = child[d]
        BY <1>6, <2>1, <3>2 DEF Live
      <4>2. Stored(d)
        BY <1>1, <4>1 DEF IInv, LiveHaveSlot, BeingStored
      <4> QED
        BY <1>1, <4>1, <4>2 DEF Stored
    <3> QED
      BY <3>1, <3>2
  <2> QED
    BY <2>1 DEF LiveHaveSlot
<1>9. MakingRight'
  BY <1>1, <1>3, <1>4 DEF MakingRight, data
<1>10. Counted' = Counted
  BY <1>1, <1>4 DEF Counted
<1>11. CountHolds'
  BY <1>1, <1>4, <1>10 DEF IInv, CountHolds
<1> QED
  BY <1>7, <1>8, <1>9, <1>11 DEF IInv

LEMMA StoreKeeps ==
  ASSUME IInv, Svr_Store
  PROVE  IInv'
<1>1. /\ main.at = "store" /\ childs' = [childs EXCEPT ![main.i].pid = main.pid]
      /\ BackInLoop /\ UNCHANGED <<data, m_sem, child, lost>>
  BY DEF Svr_Store
<1>2. /\ main \in MainRecord /\ main.i \in Slot /\ main.pid \in Child
      /\ childs[main.i].pid = Nobody
  BY <1>1 DEF IInv, Types, MakingRight
<1>3. main' \in MainRecord /\ main'.at = "check"
  BY <1>1, <1>2, MainBack
<1>4. /\ childs' \in [Slot -> SlotRecord] /\ childs'[main.i].pid = main.pid
      /\ \A i \in Slot : i # main.i => childs'[i] = childs[i]
  BY <1>1, <1>2 DEF IInv, Types, SlotRecord
<1>5. Types'
  BY <1>1, <1>3, <1>4 DEF IInv, Types, SlotRecord, data
<1>6. LiveHaveSlot'
  <2>1. ASSUME NEW c \in Live PROVE child[c].i \in Slot /\ childs'[child[c].i].pid = c
    <3>1. CASE BeingStored(c)
      BY <1>2, <1>4, <3>1 DEF BeingStored
    <3>2. CASE Stored(c)
      <4>1. child[c].i # main.i
        BY <1>2, <3>2, ServerAssumption DEF Stored, Live
      <4> QED
        BY <1>4, <3>2, <4>1 DEF Stored
    <3> QED
      BY <3>1, <3>2 DEF IInv, LiveHaveSlot
  <2> QED
    BY <1>1, <2>1 DEF LiveHaveSlot, Stored, Live
<1> QED
  BY <1>3, <1>5, <1>6 DEF IInv, MakingRight, CountHolds

LEMMA NumberKeeps ==
  ASSUME IInv, NEW c \in Child, Svr_Number(c)
  PROVE  IInv'
<1>1. /\ main.at = "make" /\ child[c].at = "none"
      /\ childs' = [childs EXCEPT ![main.i].pid = c]
      /\ main' = [main EXCEPT !.at = "create", !.pid = c]
      /\ UNCHANGED <<data, m_sem, child, lost>>
  BY DEF Svr_Number, Lowest
<1>2. main \in MainRecord /\ main.i \in Slot /\ childs[main.i].pid = Nobody
  BY <1>1 DEF IInv, Types, MakingRight
<1>3. /\ main' \in MainRecord /\ main'.at = "create" /\ main'.pid = c /\ main'.i = main.i
      /\ main'.count = main.count /\ main'.mgr = main.mgr /\ main'.limit = main.limit
  BY <1>1, <1>2 DEF MainRecord, MainPlace
<1>4. /\ childs' \in [Slot -> SlotRecord] /\ childs'[main.i].pid = c
      /\ \A i \in Slot : i # main.i => childs'[i] = childs[i]
  BY <1>1, <1>2 DEF IInv, Types, SlotRecord
<1>5. Types'
  BY <1>1, <1>3, <1>4 DEF IInv, Types, SlotRecord, data
<1>6. LiveHaveSlot'
  <2>1. ASSUME NEW d \in Live PROVE child[d].i \in Slot /\ childs'[child[d].i].pid = d
    <3>1. Stored(d) /\ child[d].i # main.i
      BY <1>1, <1>2, ServerAssumption DEF IInv, LiveHaveSlot, BeingStored, Stored, Live
    <3> QED
      BY <1>4, <3>1 DEF Stored
  <2> QED
    BY <1>1, <2>1 DEF LiveHaveSlot, Stored, Live
<1>7. MakingRight'
  BY <1>1, <1>2, <1>3, <1>4 DEF MakingRight
<1>8. Counted' = Counted
  BY <1>1, <1>2, <1>3, <1>4 DEF Counted
<1>9. CountHolds'
  BY <1>1, <1>3, <1>8 DEF IInv, CountHolds
<1> QED
  BY <1>5, <1>6, <1>7, <1>9 DEF IInv

LEMMA CreateKeeps ==
  ASSUME IInv, Svr_Create
  PROVE  IInv'
<1> DEFINE c == main.pid
           new == [at |-> "serve", i |-> main.i, mgr |-> main.mgr]
<1>1. /\ main.at = "create" /\ child' = [child EXCEPT ![c] = new]
      /\ BackInLoop /\ UNCHANGED <<data, m_sem, childs, lost>>
  BY DEF Svr_Create
<1>2. /\ main \in MainRecord /\ main.i \in Slot /\ c \in Child
      /\ childs[main.i].pid = c
  BY <1>1 DEF IInv, Types, MakingRight
<1>3. main' \in MainRecord /\ main'.at = "check"
  BY <1>1, <1>2, MainBack
<1>4. new \in ChildRecord
  BY <1>2 DEF ChildRecord, ChildPlace, MainRecord
<1>5. /\ child' \in [Child -> ChildRecord] /\ child'[c].i = main.i
      /\ \A d \in Child : d # c => child'[d] = child[d]
  BY <1>1, <1>2, <1>4 DEF IInv, Types
<1>6. Types'
  BY <1>1, <1>3, <1>5 DEF IInv, Types, data
<1>7. LiveHaveSlot'
  <2>1. ASSUME NEW d \in Live' PROVE Stored(d)'
    <3>1. CASE d = c
      BY <1>1, <1>2, <1>5, <3>1 DEF Stored
    <3>2. CASE d # c
      <4>1. d \in Live /\ child'[d] = child[d]
        BY <1>5, <2>1, <3>2 DEF Live
      <4> QED
        BY <1>1, <4>1 DEF IInv, LiveHaveSlot, BeingStored, Stored
    <3> QED
      BY <3>1, <3>2
  <2> QED
    BY <2>1 DEF LiveHaveSlot
<1> QED
  BY <1>3, <1>6, <1>7 DEF IInv, MakingRight, CountHolds

LEMMA FailKeeps ==
  ASSUME IInv, Svr_Fork_Fails \/ Svr_Create_Fails \/ Svr_Check
  PROVE  IInv'
<1>1. /\ main \in MainRecord /\ main.at # "store" /\ max_child' \in Slot
      /\ UNCHANGED <<MultiProcessMode, childs, child>>
  BY DEF Svr_Fork_Fails, Svr_Create_Fails, Svr_Check, IInv, Types, data
<1>2. main' \in MainRecord /\ main'.at \in {"failed", "check", "stopping", "loop"}
  <2>1. CASE BackInLoop
    BY <1>1, <2>1, MainBack
  <2>2. CASE \E place \in {"failed", "stopping", "loop"} : GoMain(place)
    BY <1>1, <2>2, MainGoes DEF MainPlace
  <2> QED
    BY <2>1, <2>2 DEF Svr_Fork_Fails, Svr_Create_Fails, Svr_Check
<1> QED
  BY <1>1, <1>2, GoOn

LEMMA WaitAllKeeps ==
  ASSUME IInv, Svr_WaitAll
  PROVE  IInv'
<1>1. main.at = "stopping" /\ main \in MainRecord /\ UNCHANGED <<data, m_sem>>
  BY DEF Svr_WaitAll, IInv, Types
<1>2. PICK known \in SUBSET Zombies : clearStoppedChild(known)
  BY DEF Svr_WaitAll
<1>3. /\ childs' \in [Slot -> SlotRecord] /\ child' \in [Child -> ChildRecord]
      /\ Live' = Live /\ \A c \in Live : child'[c] = child[c]
      /\ \A c \in Live : child[c].i \in Slot /\ childs'[child[c].i].pid = c
  BY <1>1, <1>2, ClearKeeps
<1>4. main' \in MainRecord /\ main'.at \in {"stopping", "stopped"}
  <2>1. PICK place \in {"stopping", "stopped"} : GoMain(place)
    BY DEF Svr_WaitAll
  <2> QED
    BY <1>1, <2>1, MainGoes DEF MainPlace
<1>5. LiveHaveSlot'
  BY <1>3 DEF LiveHaveSlot, Stored
<1>6. Types'
  BY <1>1, <1>3, <1>4 DEF IInv, Types, SlotRecord, data
<1> QED
  BY <1>4, <1>5, <1>6 DEF IInv, MakingRight, CountHolds

-----------------------------------------------------------------------------
(* The steps of a child *)

\* A child goes on, or ends as a process and leaves its slot as it is.
LEMMA ChildKeeps ==
  ASSUME IInv, NEW c \in Live, NEW place \in ChildPlace \ {"none"}, Go(c, place),
         UNCHANGED <<MultiProcessMode, max_child, childs, main>>
  PROVE  IInv'
<1>1. c \in Child
  BY DEF Live
<1>2. /\ child' \in [Child -> ChildRecord]
      /\ child'[c].at = place /\ child'[c].i = child[c].i
      /\ \A d \in Child : d # c => child'[d] = child[d]
  BY <1>1, ChildGoes DEF IInv
<1>3. Types'
  BY <1>2 DEF IInv, Types
<1>4. Live' \subseteq Live /\ \A d \in Live : child'[d].i = child[d].i
  BY <1>1, <1>2 DEF Live
<1>5. LiveHaveSlot'
  BY <1>4 DEF IInv, LiveHaveSlot, Stored, BeingStored
<1>6. MakingRight'
  BY <1>2 DEF IInv, MakingRight, Live
<1>7. CountHolds'
  BY DEF IInv, CountHolds, Counted
<1> QED
  BY <1>3, <1>5, <1>6, <1>7 DEF IInv

\* A thread empties its slot.
LEMMA ThreadLeaves ==
  ASSUME IInv, NEW c \in Live, ~MultiProcessMode,
         childs' = [childs EXCEPT ![child[c].i].pid = Nobody],
         child' = [child EXCEPT ![c] = NoChild],
         UNCHANGED <<MultiProcessMode, max_child, main>>
  PROVE  IInv'
<1> DEFINE s == child[c].i
<1>1. c \in Child /\ Stored(c) /\ s \in Slot
  BY DEF Live, IInv, LiveHaveSlot, MakingRight, BeingStored, Stored
<1>2. NoChild \in ChildRecord /\ NoChild.at = "none"
  BY DEF NoChild, ChildRecord, ChildPlace
<1>3. /\ child' \in [Child -> ChildRecord] /\ child'[c].at = "none"
      /\ \A d \in Child : d # c => child'[d] = child[d]
  BY <1>1, <1>2 DEF IInv, Types
<1>4. /\ childs' \in [Slot -> SlotRecord] /\ childs'[s].pid = Nobody
      /\ \A i \in Slot : i # s => childs'[i] = childs[i]
  BY <1>1 DEF IInv, Types, SlotRecord
<1>5. Types'
  BY <1>3, <1>4 DEF IInv, Types, SlotRecord
<1>6. LiveHaveSlot'
  <2>1. ASSUME NEW d \in Live' PROVE Stored(d)'
    <3>1. d \in Live /\ d # c /\ child'[d] = child[d]
      BY <1>3, <2>1 DEF Live
    <3>2. Stored(d)
      BY <3>1 DEF IInv, LiveHaveSlot, MakingRight, BeingStored
    <3>3. child[d].i # s
      BY <1>1, <3>1, <3>2 DEF Stored
    <3> QED
      BY <1>4, <3>1, <3>2, <3>3 DEF Stored
  <2> QED
    BY <2>1 DEF LiveHaveSlot
<1>7. MakingRight'
  <2>1. main.at = "create" => main.i # s
    BY <1>1 DEF IInv, MakingRight, Stored, Live
  <2> QED
    BY <1>3, <1>4, <2>1 DEF IInv, MakingRight
<1>8. CountHolds'
  <2>1. Counted' \subseteq Counted
    BY <1>4 DEF Counted
  <2>2. Cardinality(Counted') <= Cardinality(Counted)
        /\ Cardinality(Counted') \in Nat /\ Cardinality(Counted) \in Nat
    <3>1. Counted \in SUBSET Slot /\ Counted' \in SUBSET Slot
      BY DEF Counted
    <3> QED
      BY <2>1, <3>1, SmallerSet, SlotsFinite
  <2>3. main.count \in Nat
    BY DEF IInv, Types, MainRecord
  <2> QED
    BY <2>2, <2>3 DEF IInv, CountHolds
<1> QED
  BY <1>5, <1>6, <1>7, <1>8 DEF IInv

LEMMA LeaveKeeps ==
  ASSUME IInv, NEW c \in Live, Leave(c), UNCHANGED <<MultiProcessMode, max_child, main>>
  PROVE  IInv'
<1>1. "zombie" \in ChildPlace \ {"none"}
  BY DEF ChildPlace
<1> QED
  BY <1>1, ChildKeeps, ThreadLeaves DEF Leave

LEMMA ChildStepKeeps ==
  ASSUME IInv, NEW c \in Child,
         \/ Child_Accept(c) \/ Child_Command(c) \/ Child_Served(c) \/ Child_WLock(c)
         \/ Child_Killed(c)
  PROVE  IInv'
<1>1. c \in Live
  BY DEF Child_Accept, Child_Command, Child_Served, Child_WLock, Child_Killed, Live
<1>2. CASE Child_Accept(c) \/ Child_Served(c) \/ Child_WLock(c) \/ Child_Killed(c)
  <2>1. UNCHANGED <<MultiProcessMode, max_child, main>>
    BY <1>2 DEF Child_Accept, Child_Served, Child_WLock, Child_Killed, data
  <2>2. \/ Leave(c)
        \/ \E place \in {"serve", "lock", "accept", "zombie"} : Go(c, place) /\ UNCHANGED childs
    BY <1>2 DEF Child_Accept, Child_Served, Child_WLock, Child_Killed
  <2>3. {"serve", "lock", "accept", "zombie"} \subseteq ChildPlace \ {"none"}
    BY DEF ChildPlace
  <2> QED
    BY <1>1, <2>1, <2>2, <2>3, LeaveKeeps, ChildKeeps
<1>3. CASE Child_Command(c)
  <2>1. /\ UNCHANGED <<MultiProcessMode, childs, child, main>>
        /\ max_child' \in Slot
    BY <1>3, ServerAssumption DEF Child_Command, IInv, Types, Slot
  <2> QED
    BY <2>1 DEF IInv, Types, LiveHaveSlot, MakingRight, CountHolds, Counted, Live, Stored,
                BeingStored
<1> QED
  BY <1>2, <1>3

LEMMA Inductive ==
  ASSUME IInv, [Next]_vars
  PROVE  IInv'
<1>1. CASE UNCHANGED vars
  BY <1>1 DEF vars, data, IInv, Types, LiveHaveSlot, MakingRight, CountHolds, Counted, Live,
              Stored, BeingStored
<1>2. CASE MainLoop
  BY <1>2, TurnKeeps, PortKeeps, AddChildKeeps, ForkKeeps, StoreKeeps, NumberKeeps,
     CreateKeeps, FailKeeps, WaitAllKeeps DEF MainLoop
<1> QED
  BY <1>1, <1>2, ChildStepKeeps DEF Next

-----------------------------------------------------------------------------
(* The pool *)

Seats == [i \in Slot |-> Serving(i)]
Allowed == IF main.limit = 0 THEN max_child ELSE main.limit

\* Whether a child has a slot shows in who lives, and in which slot.
LEMMA SeatsStay ==
  ASSUME Live' = Live, \A c \in Live : child'[c].i = child[c].i /\ child'[c].mgr = child[c].mgr
  PROVE  Seats' = Seats
BY DEF Seats, Serving

\* A slot with a child in it has a number, so those that are taken were counted.
LEMMA BusyCounted ==
  ASSUME IInv, main.at \in {"make", "create"}
  PROVE  /\ Serving(main.i) = {} /\ Pool!Busy \subseteq Counted
<1>1. \A c \in Live : Stored(c)
  BY DEF IInv, LiveHaveSlot, BeingStored
<1>2. ASSUME NEW c \in Live, child[c].i = main.i PROVE FALSE
  BY <1>1, <1>2, ServerAssumption DEF IInv, MakingRight, Stored, Live
<1>3. Serving(main.i) = {}
  BY <1>2 DEF Serving
<1>4. ASSUME NEW i \in Slot, Serving(i) # {} PROVE i \in Counted
  <2>1. PICK c \in Live : child[c].i = i
    BY <1>4 DEF Serving
  <2> QED
    BY <1>1, <1>2, <2>1, ServerAssumption DEF Counted, Stored, Live
<1> QED
  BY <1>3, <1>4 DEF Pool!Busy

LEMMA SameCardinality == \A S : Pool!Cardinality(S) = Cardinality(S)
BY DEF Pool!Cardinality, Cardinality

\* A child starts: in an empty slot, counted and allowed.
LEMMA StartSeen ==
  ASSUME IInv, NEW c \in Child, c \notin Live, main.at \in {"make", "create"},
         child' = [child EXCEPT ![c] = [at |-> "serve", i |-> main.i, mgr |-> main.mgr]],
         Allowed' \in {Allowed, max_child}, main'.at # "stopped", max_child' = max_child
  PROVE  Pool!StartFor(main.i, c, main.mgr)
<1> DEFINE s == main.i
           new == [at |-> "serve", i |-> main.i, mgr |-> main.mgr]
<1>1. main \in MainRecord /\ s \in Slot /\ main.mgr \in BOOLEAN /\ main.count \in Nat
      /\ main.limit \in Nat
  BY DEF IInv, Types, MakingRight, MainRecord
<1>2. main.count < main.limit /\ (~main.mgr => main.count + 1 < main.limit)
      /\ Cardinality(Counted) <= main.count
  BY DEF IInv, CountHolds
<1>3. Serving(s) = {} /\ Pool!Busy \subseteq Counted
  BY BusyCounted
<1>4. Cardinality(Pool!Busy) <= main.count /\ Cardinality(Pool!Busy) \in Nat
  <2>1. Pool!Busy \in SUBSET Slot /\ Counted \in SUBSET Slot
    BY DEF Pool!Busy, Counted
  <2>2. Cardinality(Pool!Busy) <= Cardinality(Counted)
    BY <1>3, <2>1, SmallerSet
  <2>3. Cardinality(Pool!Busy) \in Nat /\ Cardinality(Counted) \in Nat
    BY <2>1, SlotsFinite
  <2> QED
    BY <1>1, <1>2, <2>2, <2>3
<1>5. Allowed = main.limit
  BY <1>1, <1>2 DEF Allowed
<1>6. child'[c] = new /\ new.at = "serve" /\ \A d \in Child : d # c => child'[d] = child[d]
  BY DEF IInv, Types
<1>7. Live' = Live \cup {c}
  BY <1>6 DEF Live
<1>8. \A d \in Live : d # c /\ d \in Child /\ child'[d] = child[d]
  BY <1>6 DEF Live
<1>9. ASSUME NEW i \in Slot
      PROVE  Serving(i)' = IF i = s THEN {[child |-> c, admin |-> main.mgr]} ELSE Serving(i)
  <2>1. CASE i = s
    <3>1. \A d \in Live : child[d].i # s
      BY <1>3 DEF Serving
    <3>2. {d \in Live' : child'[d].i = i} = {c}
      BY <1>6, <1>7, <1>8, <2>1, <3>1
    <3> QED
      BY <1>6, <2>1, <3>2 DEF Serving
  <2>2. CASE i # s
    <3>1. {d \in Live' : child'[d].i = i} = {d \in Live : child[d].i = i}
      BY <1>6, <1>7, <1>8, <2>2
    <3>2. \A d \in {e \in Live : child[e].i = i} : child'[d].mgr = child[d].mgr
      BY <1>8
    <3> QED
      BY <2>2, <3>1, <3>2 DEF Serving
  <2> QED
    BY <2>1, <2>2
<1>10. Seats' = [Seats EXCEPT ![s] = {[child |-> c, admin |-> main.mgr]}]
  BY <1>1, <1>9 DEF Seats
<1>11. \A j \in Slot : \A r \in Serving(j) : r.child # c
  BY <1>8 DEF Serving
<1>12. Cardinality(Pool!Busy) < Allowed /\ (~main.mgr => Cardinality(Pool!Busy) + 1 < Allowed)
  BY <1>1, <1>2, <1>4, <1>5
<1>13. Seats[s] = {} /\ \A j \in Slot : \A r \in Seats[j] : r.child # c
  BY <1>1, <1>3, <1>11 DEF Seats
<1>14. UNCHANGED <<max_child, main.at = "stopped">>
  OBVIOUS
<1>15. main.at # "stopped"
  OBVIOUS
<1> HIDE DEF s
<1> QED
  BY <1>10, <1>12, <1>13, <1>14, <1>15, SameCardinality DEF Pool!StartFor, Seats, Allowed, s

\* A child ends, as a process or as a thread.
LEMMA EndSeen ==
  ASSUME IInv, NEW c \in Live, Live' = Live \ {c},
         \A d \in Live : d # c => child'[d].i = child[d].i /\ child'[d].mgr = child[d].mgr,
         UNCHANGED <<main, max_child>>
  PROVE  Pool!End(child[c].i)
<1> DEFINE s == child[c].i
<1>1. s \in Slot
  BY DEF IInv, LiveHaveSlot, Stored, BeingStored, MakingRight
<1>2. \A d \in Live : child[d].i = s => d = c
  BY OneEach
<1>3. ASSUME NEW i \in Slot PROVE Serving(i)' = IF i = s THEN {} ELSE Serving(i)
  <2>1. CASE i = s
    BY <1>2, <2>1 DEF Serving
  <2>2. CASE i # s
    <3>1. {d \in Live' : child'[d].i = i} = {d \in Live : child[d].i = i}
      BY <2>2
    <3>2. \A d \in {e \in Live : child[e].i = i} : child'[d].mgr = child[d].mgr
      BY <2>2
    <3> QED
      BY <2>2, <3>1, <3>2 DEF Serving
  <2> QED
    BY <2>1, <2>2
<1>4. Serving(s) # {}
  BY DEF Serving
<1>5. Seats' = [Seats EXCEPT ![s] = {}]
  BY <1>1, <1>3 DEF Seats
<1> QED
  BY <1>1, <1>4, <1>5 DEF Pool!End, Seats

\* Nobody comes or goes: the main loop has looked at the maximum, or it has not.
LEMMA LookSeen ==
  ASSUME Seats' = Seats, max_child' = max_child, Allowed' \in {Allowed, max_child},
         main.at # "stopped", main'.at # "stopped"
  PROVE  [Pool!Next]_(Pool!vars)
<1>1. UNCHANGED <<max_child, main.at = "stopped">>
  OBVIOUS
<1>2. CASE Allowed' = Allowed
  BY <1>1, <1>2 DEF Pool!vars, Seats, Allowed
<1>3. CASE Allowed' = max_child
  <2>1. Pool!Look
    BY <1>1, <1>3 DEF Pool!Look, Seats, Allowed
  <2> QED
    BY <2>1 DEF Pool!Next
<1> QED
  BY <1>2, <1>3

LEMMA MainSeen ==
  ASSUME IInv, MainLoop
  PROVE  [Pool!Next]_(Pool!vars)
<1>1. main \in MainRecord /\ main.at # "stopped"
  BY DEF IInv, Types, MainLoop, Svr_Turn, Svr_Admin, Svr_User, Svr_Poll, Svr_AddChild, Svr_Fork,
         Svr_Number, Svr_Fork_Fails, Svr_Store, Svr_Create, Svr_Create_Fails, Svr_Check,
         Svr_WaitAll
<1>2. max_child' = max_child
  BY DEF MainLoop, Svr_Turn, Svr_Admin, Svr_User, Svr_Poll, Svr_AddChild, Svr_Fork,
         Svr_Number, Svr_Fork_Fails, Svr_Store, Svr_Create, Svr_Create_Fails, Svr_Check,
         Svr_WaitAll, data
<1>3. ASSUME BackInLoop PROVE Allowed' = max_child /\ main'.at # "stopped"
  BY <1>1, <1>2, <1>3, MainBack DEF Allowed
<1>4. ASSUME NEW place \in MainPlace \ {"stopped"}, GoMain(place)
      PROVE  Allowed' = Allowed /\ main'.at # "stopped"
  BY <1>1, <1>2, <1>4, MainGoes DEF Allowed
<1>5. CASE UNCHANGED child /\ ~Svr_Turn /\ ~Svr_WaitAll
  <2>1. Seats' = Seats
    BY <1>5 DEF Seats, Serving, Live
  <2>2. Allowed' \in {Allowed, max_child} /\ main'.at # "stopped"
    <3>1. CASE \/ BackInLoop
               \/ \E place \in {"add", "failed", "stopping", "loop"} : GoMain(place)
      BY <1>3, <1>4, <3>1 DEF MainPlace
    <3>2. CASE Svr_Admin /\ main' = [main EXCEPT !.at = "poll", !.mgr = TRUE]
      BY <1>1, <1>2, <3>2 DEF Allowed, MainRecord
    <3>3. CASE Svr_User /\ main' = [main EXCEPT !.at = "poll", !.mgr = FALSE,
                                                !.limit = max_child]
      BY <1>1, <1>2, <3>3 DEF Allowed, MainRecord
    <3>4. CASE Svr_AddChild /\ main' = [main EXCEPT !.at = "make",
                        !.i = Min({i \in Slot : childs[i].pid = Nobody})]
      BY <1>1, <1>2, <3>4 DEF Allowed, MainRecord
    <3>5. CASE \E c \in Child : main' = [main EXCEPT !.at = "store", !.pid = c]
      BY <1>1, <1>2, <3>5 DEF Allowed, MainRecord
    <3>6. CASE \E c \in Child : main' = [main EXCEPT !.at = "create", !.pid = c]
      BY <1>1, <1>2, <3>6 DEF Allowed, MainRecord
    <3>7. CASE Svr_Create
      BY <1>3, <3>7 DEF Svr_Create
    <3> QED
      BY <1>5, <3>1, <3>2, <3>3, <3>4, <3>5, <3>6, <3>7 DEF MainLoop, Svr_Admin, Svr_User,
         Svr_Poll, Svr_AddChild, Svr_Fork, Svr_Number, Svr_Fork_Fails, Svr_Store,
         Svr_Create_Fails, Svr_Check
  <2> QED
    BY <1>1, <1>2, <2>1, <2>2, LookSeen
<1>6. CASE Svr_Turn
  <2>1. PICK known \in SUBSET Zombies : clearStoppedChild(known)
    BY <1>6 DEF Svr_Turn
  <2>2. Live' = Live /\ \A c \in Live : child'[c] = child[c]
    BY <1>6, <2>1, ClearKeeps DEF Svr_Turn
  <2>3. Seats' = Seats
    BY <2>2, SeatsStay
  <2>4. CASE BackInLoop
    BY <1>1, <1>2, <1>3, <2>3, <2>4, LookSeen
  <2>5. CASE main' = [main EXCEPT !.at = IF main.bM THEN "user" ELSE "admin", !.bM = ~@,
                                  !.count = ChildCount(childs'), !.limit = max_child]
    <3>1. Allowed' = max_child /\ main'.at # "stopped"
      BY <1>1, <1>2, <2>5 DEF Allowed, MainRecord
    <3> QED
      BY <1>1, <1>2, <2>3, <3>1, LookSeen
  <2> QED
    BY <1>6, <2>4, <2>5 DEF Svr_Turn
<1>7. CASE Svr_WaitAll
  <2>1. PICK known \in SUBSET Zombies : clearStoppedChild(known)
    BY <1>7 DEF Svr_WaitAll
  <2>2. /\ Live' = Live /\ \A c \in Live : child'[c] = child[c]
        /\ \A c \in Live : child[c].i \in Slot /\ childs'[child[c].i].pid = c
    BY <1>7, <2>1, ClearKeeps DEF Svr_WaitAll
  <2>3. Seats' = Seats
    BY <2>2, SeatsStay
  <2>4. CASE ChildCount(childs') = 0 /\ GoMain("stopped")
    <3>1. {i \in Slot : childs'[i].pid # Nobody} = {}
      <4>1. {i \in Slot : childs'[i].pid # Nobody} \in SUBSET Slot
        OBVIOUS
      <4> QED
        BY <2>4, <4>1, SlotsFinite, FS_EmptySet DEF ChildCount
    <3>2. Live = {}
      BY <2>2, <3>1, ServerAssumption DEF Live
    <3>3. Pool!Busy = {}
      BY <3>2 DEF Pool!Busy, Serving
    <3>4. Allowed' = Allowed /\ main'.at = "stopped"
      BY <1>1, <1>2, <2>4, MainGoes DEF Allowed, MainPlace
    <3>5. Pool!Stop
      BY <1>2, <2>3, <3>3, <3>4 DEF Pool!Stop, Seats, Allowed
    <3> QED
      BY <3>5 DEF Pool!Next
  <2>5. CASE GoMain("stopping")
    <3>1. "stopping" \in MainPlace \ {"stopped"}
      BY DEF MainPlace
    <3> QED
      BY <1>1, <1>2, <1>4, <2>3, <2>5, <3>1, LookSeen
  <2> QED
    BY <1>7, <2>4, <2>5 DEF Svr_WaitAll
<1>8. CASE Svr_Create
  <2>1. /\ main.at = "create" /\ main.pid \in Child /\ child[main.pid].at = "none"
        /\ main.i \in Slot /\ main.mgr \in BOOLEAN
    BY <1>1, <1>8 DEF Svr_Create, IInv, MakingRight, MainRecord
  <2>2. BackInLoop
        /\ child' = [child EXCEPT ![main.pid] = [at |-> "serve", i |-> main.i, mgr |-> main.mgr]]
    BY <1>8 DEF Svr_Create
  <2>3. main.pid \notin Live
    BY <2>1 DEF Live
  <2>4. Pool!StartFor(main.i, main.pid, main.mgr)
    BY <1>2, <1>3, <2>1, <2>2, <2>3, StartSeen
  <2> QED
    BY <2>1, <2>4 DEF Pool!Next
<1>9. ASSUME NEW c \in Child, Svr_Fork(c) PROVE [Pool!Next]_(Pool!vars)
  <2>1. /\ main.at = "make" /\ child[c].at = "none" /\ main.i \in Slot /\ main.mgr \in BOOLEAN
        /\ main' = [main EXCEPT !.at = "store", !.pid = c]
    BY <1>1, <1>9 DEF Svr_Fork, Lowest, IInv, MakingRight, MainRecord
  <2>2. Allowed' = Allowed /\ main'.at # "stopped"
    BY <1>1, <1>2, <2>1 DEF Allowed, MainRecord
  <2>3. c \notin Live
    BY <2>1 DEF Live
  <2>4. PICK at \in {"serve", "zombie"} :
          child' = [child EXCEPT ![c] = [at |-> at, i |-> main.i, mgr |-> main.mgr]]
    BY <1>9 DEF Svr_Fork
  <2>5. CASE at = "serve"
    <3>1. Pool!StartFor(main.i, c, main.mgr)
      BY <1>2, <2>1, <2>2, <2>3, <2>4, <2>5, StartSeen
    <3> QED
      BY <2>1, <3>1 DEF Pool!Next
  <2>6. CASE at = "zombie"
    <3>1. /\ child'[c].at = "zombie" /\ \A d \in Child : d # c => child'[d] = child[d]
      BY <2>4, <2>6 DEF IInv, Types
    <3>2. Live' = Live /\ \A d \in Live : child'[d] = child[d]
      BY <2>3, <3>1 DEF Live
    <3>3. Seats' = Seats
      BY <3>2, SeatsStay
    <3> QED
      BY <1>1, <1>2, <2>2, <3>3, LookSeen
  <2> QED
    BY <2>4, <2>5, <2>6
<1>10. \/ UNCHANGED child /\ ~Svr_Turn /\ ~Svr_WaitAll
       \/ Svr_Turn \/ Svr_WaitAll \/ Svr_Create \/ \E c \in Child : Svr_Fork(c)
  BY DEF MainLoop, Svr_Admin, Svr_User, Svr_Poll, Svr_AddChild, Svr_Number, Svr_Fork_Fails,
         Svr_Store, Svr_Create_Fails, Svr_Check
<1> QED
  BY <1>5, <1>6, <1>7, <1>8, <1>9, <1>10

LEMMA ChildSeen ==
  ASSUME IInv, NEW c \in Child,
         \/ Child_Accept(c) \/ Child_Command(c) \/ Child_Served(c) \/ Child_WLock(c)
         \/ Child_Killed(c)
  PROVE  [Pool!Next]_(Pool!vars)
<1>1. c \in Live /\ c \in Child
  BY DEF Child_Accept, Child_Command, Child_Served, Child_WLock, Child_Killed, Live
<1>2. CASE Child_Command(c)
  <2>1. UNCHANGED <<child, main>>
    BY <1>2 DEF Child_Command
  <2>2. Seats' = Seats /\ UNCHANGED <<main.at = "stopped">>
    BY <2>1 DEF Seats, Serving, Live
  <2>3. CASE max_child' = max_child
    BY <2>1, <2>2, <2>3 DEF Pool!vars, Seats
  <2>4. CASE max_child' \in Maxima
    <3>1. max_child' \in 1..Cardinality(Slot)
      BY <2>4, SlotsFinite, ServerAssumption
    <3>2. Allowed' \in {Allowed, max_child'}
      BY <2>1 DEF Allowed
    <3>3. Pool!Allow(max_child')
      BY <2>2, <3>2 DEF Pool!Allow, Seats, Allowed
    <3> QED
      BY <3>1, <3>3, SameCardinality DEF Pool!Next
  <2> QED
    BY <1>2, <2>3, <2>4 DEF Child_Command, data
<1>3. CASE Child_Accept(c) \/ Child_Served(c) \/ Child_WLock(c) \/ Child_Killed(c)
  <2>1. UNCHANGED <<max_child, main>>
    BY <1>3 DEF Child_Accept, Child_Served, Child_WLock, Child_Killed, data
  <2>2. CASE \E place \in {"serve", "lock", "accept"} : Go(c, place)
    <3>1. PICK place \in {"serve", "lock", "accept"} : Go(c, place)
      BY <2>2
    <3>2. /\ child'[c].at = place /\ child'[c].i = child[c].i /\ child'[c].mgr = child[c].mgr
          /\ \A d \in Child : d # c => child'[d] = child[d]
      BY <1>1, <3>1, ChildGoes DEF IInv, ChildPlace
    <3>3. Live' = Live /\ \A d \in Live : child'[d].i = child[d].i /\ child'[d].mgr = child[d].mgr
      BY <1>1, <3>1, <3>2 DEF Live
    <3>4. Seats' = Seats
      BY <3>3, SeatsStay
    <3> QED
      BY <2>1, <3>4 DEF Pool!vars, Seats
  <2>3. CASE Go(c, "zombie") \/ child' = [child EXCEPT ![c] = NoChild]
    <3>1. /\ child'[c].at \in {"zombie", "none"}
          /\ \A d \in Child : d # c => child'[d] = child[d]
      BY <1>1, <2>3, ChildGoes DEF IInv, Types, ChildPlace, NoChild
    <3>2. Live' = Live \ {c}
      BY <1>1, <3>1 DEF Live
    <3>3. \A d \in Live : d # c => child'[d] = child[d]
      BY <3>1 DEF Live
    <3>4. Pool!End(child[c].i)
      BY <1>1, <2>1, <3>2, <3>3, EndSeen
    <3>5. child[c].i \in Slot
      BY <1>1 DEF IInv, LiveHaveSlot, Stored, BeingStored, MakingRight
    <3> QED
      BY <3>4, <3>5 DEF Pool!Next
  <2> QED
    BY <1>3, <2>2, <2>3 DEF Child_Accept, Child_Served, Child_WLock, Child_Killed, Leave
<1> QED
  BY <1>2, <1>3

LEMMA InitSeen == Init => Pool!Init
<1> SUFFICES ASSUME Init PROVE Pool!Init
  OBVIOUS
<1>1. Live = {}
  BY DEF Init, Live, NoChild
<1>2. \A i \in Slot : Serving(i) = {}
  BY <1>1 DEF Serving
<1>3. main.at = "loop" /\ main.limit = 0
  BY DEF Init, Idle
<1>4. max_child = Cardinality(Slot)
  BY SlotsFinite DEF Init
<1> QED
  BY <1>2, <1>3, <1>4, SameCardinality DEF Pool!Init

\* Whatever the order in which children are made, store their numbers, end and
\* are collected, and whoever changes the maximum meanwhile: no two children
\* have one slot, there are no more than the main loop found allowed, one place
\* is left to the administrator, and it stops only when all places are empty.
THEOREM RefinesPool == Spec => ImplementsPool
<1>1. Init => IInv /\ Pool!Init
  BY InitIInv, InitSeen
<1>2. IInv /\ [Next]_vars => IInv' /\ [Pool!Next]_(Pool!vars)
  <2> SUFFICES ASSUME IInv, [Next]_vars PROVE IInv' /\ [Pool!Next]_(Pool!vars)
    OBVIOUS
  <2>1. IInv'
    BY Inductive
  <2>2. CASE UNCHANGED vars
    <3>1. UNCHANGED <<child, main, max_child>>
      BY <2>2 DEF vars, data
    <3>2. Seats' = Seats /\ UNCHANGED <<main.at = "stopped">>
      BY <3>1 DEF Seats, Serving, Live
    <3> QED
      BY <2>1, <3>1, <3>2 DEF Pool!vars, Seats
  <2> QED
    BY <2>1, <2>2, MainSeen, ChildSeen DEF Next
<1> QED
  BY <1>1, <1>2, PTL DEF Spec, Pool!Spec, ImplementsPool
=============================================================================
