---------------------------- MODULE ShmArrayProofs ----------------------------
(***************************************************************************)
(* Proofs about ShmArray, for any processes and threads, blocks of any     *)
(* sizes and any number of readers that come and go.                       *)
(*                                                                         *)
(* What is proved needs one thing of the processes that add: there is one, *)
(* and it does not come back (OneWriter).  The run array_restart shows     *)
(* that without it the private maps go wrong.                              *)
(***************************************************************************)
EXTENDS ShmArray, TLAPS

OneWriter ==
  /\ \A p, q \in Writers : p = q
  /\ Writers \cap Returning = {}

-----------------------------------------------------------------------------
(* The inductive invariant *)

Place == {"idle", "dead", "find", "mutex", "map", "use", "add", "vmap", "capacity", "count"}
Finding == {"find", "mutex", "map", "use"}     \* inside operator->

Call == [do : {"nothing", "read", "add"}, data : Data \cup {Nothing},
         h : Int, i : Int, j : Int, new : Int]

Part == [begin : Nat, end : Nat]

Types ==
  /\ capacity \in Nat /\ size \in Nat
  /\ vmaps \in Seq(Part)
  /\ Len(vmaps) \in 1..T_ARRAY_VMAP_MAX_SIZE
  /\ cell \in [Block -> [Handle -> Data \cup {Nothing}]]
  /\ lock \in Thread \cup {Nothing}
  /\ shm_addr_map \in [Process -> [Block -> Block \cup {Nothing}]]
  /\ addr_map_size \in [Process -> Nat]
  /\ thread_mutex \in [Process -> Thread \cup {Nothing}]
  /\ attached \subseteq Process
  /\ pc \in [Thread -> Place]
  /\ th \in [Thread -> Call]

\* The blocks of the shared list lie one behind the other, without a hole.
Holds(i, h) == vmaps[i].begin <= h /\ h < vmaps[i].end
End == vmaps[Len(vmaps)].end
Geometry ==
  /\ \A i \in DOMAIN vmaps : vmaps[i].begin < vmaps[i].end /\ vmaps[i].end <= End
  /\ \A i, j \in DOMAIN vmaps : i < j => vmaps[i].end <= vmaps[j].begin
  /\ \A h \in Handle : h < End => \E i \in DOMAIN vmaps : Holds(i, h)
  /\ End <= MaxCells /\ capacity <= End

\* A thread in the middle of Add, and what it may rely on because it has the lock.
Adding(t) ==
  \/ pc[t] \in {"add", "vmap", "capacity", "count"}
  \/ pc[t] \in Finding /\ th[t].do = "add"

AdderHasLock(t) ==
  /\ Adding(t) => lock = t /\ ProcessOf[t] \in Writers
  /\ pc[t] = "vmap" => /\ Len(vmaps) < T_ARRAY_VMAP_MAX_SIZE
                       /\ th[t].new > 0 /\ capacity + th[t].new <= MaxCells
  /\ pc[t] = "capacity" => End = capacity + th[t].new
  /\ pc[t] \in {"add", "vmap", "count"} => End = capacity
  /\ pc[t] = "count" => size < capacity
  /\ pc[t] \in {"add", "vmap", "capacity"} => th[t].do = "add" /\ th[t].data \in Data
  /\ pc[t] \in Finding /\ th[t].do = "add" =>
       /\ End = capacity
       /\ th[t].h = size /\ size < capacity /\ th[t].data \in Data
AddersHaveLock == \A t \in Thread : AdderHasLock(t)

FreeIsWhole == lock = Nothing => End = capacity

\* A process that is not attached has no thread inside, and a process that adds
\* is gone for good.
Away ==
  \A p \in Process \ attached : \A t \in ThreadsOf(p) :
    /\ pc[t] \in {"idle", "dead"}
    /\ p \in Writers => pc[t] = "dead"

\* The private maps.  The process that adds made every block itself; in another
\* the thread that connects blocks has the mutex, and its next block is the
\* one that its process counts next, unless the map is full.
MapWhole ==
  /\ \A p \in Process, b \in Block : shm_addr_map[p][b] \in {b, Nothing}
  /\ MapAgrees
  /\ \A p \in attached \cap Writers :
       ThreadsOf(p) # {} => addr_map_size[p] = Len(vmaps) + (IF Reserving(p) THEN 1 ELSE 0)
  /\ \A t \in Thread : pc[t] = "map" =>
       /\ ProcessOf[t] \notin Writers
       /\ thread_mutex[ProcessOf[t]] = t
       /\ \/ th[t].j = addr_map_size[ProcessOf[t]]
          \/ addr_map_size[ProcessOf[t]] + 1 >= T_ARRAY_VMAP_MAX_SIZE

\* A thread in operator-> is there for an element, which it found in block i.
FoundRight ==
  \A t \in Thread : pc[t] \in Finding =>
    /\ th[t].do \in {"read", "add"}
    /\ th[t].h \in Handle /\ th[t].h < End
    /\ pc[t] # "find" => th[t].i + 1 \in DOMAIN vmaps /\ Holds(th[t].i + 1, th[t].h)

IInv ==
  /\ Types /\ Geometry /\ AddersHaveLock /\ FreeIsWhole /\ Away /\ MapWhole /\ FoundRight
  /\ size <= capacity

-----------------------------------------------------------------------------
(* What a step of a thread changes *)

\* A thread that goes on to a place leaves the others where they are.
LEMMA GotoMoves ==
  ASSUME Types, NEW t \in Thread, NEW place, NEW call, Goto(t, place, call)
  PROVE  /\ pc'[t] = place /\ th'[t] = call
         /\ \A u \in Thread : u # t => pc'[u] = pc[u] /\ th'[u] = th[u]
BY DEF Types, Goto

LEMMA EndIsNumber ==
  ASSUME Types
  PROVE  End \in Nat
<1>1. vmaps \in Seq(Part) /\ Len(vmaps) \in 1..Len(vmaps)
  BY SizeAssumption DEF Types
<1>2. vmaps[Len(vmaps)] \in Part
  BY <1>1
<1> QED
  BY <1>2 DEF End, Part

\* What is said of the list alone stays true while the list stays.
LEMMA ListStays ==
  ASSUME Types, Geometry, UNCHANGED <<capacity, vmaps>>
  PROVE  Geometry' /\ End' = End /\ End \in Nat
<1>1. vmaps' = vmaps /\ capacity' = capacity
  OBVIOUS
<1>2. End \in Nat
  BY EndIsNumber
<1>3. End' = End
  BY <1>1 DEF End
<1> QED
  BY <1>1, <1>2, <1>3 DEF Geometry, Holds

-----------------------------------------------------------------------------
(* The initial states *)

LEMMA InitIInv == OneWriter /\ Init => IInv
<1> SUFFICES ASSUME OneWriter, Init PROVE IInv
  OBVIOUS
<1> USE ProcessAssumption, SizeAssumption, NothingAssumption
<1>1. Len(vmaps) = 1 /\ DOMAIN vmaps = {1} /\ vmaps[1] = [begin |-> 0, end |-> FirstBlock]
  BY DEF Init
<1>2. NoCall \in Call
  BY DEF NoCall, Call
<1>3. Types
  <2>1. shm_addr_map \in [Process -> [Block -> Block \cup {Nothing}]]
    BY DEF Init, Unmapped, Block
  <2> QED
    BY <1>1, <1>2, <2>1 DEF Types, Init, Place, Part
<1>4. Geometry
  BY <1>1 DEF Geometry, Init, End, Holds, Handle
<1>5. AddersHaveLock /\ FreeIsWhole /\ FoundRight
  BY <1>1 DEF AddersHaveLock, AdderHasLock, FreeIsWhole, FoundRight, Init, Adding,
              Finding, End, NoCall
<1>6. Away
  BY DEF Away, Init, OneWriter, ThreadsOf
<1>7. MapWhole
  BY <1>1 DEF MapWhole, Init, MapAgrees, Unmapped, Block, Reserving, ThreadsOf
<1> QED
  BY <1>3, <1>4, <1>5, <1>6, <1>7 DEF IInv, Init

-----------------------------------------------------------------------------
(* The steps *)

LEMMA AttachKeeps ==
  ASSUME OneWriter, IInv, NEW p \in Process, Attach(p)
  PROVE  IInv'
<1> USE ProcessAssumption, SizeAssumption, NothingAssumption
<1>1. Types'
  BY DEF IInv, Types, Attach, head, Block
<1>2. Geometry' /\ End' = End /\ End \in Nat
  BY ListStays DEF IInv, Attach, head
<1>3. AddersHaveLock' /\ FreeIsWhole'
  BY <1>2 DEF IInv, AddersHaveLock, AdderHasLock, FreeIsWhole, Attach, head, Adding
<1>4. FoundRight'
  BY <1>2 DEF IInv, FoundRight, Attach, head, Holds
<1>5. Away'
  BY DEF IInv, Away, Attach, ThreadsOf
<1>6. MapWhole'
  <2> USE DEF IInv, Attach, head
  <2>1. \A q \in Process, b \in Block : shm_addr_map'[q][b] \in {b, Nothing}
    BY DEF MapWhole, Types
  <2>2. ASSUME NEW q \in attached'
        PROVE  /\ addr_map_size'[q] <= Len(vmaps)' + (IF Reserving(q)' THEN 1 ELSE 0)
               /\ \A b \in 0..addr_map_size'[q] - 1 : shm_addr_map'[q][b] = b
    <3>1. CASE q = p
      BY <3>1 DEF Types, Block
    <3>2. CASE q # p
      BY <3>2, <2>2 DEF Types, MapWhole, MapAgrees, Reserving
    <3> QED
      BY <3>1, <3>2
  <2>3. ASSUME NEW q \in attached' \cap Writers, ThreadsOf(q) # {}
        PROVE  addr_map_size'[q] = Len(vmaps)' + (IF Reserving(q)' THEN 1 ELSE 0)
    <3>1. q # p
      BY <2>3 DEF Away
    <3> QED
      BY <3>1, <2>3 DEF Types, MapWhole, Reserving
  <2>4. ASSUME NEW t \in Thread, pc'[t] = "map"
        PROVE  ProcessOf[t] # p
    BY <2>4 DEF Away, ThreadsOf
  <2> QED
    BY <2>1, <2>2, <2>3, <2>4 DEF MapWhole, MapAgrees, Types
<1> QED
  BY <1>1, <1>2, <1>3, <1>4, <1>5, <1>6 DEF IInv, Attach, head

LEMMA DetachKeeps ==
  ASSUME OneWriter, IInv, NEW p \in Process, Detach(p)
  PROVE  IInv'
<1> USE ProcessAssumption, SizeAssumption, NothingAssumption
<1>1. Types'
  BY DEF IInv, Types, Detach, head, Unmapped
<1>2. Geometry' /\ End' = End /\ End \in Nat
  BY ListStays DEF IInv, Detach, head
<1>3. AddersHaveLock' /\ FreeIsWhole'
  BY <1>2 DEF IInv, AddersHaveLock, AdderHasLock, FreeIsWhole, Detach, head, Adding
<1>4. FoundRight'
  BY <1>2 DEF IInv, FoundRight, Detach, head, Holds
<1>5. Away'
  BY DEF IInv, Away, Detach, ThreadsOf, OneWriter
<1>6. MapWhole'
  <2> USE DEF IInv, Detach, head
  <2>1. \A q \in Process, b \in Block : shm_addr_map'[q][b] \in {b, Nothing}
    BY DEF MapWhole, Types, Unmapped
  <2>2. \A q \in attached' : /\ q # p /\ q \in attached
                             /\ shm_addr_map'[q] = shm_addr_map[q]
                             /\ Reserving(q)' = Reserving(q)
    BY DEF Types, Reserving
  <2>3. MapAgrees'
    BY <2>2 DEF MapWhole, MapAgrees
  <2> QED
    BY <2>1, <2>2, <2>3 DEF MapWhole
<1> QED
  BY <1>1, <1>2, <1>3, <1>4, <1>5, <1>6 DEF IInv, Detach, head

LEMMA KillKeeps ==
  ASSUME OneWriter, IInv, NEW p \in Process, Kill(p)
  PROVE  IInv'
<1> USE ProcessAssumption, SizeAssumption, NothingAssumption
<1>0. /\ \A t \in Thread : ProcessOf[t] = p =>
           /\ pc'[t] = (IF p \in Returning THEN "idle" ELSE "dead")
           /\ th'[t] = NoCall
      /\ \A t \in Thread : ProcessOf[t] # p => pc'[t] = pc[t] /\ th'[t] = th[t]
  BY DEF Kill
<1>1. Types'
  <2>1. NoCall \in Call
    BY DEF NoCall, Call
  <2>2. pc' \in [Thread -> Place] /\ th' \in [Thread -> Call]
    BY <2>1 DEF IInv, Types, Kill, Place
  <2>3. Unmapped \in [Block -> Block \cup {Nothing}]
    BY DEF Unmapped
  <2> QED
    BY <2>2, <2>3 DEF IInv, Types, Kill, head
<1>2. Geometry' /\ End' = End /\ End \in Nat
  BY ListStays DEF IInv, Kill, head
<1>3. AddersHaveLock' /\ FreeIsWhole'
  BY <1>0, <1>2 DEF IInv, AddersHaveLock, AdderHasLock, FreeIsWhole, Kill, head, Adding, Finding
<1>4. FoundRight'
  BY <1>0, <1>2 DEF IInv, FoundRight, Kill, head, Holds, Finding
<1>5. Away'
  BY <1>0 DEF IInv, Away, Kill, ThreadsOf, OneWriter
<1>6. MapWhole'
  <2> USE DEF IInv, Kill, head
  <2>1. \A q \in Process, b \in Block : shm_addr_map'[q][b] \in {b, Nothing}
    BY DEF MapWhole, Types, Unmapped
  <2>2. \A q \in attached' : /\ q # p /\ q \in attached
                             /\ shm_addr_map'[q] = shm_addr_map[q]
                             /\ addr_map_size'[q] = addr_map_size[q]
                             /\ Reserving(q)' = Reserving(q)
    BY <1>0 DEF Types, Reserving, ThreadsOf
  <2>3. MapAgrees'
    BY <2>2 DEF MapWhole, MapAgrees
  <2>4. \A q \in attached' \cap Writers :
          ThreadsOf(q) # {} =>
            addr_map_size'[q] = Len(vmaps)' + (IF Reserving(q)' THEN 1 ELSE 0)
    BY <2>2 DEF MapWhole
  <2>5. ASSUME NEW t \in Thread, pc'[t] = "map"
        PROVE  /\ ProcessOf[t] # p /\ pc[t] = "map" /\ th'[t] = th[t]
               /\ thread_mutex'[ProcessOf[t]] = thread_mutex[ProcessOf[t]]
               /\ addr_map_size'[ProcessOf[t]] = addr_map_size[ProcessOf[t]]
    BY <2>5, <1>0 DEF Types
  <2> QED
    BY <2>1, <2>3, <2>4, <2>5 DEF MapWhole
<1> QED
  BY <1>1, <1>2, <1>3, <1>4, <1>5, <1>6 DEF IInv, Kill, head

\* Whoever is inside belongs to a process that is attached, and in the one that
\* adds there is never a block to connect.
LEMMA InsideIsAttached ==
  ASSUME IInv, NEW t \in Thread, pc[t] \notin {"idle", "dead"}
  PROVE  /\ ProcessOf[t] \in attached
         /\ t \in ThreadsOf(ProcessOf[t])
         /\ addr_map_size[ProcessOf[t]] \in Nat
         /\ ProcessOf[t] \in Writers => ~Missing(ProcessOf[t])
<1>1. t \in ThreadsOf(ProcessOf[t]) /\ ProcessOf[t] \in Process
  BY ProcessAssumption DEF ThreadsOf
<1>2. ProcessOf[t] \in attached
  BY <1>1 DEF IInv, Away
<1>3. addr_map_size[ProcessOf[t]] \in Nat /\ Len(vmaps) \in Nat
  BY <1>1 DEF IInv, Types
<1> QED
  BY <1>1, <1>2, <1>3 DEF IInv, MapWhole, Missing

\* While no thread of it enters or leaves Reserve, a process is or is not in it.
LEMMA ReservingStays ==
  ASSUME Types, NEW t \in Thread, NEW place, NEW call, Goto(t, place, call),
         pc[t] # "vmap", place # "vmap"
  PROVE  \A q : Reserving(q)' = Reserving(q)
BY GotoMoves DEF Reserving, ThreadsOf

\* The private maps are what they were where neither they nor the list change.
LEMMA MapStays ==
  ASSUME IInv, NEW t \in Thread, NEW place, NEW call, Goto(t, place, call),
         pc[t] # "vmap", place \notin {"vmap", "map"},
         UNCHANGED <<vmaps, shm_addr_map, addr_map_size, attached>>,
         \A u \in Thread : thread_mutex[ProcessOf[u]] = u /\ u # t =>
                              thread_mutex'[ProcessOf[u]] = u
  PROVE  MapWhole'
<1>1. /\ pc'[t] = place /\ th'[t] = call
      /\ \A u \in Thread : u # t => pc'[u] = pc[u] /\ th'[u] = th[u]
  BY GotoMoves DEF IInv
<1>2. \A q : Reserving(q)' = Reserving(q)
  BY ReservingStays DEF IInv
<1>3. MapAgrees'
  BY <1>2 DEF IInv, MapWhole, MapAgrees
<1>4. \A q \in attached' \cap Writers :
          ThreadsOf(q) # {} =>
            addr_map_size'[q] = Len(vmaps)' + (IF Reserving(q)' THEN 1 ELSE 0)
  BY <1>2 DEF IInv, MapWhole
<1>5. ASSUME NEW u \in Thread, pc'[u] = "map"
      PROVE  /\ ProcessOf[u] \notin Writers
             /\ thread_mutex'[ProcessOf[u]] = u
             /\ \/ th'[u].j = addr_map_size'[ProcessOf[u]]
                \/ addr_map_size'[ProcessOf[u]] + 1 >= T_ARRAY_VMAP_MAX_SIZE
  <2>1. u # t /\ pc[u] = "map" /\ th'[u] = th[u]
    BY <1>1, <1>5
  <2> QED
    BY <2>1 DEF IInv, MapWhole
<1> QED
  BY <1>3, <1>4, <1>5 DEF IInv, MapWhole

\* A process does not go while a thread of it is inside.
LEMMA AwayStays ==
  ASSUME IInv, NEW t \in Thread, NEW place, NEW call, Goto(t, place, call),
         UNCHANGED attached, Attached(t)
  PROVE  Away'
<1>1. \A u \in Thread : u # t => pc'[u] = pc[u]
  BY GotoMoves DEF IInv
<1> QED
  BY <1>1 DEF IInv, Away, ThreadsOf, Attached

\* What a thread that goes on inside operator-> leaves true: it still wants the
\* same cell.
LEMMA WalkKeeps ==
  ASSUME IInv, NEW t \in Thread, NEW place, NEW call, Goto(t, place, call),
         pc[t] \in Finding, place \in Finding, call \in Call,
         call.do = th[t].do, call.h = th[t].h, call.data = th[t].data,
         place # "find" => call.i + 1 \in DOMAIN vmaps /\ Holds(call.i + 1, call.h),
         UNCHANGED <<head, attached, size>>
  PROVE  /\ pc' \in [Thread -> Place] /\ th' \in [Thread -> Call]
         /\ Geometry' /\ AddersHaveLock' /\ FreeIsWhole' /\ Away' /\ FoundRight'
         /\ (size <= capacity)'
<1>1. /\ pc'[t] = place /\ th'[t] = call
      /\ \A u \in Thread : u # t => pc'[u] = pc[u] /\ th'[u] = th[u]
  BY GotoMoves DEF IInv
<1>2. pc' \in [Thread -> Place] /\ th' \in [Thread -> Call]
  BY <1>1 DEF IInv, Types, Goto, Place, Finding
<1>3. Geometry' /\ End' = End /\ vmaps' = vmaps
  BY ListStays DEF IInv, head
<1>4. AddersHaveLock' /\ FreeIsWhole'
  BY <1>1, <1>3 DEF IInv, AddersHaveLock, AdderHasLock, FreeIsWhole, head, Adding, Finding
<1>5. Away'
  BY InsideIsAttached, AwayStays DEF Attached, Finding
<1>6. FoundRight'
  <2>1. th[t].do \in {"read", "add"} /\ th[t].h \in Handle /\ th[t].h < End
    BY DEF IInv, FoundRight
  <2>2. \A u \in Thread : u # t /\ pc'[u] \in Finding =>
          /\ th'[u].do \in {"read", "add"}
          /\ th'[u].h \in Handle /\ th'[u].h < End
          /\ pc'[u] # "find" => th'[u].i + 1 \in DOMAIN vmaps /\ Holds(th'[u].i + 1, th'[u].h)
    BY <1>1 DEF IInv, FoundRight
  <2> QED
    BY <1>1, <1>3, <2>1, <2>2 DEF FoundRight, Holds
<1> QED
  BY <1>2, <1>3, <1>4, <1>5, <1>6 DEF IInv, head

LEMMA FindKeeps ==
  ASSUME OneWriter, IInv, NEW t \in Thread, Find(t)
  PROVE  IInv'
<1> DEFINE p == ProcessOf[t]
<1>1. PICK i \in DOMAIN vmaps :
        /\ vmaps[i].begin <= th[t].h /\ th[t].h < vmaps[i].end
        /\ Goto(t, IF Missing(p) THEN "mutex" ELSE "use", [th[t] EXCEPT !.i = i - 1])
  BY DEF Find
<1>2. pc[t] = "find" /\ UNCHANGED <<head, cell, private, got, refused>>
  BY DEF Find
<1>3. i \in Int /\ th[t] \in Call
  BY DEF IInv, Types
<1> DEFINE place == IF Missing(p) THEN "mutex" ELSE "use"
           call == [th[t] EXCEPT !.i = i - 1]
<1>4. call \in Call /\ call.do = th[t].do /\ call.h = th[t].h /\ call.data = th[t].data
      /\ call.i + 1 = i
  BY <1>3 DEF Call
<1>5. Goto(t, place, call) /\ place \in {"mutex", "use"}
  BY <1>1
<1> HIDE DEF place, call
<1>6. Holds(i, call.h)
  BY <1>1, <1>4 DEF Holds
<1>7. /\ pc' \in [Thread -> Place] /\ th' \in [Thread -> Call]
      /\ Geometry' /\ AddersHaveLock' /\ FreeIsWhole' /\ Away' /\ FoundRight'
      /\ (size <= capacity)'
  BY <1>2, <1>4, <1>5, <1>6, WalkKeeps DEF Finding, head, private
<1>8. MapWhole'
  BY <1>2, <1>5, MapStays DEF head, private
<1> QED
  BY <1>2, <1>7, <1>8 DEF IInv, Types, head, private

LEMMA LockKeeps ==
  ASSUME OneWriter, IInv, NEW t \in Thread, Lock(t)
  PROVE  IInv'
<1> DEFINE p == ProcessOf[t]
<1>1. /\ pc[t] = "mutex" /\ thread_mutex[p] = Nothing
      /\ UNCHANGED <<head, cell, shm_addr_map, addr_map_size, attached, got, refused>>
  BY DEF Lock
<1>2. /\ th[t] \in Call /\ p \in Process /\ addr_map_size[p] \in Nat
      /\ th[t].i + 1 \in DOMAIN vmaps /\ Holds(th[t].i + 1, th[t].h)
  BY <1>1, ProcessAssumption DEF IInv, Types, FoundRight, Finding
<1>3. CASE Missing(p)
  <2> DEFINE call == [th[t] EXCEPT !.j = addr_map_size[p]]
  <2>1. /\ call \in Call /\ call.do = th[t].do /\ call.h = th[t].h /\ call.data = th[t].data
        /\ call.i = th[t].i /\ call.j = addr_map_size[p]
    BY <1>2 DEF Call
  <2>2. Goto(t, "map", call) /\ thread_mutex' = [thread_mutex EXCEPT ![p] = t]
    BY <1>3 DEF Lock
  <2> HIDE DEF call
  <2>3. /\ pc' \in [Thread -> Place] /\ th' \in [Thread -> Call]
        /\ Geometry' /\ AddersHaveLock' /\ FreeIsWhole' /\ Away' /\ FoundRight'
        /\ (size <= capacity)'
    BY <1>1, <1>2, <2>1, <2>2, WalkKeeps DEF Finding, head
  <2>4. /\ pc'[t] = "map" /\ th'[t] = call
        /\ \A u \in Thread : u # t => pc'[u] = pc[u] /\ th'[u] = th[u]
    BY <2>2, GotoMoves DEF IInv
  <2>5. thread_mutex' \in [Process -> Thread \cup {Nothing}] /\ thread_mutex'[p] = t
    BY <1>2, <2>2 DEF IInv, Types
  <2>6. p \notin Writers
    BY <1>1, <1>3, InsideIsAttached
  <2>7. MapWhole'
    <3>1. \A q : Reserving(q)' = Reserving(q)
      BY <1>1, <2>2, ReservingStays DEF IInv
    <3>2. vmaps' = vmaps /\ shm_addr_map' = shm_addr_map /\ addr_map_size' = addr_map_size
          /\ attached' = attached
      BY <1>1 DEF head
    <3>3. MapAgrees'
      BY <3>1, <3>2 DEF IInv, MapWhole, MapAgrees
    <3>4. \A q \in attached' \cap Writers :
            ThreadsOf(q) # {} =>
              addr_map_size'[q] = Len(vmaps)' + (IF Reserving(q)' THEN 1 ELSE 0)
      BY <3>1, <3>2 DEF IInv, MapWhole
    <3>5. ASSUME NEW u \in Thread, pc'[u] = "map", u # t
          PROVE  /\ ProcessOf[u] \notin Writers
                 /\ thread_mutex'[ProcessOf[u]] = u
                 /\ \/ th'[u].j = addr_map_size'[ProcessOf[u]]
                    \/ addr_map_size'[ProcessOf[u]] + 1 >= T_ARRAY_VMAP_MAX_SIZE
      <4>1. pc[u] = "map" /\ th'[u] = th[u]
        BY <2>4, <3>5
      <4>2. ProcessOf[u] # p
        BY <1>1, <4>1, NothingAssumption DEF IInv, MapWhole
      <4> QED
        BY <2>2, <3>2, <4>1, <4>2, ProcessAssumption DEF IInv, MapWhole, Types
    <3> QED
      BY <2>1, <2>4, <2>5, <2>6, <3>2, <3>3, <3>4, <3>5 DEF IInv, MapWhole
  <2> QED
    BY <1>1, <2>3, <2>5, <2>7 DEF IInv, Types, head
<1>4. CASE ~Missing(p)
  <2>1. Goto(t, "use", th[t]) /\ thread_mutex' = thread_mutex
    BY <1>4 DEF Lock
  <2>2. /\ pc' \in [Thread -> Place] /\ th' \in [Thread -> Call]
        /\ Geometry' /\ AddersHaveLock' /\ FreeIsWhole' /\ Away' /\ FoundRight'
        /\ (size <= capacity)'
    BY <1>1, <1>2, <2>1, WalkKeeps DEF Finding, head
  <2>3. MapWhole'
    BY <1>1, <2>1, MapStays DEF head
  <2> QED
    BY <1>1, <2>1, <2>2, <2>3 DEF IInv, Types, head
<1> QED
  BY <1>3, <1>4

LEMMA ConnectKeeps ==
  ASSUME OneWriter, IInv, NEW t \in Thread, Connect(t)
  PROVE  IInv'
<1> DEFINE p == ProcessOf[t]
           n == addr_map_size[p]
           call == [th[t] EXCEPT !.j = @ + 1]
<1>1. /\ pc[t] = "map" /\ th[t].j < Len(vmaps) /\ Goto(t, "map", call)
      /\ UNCHANGED <<head, cell, thread_mutex, attached, got, refused>>
  BY DEF Connect
<1>2. /\ th[t] \in Call /\ p \in Process /\ n \in Nat /\ Len(vmaps) \in Nat
      /\ Len(vmaps) <= T_ARRAY_VMAP_MAX_SIZE
      /\ th[t].i + 1 \in DOMAIN vmaps /\ Holds(th[t].i + 1, th[t].h)
  <2>1. th[t] \in Call /\ p \in Process /\ n \in Nat
    BY ProcessAssumption DEF IInv, Types
  <2>2. Len(vmaps) \in Nat /\ Len(vmaps) <= T_ARRAY_VMAP_MAX_SIZE
    BY SizeAssumption DEF IInv, Types
  <2>3. th[t].i + 1 \in DOMAIN vmaps /\ Holds(th[t].i + 1, th[t].h)
    BY <1>1 DEF IInv, FoundRight, Finding
  <2> QED
    BY <2>1, <2>2, <2>3
<1>3. /\ call \in Call /\ call.do = th[t].do /\ call.h = th[t].h /\ call.data = th[t].data
      /\ call.i = th[t].i /\ call.j = th[t].j + 1 /\ th[t].j \in Int
  BY <1>2 DEF Call
<1> HIDE DEF call
<1>4. /\ pc' \in [Thread -> Place] /\ th' \in [Thread -> Call]
      /\ Geometry' /\ AddersHaveLock' /\ FreeIsWhole' /\ Away' /\ FoundRight'
      /\ (size <= capacity)'
  BY <1>1, <1>2, <1>3, WalkKeeps DEF Finding, head
<1>5. /\ pc'[t] = "map" /\ th'[t] = call
      /\ \A u \in Thread : u # t => pc'[u] = pc[u] /\ th'[u] = th[u]
  BY <1>1, GotoMoves DEF IInv
<1>6. \A q : Reserving(q)' = Reserving(q)
  BY <1>1, ReservingStays DEF IInv
<1>7. /\ p \notin Writers /\ thread_mutex[p] = t /\ p \in attached
      /\ th[t].j = n \/ n + 1 >= T_ARRAY_VMAP_MAX_SIZE
  BY <1>1, InsideIsAttached DEF IInv, MapWhole
<1>8. n <= Len(vmaps) /\ \A b \in 0..n - 1 : shm_addr_map[p][b] = b
  <2>1. ~Reserving(p)
    BY <1>7 DEF Reserving, ThreadsOf, IInv, AddersHaveLock, AdderHasLock, Adding
  <2> QED
    BY <1>2, <1>7, <2>1 DEF IInv, MapWhole, MapAgrees
<1>9. \A u \in Thread : u # t /\ pc[u] = "map" => ProcessOf[u] # p
  BY <1>7 DEF IInv, MapWhole
<1>10. CASE n + 1 >= T_ARRAY_VMAP_MAX_SIZE
  <2>1. UNCHANGED <<shm_addr_map, addr_map_size>>
    BY <1>10 DEF Connect
  <2>2. Types'
    BY <1>1, <1>4, <2>1 DEF IInv, Types, head
  <2>3. MapAgrees'
    BY <1>1, <1>6, <2>1 DEF IInv, MapWhole, MapAgrees, head
  <2>4. \A q \in attached' \cap Writers :
          ThreadsOf(q) # {} =>
            addr_map_size'[q] = Len(vmaps)' + (IF Reserving(q)' THEN 1 ELSE 0)
    BY <1>1, <1>6, <2>1 DEF IInv, MapWhole, head
  <2>5. MapWhole'
    BY <1>1, <1>5, <1>7, <1>10, <2>1, <2>3, <2>4 DEF IInv, MapWhole
  <2> QED
    BY <1>4, <2>2, <2>5 DEF IInv
<1>11. CASE ~(n + 1 >= T_ARRAY_VMAP_MAX_SIZE)
  <2>1. /\ shm_addr_map' = [shm_addr_map EXCEPT ![p][n] = th[t].j]
        /\ addr_map_size' = [addr_map_size EXCEPT ![p] = @ + 1]
    BY <1>11 DEF Connect
  <2>2. th[t].j = n /\ n \in Block
    BY <1>2, <1>7, <1>11, SizeAssumption DEF Block
  <2>3. /\ addr_map_size' \in [Process -> Nat] /\ addr_map_size'[p] = n + 1
        /\ \A q \in Process : q # p => addr_map_size'[q] = addr_map_size[q]
    BY <1>2, <2>1 DEF IInv, Types
  <2>4. /\ shm_addr_map' \in [Process -> [Block -> Block \cup {Nothing}]]
        /\ \A b \in Block : shm_addr_map'[p][b] = IF b = n THEN n ELSE shm_addr_map[p][b]
        /\ \A q \in Process : q # p => shm_addr_map'[q] = shm_addr_map[q]
    BY <1>2, <2>1, <2>2 DEF IInv, Types
  <2>5. Types'
    BY <1>1, <1>4, <2>3, <2>4 DEF IInv, Types, head
  <2>6. ASSUME NEW q \in attached'
        PROVE  /\ addr_map_size'[q] <= Len(vmaps)' + (IF Reserving(q)' THEN 1 ELSE 0)
               /\ \A b \in 0..addr_map_size'[q] - 1 : shm_addr_map'[q][b] = b
    <3>1. CASE q = p
      <4>1. n + 1 <= Len(vmaps)' /\ Len(vmaps)' \in Nat
        BY <1>1, <1>2, <2>2 DEF head
      <4>2. \A b \in 0..n : shm_addr_map'[p][b] = b
        <5>1. ASSUME NEW b \in 0..n PROVE shm_addr_map'[p][b] = b
          <6>1. b \in Block /\ (b = n \/ b \in 0..n - 1)
            BY <1>2, <2>2, SizeAssumption DEF Block
          <6> QED
            BY <1>8, <2>4, <6>1
        <5> QED
          BY <5>1
      <4> QED
        BY <1>2, <2>3, <3>1, <4>1, <4>2
    <3>2. CASE q # p
      BY <1>1, <1>6, <2>3, <2>4, <2>6, <3>2 DEF IInv, MapWhole, MapAgrees, head, Types
    <3> QED
      BY <3>1, <3>2
  <2>7. \A q \in attached' \cap Writers :
          ThreadsOf(q) # {} =>
            addr_map_size'[q] = Len(vmaps)' + (IF Reserving(q)' THEN 1 ELSE 0)
    BY <1>1, <1>6, <1>7, <2>3 DEF IInv, MapWhole, head, Types
  <2>8. \A q \in Process, b \in Block : shm_addr_map'[q][b] \in {b, Nothing}
    BY <2>4 DEF IInv, MapWhole
  <2>9. ASSUME NEW u \in Thread, pc'[u] = "map"
        PROVE  /\ ProcessOf[u] \notin Writers
               /\ thread_mutex'[ProcessOf[u]] = u
               /\ \/ th'[u].j = addr_map_size'[ProcessOf[u]]
                  \/ addr_map_size'[ProcessOf[u]] + 1 >= T_ARRAY_VMAP_MAX_SIZE
    <3>1. CASE u = t
      BY <1>1, <1>3, <1>5, <1>7, <2>2, <2>3, <3>1
    <3>2. CASE u # t
      <4>1. pc[u] = "map" /\ th'[u] = th[u] /\ ProcessOf[u] # p /\ ProcessOf[u] \in Process
        BY <1>5, <1>9, <2>9, <3>2, ProcessAssumption
      <4> QED
        BY <1>1, <2>3, <4>1 DEF IInv, MapWhole
    <3> QED
      BY <3>1, <3>2
  <2>10. MapWhole'
    BY <2>6, <2>7, <2>8, <2>9 DEF MapWhole, MapAgrees
  <2> QED
    BY <1>4, <2>5, <2>10 DEF IInv
<1> QED
  BY <1>10, <1>11

LEMMA ConnectedKeeps ==
  ASSUME OneWriter, IInv, NEW t \in Thread, Connected(t)
  PROVE  IInv'
<1> DEFINE p == ProcessOf[t]
<1>1. /\ pc[t] = "map" /\ Goto(t, "use", th[t])
      /\ thread_mutex' = [thread_mutex EXCEPT ![p] = Nothing]
      /\ UNCHANGED <<head, cell, shm_addr_map, addr_map_size, attached, got, refused>>
  BY DEF Connected
<1>2. /\ th[t] \in Call /\ p \in Process
      /\ th[t].i + 1 \in DOMAIN vmaps /\ Holds(th[t].i + 1, th[t].h)
  BY <1>1, ProcessAssumption DEF IInv, Types, FoundRight, Finding
<1>3. /\ pc' \in [Thread -> Place] /\ th' \in [Thread -> Call]
      /\ Geometry' /\ AddersHaveLock' /\ FreeIsWhole' /\ Away' /\ FoundRight'
      /\ (size <= capacity)'
  BY <1>1, <1>2, WalkKeeps DEF Finding, head
<1>4. thread_mutex' \in [Process -> Thread \cup {Nothing}]
  BY <1>1, <1>2 DEF IInv, Types
<1>5. thread_mutex[p] = t
  BY <1>1 DEF IInv, MapWhole
<1>6. \A u \in Thread : thread_mutex[ProcessOf[u]] = u /\ u # t =>
                          thread_mutex'[ProcessOf[u]] = u
  BY <1>1, <1>5, ProcessAssumption DEF IInv, Types
<1>7. MapWhole'
  BY <1>1, <1>6, MapStays DEF head
<1> QED
  BY <1>1, <1>3, <1>4, <1>7 DEF IInv, Types, head

LEMMA NoCallIsCall == NoCall \in Call
BY DEF NoCall, Call

\* What a thread that does not add leaves true as it comes and goes.
LEMMA ReaderKeeps ==
  ASSUME IInv, NEW t \in Thread, NEW place \in {"idle", "find"}, NEW call \in Call,
         Goto(t, place, call), Attached(t), ~Adding(t),
         place = "find" => call.do = "read" /\ call.h \in Handle /\ call.h < End,
         UNCHANGED <<head, attached>>
  PROVE  /\ pc' \in [Thread -> Place] /\ th' \in [Thread -> Call]
         /\ Geometry' /\ AddersHaveLock' /\ FreeIsWhole' /\ Away' /\ FoundRight'
         /\ (size <= capacity)'
<1>1. /\ pc'[t] = place /\ th'[t] = call
      /\ \A u \in Thread : u # t => pc'[u] = pc[u] /\ th'[u] = th[u]
  BY GotoMoves DEF IInv
<1>2. pc' \in [Thread -> Place] /\ th' \in [Thread -> Call]
  BY <1>1 DEF IInv, Types, Goto, Place
<1>3. Geometry' /\ End' = End /\ vmaps' = vmaps
  BY ListStays DEF IInv, head
<1>4. AddersHaveLock' /\ FreeIsWhole'
  BY <1>1, <1>3 DEF IInv, AddersHaveLock, AdderHasLock, FreeIsWhole, head, Adding, Finding
<1>5. Away'
  BY AwayStays
<1>6. FoundRight'
  <2>1. ASSUME NEW u \in Thread, u # t, pc'[u] \in Finding
        PROVE  /\ th'[u].do \in {"read", "add"}
               /\ th'[u].h \in Handle /\ th'[u].h < End
               /\ pc'[u] # "find" =>
                    th'[u].i + 1 \in DOMAIN vmaps /\ Holds(th'[u].i + 1, th'[u].h)
    BY <1>1, <2>1 DEF IInv, FoundRight
  <2> QED
    BY <1>1, <1>3, <2>1 DEF FoundRight, Holds, Finding
<1> QED
  BY <1>2, <1>3, <1>4, <1>5, <1>6 DEF IInv, head

LEMMA ThrowKeeps ==
  ASSUME OneWriter, IInv, NEW t \in Thread, Throw(t)
  PROVE  IInv'
<1>1. /\ pc[t] = "map" /\ Goto(t, "idle", NoCall)
      /\ UNCHANGED <<head, cell, private, got>>
  BY DEF Throw
<1>2. Attached(t) /\ ProcessOf[t] \notin Writers
  BY <1>1, InsideIsAttached DEF Attached, IInv, MapWhole
<1>3. ~Adding(t)
  BY <1>2 DEF IInv, AddersHaveLock, AdderHasLock
<1>4. /\ pc' \in [Thread -> Place] /\ th' \in [Thread -> Call]
      /\ Geometry' /\ AddersHaveLock' /\ FreeIsWhole' /\ Away' /\ FoundRight'
      /\ (size <= capacity)'
  BY <1>1, <1>2, <1>3, NoCallIsCall, ReaderKeeps DEF head, private
<1>5. MapWhole'
  BY <1>1, MapStays DEF head, private
<1> QED
  BY <1>1, <1>4, <1>5 DEF IInv, Types, head, private

LEMMA ReadKeeps ==
  ASSUME OneWriter, IInv, NEW t \in Thread, NEW h \in Handle, Read(t, h)
  PROVE  IInv'
<1> DEFINE call == [NoCall EXCEPT !.do = "read", !.h = h]
<1>1. /\ pc[t] = "idle" /\ Attached(t) /\ h < size /\ Goto(t, "find", call)
      /\ UNCHANGED <<head, cell, private, got, refused>>
  BY DEF Read
<1>2. call \in Call /\ call.do = "read" /\ call.h = h
  <2>1. h \in Int
    BY SizeAssumption DEF Handle
  <2> QED
    BY <2>1, NoCallIsCall DEF Call
<1> HIDE DEF call
<1>3. ~Adding(t)
  BY <1>1 DEF Adding, Finding
<1>4. h < End
  <2>1. End \in Nat /\ size \in Nat /\ capacity \in Nat /\ size <= capacity /\ capacity <= End
    BY EndIsNumber DEF IInv, Types, Geometry
  <2> QED
    BY <1>1, <2>1, SizeAssumption DEF Handle
<1>5. /\ pc' \in [Thread -> Place] /\ th' \in [Thread -> Call]
      /\ Geometry' /\ AddersHaveLock' /\ FreeIsWhole' /\ Away' /\ FoundRight'
      /\ (size <= capacity)'
  BY <1>1, <1>2, <1>3, <1>4, ReaderKeeps DEF head, private
<1>6. MapWhole'
  BY <1>1, MapStays DEF head, private
<1> QED
  BY <1>1, <1>5, <1>6 DEF IInv, Types, head, private

LEMMA UseKeeps ==
  ASSUME OneWriter, IInv, NEW t \in Thread, Use(t)
  PROVE  IInv'
<1>1. pc[t] = "use" /\ UNCHANGED <<head, private, refused>>
  BY DEF Use
<1>2. Attached(t)
  BY <1>1, InsideIsAttached DEF Attached
<1>3. CASE th[t].do = "read"
  <2>1. Goto(t, "idle", NoCall) /\ UNCHANGED cell
    BY <1>3 DEF Use
  <2>2. ~Adding(t)
    BY <1>1, <1>3 DEF Adding
  <2>3. /\ pc' \in [Thread -> Place] /\ th' \in [Thread -> Call]
        /\ Geometry' /\ AddersHaveLock' /\ FreeIsWhole' /\ Away' /\ FoundRight'
        /\ (size <= capacity)'
    BY <1>1, <1>2, <2>1, <2>2, NoCallIsCall, ReaderKeeps DEF head, private
  <2>4. MapWhole'
    BY <1>1, <2>1, MapStays DEF head, private
  <2> QED
    BY <1>1, <2>1, <2>3, <2>4 DEF IInv, Types, head, private
<1>4. CASE th[t].do # "read"
  <2> DEFINE b == Address(t)[1]
             k == Address(t)[2]
  <2>1. Goto(t, "count", NoCall) /\ cell' = [cell EXCEPT ![b][k] = th[t].data]
    BY <1>4 DEF Use
  <2>2. th[t].do = "add" /\ Adding(t)
    BY <1>1, <1>4 DEF IInv, FoundRight, Finding, Adding
  <2>3. th[t].data \in Data /\ End = capacity /\ ProcessOf[t] \in Writers /\ lock = t
    BY <1>1, <2>2 DEF IInv, AddersHaveLock, AdderHasLock, Finding
  <2> HIDE DEF b, k
  <2>4. cell' \in [Block -> [Handle -> Data \cup {Nothing}]]
    BY <2>1, <2>3 DEF IInv, Types
  <2>5. /\ pc'[t] = "count" /\ th'[t] = NoCall
        /\ \A u \in Thread : u # t => pc'[u] = pc[u] /\ th'[u] = th[u]
    BY <2>1, GotoMoves DEF IInv
  <2>6. Types'
    <3>1. pc' \in [Thread -> Place] /\ th' \in [Thread -> Call]
      BY <2>1, NoCallIsCall DEF IInv, Types, Goto, Place
    <3> QED
      BY <1>1, <2>4, <3>1 DEF IInv, Types, head, private
  <2>7. Geometry' /\ End' = End
    BY <1>1, ListStays DEF IInv, head
  <2>8. AddersHaveLock' /\ FreeIsWhole'
    BY <1>1, <2>2, <2>3, <2>5, <2>7 DEF IInv, AddersHaveLock, AdderHasLock, FreeIsWhole, head,
                                        Adding, Finding
  <2>9. Away'
    BY <1>1, <1>2, <2>1, AwayStays DEF private
  <2>10. FoundRight'
    BY <1>1, <2>5, <2>7 DEF IInv, FoundRight, Finding, Holds, head
  <2>11. MapWhole'
    BY <1>1, <2>1, MapStays DEF head, private
  <2> QED
    BY <1>1, <2>6, <2>7, <2>8, <2>9, <2>10, <2>11 DEF IInv, head
<1> QED
  BY <1>3, <1>4

-----------------------------------------------------------------------------
(* The steps of Add, by the one thread that has the lock *)

LEMMA OneAdder ==
  ASSUME IInv, NEW t \in Thread, lock \in {t, Nothing}
  PROVE  \A u \in Thread : u # t => ~Adding(u)
BY NothingAssumption DEF IInv, AddersHaveLock, AdderHasLock

\* What a step of Add leaves true in the shared memory and in the other threads,
\* where the list stays as it is.
LEMMA AdderKeeps ==
  ASSUME IInv, NEW t \in Thread, NEW place \in Place, NEW call \in Call,
         Goto(t, place, call), Attached(t), lock \in {t, Nothing},
         UNCHANGED <<capacity, vmaps, attached>>,
         lock' \in {t, Nothing}, size' \in Nat, size' <= capacity,
         lock' = Nothing => End = capacity,
         AdderHasLock(t)',
         place \in Finding =>
           place = "find" /\ call.do = "add" /\ call.h \in Handle /\ call.h < End
  PROVE  /\ pc' \in [Thread -> Place] /\ th' \in [Thread -> Call]
         /\ Geometry' /\ AddersHaveLock' /\ FreeIsWhole' /\ Away' /\ FoundRight'
         /\ (size <= capacity)'
<1>1. /\ pc'[t] = place /\ th'[t] = call
      /\ \A u \in Thread : u # t => pc'[u] = pc[u] /\ th'[u] = th[u]
  BY GotoMoves DEF IInv
<1>2. pc' \in [Thread -> Place] /\ th' \in [Thread -> Call]
  BY <1>1 DEF IInv, Types, Goto
<1>3. Geometry' /\ End' = End /\ vmaps' = vmaps
  BY ListStays DEF IInv
<1>4. \A u \in Thread : u # t => ~Adding(u) /\ ~Adding(u)'
  BY <1>1, OneAdder DEF Adding
<1>5. AddersHaveLock'
  BY <1>4 DEF AddersHaveLock, AdderHasLock, Adding
<1>6. FreeIsWhole'
  BY <1>3 DEF FreeIsWhole
<1>7. Away'
  BY AwayStays
<1>8. FoundRight'
  <2>1. ASSUME NEW u \in Thread, u # t, pc'[u] \in Finding
        PROVE  /\ th'[u].do \in {"read", "add"}
               /\ th'[u].h \in Handle /\ th'[u].h < End
               /\ pc'[u] # "find" =>
                    th'[u].i + 1 \in DOMAIN vmaps /\ Holds(th'[u].i + 1, th'[u].h)
    BY <1>1, <2>1 DEF IInv, FoundRight
  <2> QED
    BY <1>1, <1>3, <2>1 DEF FoundRight, Holds
<1> QED
  BY <1>2, <1>3, <1>5, <1>6, <1>7, <1>8

LEMMA AddKeeps ==
  ASSUME OneWriter, IInv, NEW t \in Thread, NEW d \in Data, Add(t, d)
  PROVE  IInv'
<1> DEFINE call == [NoCall EXCEPT !.do = "add", !.data = d]
<1>1. /\ pc[t] = "idle" /\ Attached(t) /\ ProcessOf[t] \in Writers
      /\ lock = Nothing /\ lock' = t /\ Goto(t, "add", call)
      /\ UNCHANGED <<capacity, size, vmaps, cell, private, got, refused>>
  BY DEF Add
<1>2. call \in Call /\ call.do = "add" /\ call.data = d
  BY NoCallIsCall DEF Call
<1> HIDE DEF call
<1>3. pc'[t] = "add" /\ th'[t] = call
  BY <1>1, GotoMoves DEF IInv
<1>4. End' = End /\ End = capacity
  BY <1>1 DEF End, IInv, FreeIsWhole
<1>5. AdderHasLock(t)'
  BY <1>1, <1>2, <1>3, <1>4 DEF AdderHasLock, Adding, Finding
<1>6. /\ pc' \in [Thread -> Place] /\ th' \in [Thread -> Call]
      /\ Geometry' /\ AddersHaveLock' /\ FreeIsWhole' /\ Away' /\ FoundRight'
      /\ (size <= capacity)'
  <2>1. "add" \in Place /\ "add" \notin Finding
    BY DEF Place, Finding
  <2>2. size' \in Nat /\ size' <= capacity /\ lock' # Nothing
    BY <1>1, NothingAssumption DEF IInv, Types
  <2> QED
    BY <1>1, <1>2, <1>5, <2>1, <2>2, AdderKeeps DEF private
<1>7. MapWhole'
  BY <1>1, MapStays DEF private
<1> QED
  BY <1>1, <1>6, <1>7 DEF IInv, Types, private

\* Who is inside Add has the lock.
LEMMA AdderInside ==
  ASSUME IInv, NEW t \in Thread, pc[t] \in {"add", "vmap", "capacity", "count"}
  PROVE  /\ Attached(t) /\ lock = t /\ ProcessOf[t] \in Writers /\ AdderHasLock(t)
         /\ th[t] \in Call
         /\ ProcessOf[t] \in Process /\ ProcessOf[t] \in attached
         /\ addr_map_size[ProcessOf[t]] =
              Len(vmaps) + (IF pc[t] = "vmap" THEN 1 ELSE 0)
<1>1. Attached(t) /\ t \in ThreadsOf(ProcessOf[t]) /\ ProcessOf[t] \in Process
  BY InsideIsAttached, ProcessAssumption DEF Attached
<1>2. lock = t /\ ProcessOf[t] \in Writers /\ AdderHasLock(t)
  BY DEF IInv, AddersHaveLock, AdderHasLock, Adding
<1>3. Reserving(ProcessOf[t]) <=> pc[t] = "vmap"
  BY <1>1, <1>2, OneAdder DEF Reserving, Adding, ThreadsOf
<1> QED
  BY <1>1, <1>2, <1>3 DEF IInv, MapWhole, Attached, Types

LEMMA RoomKeeps ==
  ASSUME OneWriter, IInv, NEW t \in Thread, Add_Room(t)
  PROVE  IInv'
<1> DEFINE call == [th[t] EXCEPT !.h = size]
<1>1. /\ pc[t] = "add" /\ capacity > size /\ Goto(t, "find", call)
      /\ UNCHANGED <<head, cell, private, got, refused>>
  BY DEF Add_Room
<1>2. Attached(t) /\ lock = t /\ ProcessOf[t] \in Writers /\ AdderHasLock(t) /\ th[t] \in Call
  BY <1>1, AdderInside
<1>3. size \in Nat /\ capacity \in Nat /\ End = capacity /\ End <= MaxCells
  BY <1>1, <1>2 DEF IInv, Types, AdderHasLock, Geometry
<1>4. call \in Call /\ call.h = size /\ call.do = th[t].do /\ call.data = th[t].data
  BY <1>2, <1>3 DEF Call
<1> HIDE DEF call
<1>5. pc'[t] = "find" /\ th'[t] = call
  BY <1>1, GotoMoves DEF IInv
<1>6. AdderHasLock(t)'
  <2>1. UNCHANGED <<capacity, size, vmaps, lock>> /\ End' = End
    BY <1>1 DEF head, End
  <2>2. th[t].do = "add" /\ th[t].data \in Data
    BY <1>1, <1>2 DEF AdderHasLock
  <2> QED
    BY <1>1, <1>2, <1>3, <1>4, <1>5, <2>1, <2>2 DEF AdderHasLock, Adding, Finding
<1>7. /\ pc' \in [Thread -> Place] /\ th' \in [Thread -> Call]
      /\ Geometry' /\ AddersHaveLock' /\ FreeIsWhole' /\ Away' /\ FoundRight'
      /\ (size <= capacity)'
  <2>1. "find" \in Place
    BY DEF Place
  <2>2. call.do = "add" /\ call.h \in Handle /\ call.h < End
    <3>1. th[t].do = "add"
      BY <1>1, <1>2 DEF AdderHasLock
    <3> QED
      BY <1>1, <1>3, <1>4, <3>1, SizeAssumption DEF Handle
  <2>3. UNCHANGED <<capacity, vmaps, attached>> /\ lock' = t /\ size' \in Nat /\ size' <= capacity
    BY <1>1, <1>2, <1>3 DEF head, private
  <2> QED
    BY <1>1, <1>2, <1>3, <1>4, <1>6, <2>1, <2>2, <2>3, NothingAssumption, AdderKeeps
<1>8. MapWhole'
  BY <1>1, MapStays DEF head, private
<1> QED
  BY <1>1, <1>7, <1>8 DEF IInv, Types, head, private

LEMMA FailKeeps ==
  ASSUME OneWriter, IInv, NEW t \in Thread, Reserve_Fails(t)
  PROVE  IInv'
<1>1. /\ pc[t] = "add" /\ lock' = Nothing /\ Goto(t, "idle", NoCall)
      /\ UNCHANGED <<capacity, size, vmaps, cell, private, got, refused>>
  BY DEF Reserve_Fails
<1>2. Attached(t) /\ lock = t /\ AdderHasLock(t)
  BY <1>1, AdderInside
<1>3. pc'[t] = "idle" /\ th'[t] = NoCall
  BY <1>1, GotoMoves DEF IInv
<1>4. AdderHasLock(t)'
  BY <1>3 DEF AdderHasLock, Adding, Finding
<1>5. End = capacity
  BY <1>1, <1>2 DEF AdderHasLock
<1>6. /\ pc' \in [Thread -> Place] /\ th' \in [Thread -> Call]
      /\ Geometry' /\ AddersHaveLock' /\ FreeIsWhole' /\ Away' /\ FoundRight'
      /\ (size <= capacity)'
  <2>1. "idle" \in Place /\ "idle" \notin Finding
    BY DEF Place, Finding
  <2>2. size' \in Nat /\ size' <= capacity
    BY <1>1 DEF IInv, Types
  <2> QED
    BY <1>1, <1>2, <1>4, <1>5, <2>1, <2>2, NoCallIsCall, AdderKeeps DEF private
<1>7. MapWhole'
  BY <1>1, MapStays DEF private
<1> QED
  BY <1>1, <1>6, <1>7 DEF IInv, Types, private

LEMMA CountKeeps ==
  ASSUME OneWriter, IInv, NEW t \in Thread, Add_Count(t)
  PROVE  IInv'
<1>1. /\ pc[t] = "count" /\ lock' = Nothing /\ size' = size + 1 /\ Goto(t, "idle", NoCall)
      /\ UNCHANGED <<capacity, vmaps, cell, private, got, refused>>
  BY DEF Add_Count
<1>2. Attached(t) /\ lock = t /\ AdderHasLock(t)
  BY <1>1, AdderInside
<1>3. pc'[t] = "idle" /\ th'[t] = NoCall
  BY <1>1, GotoMoves DEF IInv
<1>4. AdderHasLock(t)'
  BY <1>3 DEF AdderHasLock, Adding, Finding
<1>5. End = capacity /\ size < capacity
  BY <1>1, <1>2 DEF AdderHasLock
<1>6. size' \in Nat /\ size' <= capacity
  BY <1>1, <1>5 DEF IInv, Types
<1>7. /\ pc' \in [Thread -> Place] /\ th' \in [Thread -> Call]
      /\ Geometry' /\ AddersHaveLock' /\ FreeIsWhole' /\ Away' /\ FoundRight'
      /\ (size <= capacity)'
  <2>1. "idle" \in Place /\ "idle" \notin Finding
    BY DEF Place, Finding
  <2> QED
    BY <1>1, <1>2, <1>4, <1>5, <1>6, <2>1, NoCallIsCall, AdderKeeps DEF private
<1>8. MapWhole'
  BY <1>1, MapStays DEF private
<1> QED
  BY <1>1, <1>6, <1>7, <1>8 DEF IInv, Types, private

LEMMA ClearKeeps ==
  ASSUME OneWriter, IInv, NEW t \in Thread, Clear(t)
  PROVE  IInv'
<1>1. /\ lock = Nothing /\ size' = 0
      /\ UNCHANGED <<capacity, vmaps, lock, cell, private, pc, th, got, refused>>
  BY DEF Clear
<1>2. \A u \in Thread : ~Adding(u) /\ ~Adding(u)'
  BY <1>1, NothingAssumption DEF IInv, AddersHaveLock, AdderHasLock, Adding
<1>3. Types'
  BY <1>1 DEF IInv, Types, private
<1>4. Geometry' /\ End' = End
  BY <1>1, ListStays DEF IInv
<1>5. AddersHaveLock' /\ FreeIsWhole'
  BY <1>1, <1>2, <1>4 DEF IInv, AddersHaveLock, AdderHasLock, Adding, FreeIsWhole
<1>6. Away' /\ FoundRight'
  BY <1>1, <1>4 DEF IInv, Away, FoundRight, Holds, private
<1>7. MapWhole'
  BY <1>1 DEF IInv, MapWhole, MapAgrees, Reserving, private
<1>8. 0 <= capacity
  BY DEF IInv, Types
<1> QED
  BY <1>1, <1>3, <1>4, <1>5, <1>6, <1>7, <1>8 DEF IInv

LEMMA ReserveKeeps ==
  ASSUME OneWriter, IInv, NEW t \in Thread, Reserve(t)
  PROVE  IInv'
<1> DEFINE p == ProcessOf[t]
           len == Len(vmaps)
<1>1. /\ pc[t] = "add" /\ len < T_ARRAY_VMAP_MAX_SIZE
      /\ shm_addr_map' = [shm_addr_map EXCEPT ![p][len] = len]
      /\ addr_map_size' = [addr_map_size EXCEPT ![p] = @ + 1]
      /\ UNCHANGED <<head, cell, thread_mutex, attached, got, refused>>
  BY DEF Reserve
<1>2. PICK n \in Sizes : capacity + n <= MaxCells /\ Goto(t, "vmap", [th[t] EXCEPT !.new = n])
  BY DEF Reserve
<1>3. n \in Int /\ n > 0
  BY DEF Sizes, IInv, Types
<1> DEFINE call == [th[t] EXCEPT !.new = n]
<1>4. /\ Attached(t) /\ lock = t /\ p \in Writers /\ AdderHasLock(t) /\ th[t] \in Call
      /\ p \in Process /\ p \in attached /\ addr_map_size[p] = len
  BY <1>1, AdderInside
<1>5. /\ call \in Call /\ call.new = n /\ call.data = th[t].data /\ call.do = th[t].do
  BY <1>3, <1>4 DEF Call
<1>6. Goto(t, "vmap", call)
  BY <1>2
<1> HIDE DEF call
<1>7. /\ pc'[t] = "vmap" /\ th'[t] = call
      /\ \A u \in Thread : u # t => pc'[u] = pc[u] /\ th'[u] = th[u]
  BY <1>6, GotoMoves DEF IInv
<1>8. UNCHANGED <<capacity, size, vmaps, lock, attached>> /\ End' = End
  BY <1>1 DEF head, End
<1>9. AdderHasLock(t)'
  BY <1>1, <1>2, <1>3, <1>4, <1>5, <1>7, <1>8 DEF AdderHasLock, Adding, Finding
<1>10. /\ pc' \in [Thread -> Place] /\ th' \in [Thread -> Call]
       /\ Geometry' /\ AddersHaveLock' /\ FreeIsWhole' /\ Away' /\ FoundRight'
       /\ (size <= capacity)'
  <2>1. "vmap" \in Place /\ "vmap" \notin Finding
    BY DEF Place, Finding
  <2>2. size' \in Nat /\ size' <= capacity /\ lock' # Nothing
    BY <1>4, <1>8, NothingAssumption DEF IInv, Types
  <2> QED
    BY <1>4, <1>5, <1>6, <1>8, <1>9, <2>1, <2>2, AdderKeeps
<1>11. len \in Block /\ len \in Nat
  BY <1>1, SizeAssumption DEF Block, IInv, Types
<1>12. /\ addr_map_size' \in [Process -> Nat] /\ addr_map_size'[p] = len + 1
       /\ \A q \in Process : q # p => addr_map_size'[q] = addr_map_size[q]
  BY <1>1, <1>4, <1>11 DEF IInv, Types
<1>13. /\ shm_addr_map' \in [Process -> [Block -> Block \cup {Nothing}]]
       /\ \A b \in Block : shm_addr_map'[p][b] = IF b = len THEN len ELSE shm_addr_map[p][b]
       /\ \A q \in Process : q # p => shm_addr_map'[q] = shm_addr_map[q]
  BY <1>1, <1>4, <1>11 DEF IInv, Types
<1>14. Types'
  BY <1>1, <1>8, <1>10, <1>12, <1>13 DEF IInv, Types
<1>15. Reserving(p)' /\ \A q : q # p => Reserving(q)' = Reserving(q)
  <2>1. t \in ThreadsOf(p)
    BY DEF ThreadsOf
  <2> QED
    BY <1>7, <2>1 DEF Reserving, ThreadsOf
<1>16. \A b \in 0..len : shm_addr_map'[p][b] = b
  <2>1. ASSUME NEW b \in 0..len PROVE shm_addr_map'[p][b] = b
    <3>1. b \in Block /\ (b = len \/ b \in 0..addr_map_size[p] - 1)
      BY <1>1, <1>4, <1>11, SizeAssumption DEF Block
    <3> QED
      BY <1>4, <1>13, <3>1 DEF IInv, MapWhole, MapAgrees
  <2> QED
    BY <2>1
<1>17. MapAgrees'
  <2>1. ASSUME NEW q \in attached'
        PROVE  /\ addr_map_size'[q] <= Len(vmaps)' + (IF Reserving(q)' THEN 1 ELSE 0)
               /\ \A b \in 0..addr_map_size'[q] - 1 : shm_addr_map'[q][b] = b
    <3>1. CASE q = p
      <4>1. len + 1 - 1 = len /\ len + 1 <= len + 1
        BY <1>11
      <4>2. Len(vmaps)' = len
        BY <1>8
      <4> QED
        BY <1>11, <1>12, <1>15, <1>16, <3>1, <4>1, <4>2
    <3>2. CASE q # p
      <4>1. q \in attached /\ q \in Process
        BY <1>8, <2>1 DEF IInv, Types
      <4> QED
        BY <1>8, <1>12, <1>13, <1>15, <3>2, <4>1 DEF IInv, MapWhole, MapAgrees
    <3> QED
      BY <3>1, <3>2
  <2> QED
    BY <2>1 DEF MapAgrees
<1>18. \A q \in attached' \cap Writers :
          ThreadsOf(q) # {} =>
            addr_map_size'[q] = Len(vmaps)' + (IF Reserving(q)' THEN 1 ELSE 0)
  BY <1>4, <1>8, <1>12, <1>15 DEF OneWriter
<1>19. ASSUME NEW u \in Thread, pc'[u] = "map"
       PROVE  /\ ProcessOf[u] \notin Writers
              /\ thread_mutex'[ProcessOf[u]] = u
              /\ \/ th'[u].j = addr_map_size'[ProcessOf[u]]
                 \/ addr_map_size'[ProcessOf[u]] + 1 >= T_ARRAY_VMAP_MAX_SIZE
  <2>1. pc[u] = "map" /\ th'[u] = th[u] /\ ProcessOf[u] \in Process
    BY <1>7, <1>19, ProcessAssumption
  <2>2. ProcessOf[u] # p
    BY <1>4, <2>1 DEF IInv, MapWhole
  <2> QED
    BY <1>1, <1>12, <2>1, <2>2 DEF IInv, MapWhole
<1>20. \A q \in Process, b \in Block : shm_addr_map'[q][b] \in {b, Nothing}
  BY <1>4, <1>13 DEF IInv, MapWhole
<1>21. MapWhole'
  BY <1>17, <1>18, <1>19, <1>20 DEF MapWhole
<1> QED
  BY <1>10, <1>14, <1>21 DEF IInv

LEMMA CapacityKeeps ==
  ASSUME OneWriter, IInv, NEW t \in Thread, Reserve_Capacity(t)
  PROVE  IInv'
<1> DEFINE call == [th[t] EXCEPT !.new = 0]
<1>1. /\ pc[t] = "capacity" /\ Goto(t, "add", call) /\ capacity' = capacity + th[t].new
      /\ UNCHANGED <<size, vmaps, lock, cell, private, got, refused>>
  BY DEF Reserve_Capacity
<1>2. Attached(t) /\ lock = t /\ ProcessOf[t] \in Writers /\ AdderHasLock(t) /\ th[t] \in Call
  BY <1>1, AdderInside
<1>3. /\ call \in Call /\ call.data = th[t].data /\ call.do = th[t].do
  BY <1>2 DEF Call
<1> HIDE DEF call
<1>4. /\ pc'[t] = "add" /\ th'[t] = call
      /\ \A u \in Thread : u # t => pc'[u] = pc[u] /\ th'[u] = th[u]
  BY <1>1, GotoMoves DEF IInv
<1>5. End' = End /\ End \in Nat /\ capacity' = End /\ capacity <= End /\ capacity \in Nat
  BY <1>1, <1>2, EndIsNumber DEF End, AdderHasLock, IInv, Types, Geometry
<1>6. size' \in Nat /\ size' <= capacity'
  BY <1>1, <1>5 DEF IInv, Types
<1>7. Types'
  <2>1. pc' \in [Thread -> Place] /\ th' \in [Thread -> Call]
    BY <1>1, <1>3, <1>4 DEF IInv, Types, Goto, Place
  <2> QED
    BY <1>1, <1>5, <2>1 DEF IInv, Types, private
<1>8. Geometry'
  BY <1>1, <1>5 DEF IInv, Geometry, Holds
<1>9. AddersHaveLock' /\ FreeIsWhole'
  <2>1. \A u \in Thread : u # t => ~Adding(u) /\ ~Adding(u)'
    BY <1>2, <1>4, OneAdder DEF Adding
  <2>2. AdderHasLock(t)'
    BY <1>1, <1>2, <1>3, <1>4, <1>5 DEF AdderHasLock, Adding, Finding
  <2> QED
    BY <1>5, <2>1, <2>2 DEF AddersHaveLock, AdderHasLock, Adding, FreeIsWhole
<1>10. Away'
  BY <1>1, <1>2, AwayStays DEF private
<1>11. FoundRight'
  <2>1. \A u \in Thread : pc'[u] \in Finding => u # t /\ pc[u] \in Finding
    BY <1>4 DEF Finding
  <2> QED
    BY <1>1, <1>4, <1>5, <2>1 DEF IInv, FoundRight, Holds
<1>12. MapWhole'
  BY <1>1, MapStays DEF private
<1> QED
  BY <1>6, <1>7, <1>8, <1>9, <1>10, <1>11, <1>12 DEF IInv

\* The list with one more block at its end.
LEMMA ListGrows ==
  ASSUME Types, Geometry, NEW t \in Thread, Reserve_Vmap(t), th[t].new \in Int, th[t].new > 0,
         End = capacity
  PROVE  /\ vmaps' \in Seq(Part) /\ Len(vmaps)' = Len(vmaps) + 1
         /\ DOMAIN vmaps' = DOMAIN vmaps \cup {Len(vmaps) + 1}
         /\ \A i \in DOMAIN vmaps : vmaps'[i] = vmaps[i] /\ vmaps[i] \in Part
         /\ vmaps'[Len(vmaps) + 1] = [begin |-> capacity, end |-> capacity + th[t].new]
         /\ End' = capacity + th[t].new
         /\ DOMAIN vmaps = 1..Len(vmaps) /\ Len(vmaps) \in Nat
<1> DEFINE new == [begin |-> capacity, end |-> capacity + th[t].new]
<1>1. vmaps' = Append(vmaps, new)
  BY DEF Reserve_Vmap
<1>2. new \in Part
  BY DEF Part, Types
<1>3. vmaps \in Seq(Part)
  BY DEF Types
<1> HIDE DEF new
<1>4. /\ vmaps' \in Seq(Part) /\ Len(vmaps)' = Len(vmaps) + 1
      /\ \A i \in 1..Len(vmaps) : vmaps'[i] = vmaps[i] /\ vmaps[i] \in Part
      /\ vmaps'[Len(vmaps) + 1] = new
      /\ DOMAIN vmaps = 1..Len(vmaps) /\ Len(vmaps) \in Nat
      /\ DOMAIN vmaps' = 1..(Len(vmaps) + 1)
  BY <1>1, <1>2, <1>3
<1>5. 1..(Len(vmaps) + 1) = (1..Len(vmaps)) \cup {Len(vmaps) + 1}
  BY <1>4
<1>6. End' = new.end
  BY <1>4 DEF End
<1> QED
  BY <1>4, <1>5, <1>6 DEF new

LEMMA VmapKeeps ==
  ASSUME OneWriter, IInv, NEW t \in Thread, Reserve_Vmap(t)
  PROVE  IInv'
<1> DEFINE p == ProcessOf[t]
           len == Len(vmaps)
<1>1. /\ pc[t] = "vmap" /\ Goto(t, "capacity", th[t])
      /\ UNCHANGED <<capacity, size, lock, cell, private, got, refused>>
  BY DEF Reserve_Vmap
<1>2. /\ Attached(t) /\ lock = t /\ p \in Writers /\ AdderHasLock(t) /\ th[t] \in Call
      /\ p \in Process /\ p \in attached /\ addr_map_size[p] = len + 1
  BY <1>1, AdderInside
<1>3. /\ th[t].new \in Int /\ th[t].new > 0 /\ End = capacity /\ len < T_ARRAY_VMAP_MAX_SIZE
      /\ capacity + th[t].new <= MaxCells /\ capacity \in Nat
  BY <1>1, <1>2 DEF AdderHasLock, Call, IInv, Types
<1>4. /\ vmaps' \in Seq(Part) /\ Len(vmaps)' = len + 1
      /\ DOMAIN vmaps' = DOMAIN vmaps \cup {len + 1}
      /\ \A i \in DOMAIN vmaps : vmaps'[i] = vmaps[i] /\ vmaps[i] \in Part
      /\ vmaps'[len + 1] = [begin |-> capacity, end |-> capacity + th[t].new]
      /\ End' = capacity + th[t].new
      /\ DOMAIN vmaps = 1..len /\ len \in Nat
  BY <1>3, ListGrows DEF IInv
<1> HIDE DEF p, len
<1>5. /\ pc'[t] = "capacity" /\ th'[t] = th[t]
      /\ \A u \in Thread : u # t => pc'[u] = pc[u] /\ th'[u] = th[u]
  BY <1>1, GotoMoves DEF IInv
<1>6. Types'
  <2>1. pc' \in [Thread -> Place] /\ th' \in [Thread -> Call]
    BY <1>1, <1>2, <1>5 DEF IInv, Types, Goto, Place
  <2>2. Len(vmaps)' \in 1..T_ARRAY_VMAP_MAX_SIZE
    BY <1>3, <1>4, SizeAssumption
  <2> QED
    BY <1>1, <1>4, <2>1, <2>2 DEF IInv, Types, private
<1>7. Geometry'
  <2>1. \A i \in DOMAIN vmaps : vmaps[i].begin < vmaps[i].end /\ vmaps[i].end <= capacity
                                /\ vmaps[i].begin \in Nat /\ vmaps[i].end \in Nat
    BY <1>3, <1>4 DEF IInv, Geometry, Part
  <2>2. \A i \in DOMAIN vmaps' : vmaps'[i].begin < vmaps'[i].end /\ vmaps'[i].end <= End'
    BY <1>3, <1>4, <2>1
  <2>3. ASSUME NEW i \in DOMAIN vmaps', NEW j \in DOMAIN vmaps', i < j
        PROVE  vmaps'[i].end <= vmaps'[j].begin
    <3>1. i \in DOMAIN vmaps
      BY <1>4, <2>3
    <3>2. CASE j \in DOMAIN vmaps
      BY <1>4, <2>3, <3>1, <3>2 DEF IInv, Geometry
    <3>3. CASE j = len + 1
      BY <1>4, <2>1, <3>1, <3>3
    <3> QED
      BY <1>4, <3>2, <3>3
  <2>4. ASSUME NEW h \in Handle, h < End'
        PROVE  \E i \in DOMAIN vmaps' : vmaps'[i].begin <= h /\ h < vmaps'[i].end
    <3>1. CASE h < capacity
      <4>1. PICK i \in DOMAIN vmaps : Holds(i, h)
        BY <1>3, <3>1 DEF IInv, Geometry
      <4>2. vmaps'[i].begin <= h /\ h < vmaps'[i].end
        BY <1>4, <4>1 DEF Holds
      <4> QED
        BY <1>4, <4>2
    <3>2. CASE ~(h < capacity)
      <4>1. h \in Int
        BY SizeAssumption DEF Handle
      <4>2. vmaps'[len + 1].begin <= h /\ h < vmaps'[len + 1].end
        BY <1>3, <1>4, <2>4, <3>2, <4>1
      <4> QED
        BY <1>4, <4>2
    <3> QED
      BY <3>1, <3>2
  <2> QED
    BY <1>1, <1>3, <1>4, <2>2, <2>3, <2>4 DEF Geometry, Holds
<1>8. AddersHaveLock' /\ FreeIsWhole'
  <2>1. \A u \in Thread : u # t => ~Adding(u) /\ ~Adding(u)'
    BY <1>2, <1>5, OneAdder DEF Adding
  <2>2. AdderHasLock(t)'
    BY <1>1, <1>2, <1>4, <1>5 DEF AdderHasLock, Adding, Finding
  <2>3. lock' # Nothing
    BY <1>1, <1>2, NothingAssumption
  <2> QED
    BY <2>1, <2>2, <2>3 DEF AddersHaveLock, AdderHasLock, Adding, FreeIsWhole
<1>9. Away'
  BY <1>1, <1>2, AwayStays DEF private
<1>10. FoundRight'
  <2>1. ASSUME NEW u \in Thread, pc'[u] \in Finding
        PROVE  /\ th'[u].do \in {"read", "add"}
               /\ th'[u].h \in Handle /\ th'[u].h < End'
               /\ pc'[u] # "find" =>
                    /\ th'[u].i + 1 \in DOMAIN vmaps'
                    /\ vmaps'[th'[u].i + 1].begin <= th'[u].h
                    /\ th'[u].h < vmaps'[th'[u].i + 1].end
    <3>1. u # t /\ pc[u] = pc'[u] /\ th'[u] = th[u]
      BY <1>5, <2>1 DEF Finding
    <3>2. th[u].do \in {"read", "add"} /\ th[u].h \in Handle /\ th[u].h < End
      BY <2>1, <3>1 DEF IInv, FoundRight
    <3>3. th[u].h < End'
      BY <1>3, <1>4, <3>2, SizeAssumption DEF Handle
    <3>4. pc[u] # "find" => th[u].i + 1 \in DOMAIN vmaps /\ Holds(th[u].i + 1, th[u].h)
      BY <2>1, <3>1 DEF IInv, FoundRight
    <3> QED
      BY <1>4, <3>1, <3>2, <3>3, <3>4 DEF Holds
  <2> QED
    BY <2>1 DEF FoundRight, Holds
<1>11. \A u \in Thread : pc[u] = "vmap" => u = t
  BY <1>2, OneAdder DEF Adding
<1>12. ~Reserving(p)' /\ \A q : q # p => Reserving(q)' = Reserving(q)
  BY <1>1, <1>5, <1>11 DEF Reserving, ThreadsOf, p
<1>13. MapAgrees'
  <2>1. ASSUME NEW q \in attached'
        PROVE  /\ addr_map_size'[q] <= Len(vmaps)' + (IF Reserving(q)' THEN 1 ELSE 0)
               /\ \A b \in 0..addr_map_size'[q] - 1 : shm_addr_map'[q][b] = b
    <3>1. q \in attached /\ addr_map_size[q] \in Nat
          /\ addr_map_size[q] <= len + (IF Reserving(q) THEN 1 ELSE 0)
          /\ \A b \in 0..addr_map_size[q] - 1 : shm_addr_map[q][b] = b
      BY <1>1, <2>1 DEF IInv, Types, MapWhole, MapAgrees, private, len
    <3>2. addr_map_size'[q] = addr_map_size[q] /\ shm_addr_map'[q] = shm_addr_map[q]
      BY <1>1 DEF private
    <3> QED
      BY <1>2, <1>4, <1>12, <3>1, <3>2
  <2> QED
    BY <2>1 DEF MapAgrees
<1>14. \A q \in attached' \cap Writers :
          ThreadsOf(q) # {} =>
            addr_map_size'[q] = Len(vmaps)' + (IF Reserving(q)' THEN 1 ELSE 0)
  BY <1>1, <1>2, <1>4, <1>12 DEF OneWriter, private
<1>15. MapWhole'
  <2>1. \A u \in Thread : pc'[u] = "map" => pc[u] = "map" /\ th'[u] = th[u]
    BY <1>5
  <2> QED
    BY <1>1, <1>13, <1>14, <2>1 DEF IInv, MapWhole, private
<1> QED
  BY <1>1, <1>6, <1>7, <1>8, <1>9, <1>10, <1>15 DEF IInv

-----------------------------------------------------------------------------
(* The invariant *)

LEMMA Inductive ==
  ASSUME OneWriter, IInv, [Next]_vars
  PROVE  IInv'
<1>1. CASE Next
  <2>1. CASE \E p \in Process : Attach(p) \/ Detach(p) \/ Kill(p)
    BY <2>1, AttachKeeps, DetachKeeps, KillKeeps
  <2>2. CASE \E t \in Thread : Dereference(t) \/ Throw(t) \/ \E h \in Handle : Read(t, h)
    BY <2>2, FindKeeps, LockKeeps, ConnectKeeps, ConnectedKeeps, UseKeeps, ThrowKeeps,
       ReadKeeps DEF Dereference
  <2>3. CASE \E t \in Thread : (\E d \in Data : Add(t, d)) \/ Add_Room(t) \/ Reserve(t)
                               \/ Reserve_Fails(t)
    BY <2>3, AddKeeps, RoomKeeps, ReserveKeeps, FailKeeps
  <2>4. CASE \E t \in Thread : Reserve_Vmap(t) \/ Reserve_Capacity(t) \/ Add_Count(t)
                               \/ Clear(t)
    BY <2>4, VmapKeeps, CapacityKeeps, CountKeeps, ClearKeeps
  <2> QED
    BY <1>1, <2>1, <2>2, <2>3, <2>4 DEF Next
<1>2. CASE UNCHANGED vars
  <2>1. /\ UNCHANGED <<capacity, size, vmaps, lock, cell, shm_addr_map, addr_map_size>>
        /\ UNCHANGED <<thread_mutex, attached, pc, th>>
    BY <1>2 DEF vars, head, private
  <2>2. Types' /\ Geometry' /\ Away' /\ FreeIsWhole'
    BY <2>1 DEF IInv, Types, Geometry, Away, FreeIsWhole, End, Holds
  <2>3. AddersHaveLock' /\ FoundRight'
    BY <2>1 DEF IInv, AddersHaveLock, AdderHasLock, FoundRight, Adding, End, Holds
  <2>4. MapWhole'
    BY <2>1 DEF IInv, MapWhole, MapAgrees, Reserving
  <2> QED
    BY <2>1, <2>2, <2>3, <2>4 DEF IInv
<1> QED
  BY <1>1, <1>2

LEMMA Invariant ==
  ASSUME OneWriter
  PROVE  Spec => []IInv
<1>1. Init => IInv
  BY InitIInv
<1>2. IInv /\ [Next]_vars => IInv'
  BY Inductive
<1> QED
  BY <1>1, <1>2, PTL DEF Spec

\* Where one process adds and does not come back, the private map of every
\* process is the beginning of the shared list, however often readers come and
\* go and however their threads connect blocks.
THEOREM MapsAgree ==
  ASSUME OneWriter
  PROVE  Spec => []MapAgrees
<1>1. IInv => MapAgrees
  BY DEF IInv, MapWhole
<1> QED
  BY <1>1, Invariant, PTL

-----------------------------------------------------------------------------
(* The array that the blocks make up *)

Value == [h \in Handle |-> Content(h)]

\* What is there: every element that counts, the one that is about to count and
\* every one that is being read; and nothing beyond the blocks of the list.
Filled ==
  /\ \A h \in Handle : h < size => Value[h] # Nothing
  /\ \A t \in Thread :
       /\ pc[t] \in Finding /\ th[t].do = "read" => Value[th[t].h] # Nothing
       /\ pc[t] = "count" => Value[size] # Nothing
  /\ \A b \in Block : b >= Len(vmaps) => \A k \in Handle : cell[b][k] = Nothing

\* A handle is in one block.
LEMMA OneBlock ==
  ASSUME NEW list \in Seq(Part), NEW h \in Int, NEW i \in DOMAIN list,
         \A a, b \in DOMAIN list : a < b => list[a].end <= list[b].begin,
         list[i].begin <= h, h < list[i].end
  PROVE  (CHOOSE k \in DOMAIN list : list[k].begin <= h /\ h < list[k].end) = i
<1>1. ASSUME NEW k \in DOMAIN list, list[k].begin <= h, h < list[k].end
      PROVE  k = i
  <2>1. /\ k \in Int /\ i \in Int
        /\ list[k].begin \in Int /\ list[k].end \in Int
        /\ list[i].begin \in Int /\ list[i].end \in Int
    <3>1. list[k] \in Part /\ list[i] \in Part
      OBVIOUS
    <3>2. DOMAIN list = 1..Len(list) /\ Len(list) \in Nat
      OBVIOUS
    <3>3. k \in Int /\ i \in Int
      BY <3>2
    <3> QED
      BY <3>1, <3>3 DEF Part
  <2>2. ~(k < i) /\ ~(i < k)
    BY <1>1, <2>1
  <2> QED
    BY <2>1, <2>2
<1> QED
  BY <1>1

LEMMA ValueIs ==
  ASSUME IInv, NEW h \in Handle, NEW i \in DOMAIN vmaps, Holds(i, h)
  PROVE  /\ Value[h] = cell[i - 1][h - vmaps[i].begin]
         /\ i - 1 \in Block /\ h - vmaps[i].begin \in Handle
         /\ HoldingBlock(h) = i /\ h < End
<1>1. h \in Int /\ h >= 0 /\ h < MaxCells
  BY SizeAssumption DEF Handle
<1>2. vmaps \in Seq(Part) /\ vmaps[i] \in Part /\ i \in 1..Len(vmaps)
      /\ Len(vmaps) \in Nat /\ Len(vmaps) <= T_ARRAY_VMAP_MAX_SIZE
  BY SizeAssumption DEF IInv, Types
<1>3. HoldingBlock(h) = i
  BY <1>1, <1>2, OneBlock DEF IInv, Geometry, Holds, HoldingBlock
<1>4. End \in Nat /\ vmaps[i].end <= End /\ vmaps[i].begin \in Nat /\ vmaps[i].end \in Nat
  BY <1>2, EndIsNumber DEF IInv, Geometry, Part
<1>5. h < End /\ Last(vmaps).end = End
  BY <1>1, <1>4 DEF Holds, Last, End
<1>6. Value[h] = cell[i - 1][h - vmaps[i].begin]
  BY <1>1, <1>3, <1>4, <1>5 DEF Value, Content
<1>7. i - 1 \in Block
  BY <1>2, SizeAssumption DEF Block
<1>8. h - vmaps[i].begin \in Handle
  BY <1>1, <1>4, SizeAssumption DEF Handle, Holds
<1> QED
  BY <1>3, <1>5, <1>6, <1>7, <1>8

\* Where this thread finds the cell is where the shared list says it is.
LEMMA AddressRight ==
  ASSUME IInv, NEW t \in Thread, pc[t] = "use", Address(t)[1] # Nothing
  PROVE  LET i == th[t].i + 1 IN
         /\ i \in DOMAIN vmaps /\ Holds(i, th[t].h) /\ th[t].h \in Handle
         /\ Address(t)[1] = i - 1 /\ Address(t)[2] = th[t].h - vmaps[i].begin
<1> DEFINE i == th[t].i + 1
<1>1. i \in DOMAIN vmaps /\ Holds(i, th[t].h) /\ th[t].h \in Handle
  BY DEF IInv, FoundRight, Finding
<1>2. th[t].i \in Int /\ i - 1 = th[t].i
  BY DEF IInv, Types, Call
<1>3. th[t].i \in Block
  BY <1>1, <1>2, ValueIs
<1>4. ProcessOf[t] \in Process
  BY ProcessAssumption
<1> QED
  BY <1>1, <1>2, <1>3, <1>4 DEF Address, IInv, MapWhole

\* The array is what it was where neither the list nor a cell changes.
LEMMA ValueStays ==
  ASSUME UNCHANGED <<vmaps, cell>>
  PROVE  Value' = Value
BY DEF Value, Content, HoldingBlock

LEMMA InitFilled == OneWriter /\ Init => Filled /\ Array!Init
<1> SUFFICES ASSUME OneWriter, Init PROVE Filled /\ Array!Init
  OBVIOUS
<1>1. IInv
  BY InitIInv
<1>2. ASSUME NEW h \in Handle PROVE Value[h] = Nothing
  <2>1. CASE h < End
    <3>1. PICK i \in DOMAIN vmaps : Holds(i, h)
      BY <1>1, <2>1 DEF IInv, Geometry
    <3> QED
      BY <1>1, <3>1, ValueIs DEF Init
  <2>2. CASE ~(h < End)
    <3>1. h \in Int /\ End \in Int /\ Last(vmaps).end = End
      BY <1>1, EndIsNumber, SizeAssumption DEF IInv, Handle, End, Last
    <3> QED
      BY <2>2, <3>1 DEF Value, Content
  <2> QED
    BY <2>1, <2>2
<1>3. Filled
  BY SizeAssumption DEF Filled, Init, Finding, Handle
<1>4. Array!Init
  BY <1>2 DEF Array!Init, Init, Value
<1> QED
  BY <1>3, <1>4

\* Steps that change neither the blocks, nor the count, nor what was read, nor
\* start a read or end an addition, are not seen.
LEMMA Unseen ==
  ASSUME IInv, Filled, UNCHANGED <<vmaps, cell, size, got>>,
         \A u \in Thread :
           /\ pc'[u] \in Finding => pc[u] \in Finding \cup {"add"} /\ th'[u].do = th[u].do
                                    /\ (th'[u].h = th[u].h \/ th'[u].do # "read")
           /\ pc'[u] = "count" => pc[u] = "count",
         \A u \in Thread : pc[u] = "add" => th[u].do = "add"
  PROVE  Filled' /\ UNCHANGED Array!vars
<1>1. Value' = Value
  BY ValueStays
<1>2. Filled'
  BY <1>1 DEF Filled
<1> QED
  BY <1>1, <1>2 DEF Array!vars, Value

\* An element is read or written.
LEMMA UseSeen ==
  ASSUME IInv, Filled, NEW t \in Thread, Use(t)
  PROVE  Filled' /\ Array!Next
<1> DEFINE i == th[t].i + 1
           h == th[t].h
           k == h - vmaps[i].begin
<1>1. /\ pc[t] = "use" /\ Address(t)[1] # Nothing
      /\ UNCHANGED <<head, private, refused>>
  BY DEF Use
<1>2. /\ i \in DOMAIN vmaps /\ Holds(i, h) /\ h \in Handle
      /\ Address(t)[1] = i - 1 /\ Address(t)[2] = k
  BY <1>1, AddressRight
<1>3. /\ Value[h] = cell[i - 1][k] /\ i - 1 \in Block /\ k \in Handle /\ i \in Int /\ h \in Int
  <2>1. th[t] \in Call
    BY DEF IInv, Types
  <2> QED
    BY <1>2, <2>1, ValueIs DEF Call
<1>4. capacity' = capacity /\ size' = size /\ vmaps' = vmaps
  BY <1>1 DEF head
<1>5. CASE th[t].do = "read"
  <2>1. /\ got' = <<h, cell[i - 1][k]>> /\ Goto(t, "idle", NoCall) /\ cell' = cell
    BY <1>2, <1>5 DEF Use
  <2>2. /\ pc'[t] = "idle" /\ \A u \in Thread : u # t => pc'[u] = pc[u] /\ th'[u] = th[u]
    BY <2>1, GotoMoves DEF IInv
  <2>3. Value' = Value
    BY <1>4, <2>1, ValueStays
  <2>4. Filled'
    BY <1>4, <2>1, <2>2, <2>3 DEF Filled, Finding
  <2>5. Value[h] # Nothing
    BY <1>1, <1>5 DEF Filled, Finding
  <2>6. Array!Read(h)
    BY <1>2, <1>3, <1>4, <2>1, <2>3, <2>5 DEF Array!Read, Value
  <2> QED
    BY <1>2, <2>4, <2>6 DEF Array!Next
<1>6. CASE th[t].do # "read"
  <2>1. /\ cell' = [cell EXCEPT ![i - 1][k] = th[t].data]
        /\ Goto(t, "count", NoCall) /\ got' = got
    BY <1>2, <1>6 DEF Use
  <2>2. /\ pc'[t] = "count" /\ \A u \in Thread : u # t => pc'[u] = pc[u] /\ th'[u] = th[u]
    BY <2>1, GotoMoves DEF IInv
  <2>3. th[t].do = "add"
    BY <1>1, <1>6 DEF IInv, FoundRight, Finding
  <2>4. th[t].data \in Data /\ h = size /\ lock = t /\ Adding(t)
    BY <1>1, <2>3 DEF IInv, AddersHaveLock, AdderHasLock, Finding, Adding
  <2>5. \A b \in Block, c \in Handle :
          cell'[b][c] = IF b = i - 1 /\ c = k THEN th[t].data ELSE cell[b][c]
    BY <1>3, <2>1 DEF IInv, Types
  <2>6. ASSUME NEW g \in Handle
        PROVE  Value'[g] = IF g = h THEN th[t].data ELSE Value[g]
    <3>1. Last(vmaps)' = Last(vmaps) /\ HoldingBlock(g)' = HoldingBlock(g)
      BY <1>4 DEF Last, HoldingBlock
    <3>2. Last(vmaps).end = End /\ End \in Nat /\ g \in Int
      BY EndIsNumber, SizeAssumption DEF IInv, Last, End, Handle
    <3>3. CASE g < End
      <4>1. PICK j \in DOMAIN vmaps : Holds(j, g)
        BY <3>3 DEF IInv, Geometry
      <4>2. /\ Value[g] = cell[j - 1][g - vmaps[j].begin] /\ j - 1 \in Block
            /\ g - vmaps[j].begin \in Handle /\ HoldingBlock(g) = j
        BY <4>1, ValueIs
      <4>3. Value'[g] = cell'[j - 1][g - vmaps[j].begin]
        BY <1>4, <3>1, <3>2, <3>3, <4>2 DEF Value, Content
      <4>4. j \in Int /\ vmaps[j].begin \in Int /\ vmaps[i].begin \in Int
        <5>1. vmaps \in Seq(Part) /\ vmaps[j] \in Part /\ vmaps[i] \in Part
          BY <1>2, <4>1 DEF IInv, Types
        <5>2. DOMAIN vmaps = 1..Len(vmaps) /\ Len(vmaps) \in Nat
          BY <5>1
        <5>3. j \in Int
          BY <5>2
        <5> QED
          BY <5>1, <5>3 DEF Part
      <4>5. g = h => j = i
        BY <1>2, <4>2, ValueIs
      <4>6. (j - 1 = i - 1 /\ g - vmaps[j].begin = k) <=> g = h
        <5>1. CASE j = i
          <6>1. g - vmaps[i].begin = h - vmaps[i].begin <=> g = h
            BY <1>3, <3>2, <4>4
          <6> QED
            BY <5>1, <6>1
        <5>2. CASE j # i
          BY <1>3, <4>4, <4>5, <5>2
        <5> QED
          BY <5>1, <5>2
      <4> QED
        BY <2>5, <4>2, <4>3, <4>6
    <3>4. CASE ~(g < End)
      <4>1. h < End
        BY <1>2, ValueIs
      <4>2. g # h
        BY <3>4, <4>1
      <4> QED
        BY <3>1, <3>2, <3>4, <4>2 DEF Value, Content
    <3> QED
      BY <3>3, <3>4
  <2>7. th[t].data # Nothing
    BY <2>4, NothingAssumption
  <2>8. Filled'
    <3>1. ASSUME NEW g \in Handle, g < size' PROVE Value'[g] # Nothing
      BY <1>4, <2>6, <2>7, <3>1 DEF Filled
    <3>2. ASSUME NEW u \in Thread, pc'[u] \in Finding, th'[u].do = "read"
          PROVE  Value'[th'[u].h] # Nothing
      <4>1. u # t /\ pc[u] \in Finding /\ th'[u] = th[u]
        BY <2>2, <3>2 DEF Finding
      <4>2. th[u].h \in Handle /\ Value[th[u].h] # Nothing
        BY <3>2, <4>1 DEF IInv, FoundRight, Filled
      <4> QED
        BY <2>6, <2>7, <4>1, <4>2
    <3>3. Value'[size'] # Nothing
      BY <1>2, <1>4, <2>4, <2>6, <2>7
    <3>4. ASSUME NEW b \in Block, b >= Len(vmaps)', NEW c \in Handle
          PROVE  cell'[b][c] = Nothing
      <4>1. b # i - 1
        <5>1. DOMAIN vmaps = 1..Len(vmaps) /\ Len(vmaps) \in Nat
          BY DEF IInv, Types
        <5> QED
          BY <1>2, <1>3, <1>4, <3>4, <5>1
      <4> QED
        BY <1>4, <2>5, <3>4, <4>1 DEF Filled
    <3> QED
      BY <3>1, <3>2, <3>3, <3>4 DEF Filled
  <2>9. Array!Put(th[t].data)
    <3>1. Value' = [Value EXCEPT ![size] = th[t].data]
      BY <1>2, <2>4, <2>6 DEF Value
    <3> QED
      BY <1>2, <1>4, <2>1, <2>4, <3>1 DEF Array!Put, Value
  <2> QED
    BY <2>4, <2>8, <2>9 DEF Array!Next
<1> QED
  BY <1>5, <1>6

\* A new block has nothing in it, so nobody sees it.
LEMMA VmapUnseen ==
  ASSUME IInv, IInv', Filled, NEW t \in Thread, Reserve_Vmap(t)
  PROVE  Filled' /\ UNCHANGED Array!vars
<1> DEFINE len == Len(vmaps)
<1>1. /\ pc[t] = "vmap" /\ Goto(t, "capacity", th[t])
      /\ UNCHANGED <<capacity, size, lock, cell, private, got, refused>>
  BY DEF Reserve_Vmap
<1>2. /\ AdderHasLock(t) /\ th[t] \in Call
  BY <1>1, AdderInside
<1>3. /\ th[t].new \in Int /\ th[t].new > 0 /\ End = capacity /\ len < T_ARRAY_VMAP_MAX_SIZE
      /\ capacity + th[t].new <= MaxCells /\ capacity \in Nat
  BY <1>1, <1>2 DEF AdderHasLock, Call, IInv, Types
<1>4. /\ vmaps' \in Seq(Part) /\ Len(vmaps)' = len + 1
      /\ DOMAIN vmaps' = DOMAIN vmaps \cup {len + 1}
      /\ \A i \in DOMAIN vmaps : vmaps'[i] = vmaps[i] /\ vmaps[i] \in Part
      /\ vmaps'[len + 1] = [begin |-> capacity, end |-> capacity + th[t].new]
      /\ End' = capacity + th[t].new
      /\ DOMAIN vmaps = 1..len /\ len \in Nat
  BY <1>3, ListGrows DEF IInv
<1> HIDE DEF len
<1>5. /\ pc'[t] = "capacity" /\ th'[t] = th[t]
      /\ \A u \in Thread : u # t => pc'[u] = pc[u] /\ th'[u] = th[u]
  BY <1>1, GotoMoves DEF IInv
<1>6. Last(vmaps)' = vmaps'[Len(vmaps)'] /\ Last(vmaps)'.end = End'
  BY DEF Last, End
<1>7. ASSUME NEW h \in Handle PROVE Value'[h] = Value[h]
  <2>1. h \in Int /\ h >= 0 /\ h < MaxCells
    BY SizeAssumption DEF Handle
  <2>2. CASE h < capacity
    <3>1. PICK i \in DOMAIN vmaps : Holds(i, h)
      BY <1>3, <2>2 DEF IInv, Geometry
    <3>2. Value[h] = cell[i - 1][h - vmaps[i].begin]
      BY <3>1, ValueIs
    <3>3. i \in DOMAIN vmaps' /\ vmaps'[i].begin <= h /\ h < vmaps'[i].end
      BY <1>4, <3>1 DEF Holds
    <3>4. HoldingBlock(h)' = i
      BY <1>4, <2>1, <3>3, OneBlock DEF IInv, Geometry, HoldingBlock
    <3>5. ~(h >= Last(vmaps)'.end)
      BY <1>3, <1>4, <1>6, <2>1, <2>2
    <3> QED
      BY <1>1, <1>4, <3>1, <3>2, <3>4, <3>5 DEF Value, Content
  <2>3. CASE ~(h < capacity)
    <3>1. Value[h] = Nothing
      <4>1. Last(vmaps).end = End
        BY DEF Last, End
      <4> QED
        BY <1>3, <2>1, <2>3, <4>1 DEF Value, Content
    <3>2. CASE h < End'
      <4>1. len + 1 \in DOMAIN vmaps' /\ vmaps'[len + 1].begin <= h /\ h < vmaps'[len + 1].end
        BY <1>3, <1>4, <2>1, <2>3, <3>2
      <4>2. HoldingBlock(h)' = len + 1
        BY <1>4, <2>1, <4>1, OneBlock DEF IInv, Geometry, HoldingBlock
      <4>3. ~(h >= Last(vmaps)'.end)
        BY <1>3, <1>4, <1>6, <2>1, <3>2
      <4>4. Value'[h] = cell[len + 1 - 1][h - capacity]
        BY <1>1, <1>4, <4>2, <4>3 DEF Value, Content
      <4>5. len + 1 - 1 = len /\ len \in Block /\ h - capacity \in Handle
        BY <1>3, <1>4, <2>1, <2>3, SizeAssumption DEF Block, Handle
      <4>6. cell[len][h - capacity] = Nothing
        BY <1>4, <4>5 DEF Filled, len
      <4> QED
        BY <3>1, <4>4, <4>5, <4>6
    <3>3. CASE ~(h < End')
      <4>1. h >= Last(vmaps)'.end
        BY <1>3, <1>4, <1>6, <2>1, <3>3
      <4> QED
        BY <3>1, <4>1 DEF Value, Content
    <3> QED
      BY <3>2, <3>3
  <2> QED
    BY <2>2, <2>3
<1>8. Value' = Value
  BY <1>7 DEF Value
<1>9. Filled'
  <2>1. \A u \in Thread : pc'[u] \in Finding \cup {"count"} => pc[u] = pc'[u] /\ th'[u] = th[u]
    BY <1>5 DEF Finding
  <2>2. \A b \in Block : b >= len + 1 => b >= len
    BY <1>4, SizeAssumption DEF Block
  <2> QED
    BY <1>1, <1>4, <1>8, <2>1, <2>2 DEF Filled, len
<1> QED
  BY <1>1, <1>8, <1>9 DEF Array!vars, Value

LEMMA CountSeen ==
  ASSUME IInv, Filled, NEW t \in Thread, Add_Count(t)
  PROVE  Filled' /\ Array!Next
<1>1. /\ pc[t] = "count" /\ size' = size + 1 /\ Goto(t, "idle", NoCall)
      /\ UNCHANGED <<capacity, vmaps, cell, got>>
  BY DEF Add_Count
<1>2. AdderHasLock(t) /\ lock = t
  BY <1>1, AdderInside
<1>3. /\ pc'[t] = "idle" /\ \A u \in Thread : u # t => pc'[u] = pc[u] /\ th'[u] = th[u]
  BY <1>1, GotoMoves DEF IInv
<1>4. Value' = Value
  BY <1>1, ValueStays
<1>5. size \in Handle /\ Value[size] # Nothing
  <2>1. size \in Nat /\ capacity \in Nat /\ End = capacity /\ size < capacity /\ End <= MaxCells
    BY <1>1, <1>2 DEF AdderHasLock, IInv, Types, Geometry
  <2> QED
    BY <1>1, <2>1, SizeAssumption DEF Handle, Filled
<1>6. Filled'
  <2>1. \A h \in Handle : h < size' => h < size \/ h = size
    BY <1>1, <1>5, SizeAssumption DEF Handle
  <2>2. \A u \in Thread : pc'[u] # "count"
    BY <1>2, <1>3, OneAdder DEF Adding
  <2> QED
    BY <1>1, <1>3, <1>4, <1>5, <2>1, <2>2 DEF Filled, Finding
<1>7. Array!Count
  BY <1>1, <1>4, <1>5 DEF Array!Count, Value
<1> QED
  BY <1>6, <1>7 DEF Array!Next

LEMMA ClearSeen ==
  ASSUME IInv, Filled, NEW t \in Thread, Clear(t)
  PROVE  Filled' /\ Array!Next
<1>1. lock = Nothing /\ size' = 0 /\ UNCHANGED <<vmaps, cell, pc, th, got>>
  BY DEF Clear
<1>2. Value' = Value
  BY <1>1, ValueStays
<1>3. \A u \in Thread : pc[u] # "count"
  BY <1>1, NothingAssumption DEF IInv, AddersHaveLock, AdderHasLock, Adding
<1>4. \A h \in Handle : ~(h < 0)
  BY SizeAssumption DEF Handle
<1>5. Filled'
  BY <1>1, <1>2, <1>3, <1>4 DEF Filled
<1>6. Array!Clear
  BY <1>1, <1>2 DEF Array!Clear, Value
<1> QED
  BY <1>5, <1>6 DEF Array!Next

LEMMA ReadUnseen ==
  ASSUME IInv, Filled, NEW t \in Thread, NEW h \in Handle, Read(t, h)
  PROVE  Filled' /\ UNCHANGED Array!vars
<1> DEFINE call == [NoCall EXCEPT !.do = "read", !.h = h]
<1>1. /\ h < size /\ Goto(t, "find", call) /\ UNCHANGED <<head, cell, got>>
  BY DEF Read
<1>2. call.h = h
  BY NoCallIsCall DEF Call
<1> HIDE DEF call
<1>3. /\ pc'[t] = "find" /\ th'[t] = call
      /\ \A u \in Thread : u # t => pc'[u] = pc[u] /\ th'[u] = th[u]
  BY <1>1, GotoMoves DEF IInv
<1>4. Value' = Value /\ UNCHANGED <<size, vmaps>>
  BY <1>1, ValueStays DEF head
<1>5. Filled'
  BY <1>1, <1>2, <1>3, <1>4 DEF Filled
<1> QED
  BY <1>1, <1>4, <1>5 DEF Array!vars, Value

LEMMA ProcessUnseen ==
  ASSUME IInv, Filled, NEW p \in Process, Attach(p) \/ Detach(p) \/ Kill(p)
  PROVE  Filled' /\ UNCHANGED Array!vars
<1>1. UNCHANGED <<vmaps, cell, size, got>>
  BY DEF Attach, Detach, Kill, head
<1>2. \A u \in Thread : pc'[u] \in Finding \cup {"count"} => pc'[u] = pc[u] /\ th'[u] = th[u]
  <2>1. CASE Attach(p) \/ Detach(p)
    BY <2>1 DEF Attach, Detach
  <2>2. CASE Kill(p)
    BY <2>2 DEF Kill, Finding
  <2> QED
    BY <2>1, <2>2
<1>3. \A u \in Thread : pc[u] = "add" => th[u].do = "add"
  BY DEF IInv, AddersHaveLock, AdderHasLock
<1> QED
  BY <1>1, <1>2, <1>3, Unseen

LEMMA ThreadUnseen ==
  ASSUME IInv, Filled, NEW t \in Thread,
         \/ Find(t) \/ Lock(t) \/ Connect(t) \/ Connected(t) \/ Throw(t)
         \/ (\E d \in Data : Add(t, d)) \/ Add_Room(t) \/ Reserve(t) \/ Reserve_Fails(t)
         \/ Reserve_Capacity(t)
  PROVE  Filled' /\ UNCHANGED Array!vars
<1>1. UNCHANGED <<vmaps, cell, size, got>>
  BY DEF Find, Lock, Connect, Connected, Throw, Add, Add_Room, Reserve, Reserve_Fails,
         Reserve_Capacity, head
<1>2. \A u \in Thread : pc[u] = "add" => th[u].do = "add"
  BY DEF IInv, AddersHaveLock, AdderHasLock
<1>3. th[t] \in Call
  BY DEF IInv, Types
<1>4. CASE Find(t) \/ Lock(t) \/ Connect(t) \/ Connected(t)
  <2>1. PICK place, call :
          /\ Goto(t, place, call) /\ pc[t] \in Finding /\ place # "count"
          /\ call.do = th[t].do /\ call.h = th[t].h
    <3>1. CASE Find(t)
      BY <1>3, <3>1 DEF Find, Call, Finding
    <3>2. CASE Lock(t)
      BY <1>3, <3>2 DEF Lock, Call, Finding
    <3>3. CASE Connect(t)
      BY <1>3, <3>3 DEF Connect, Call, Finding
    <3>4. CASE Connected(t)
      BY <3>4 DEF Connected, Finding
    <3> QED
      BY <1>4, <3>1, <3>2, <3>3, <3>4
  <2>2. /\ pc'[t] = place /\ th'[t] = call
        /\ \A u \in Thread : u # t => pc'[u] = pc[u] /\ th'[u] = th[u]
    BY <2>1, GotoMoves DEF IInv
  <2> QED
    BY <1>1, <1>2, <2>1, <2>2, Unseen
<1>5. CASE \/ Throw(t) \/ (\E d \in Data : Add(t, d)) \/ Reserve(t) \/ Reserve_Fails(t)
           \/ Reserve_Capacity(t)
  <2>0. PICK place \in {"idle", "add", "vmap"} : \E call : Goto(t, place, call)
    BY <1>5 DEF Throw, Add, Reserve, Reserve_Fails, Reserve_Capacity
  <2>1. PICK call : Goto(t, place, call)
    BY <2>0
  <2>2. /\ pc'[t] = place /\ th'[t] = call
        /\ \A u \in Thread : u # t => pc'[u] = pc[u] /\ th'[u] = th[u]
    BY <2>1, GotoMoves DEF IInv
  <2>3. place \notin Finding /\ place # "count"
    BY DEF Finding
  <2> QED
    BY <1>1, <1>2, <2>2, <2>3, Unseen
<1>6. CASE Add_Room(t)
  <2> DEFINE call == [th[t] EXCEPT !.h = size]
  <2>1. pc[t] = "add" /\ Goto(t, "find", call)
    BY <1>6 DEF Add_Room
  <2>2. call.do = th[t].do /\ th[t].do = "add"
    BY <1>2, <1>3, <2>1 DEF Call
  <2> HIDE DEF call
  <2>3. /\ pc'[t] = "find" /\ th'[t] = call
        /\ \A u \in Thread : u # t => pc'[u] = pc[u] /\ th'[u] = th[u]
    BY <2>1, GotoMoves DEF IInv
  <2> QED
    BY <1>1, <1>2, <2>1, <2>2, <2>3, Unseen
<1> QED
  BY <1>4, <1>5, <1>6

LEMMA StepSeen ==
  ASSUME IInv, IInv', Filled, [Next]_vars
  PROVE  Filled' /\ [Array!Next]_(Array!vars)
<1>1. CASE UNCHANGED vars
  <2>1. UNCHANGED <<vmaps, cell, size, got, pc, th>>
    BY <1>1 DEF vars, head
  <2>2. Value' = Value
    BY <2>1, ValueStays
  <2> QED
    BY <2>1, <2>2 DEF Filled, Array!vars, Value
<1>2. CASE Next
  <2>1. CASE \E p \in Process : Attach(p) \/ Detach(p) \/ Kill(p)
    BY <2>1, ProcessUnseen
  <2>2. CASE \E t \in Thread :
               \/ Find(t) \/ Lock(t) \/ Connect(t) \/ Connected(t) \/ Throw(t)
               \/ (\E d \in Data : Add(t, d)) \/ Add_Room(t) \/ Reserve(t)
               \/ Reserve_Fails(t) \/ Reserve_Capacity(t)
    BY <2>2, ThreadUnseen
  <2>3. CASE \E t \in Thread : Use(t) \/ Add_Count(t) \/ Clear(t)
    BY <2>3, UseSeen, CountSeen, ClearSeen
  <2>4. CASE \E t \in Thread : Reserve_Vmap(t) \/ \E h \in Handle : Read(t, h)
    BY <2>4, VmapUnseen, ReadUnseen
  <2> QED
    BY <1>2, <2>1, <2>2, <2>3, <2>4 DEF Next, Dereference
<1> QED
  BY <1>1, <1>2

\* Where one process adds and does not come back, the blocks make up one array:
\* whichever thread of whichever process reads, and wherever its process has
\* mapped the blocks, it reads under a handle what was added under it, and an
\* element counts only when it is there.
THEOREM RefinesArray ==
  ASSUME OneWriter
  PROVE  Spec => ImplementsArray
<1>1. Init => IInv /\ Filled /\ Array!Init
  BY InitIInv, InitFilled
<1>2. IInv /\ Filled /\ [Next]_vars => IInv' /\ Filled' /\ [Array!Next]_(Array!vars)
  BY Inductive, StepSeen
<1> QED
  BY <1>1, <1>2, PTL DEF Spec, Array!Spec, ImplementsArray
=============================================================================
