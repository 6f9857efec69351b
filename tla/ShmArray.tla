------------------------------- MODULE ShmArray -------------------------------
(***************************************************************************)
(* T_ARRAY (src/shmfc/shmArray.h), the array in shared memory under every  *)
(* container, and the map of its blocks that each process keeps for itself *)
(* (shm_private_data in src/shmfc/shmEnv.h).                               *)
(*                                                                         *)
(* The array grows by whole blocks of shared memory, which the system maps *)
(* at another address in each process.  The head of the array, which is    *)
(* shared, says which handles are in which block; a process connects the   *)
(* blocks it has not met when one of its threads meets a handle while the  *)
(* shared list is longer than the private map.                             *)
(*                                                                         *)
(* Add, Reserve and Clear are calls under the write lock of the container  *)
(* (RWLock).  A handle is dereferenced under the lock or outside it, where *)
(* an iterator is used after the call that returned it, so here readers    *)
(* take no lock, and every access to what others may be changing is a step *)
(* of its own.                                                             *)
(***************************************************************************)
EXTENDS Integers, Sequences, FiniteSets, SequencesExt

CONSTANTS
  Process, Thread, ProcessOf,
  Writers,                  \* the processes that add
  Readers,                  \* the threads that read
  Returning,                \* the processes that end and start again
  Data,
  FirstBlock,               \* r_size: the cells the array is created with
  MaxCells,                 \* bound: the cells the system has memory for
  T_ARRAY_VMAP_MAX_SIZE,    \* the most blocks
  Nothing                   \* no block, no thread, no data

ASSUME ProcessAssumption ==
  /\ ProcessOf \in [Thread -> Process]
  /\ Writers \subseteq Process /\ Returning \subseteq Process
  /\ Readers \subseteq Thread
ASSUME SizeAssumption ==
  /\ FirstBlock \in Nat \ {0} /\ MaxCells \in Nat /\ FirstBlock <= MaxCells
  /\ T_ARRAY_VMAP_MAX_SIZE \in Nat \ {0, 1}
ASSUME NothingAssumption ==
  /\ Nothing \notin Data /\ Nothing \notin Thread
  /\ Nothing \notin 0..T_ARRAY_VMAP_MAX_SIZE - 1

Block == 0..T_ARRAY_VMAP_MAX_SIZE - 1
Handle == 0..MaxCells - 1
ThreadsOf(p) == {t \in Thread : ProcessOf[t] = p}

VARIABLES
  \* in shared memory: array_head, and the cells, which the system keeps
  capacity, size, vmaps, cell,
  \* the container's write lock: the thread that has it, or Nothing
  lock,
  \* shm_private_data of each process
  shm_addr_map, addr_map_size, thread_mutex,
  attached,     \* the processes that are attached to the array
  \* each thread: where it is, what it does and with which data, the cell of handle h, which
  \* block i it found h in, the next block j it connects, the block it reserves
  pc, th,
  got,          \* the handle that was read last, and what was there
  refused       \* the processes that the system has refused to connect a block

head == <<capacity, size, vmaps, lock>>
private == <<shm_addr_map, addr_map_size, thread_mutex, attached>>
vars == <<head, cell, private, pc, th, got, refused>>

NoCall == [do |-> "nothing", data |-> Nothing, h |-> -1, i |-> -1, j |-> 0, new |-> 0]
Goto(t, place, call) == pc' = [pc EXCEPT ![t] = place] /\ th' = [th EXCEPT ![t] = call]

\* A process as it starts: static memory is zero.
Unmapped == [b \in Block |-> Nothing]

\* _CreateShm and _InitFirstSPD, and AttachToShm by the process that made it.
Init ==
  /\ capacity = FirstBlock /\ size = 0
  /\ vmaps = <<[begin |-> 0, end |-> FirstBlock]>>
  /\ cell = [b \in Block |-> [k \in Handle |-> Nothing]]
  /\ lock = Nothing
  /\ attached \in {{p} : p \in Writers}
  /\ shm_addr_map = [p \in Process |-> IF p \in attached THEN [Unmapped EXCEPT ![0] = 0]
                                                       ELSE Unmapped]
  /\ addr_map_size = [p \in Process |-> IF p \in attached THEN 1 ELSE 0]
  /\ thread_mutex = [p \in Process |-> Nothing]
  /\ pc = [t \in Thread |-> "idle"] /\ th = [t \in Thread |-> NoCall]
  /\ got = <<-1, Nothing>> /\ refused = {}

-----------------------------------------------------------------------------
(* A process comes and goes.                                               *)

\* AttachToShm: the private map names the first block and no other.
Attach(p) ==
  /\ p \notin attached /\ \A t \in ThreadsOf(p) : pc[t] # "dead"
  /\ attached' = attached \cup {p}
  /\ shm_addr_map' = [shm_addr_map EXCEPT ![p][0] = 0]
  /\ addr_map_size' = [addr_map_size EXCEPT ![p] = 1]
  /\ UNCHANGED <<head, cell, thread_mutex, pc, th, got, refused>>

\* DetachFromShm by a process whose threads are done with the array: the
\* blocks in the map are disconnected, so none of its addresses is good any
\* more; the count of the blocks (addr_map_size) is left as it was.
Detach(p) ==
  /\ p \in attached \cap Returning
  /\ \A t \in ThreadsOf(p) : pc[t] = "idle"
  /\ thread_mutex[p] = Nothing
  /\ attached' = attached \ {p}
  /\ shm_addr_map' = [shm_addr_map EXCEPT ![p] = Unmapped]
  /\ UNCHANGED <<head, cell, addr_map_size, thread_mutex, pc, th, got, refused>>

\* A process is gone, wherever its threads were, and what it had of the array
\* with it; the container's lock is not given back.
Kill(p) ==
  /\ p \in attached
  /\ attached' = attached \ {p}
  /\ shm_addr_map' = [shm_addr_map EXCEPT ![p] = Unmapped]
  /\ addr_map_size' = [addr_map_size EXCEPT ![p] = 0]
  /\ thread_mutex' = [thread_mutex EXCEPT ![p] = Nothing]
  /\ pc' = [t \in Thread |-> IF ProcessOf[t] # p THEN pc[t]
                             ELSE IF p \in Returning THEN "idle" ELSE "dead"]
  /\ th' = [t \in Thread |-> IF ProcessOf[t] # p THEN th[t] ELSE NoCall]
  /\ refused' = refused \ {p}
  /\ UNCHANGED <<head, cell, got>>

-----------------------------------------------------------------------------
(* operator->: the cell of a handle.                                       *)

Attached(t) == ProcessOf[t] \in attached
Missing(p) == Len(vmaps) > addr_map_size[p]

\* The block of the handle, and whether there are blocks to connect.  The
\* block is found in the shared list, which only grows.
Find(t) ==
  LET p == ProcessOf[t]
      h == th[t].h
  IN /\ pc[t] = "find"
     /\ \E i \in DOMAIN vmaps :
          /\ vmaps[i].begin <= h /\ h < vmaps[i].end
          /\ Goto(t, IF Missing(p) THEN "mutex" ELSE "use", [th[t] EXCEPT !.i = i - 1])
     /\ UNCHANGED <<head, cell, private, got, refused>>

\* Mutant: the thread that waited does not look again whether there is need.
WrongLock(t) ==
  LET p == ProcessOf[t]
  IN /\ pc[t] = "mutex" /\ thread_mutex[p] = Nothing
     /\ thread_mutex' = [thread_mutex EXCEPT ![p] = t]
     /\ Goto(t, "map", [th[t] EXCEPT !.j = 1])
     /\ UNCHANGED <<head, cell, shm_addr_map, addr_map_size, attached, got, refused>>

\* Mutant: the thread that finds nothing left to do keeps the mutex.
WrongUnlock(t) ==
  LET p == ProcessOf[t]
  IN /\ pc[t] = "mutex" /\ thread_mutex[p] = Nothing
     /\ thread_mutex' = [thread_mutex EXCEPT ![p] = t]
     /\ IF Missing(p) THEN Goto(t, "map", [th[t] EXCEPT !.j = addr_map_size[p]])
                      ELSE Goto(t, "use", th[t])
     /\ UNCHANGED <<head, cell, shm_addr_map, addr_map_size, attached, got, refused>>

\* Under the mutex it looks again: another thread may have connected them.
Lock(t) ==
  LET p == ProcessOf[t]
  IN /\ pc[t] = "mutex" /\ thread_mutex[p] = Nothing
     /\ IF Missing(p)
        THEN /\ thread_mutex' = [thread_mutex EXCEPT ![p] = t]
             /\ Goto(t, "map", [th[t] EXCEPT !.j = addr_map_size[p]])
        ELSE UNCHANGED thread_mutex /\ Goto(t, "use", th[t])
     /\ UNCHANGED <<head, cell, shm_addr_map, addr_map_size, attached, got, refused>>

\* Block j is connected.  AddShmMap does not take the last one there may be,
\* which nobody looks at.
Connect(t) ==
  LET p == ProcessOf[t]
  IN /\ pc[t] = "map" /\ th[t].j < Len(vmaps)
     /\ IF addr_map_size[p] + 1 >= T_ARRAY_VMAP_MAX_SIZE
        THEN UNCHANGED <<shm_addr_map, addr_map_size>>
        ELSE /\ shm_addr_map' = [shm_addr_map EXCEPT ![p][addr_map_size[p]] = th[t].j]
             /\ addr_map_size' = [addr_map_size EXCEPT ![p] = @ + 1]
     /\ Goto(t, "map", [th[t] EXCEPT !.j = @ + 1])
     /\ UNCHANGED <<head, cell, thread_mutex, attached, got, refused>>

\* The system refuses: the exception leaves the mutex, and a container's lock,
\* as they are.
Throw(t) ==
  /\ pc[t] = "map" /\ th[t].j < Len(vmaps)
  /\ Goto(t, "idle", NoCall)
  /\ refused' = refused \cup {ProcessOf[t]}
  /\ UNCHANGED <<head, cell, private, got>>

Connected(t) ==
  /\ pc[t] = "map" /\ th[t].j >= Len(vmaps)
  /\ thread_mutex' = [thread_mutex EXCEPT ![ProcessOf[t]] = Nothing]
  /\ Goto(t, "use", th[t])
  /\ UNCHANGED <<head, cell, shm_addr_map, addr_map_size, attached, got, refused>>

\* Mutant: the handle is taken for the place in the block.
WrongAddress(t) == <<shm_addr_map[ProcessOf[t]][th[t].i], th[t].h>>

\* Where this process finds the cell: which block is mapped there, and where
\* in the block.
Address(t) ==
  <<shm_addr_map[ProcessOf[t]][th[t].i], th[t].h - vmaps[th[t].i + 1].begin>>

\* The element is read, or the new one written.  Where nothing is mapped the
\* thread gets no further: the process ends (Kill).
Use(t) ==
  LET b == Address(t)[1]
      k == Address(t)[2]
  IN /\ pc[t] = "use" /\ b # Nothing
     /\ IF th[t].do = "read"
        THEN /\ got' = <<th[t].h, cell[b][k]>>
             /\ Goto(t, "idle", NoCall) /\ UNCHANGED cell
        ELSE /\ cell' = [cell EXCEPT ![b][k] = th[t].data]
             /\ Goto(t, "count", NoCall) /\ UNCHANGED got
     /\ UNCHANGED <<head, private, refused>>

\* A handle that was once returned is dereferenced.
Read(t, h) ==
  /\ pc[t] = "idle" /\ Attached(t)
  /\ t \in Readers /\ h < size
  /\ Goto(t, "find", [NoCall EXCEPT !.do = "read", !.h = h])
  /\ UNCHANGED <<head, cell, private, got, refused>>

-----------------------------------------------------------------------------
(* Add, Reserve and Clear.                                                 *)

Add(t, d) ==
  /\ pc[t] = "idle" /\ Attached(t) /\ ProcessOf[t] \in Writers
  /\ lock = Nothing /\ lock' = t
  /\ Goto(t, "add", [NoCall EXCEPT !.do = "add", !.data = d])
  /\ UNCHANGED <<capacity, size, vmaps, cell, private, got, refused>>

\* There is room in the blocks there are.
Add_Room(t) ==
  /\ pc[t] = "add" /\ capacity > size
  /\ Goto(t, "find", [th[t] EXCEPT !.h = size])
  /\ UNCHANGED <<head, cell, private, got, refused>>

\* Reserve: as much again, or a half, a quarter ... of it when the system has
\* no more.  The block goes into the private map at the place it will have in
\* the shared list, and the private map is one longer.
Sizes == {n \in 1..capacity : \E k \in 0..capacity :
            n = capacity \div 2^k /\ (k = 0 \/ n > 1)}

Reserve(t) ==
  LET p == ProcessOf[t]
  IN /\ pc[t] = "add" /\ capacity <= size
     /\ Len(vmaps) < T_ARRAY_VMAP_MAX_SIZE
     /\ \E n \in Sizes : /\ capacity + n <= MaxCells
                         /\ Goto(t, "vmap", [th[t] EXCEPT !.new = n])
     /\ shm_addr_map' = [shm_addr_map EXCEPT ![p][Len(vmaps)] = Len(vmaps)]
     /\ addr_map_size' = [addr_map_size EXCEPT ![p] = @ + 1]
     /\ UNCHANGED <<head, cell, thread_mutex, attached, got, refused>>

\* The system has no memory, or the list is full: Add returns false.
Reserve_Fails(t) ==
  /\ pc[t] = "add" /\ capacity <= size
  /\ lock' = Nothing
  /\ Goto(t, "idle", NoCall)
  /\ UNCHANGED <<capacity, size, vmaps, cell, private, got, refused>>

\* The block goes into the shared list ...
Reserve_Vmap(t) ==
  /\ pc[t] = "vmap"
  /\ vmaps' = Append(vmaps, [begin |-> capacity, end |-> capacity + th[t].new])
  /\ Goto(t, "capacity", th[t])
  /\ UNCHANGED <<capacity, size, lock, cell, private, got, refused>>

\* ... and counts, and Add begins anew.
Reserve_Capacity(t) ==
  /\ pc[t] = "capacity"
  /\ capacity' = capacity + th[t].new
  /\ Goto(t, "add", [th[t] EXCEPT !.new = 0])
  /\ UNCHANGED <<size, vmaps, lock, cell, private, got, refused>>

\* The element is there.
Add_Count(t) ==
  /\ pc[t] = "count"
  /\ size' = size + 1
  /\ lock' = Nothing
  /\ Goto(t, "idle", NoCall)
  /\ UNCHANGED <<capacity, vmaps, cell, private, got, refused>>

\* Clear: the blocks stay.
Clear(t) ==
  /\ pc[t] = "idle" /\ Attached(t) /\ ProcessOf[t] \in Writers
  /\ lock = Nothing
  /\ size' = 0
  /\ UNCHANGED <<capacity, vmaps, lock, cell, private, pc, th, got, refused>>

-----------------------------------------------------------------------------
Dereference(t) ==
  Find(t) \/ Lock(t) \/ Connect(t) \/ Connected(t) \/ Use(t)

Next ==
  \/ \E p \in Process : Attach(p) \/ Detach(p) \/ Kill(p)
  \/ \E t \in Thread :
       \/ Dereference(t) \/ Throw(t)
       \/ \E h \in Handle : Read(t, h)
       \/ \E d \in Data : Add(t, d)
       \/ Add_Room(t) \/ Reserve(t) \/ Reserve_Fails(t) \/ Reserve_Vmap(t)
       \/ Reserve_Capacity(t) \/ Add_Count(t) \/ Clear(t)

Spec == Init /\ [][Next]_vars

(* Threads run, and one that waits for the mutex of its process gets it if  *)
(* it is given back again and again.                                       *)
FairSpec ==
  Spec /\ \A t \in Readers : WF_vars(Dereference(t)) /\ SF_vars(Lock(t))

-----------------------------------------------------------------------------
(* What must hold.                                                         *)

Reserving(p) == \E t \in ThreadsOf(p) : pc[t] = "vmap"

\* The private map of a process is the beginning of the shared list: as many
\* blocks are connected as it counts, each at the place of its number, one
\* more only while the process itself is making it ("addr_map_size: the number
\* of blocks connected", shmEnv.h:42).
MapAgrees ==
  \A p \in attached :
    /\ addr_map_size[p] <= Len(vmaps) + (IF Reserving(p) THEN 1 ELSE 0)
    /\ \A b \in 0..addr_map_size[p] - 1 : shm_addr_map[p][b] = b

\* However the blocks are mapped and by whichever thread: to all the threads
\* of all the processes the array is one array, an element is read under its
\* handle as it was added, and it is counted only when it is there.
HoldingBlock(h) == CHOOSE i \in DOMAIN vmaps : vmaps[i].begin <= h /\ h < vmaps[i].end
Content(h) ==
  IF h >= Last(vmaps).end THEN Nothing
  ELSE LET i == HoldingBlock(h) IN cell[i - 1][h - vmaps[i].begin]
Array == INSTANCE GrowingArray WITH value <- [h \in Handle |-> Content(h)]
ImplementsArray == Array!Spec

\* While its process lives and no connection was refused in it, a reader gets
\* to its element: nobody is left waiting for the mutex.
ReadsReturn ==
  \A t \in Readers : (pc[t] = "find") ~> (pc[t] \in {"idle", "dead"} \/ ProcessOf[t] \in refused)
===============================================================================
