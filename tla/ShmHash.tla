------------------------------- MODULE ShmHash -------------------------------
(***************************************************************************)
(* T_SHM_HASH (src/shmfc/shmHash.h), the hash table in shared memory, with *)
(* the lists of T_MULTI_LIST (src/shmfc/shmMultiList.h) its buckets are.   *)
(*                                                                         *)
(* Any number of processes share one table under one mutex.  When the      *)
(* lists get long the number of buckets is doubled, and a helper thread of *)
(* the process that noticed moves the entries of the old buckets, one      *)
(* bucket for each time it gets the mutex; lookups and insertions go on    *)
(* meanwhile.  Here a call under the mutex is one step, except for the     *)
(* helper's, which moves one entry a step and may be killed in between.    *)
(***************************************************************************)
EXTENDS Integers, Sequences, FiniteSets

CONSTANTS
  Process,         \* the processes attached to the table
  Key,             \* the entries, each its own hash (keyhash)
  InitialBuckets,  \* HASH_HEAD's first bucket_count (4 in the code)
  MaxNodes,        \* the room of the list's array
  Preload          \* the entries added before the processes start

ASSUME KeyAssumption == Key \subseteq Nat /\ Key # {}
ASSUME BucketsAssumption == InitialBuckets \in Nat \ {0}
ASSUME NodesAssumption == MaxNodes \in Nat \ {0}
\* Too few entries for the table to have been extended.
ASSUME PreloadAssumption ==
  /\ Preload \in Seq(Key) /\ Len(Preload) <= MaxNodes
  /\ (Len(Preload) - 1) \div 2 <= InitialBuckets

VARIABLES
  head,      \* HASH_HEAD: old_bucket_count, bucket_moved, bucket_count
  m_hashs,   \* the array of list heads: its size and the memory behind it
  m_datas,   \* the array of list nodes: its size, each hNext and data
  lock,      \* m_mutex: free, or who is inside
  bucket,    \* the bucket whose list the helper inside is walking ...
  it,        \* ... and the node it has come to
  helper,    \* m_thread of each process
  joining,   \* the processes whose caller is in Extend's join
  alive      \* the processes that have not ended

table == <<head, m_hashs, m_datas>>
walk  == <<bucket, it>>
vars  == <<table, lock, walk, helper, joining, alive>>

End  == -1                              \* an iterator's isEnd()
Node == 0..MaxNodes - 1
Link == Node \cup {End}                 \* what an iterator or hNext may be
Cell == 0..InitialBuckets + MaxNodes    \* Reserve keeps room for every bucket

Free == [by |-> "nobody"]
Helper(p) == [by |-> "helper", of |-> p]
Caller(p) == [by |-> "caller", of |-> p]

\* Every variable is in its range and no more buckets are moved than there were.
TypeOK ==
  /\ head \in [old : Nat, moved : Nat, count : Nat \ {0}]
  /\ head.moved <= head.old /\ head.old <= head.count
  /\ m_hashs \in [size : 0..head.count, cell : [Cell -> Link]]
  /\ m_datas \in [size : 0..MaxNodes, next : [Node -> Link], data : [Node -> Key]]
  /\ lock \in {Free} \cup {Helper(p) : p \in Process} \cup {Caller(p) : p \in Process}
  /\ bucket \in Cell /\ it \in Link
  /\ helper \in [Process -> {"none", "running", "exited"}]
  /\ joining \subseteq Process /\ alive \subseteq Process

-----------------------------------------------------------------------------
(* Lists.  The nodes from h on, up to the end or a node of stop.  A walk    *)
(* that goes on for ever has been everywhere after MaxNodes steps.         *)
Nodes(h, stop) ==
  LET from[k \in 0..MaxNodes] ==
        [n \in Link |->
           IF k = 0 \/ n = End \/ n \in stop THEN {}
           ELSE {n} \cup from[k - 1][m_datas.next[n]]]
  IN from[MaxNodes][h]

Chain(h)   == Nodes(h, {})
Endless(h) == h # End /\ \A n \in Chain(h) : m_datas.next[n] # End

\* The node before n in the list from h (n is in it and not its first).
Before(h, n) == CHOOSE m \in Nodes(h, {n}) : m_datas.next[m] = n

KeyHashToBucket(kh, buckets) == kh % buckets

(* _AddData makes the list heads up to the one it needs, all of them empty. *)
Grown(hashs, b) ==
  IF b < hashs.size THEN hashs
  ELSE [size |-> b + 1,
        cell |-> [c \in Cell |-> IF c \in hashs.size..b THEN End ELSE hashs.cell[c]]]

(* AddHead puts node n, with data d, before the list at cell b.            *)
WrongAddHead(hashs, datas, b, n, d) ==      \* the old head is not linked to
  [hashs |-> [hashs EXCEPT !.cell[b] = n],
   datas |-> [size |-> IF n = datas.size THEN n + 1 ELSE datas.size,
              next |-> [datas.next EXCEPT ![n] = End],
              data |-> [datas.data EXCEPT ![n] = d]]]

AddHead(hashs, datas, b, n, d) ==
  [hashs |-> [hashs EXCEPT !.cell[b] = n],
   datas |-> [size |-> IF n = datas.size THEN n + 1 ELSE datas.size,
              next |-> [datas.next EXCEPT ![n] = hashs.cell[b]],
              data |-> [datas.data EXCEPT ![n] = d]]]

(* DeleteListOne: the node leaves the list and becomes the free one, which  *)
(* the next AddHead takes.                                                 *)
WrongDeleteListOne(b, n) ==      \* the head of the list is not changed
  IF m_hashs.cell[b] = n
  THEN [hashs |-> m_hashs, datas |-> m_datas]
  ELSE [hashs |-> m_hashs,
        datas |-> [m_datas EXCEPT !.next[Before(m_hashs.cell[b], n)] = m_datas.next[n]]]

DeleteListOne(b, n) ==
  IF m_hashs.cell[b] = n
  THEN [hashs |-> [m_hashs EXCEPT !.cell[b] = m_datas.next[n]], datas |-> m_datas]
  ELSE [hashs |-> m_hashs,
        datas |-> [m_datas EXCEPT !.next[Before(m_hashs.cell[b], n)] = m_datas.next[n]]]

\* It finds the node; if the list has an end it gives up there.
Deletable(b, n) == n \in Chain(m_hashs.cell[b])

-----------------------------------------------------------------------------
(* The test fills the table before anyone else attaches.  Fresh shared      *)
(* memory is zero, the list heads not yet made included.                   *)
Fresh ==
  [hashs |-> [size |-> 0, cell |-> [c \in Cell |-> 0]],
   datas |-> [size |-> 0, next |-> [n \in Node |-> 0],
              data |-> [n \in Node |-> CHOOSE k \in Key : TRUE]]]

Added(t, d) ==
  LET b == KeyHashToBucket(d, InitialBuckets)
  IN AddHead(Grown(t.hashs, b), t.datas, b, t.datas.size, d)

Init ==
  LET loaded[i \in 0..Len(Preload)] ==
        IF i = 0 THEN Fresh ELSE Added(loaded[i - 1], Preload[i])
      full == loaded[Len(Preload)]
  IN /\ head = [old |-> 0, moved |-> 0, count |-> InitialBuckets]
     /\ m_hashs = full.hashs
     /\ m_datas = full.datas
     /\ lock = Free
     /\ bucket = 0 /\ it = End
     /\ helper = [p \in Process |-> "none"]
     /\ joining = {}
     /\ alive = Process

-----------------------------------------------------------------------------
(* The calls.  One thread of each process makes them.                       *)
Calls(p) == p \in alive /\ p \notin joining /\ lock = Free

(* _Extend: double the number of buckets until the lists are short, unless  *)
(* the last extension is still being carried out.                          *)
MayExtend == head.old = head.moved /\ head.count < m_datas.size \div 2

Extended ==
  LET doubled[n \in Nat] == IF n < m_datas.size \div 2 THEN doubled[n * 2] ELSE n
  IN IF MayExtend
     THEN [old |-> head.count, moved |-> 0, count |-> doubled[head.count]]
     ELSE head

(* _ActiveThread: a thread that has exited is joined and started anew.      *)
WrongActive(p) == [helper EXCEPT ![p] = IF @ = "none" THEN "running" ELSE @]
Active(p) == [helper EXCEPT ![p] = "running"]

(* AddData: extend, make the list heads, add a node if the memory has one.  *)
AddData(p, d) ==
  LET b     == KeyHashToBucket(d, Extended.count)
      grown == Grown(m_hashs, b)
      added == AddHead(grown, m_datas, b, m_datas.size, d)
  IN /\ Calls(p)
     /\ head' = Extended
     /\ helper' = IF MayExtend THEN Active(p) ELSE helper
     /\ IF m_datas.size < MaxNodes
        THEN m_hashs' = added.hashs /\ m_datas' = added.datas
        ELSE m_hashs' = grown /\ m_datas' = m_datas
     /\ UNCHANGED <<lock, walk, joining, alive>>

(* GetData looks in the old bucket if that one was not moved yet, and then  *)
(* in the new.                                                             *)
WrongInOldBucket(d) ==
  head.moved # head.old /\ KeyHashToBucket(d, head.old) > head.moved
InOldBucket(d) ==
  head.moved # head.old /\ KeyHashToBucket(d, head.old) >= head.moved

Heads(d) ==
  LET at(b) == IF b < m_hashs.size THEN m_hashs.cell[b] ELSE End
      new == <<at(KeyHashToBucket(d, head.count))>>
  IN IF InOldBucket(d) THEN <<at(KeyHashToBucket(d, head.old))>> \o new ELSE new

FoundFrom(h, d) == \E n \in Chain(h) : m_datas.data[n] = d
Found(d) == \E i \in DOMAIN Heads(d) : FoundFrom(Heads(d)[i], d)

\* The walk along a list without end stops only at the entry wanted.
Returns(d) ==
  \A i \in DOMAIN Heads(d) :
    Endless(Heads(d)[i]) => \E j \in 1..i : FoundFrom(Heads(d)[j], d)

GetData(p, d) ==
  /\ Calls(p)
  /\ helper' = IF head.moved # head.old THEN Active(p) ELSE helper
  /\ lock' = IF Returns(d) THEN Free ELSE Caller(p)
  /\ UNCHANGED <<table, walk, joining, alive>>

(* Extend: the section, and then join whatever thread there is; joining     *)
(* none throws, which nobody catches.                                      *)
Extend(p) ==
  /\ Calls(p)
  /\ head' = Extended
  /\ helper' = IF MayExtend THEN Active(p) ELSE helper
  /\ IF helper'[p] = "none"
     THEN alive' = alive \ {p} /\ joining' = joining
     ELSE alive' = alive /\ joining' = joining \cup {p}
  /\ UNCHANGED <<m_hashs, m_datas, lock, walk>>

Extend_Join(p) ==
  /\ p \in joining /\ p \in alive /\ helper[p] = "exited"
  /\ joining' = joining \ {p}
  /\ helper' = [helper EXCEPT ![p] = "none"]
  /\ UNCHANGED <<table, lock, walk, alive>>

-----------------------------------------------------------------------------
(* The helper thread.                                                       *)

(* The buckets the helper still has to look at, empty ones passed over.     *)
WrongPendingOver == {i \in head.moved..head.old : m_hashs.cell[i] # End}
Pending == {i \in head.moved..head.old - 1 : m_hashs.cell[i] # End}

Runs(p) == p \in alive /\ helper[p] = "running"

(* The mutex taken: the first bucket with a list is walked ...              *)
Move_Begin(p) ==
  /\ Runs(p) /\ lock = Free /\ Pending # {}
  /\ lock' = Helper(p)
  /\ bucket' = CHOOSE i \in Pending : \A j \in Pending : i <= j
  /\ it' = m_hashs.cell[bucket']
  /\ UNCHANGED <<table, helper, joining, alive>>

(* ... or there is none left and the thread returns.                       *)
Move_Exit(p) ==
  /\ Runs(p) /\ lock = Free /\ Pending = {}
  /\ helper' = [helper EXCEPT ![p] = "exited"]
  /\ UNCHANGED <<table, lock, walk, joining, alive>>

NewBucket(n) == KeyHashToBucket(m_datas.data[n], head.count)

(* One turn of the loop: an entry that stays ...                            *)
Move_Keep(p) ==
  /\ Runs(p) /\ lock = Helper(p) /\ it # End
  /\ NewBucket(it) = bucket
  /\ it' = m_datas.next[it]
  /\ UNCHANGED <<table, lock, bucket, helper, joining, alive>>

(* ... or one that is taken out and added again: AddHead takes the node     *)
(* that DeleteListOne freed, or a new one if there was nothing to free.    *)
WrongReused(n) == m_datas.size          \* AddHead takes a new node
Reused(n) == IF Deletable(bucket, n) THEN n ELSE m_datas.size

Move_One(p) ==
  LET out   == IF Deletable(bucket, it) THEN DeleteListOne(bucket, it)
               ELSE [hashs |-> m_hashs, datas |-> m_datas]
      b     == NewBucket(it)
      grown == Grown(out.hashs, b)
      added == AddHead(grown, out.datas, b, Reused(it), m_datas.data[it])
  IN /\ Runs(p) /\ lock = Helper(p) /\ it # End
     /\ b # bucket
     /\ Deletable(bucket, it) \/ ~Endless(m_hashs.cell[bucket])
     /\ it' = m_datas.next[it]
     /\ IF Reused(it) < MaxNodes
        THEN m_hashs' = added.hashs /\ m_datas' = added.datas
        ELSE m_hashs' = grown /\ m_datas' = out.datas
     /\ UNCHANGED <<head, lock, bucket, helper, joining, alive>>

(* The end of the list: one bucket more is moved, the mutex given back.     *)
Moved == head.moved + 1

Move_End(p) ==
  /\ Runs(p) /\ lock = Helper(p) /\ it = End
  /\ head' = [head EXCEPT !.moved = Moved]
  /\ lock' = Free
  /\ bucket' = 0
  /\ UNCHANGED <<m_hashs, m_datas, it, helper, joining, alive>>

(* A process ends, its helper with it wherever that is: killed, or in the   *)
(* destructor, which tells the helper to stop with a flag nobody reads,    *)
(* waits ten seconds for a joined thread that nobody joins, and leaves     *)
(* m_thread to terminate the program.                                      *)
Leave(p) ==
  /\ p \in alive
  /\ alive' = alive \ {p}
  /\ helper' = [helper EXCEPT ![p] = "none"]
  /\ joining' = joining \ {p}
  /\ UNCHANGED <<table, lock, walk>>

-----------------------------------------------------------------------------
Call(p) ==
  \/ \E d \in Key : AddData(p, d) \/ GetData(p, d)
  \/ Extend(p) \/ Extend_Join(p)

Move(p) ==
  Move_Begin(p) \/ Move_Exit(p) \/ Move_Keep(p) \/ Move_One(p) \/ Move_End(p)

Next == \E p \in Process : Call(p) \/ Move(p) \/ Leave(p)

Spec == Init /\ [][Next]_vars

(* Threads run: a helper's thread takes its steps.  The calls of the other  *)
(* threads are single steps that leave the mutex free, so that weak         *)
(* fairness is enough for the helper to get it between two of them.        *)
FairSpec ==
  Spec /\ \A p \in Process : WF_vars(Move(p)) /\ WF_vars(Extend_Join(p))

-----------------------------------------------------------------------------
Made == 0..m_hashs.size - 1             \* the list heads there are
List(b) == Chain(m_hashs.cell[b])
Linked == UNION {List(b) : b \in Made}
Held == LET nodes == Linked
        IN [d \in Key |-> Cardinality({n \in nodes : m_datas.data[n] = d})]
Placed == \A b \in Made : \A n \in List(b) : NewBucket(n) = b

(* The lists have ends, no two share a node, and every node there is hangs  *)
(* in one of them - also between two entries of a bucket being moved       *)
(* (DeleteListOne and AddHead in _Thread_MoveOneData).                     *)
ListsPartition ==
  /\ \A b \in Made : ~Endless(m_hashs.cell[b])
  /\ \A b, c \in Made : b # c => List(b) \cap List(c) = {}
  /\ Linked = 0..m_datas.size - 1

(* Whenever the mutex is free a lookup finds exactly the keys that were     *)
(* added, however far whichever helpers have got (_GetData).               *)
LookupExact ==
  lock = Free =>
    LET held == Held
    IN \A d \in Key : Returns(d) /\ (Found(d) <=> held[d] > 0)

(* Nothing is lost and nothing is there twice: to its users the table is a  *)
(* bag to which entries are added.                                         *)
Store == INSTANCE EntryStore WITH Capacity <- MaxNodes, held <- Held
ImplementsStore == Store!Spec

(* The T_DATA* that AddData and GetData hand out keeps pointing to the same *)
(* entry of a list while the helper moves it.                              *)
PointersStay ==
  [][/\ Linked \subseteq Linked'
     /\ \A n \in Linked : m_datas'.data[n] = m_datas.data[n]]_vars

(* Unless a process ends, an extension begun is carried out: all entries    *)
(* come to be where the doubled number of buckets wants them.              *)
ExtensionSettles == (~Placed) ~> (Placed \/ alive # Process)

(* Unless a process ends, Extend comes back from its join.                  *)
ExtendReturns ==
  \A p \in Process : (p \in joining) ~> (p \notin joining \/ alive # Process)
===============================================================================
