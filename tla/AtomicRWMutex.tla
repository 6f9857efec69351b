---------------------------- MODULE AtomicRWMutex ----------------------------
(***************************************************************************)
(* CAtomicRWMutex (src/function/mymutex2.h), the lock every container of   *)
(* shmfc and the HTTP server take: a mySEM in shared memory (a spin flag,  *)
(* OnW, R_count, W_wait) and, in each process, an object that attaches to  *)
(* it and remembers per thread what that thread holds.                     *)
(*                                                                         *)
(* Every access to OnW, R_count and W_wait happens between _Lock() and     *)
(* _UnLock(), so a critical section is two steps here: taking the flag,    *)
(* and the body with the release of the flag.  A thread may die at any     *)
(* point, flag or lock in hand; nothing is undone for it.                  *)
(***************************************************************************)
EXTENDS Integers, FiniteSets

CONSTANTS
  Thread,     \* the threads of all the processes
  Object,     \* the CAtomicRWMutex objects, one in each process
  ObjectOf,   \* the object a thread uses
  MaxDead     \* bound: how many threads may die

ASSUME ThreadAssumption == IsFiniteSet(Thread)
ASSUME ObjectAssumption == ObjectOf \in [Thread -> Object]
ASSUME MaxDeadAssumption == MaxDead \in Nat

VARIABLES
  flag,          \* mySEM::flag
  OnW,           \* mySEM::OnW
  R_count,       \* mySEM::R_count
  W_wait,        \* mySEM::W_wait
  pc,            \* where each thread is in the lock's code
  noWait,        \* the no_wait argument of the call in progress
  thread_data,   \* what getThreadData() of each thread says
  count_RLock,   \* the objects' own counters
  count_WLock,
  isIngore,      \* the objects' isIngore: calls return without locking
  dead           \* the threads that were killed

sem  == <<flag, OnW, R_count, W_wait>>
objs == <<thread_data, count_RLock, count_WLock>>
vars == <<sem, pc, noWait, objs, isIngore, dead>>

(* The places a thread can be in: outside; spinning in _Lock(); inside, the *)
(* flag in hand.  "ask" is the first section of WLock, that announces the   *)
(* writer, "w" the second, that takes the lock.                             *)
Spinning == {"r_lock", "ru_lock", "ask_lock", "w_lock", "wu_lock"}
Inside   == {"r_in", "ru_in", "ask_in", "w_in", "wu_in"}
Place    == {"idle"} \union Spinning \union Inside

EnterOf(p) == CASE p = "r_lock"   -> "r_in"
                [] p = "ru_lock"  -> "ru_in"
                [] p = "ask_lock" -> "ask_in"
                [] p = "w_lock"   -> "w_in"
                [] p = "wu_lock"  -> "wu_in"

Shape ==
  /\ flag \in BOOLEAN
  /\ OnW \in BOOLEAN
  /\ R_count \in Int
  /\ W_wait \in Int
  /\ pc \in [Thread -> Place]
  /\ noWait \in [Thread -> BOOLEAN]
  /\ thread_data \in [Thread -> {"none", "R", "W"}]
  /\ count_RLock \in [Object -> Int]
  /\ count_WLock \in [Object -> Int]
  /\ isIngore \in [Object -> BOOLEAN]
  /\ dead \in SUBSET Thread

\* Every variable is in its range; the counters never go below zero.
TypeOK == Shape /\ R_count \in Nat /\ W_wait \in Nat

\* mySEM::init(), and objects just constructed and attached.
Init ==
  /\ flag = FALSE
  /\ OnW = FALSE
  /\ R_count = 0
  /\ W_wait = 0
  /\ pc = [t \in Thread |-> "idle"]
  /\ noWait = [t \in Thread |-> FALSE]
  /\ thread_data = [t \in Thread |-> "none"]
  /\ count_RLock = [o \in Object |-> 0]
  /\ count_WLock = [o \in Object |-> 0]
  /\ isIngore = [o \in Object |-> FALSE]
  /\ dead = {}

Ignored(t) == isIngore[ObjectOf[t]]
Goto(t, p) == pc' = [pc EXCEPT ![t] = p]

(* The definitions named Wrong... vary one definition of the code by a      *)
(* plausible mistake; the specification does not use them.                 *)

(* _Lock(): test_and_set until the flag was clear. *)
_Lock(t) ==
  /\ pc[t] \in Spinning
  /\ ~flag
  /\ flag' = TRUE
  /\ Goto(t, EnterOf(pc[t]))
  /\ UNCHANGED <<OnW, R_count, W_wait, noWait, objs, isIngore>>

(* after_RLock() and its three companions: the object counts, the thread   *)
(* remembers.                                                              *)
after_RLock(t) ==
  /\ thread_data' = [thread_data EXCEPT ![t] = "R"]
  /\ count_RLock' = [count_RLock EXCEPT ![ObjectOf[t]] = @ + 1]
  /\ UNCHANGED count_WLock

after_WLock(t) ==
  /\ thread_data' = [thread_data EXCEPT ![t] = "W"]
  /\ count_WLock' = [count_WLock EXCEPT ![ObjectOf[t]] = @ + 1]
  /\ UNCHANGED count_RLock

after_RUnLock(t) ==
  /\ thread_data' = [thread_data EXCEPT ![t] = "none"]
  /\ count_RLock' = [count_RLock EXCEPT ![ObjectOf[t]] = @ - 1]
  /\ UNCHANGED count_WLock

WrongAfterWUnLock(t) ==       \* the other counter is decremented
  /\ thread_data' = [thread_data EXCEPT ![t] = "none"]
  /\ count_RLock' = [count_RLock EXCEPT ![ObjectOf[t]] = @ - 1]
  /\ UNCHANGED count_WLock

after_WUnLock(t) ==
  /\ thread_data' = [thread_data EXCEPT ![t] = "none"]
  /\ count_WLock' = [count_WLock EXCEPT ![ObjectOf[t]] = @ - 1]
  /\ UNCHANGED count_RLock

-----------------------------------------------------------------------------
(* The calls.  Whether a call may be made is what isSafe checks before     *)
(* anything else (a refused call changes nothing and is no step here);     *)
(* without isSafe it is what the containers of shmfc keep to.              *)

MayLock(t)    == thread_data[t] = "none"
MayRUnLock(t) == thread_data[t] = "R"
MayWUnLock(t) == thread_data[t] = "W"

RLock(t, no_wait) ==
  /\ pc[t] = "idle"
  /\ MayLock(t)
  /\ noWait' = [noWait EXCEPT ![t] = no_wait]
  /\ IF Ignored(t)
     THEN after_RLock(t) /\ UNCHANGED pc
     ELSE Goto(t, "r_lock") /\ UNCHANGED objs
  /\ UNCHANGED <<sem, isIngore>>

WLock(t, no_wait) ==
  /\ pc[t] = "idle"
  /\ MayLock(t)
  /\ noWait' = [noWait EXCEPT ![t] = no_wait]
  /\ IF Ignored(t)
     THEN after_WLock(t) /\ UNCHANGED pc
     ELSE Goto(t, "ask_lock") /\ UNCHANGED objs
  /\ UNCHANGED <<sem, isIngore>>

RUnLock(t) ==
  /\ pc[t] = "idle"
  /\ MayRUnLock(t)
  /\ IF Ignored(t)
     THEN after_RUnLock(t) /\ UNCHANGED pc
     ELSE Goto(t, "ru_lock") /\ UNCHANGED objs
  /\ UNCHANGED <<sem, noWait, isIngore>>

WUnLock(t) ==
  /\ pc[t] = "idle"
  /\ MayWUnLock(t)
  /\ IF Ignored(t)
     THEN after_WUnLock(t) /\ UNCHANGED pc
     ELSE Goto(t, "wu_lock") /\ UNCHANGED objs
  /\ UNCHANGED <<sem, noWait, isIngore>>

-----------------------------------------------------------------------------
(* The critical sections, each ending in _UnLock(). *)

_UnLock == flag' = FALSE

WrongReadersMayEnter == ~OnW      \* W_wait forgotten
WrongWriterMayEnter  == ~OnW      \* R_count forgotten

ReadersMayEnter == ~OnW /\ W_wait = 0
WriterMayEnter  == ~OnW /\ R_count = 0

RLock_Enter(t) ==
  /\ pc[t] = "r_in"
  /\ ReadersMayEnter
  /\ R_count' = R_count + 1
  /\ _UnLock
  /\ after_RLock(t)
  /\ Goto(t, "idle")
  /\ UNCHANGED <<OnW, W_wait, noWait, isIngore>>

RLock_Refused(t) ==
  /\ pc[t] = "r_in"
  /\ ~ReadersMayEnter
  /\ _UnLock
  /\ Goto(t, IF noWait[t] THEN "idle" ELSE "r_lock")
  /\ UNCHANGED <<OnW, R_count, W_wait, noWait, objs, isIngore>>

RUnLock_Leave(t) ==
  /\ pc[t] = "ru_in"
  /\ R_count' = R_count - 1
  /\ _UnLock
  /\ after_RUnLock(t)
  /\ Goto(t, "idle")
  /\ UNCHANGED <<OnW, W_wait, noWait, isIngore>>

WLock_Announce(t) ==
  /\ pc[t] = "ask_in"
  /\ W_wait' = W_wait + 1
  /\ _UnLock
  /\ Goto(t, "w_lock")
  /\ UNCHANGED <<OnW, R_count, noWait, objs, isIngore>>

WLock_Enter(t) ==
  /\ pc[t] = "w_in"
  /\ WriterMayEnter
  /\ OnW' = TRUE
  /\ W_wait' = W_wait - 1
  /\ _UnLock
  /\ after_WLock(t)
  /\ Goto(t, "idle")
  /\ UNCHANGED <<R_count, noWait, isIngore>>

WrongRefusedKeepsWaiting(t) ==    \* TryWLock leaves its announcement behind
  /\ pc[t] = "w_in"
  /\ ~WriterMayEnter
  /\ _UnLock
  /\ Goto(t, IF noWait[t] THEN "idle" ELSE "w_lock")
  /\ UNCHANGED <<OnW, R_count, W_wait, noWait, objs, isIngore>>

WrongRefusedWithdraws(t) ==       \* WLock too gives its announcement up
  /\ pc[t] = "w_in"
  /\ ~WriterMayEnter
  /\ W_wait' = W_wait - 1
  /\ _UnLock
  /\ Goto(t, IF noWait[t] THEN "idle" ELSE "w_lock")
  /\ UNCHANGED <<OnW, R_count, noWait, objs, isIngore>>

WLock_Refused(t) ==
  /\ pc[t] = "w_in"
  /\ ~WriterMayEnter
  /\ W_wait' = IF noWait[t] THEN W_wait - 1 ELSE W_wait
  /\ _UnLock
  /\ Goto(t, IF noWait[t] THEN "idle" ELSE "w_lock")
  /\ UNCHANGED <<OnW, R_count, noWait, objs, isIngore>>

WUnLock_Leave(t) ==
  /\ pc[t] = "wu_in"
  /\ OnW' = FALSE
  /\ _UnLock
  /\ after_WUnLock(t)
  /\ Goto(t, "idle")
  /\ UNCHANGED <<R_count, W_wait, noWait, isIngore>>

-----------------------------------------------------------------------------
(* ingore() and enable(): the console command that disables a container's  *)
(* mutex runs between two operations of the process, with nothing locked.  *)
SetIngore(o, b) ==
  /\ isIngore[o] # b
  /\ \A t \in Thread : ObjectOf[t] = o => pc[t] = "idle" /\ thread_data[t] = "none"
  /\ isIngore' = [isIngore EXCEPT ![o] = b]
  /\ UNCHANGED <<sem, pc, noWait, objs, dead>>

(* A thread is killed.  Unlike a System V semaphore with SEM_UNDO, nothing *)
(* releases what it held, the flag included.                               *)
Crash(t) ==
  /\ Cardinality(dead) < MaxDead
  /\ dead' = dead \union {t}
  /\ UNCHANGED <<sem, pc, noWait, objs, isIngore>>

Call(t) ==
  \/ \E no_wait \in BOOLEAN : RLock(t, no_wait) \/ WLock(t, no_wait)
  \/ RUnLock(t) \/ WUnLock(t)

Section(t) ==
  \/ RLock_Enter(t) \/ RLock_Refused(t) \/ RUnLock_Leave(t)
  \/ WLock_Announce(t) \/ WLock_Enter(t) \/ WLock_Refused(t) \/ WUnLock_Leave(t)

Step(t) ==
  /\ t \notin dead
  /\ Call(t) \/ _Lock(t) \/ Section(t)
  /\ UNCHANGED dead

Next ==
  \/ \E t \in Thread : Step(t) \/ (t \notin dead /\ Crash(t))
  \/ \E o \in Object, b \in BOOLEAN : SetIngore(o, b)

Spec == Init /\ [][Next]_vars

(* The fairness the progress properties assume: a live thread in the       *)
(* lock's code is scheduled, its test_and_set is not beaten to the flag    *)
(* for ever, and a live holder goes on to unlock.                          *)
Fairness ==
  \A t \in Thread :
    /\ WF_vars(t \notin dead /\ Section(t) /\ UNCHANGED dead)
    /\ SF_vars(t \notin dead /\ _Lock(t) /\ UNCHANGED dead)
    /\ WF_vars(t \notin dead /\ (RUnLock(t) \/ WUnLock(t)) /\ UNCHANGED dead)

FairSpec == Spec /\ Fairness

-----------------------------------------------------------------------------
(* Who holds what, from the threads' side. *)
Readers == {t \in Thread : thread_data[t] = "R" /\ ~Ignored(t)}
Writers == {t \in Thread : thread_data[t] = "W" /\ ~Ignored(t)}
Wanting == {t \in Thread : pc[t] \in {"w_lock", "w_in"}}

\* A writer excludes every reader and every other writer, through any
\* interleaving of RLock/WLock/TryRLock/TryWLock and the unlocks of all the
\* processes, and whoever is killed on the way.
Exclusion ==
  /\ Writers # {} => Readers = {}
  /\ \A s, t \in Writers : s = t

\* The shared counters agree with what the threads hold and wait for: no
\* interleaving loses or leaks an increment, a refused TryWLock included.
CountersExact ==
  /\ OnW <=> Writers # {}
  /\ R_count = Cardinality(Readers)
  /\ W_wait = Cardinality(Wanting)

\* At most one thread is between _Lock() and _UnLock(), and it has the flag.
FlagExclusive ==
  /\ \A s, t \in Thread : pc[s] \in Inside /\ pc[t] \in Inside => s = t
  /\ \A t \in Thread : pc[t] \in Inside => flag

\* Where a thread is in the code agrees with what it remembers holding, so
\* that the unlocks undo what their own thread took.
PlaceAgrees ==
  \A t \in Thread :
    /\ pc[t] \in {"r_lock", "r_in", "ask_lock", "ask_in", "w_lock", "w_in"}
         => thread_data[t] = "none"
    /\ pc[t] \in {"ru_lock", "ru_in"} => thread_data[t] = "R"
    /\ pc[t] \in {"wu_lock", "wu_in"} => thread_data[t] = "W"
    /\ pc[t] # "idle" => ~Ignored(t)

\* The inductive invariant.  Exclusion alone is not inductive: a writer enters
\* because OnW and R_count say that nobody is in, so the counters must be
\* exact; they stay exact because a thread releases what it took and because
\* the flag keeps the sections apart.
Local == Shape /\ FlagExclusive /\ PlaceAgrees
IInv  == Local /\ CountersExact /\ Exclusion

\* The lock keeps the promise of RWLock: readers enter only when no writer
\* holds the lock or has announced itself, a writer only alone.
Promise == INSTANCE RWLock
             WITH readers <- Readers, writers <- Writers, wanting <- Wanting,
                  Restored <- {}
ImplementsRWLock == Promise!Spec

\* The per-process counters, from which a safe object decides whether it may
\* be detached, are the number of its threads that believe they hold the lock.
ObjectCountersExact ==
  \A o \in Object :
    /\ count_RLock[o] = Cardinality({t \in Thread : ObjectOf[t] = o /\ thread_data[t] = "R"})
    /\ count_WLock[o] = Cardinality({t \in Thread : ObjectOf[t] = o /\ thread_data[t] = "W"})

-----------------------------------------------------------------------------
\* An announced writer keeps new readers out, so the readers that were in
\* drain and some writer gets the lock (or the TryWLocks give up): W_wait
\* defeats starvation of the writers by a stream of readers.  (Nothing frees
\* the survivors of a thread that was killed in the lock's code.)
WritersProgress == Wanting # {} ~> (Writers # {} \/ Wanting = {} \/ dead # {})

\* A reader that waits gets in unless writers keep announcing themselves:
\* no W_wait or OnW is left behind by a writer that is gone.
ReaderWaits(t) == pc[t] \in {"r_lock", "r_in"}
ReadersProgress ==
  \A t \in Thread :
    ReaderWaits(t) ~> (~ReaderWaits(t) \/ Wanting # {} \/ Writers # {} \/ dead # {})
=============================================================================
