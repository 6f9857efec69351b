----------------------------- MODULE SemRWMutex -----------------------------
(***************************************************************************)
(* CSemRWMutex (src/function/mymutex1.h), the lock the multi-process       *)
(* server keeps between its processes: a System V semaphore set of four,   *)
(* every operation on it made with SEM_UNDO.                               *)
(*                                                                         *)
(* A semop is atomic: it happens when none of the semaphores it wants at   *)
(* zero is above zero and none it lowers would go below, else it blocks,   *)
(* fails with EAGAIN (IPC_NOWAIT) or is interrupted by a signal (EINTR).   *)
(* The kernel keeps, per process, the sum to add back when it dies.        *)
(***************************************************************************)
EXTENDS Integers, FiniteSets

CONSTANTS
  Thread,        \* the threads of all the processes
  Process,       \* the processes, each with its copy of the CSemRWMutex
  ProcessOf,     \* the process of a thread
  MaxInterrupt   \* bound: blocked semops of one process cut short by signals

ASSUME ThreadAssumption == IsFiniteSet(Thread)
ASSUME ProcessAssumption == ProcessOf \in [Thread -> Process]
ASSUME MaxInterruptAssumption == MaxInterrupt \in Nat

VARIABLES
  sem,           \* the four semaphores
  semadj,        \* the kernel's undo record of each process
  pc,            \* where each thread is in the lock's code
  noWait,        \* the no_wait argument of the call in progress
  thread_data,   \* what getThreadData() of each thread says
  count_RLock,   \* the counters of each process's object
  count_WLock,
  isIngore,      \* each object's isIngore: calls return without locking
  interrupts     \* how often WLock of a process was cut short (a history)

kernel == <<sem, semadj>>
objs   == <<thread_data, count_RLock, count_WLock>>
vars   == <<kernel, pc, noWait, objs, isIngore, interrupts>>

(* The set: 0 is free for a writer, 1 counts writers, 2 readers, 3 the      *)
(* writers that wait or hold.                                              *)
Semaphore == 0..3
InitialSem == [i \in Semaphore |-> IF i = 0 THEN 1 ELSE 0]

\* "announced": a writer between its two semops; "withdraw": a TryWLock that
\* found the lock taken and has yet to lower semaphore 3 again.
Place == {"idle", "r_sem", "ask", "announced", "withdraw"}

\* Every variable is in its range; no semaphore is below zero and the writers'
\* turn (semaphore 0) is never given twice.
TypeOK ==
  /\ sem \in [Semaphore -> Nat] /\ sem[0] <= 1
  /\ semadj \in [Process -> [Semaphore -> Int]]
  /\ pc \in [Thread -> Place]
  /\ noWait \in [Thread -> BOOLEAN]
  /\ thread_data \in [Thread -> {"none", "R", "W"}]
  /\ count_RLock \in [Process -> Nat]
  /\ count_WLock \in [Process -> Nat]
  /\ isIngore \in [Process -> BOOLEAN]
  /\ interrupts \in [Process -> 0..MaxInterrupt]

\* Create(): SETVAL of each of the four.
Init ==
  /\ sem = InitialSem
  /\ semadj = [p \in Process |-> [i \in Semaphore |-> 0]]
  /\ pc = [t \in Thread |-> "idle"]
  /\ noWait = [t \in Thread |-> FALSE]
  /\ thread_data = [t \in Thread |-> "none"]
  /\ count_RLock = [p \in Process |-> 0]
  /\ count_WLock = [p \in Process |-> 0]
  /\ isIngore = [p \in Process |-> FALSE]
  /\ interrupts = [p \in Process |-> 0]

Ignored(t) == isIngore[ProcessOf[t]]
Goto(t, p) == pc' = [pc EXCEPT ![t] = p]

-----------------------------------------------------------------------------
(* The kernel.  An operation is what it adds to each semaphore and which it *)
(* wants at zero.                                                          *)
Op(w, w_count, r_count, w_wait) ==
  [i \in Semaphore |-> <<w, w_count, r_count, w_wait>>[i + 1]]

Possible(add, zero) ==
  /\ \A i \in Semaphore : sem[i] + add[i] >= 0
  /\ \A i \in zero : sem[i] = 0

(* The definitions named Wrong... vary one definition of the code by a      *)
(* plausible mistake; the specification does not use them.                 *)
(* What the kernel is to take back when the process dies: everything, for   *)
(* every sembuf of the code has SEM_UNDO.                                  *)
WrongUndo(add) == [i \in Semaphore |-> 0]      \* without SEM_UNDO
Undo(add) == add

semop(t, add, zero) ==
  /\ Possible(add, zero)
  /\ sem' = [i \in Semaphore |-> sem[i] + add[i]]
  /\ semadj' = [semadj EXCEPT ![ProcessOf[t]] =
                  [i \in Semaphore |-> @[i] - Undo(add)[i]]]

(* The operations of the code. *)
WrongReadZero == {1}      \* the waiting writers are forgotten
ReadAdd  == Op(0, 0, 1, 0)
ReadZero == {1, 3}
AskAdd   == Op(0, 0, 0, 1)
WrongWriteZero == {}      \* the readers are forgotten
WriteAdd  == Op(-1, 1, 0, 0)
WriteZero == {2}
WithdrawAdd == Op(0, 0, 0, -1)
ReadDone    == Op(0, 0, -1, 0)
WrongWriteDoneAsks == Op(1, -1, 0, 0)    \* semaphore 3 is not lowered
WrongWriteDone     == Op(2, -1, 0, -1)   \* the turn is given back twice
WriteDone   == Op(1, -1, 0, -1)

-----------------------------------------------------------------------------
after_RLock(t) ==
  /\ thread_data' = [thread_data EXCEPT ![t] = "R"]
  /\ count_RLock' = [count_RLock EXCEPT ![ProcessOf[t]] = @ + 1]
  /\ UNCHANGED count_WLock

after_WLock(t) ==
  /\ thread_data' = [thread_data EXCEPT ![t] = "W"]
  /\ count_WLock' = [count_WLock EXCEPT ![ProcessOf[t]] = @ + 1]
  /\ UNCHANGED count_RLock

after_RUnLock(t) ==
  /\ thread_data' = [thread_data EXCEPT ![t] = "none"]
  /\ count_RLock' = [count_RLock EXCEPT ![ProcessOf[t]] = @ - 1]
  /\ UNCHANGED count_WLock

after_WUnLock(t) ==
  /\ thread_data' = [thread_data EXCEPT ![t] = "none"]
  /\ count_WLock' = [count_WLock EXCEPT ![ProcessOf[t]] = @ - 1]
  /\ UNCHANGED count_RLock

(* The calls.  MayLock and its companions are what isSafe checks before     *)
(* anything else (a refused call changes nothing and is no step here) and,  *)
(* without isSafe, what the callers keep to.                               *)
MayLock(t)    == pc[t] = "idle" /\ thread_data[t] = "none"
MayRUnLock(t) == pc[t] = "idle" /\ thread_data[t] = "R"
MayWUnLock(t) == pc[t] = "idle" /\ thread_data[t] = "W"

RLock(t, no_wait) ==
  /\ MayLock(t)
  /\ noWait' = [noWait EXCEPT ![t] = no_wait]
  /\ IF Ignored(t)
     THEN after_RLock(t) /\ UNCHANGED pc
     ELSE Goto(t, "r_sem") /\ UNCHANGED objs
  /\ UNCHANGED <<kernel, isIngore, interrupts>>

RLock_Enter(t) ==
  /\ pc[t] = "r_sem"
  /\ semop(t, ReadAdd, ReadZero)
  /\ after_RLock(t)
  /\ Goto(t, "idle")
  /\ UNCHANGED <<noWait, isIngore, interrupts>>

\* EAGAIN of a TryRLock, EINTR of a blocked RLock: false, nothing changed.
RLock_Fail(t) ==
  /\ pc[t] = "r_sem"
  /\ ~Possible(ReadAdd, ReadZero)
  /\ Goto(t, "idle")
  /\ UNCHANGED <<kernel, noWait, objs, isIngore, interrupts>>

WLock(t, no_wait) ==
  /\ MayLock(t)
  /\ noWait' = [noWait EXCEPT ![t] = no_wait]
  /\ IF Ignored(t)
     THEN after_WLock(t) /\ UNCHANGED pc
     ELSE Goto(t, "ask") /\ UNCHANGED objs
  /\ UNCHANGED <<kernel, isIngore, interrupts>>

WLock_Announce(t) ==
  /\ pc[t] = "ask"
  /\ semop(t, AskAdd, {})
  /\ Goto(t, "announced")
  /\ UNCHANGED <<noWait, objs, isIngore, interrupts>>

WLock_Enter(t) ==
  /\ pc[t] = "announced"
  /\ semop(t, WriteAdd, WriteZero)
  /\ after_WLock(t)
  /\ Goto(t, "idle")
  /\ UNCHANGED <<noWait, isIngore, interrupts>>

WrongEagain(t) ==         \* TryWLock leaves its announcement behind
  /\ pc[t] = "announced"
  /\ noWait[t]
  /\ ~Possible(WriteAdd, WriteZero)
  /\ Goto(t, "idle")
  /\ UNCHANGED <<kernel, noWait, objs, isIngore, interrupts>>

WLock_Eagain(t) ==
  /\ pc[t] = "announced"
  /\ noWait[t]
  /\ ~Possible(WriteAdd, WriteZero)
  /\ Goto(t, "withdraw")
  /\ UNCHANGED <<kernel, noWait, objs, isIngore, interrupts>>

WLock_Withdraw(t) ==
  /\ pc[t] = "withdraw"
  /\ semop(t, WithdrawAdd, {})
  /\ Goto(t, "idle")
  /\ UNCHANGED <<noWait, objs, isIngore, interrupts>>

(* A signal ends the blocked semop of a WLock: the call returns false and   *)
(* its announcement stays until the process dies.                          *)
WLock_Eintr(t) ==
  /\ pc[t] = "announced"
  /\ ~noWait[t]
  /\ ~Possible(WriteAdd, WriteZero)
  /\ interrupts[ProcessOf[t]] < MaxInterrupt
  /\ interrupts' = [interrupts EXCEPT ![ProcessOf[t]] = @ + 1]
  /\ Goto(t, "idle")
  /\ UNCHANGED <<kernel, noWait, objs, isIngore>>

RUnLock(t) ==
  /\ MayRUnLock(t)
  /\ IF Ignored(t) THEN UNCHANGED kernel ELSE semop(t, ReadDone, {})
  /\ after_RUnLock(t)
  /\ UNCHANGED <<pc, noWait, isIngore, interrupts>>

WUnLock(t) ==
  /\ MayWUnLock(t)
  /\ IF Ignored(t) THEN UNCHANGED kernel ELSE semop(t, WriteDone, {})
  /\ after_WUnLock(t)
  /\ UNCHANGED <<pc, noWait, isIngore, interrupts>>

\* ingore() and enable(), with nothing locked through the object.
SetIngore(p, b) ==
  /\ isIngore[p] # b
  /\ \A t \in Thread : ProcessOf[t] = p => MayLock(t)
  /\ isIngore' = [isIngore EXCEPT ![p] = b]
  /\ UNCHANGED <<kernel, pc, noWait, objs, interrupts>>

ThreadsOf(p) == {t \in Thread : ProcessOf[t] = p}

(* The process dies, or is killed, wherever its threads are: the kernel adds *)
(* its semadj back (never below zero).  What is left is what a process      *)
(* started in its place begins with.                                       *)
Die(p) ==
  /\ sem' = [i \in Semaphore |-> IF sem[i] + semadj[p][i] < 0 THEN 0
                                 ELSE sem[i] + semadj[p][i]]
  /\ semadj' = [semadj EXCEPT ![p] = [i \in Semaphore |-> 0]]
  /\ pc' = [t \in Thread |-> IF t \in ThreadsOf(p) THEN "idle" ELSE pc[t]]
  /\ noWait' = [t \in Thread |-> IF t \in ThreadsOf(p) THEN FALSE ELSE noWait[t]]
  /\ thread_data' =
       [t \in Thread |-> IF t \in ThreadsOf(p) THEN "none" ELSE thread_data[t]]
  /\ count_RLock' = [count_RLock EXCEPT ![p] = 0]
  /\ count_WLock' = [count_WLock EXCEPT ![p] = 0]
  /\ isIngore' = [isIngore EXCEPT ![p] = FALSE]
  /\ interrupts' = [interrupts EXCEPT ![p] = 0]

Call(t) == \E no_wait \in BOOLEAN : RLock(t, no_wait) \/ WLock(t, no_wait)

InLock(t) ==
  \/ RLock_Enter(t) \/ WLock_Announce(t) \/ WLock_Enter(t)
  \/ (noWait[t] /\ RLock_Fail(t)) \/ WLock_Eagain(t) \/ WLock_Withdraw(t)

Unlock(t) == RUnLock(t) \/ WUnLock(t)

Next ==
  \/ \E t \in Thread : Call(t) \/ InLock(t) \/ Unlock(t)
                       \/ RLock_Fail(t) \/ WLock_Eintr(t)
  \/ \E p \in Process : Die(p) \/ \E b \in BOOLEAN : SetIngore(p, b)

Spec == Init /\ [][Next]_vars

(* The kernel completes a semop that stays possible, a thread that holds the *)
(* lock goes on to unlock (or its process dies), and processes do not die   *)
(* for ever.                                                               *)
Fairness ==
  /\ \A t \in Thread : WF_vars(InLock(t)) /\ WF_vars(Unlock(t))
  /\ <>[][\A p \in Process : ~Die(p)]_vars

FairSpec == Spec /\ Fairness

-----------------------------------------------------------------------------
Readers == {t \in Thread : thread_data[t] = "R" /\ ~Ignored(t)}
Writers == {t \in Thread : thread_data[t] = "W" /\ ~Ignored(t)}
Wanting == {t \in Thread : pc[t] \in {"announced", "withdraw"}}

\* Exclusion survives TryLocks, signals and the deaths of processes whose
\* threads hold the lock, wait for it or are between two semops.
Exclusion ==
  /\ Writers # {} => Readers = {}
  /\ \A s, t \in Writers : s = t

\* What the kernel would undo for a process is what its threads hold and
\* have announced, plus the announcements its interrupted WLocks left: a
\* death gives back exactly that, neither a reader's place nor a writer's
\* turn too many.  (interrupts counts the leak of WLock under EINTR.)
UndoExact ==
  \A p \in Process :
    LET R == Cardinality(Readers \intersect ThreadsOf(p))
        W == Cardinality(Writers \intersect ThreadsOf(p))
        A == Cardinality(Wanting \intersect ThreadsOf(p))
    IN  semadj[p] = Op(W, -W, -R, -(W + A + interrupts[p]))

Promise == INSTANCE RWLock
             WITH readers <- Readers, writers <- Writers, wanting <- Wanting,
                  Restored <- {ThreadsOf(p) : p \in Process}
\* The semaphore set keeps the promise of RWLock, the death of a process
\* giving back at once all that its threads held.
ImplementsRWLock == Promise!Spec

\* An announced writer gets in, or some writer does, even if the processes
\* that hold the lock die: with SEM_UNDO nobody waits for a dead holder.
WritersProgress == Wanting # {} ~> (Writers # {} \/ Wanting = {})

\* A blocked reader is only ever held up by writers that are there, or by the
\* announcement a signal made a living process leave behind; that of a writer
\* that died does not keep it out.
Leaked == \E p \in Process : interrupts[p] > 0
ReadersProgress ==
  \A t \in Thread :
    (pc[t] = "r_sem") ~> (pc[t] # "r_sem" \/ Wanting # {} \/ Writers # {} \/ Leaked)
=============================================================================
