------------------------------- MODULE RWLock -------------------------------
(***************************************************************************)
(* What the reader/writer locks of src/function promise their callers,     *)
(* whatever they are built from: CAtomicRWMutex (mymutex2.h, a spin flag   *)
(* and three counters in shared memory) and CSemRWMutex (mymutex1.h, a     *)
(* System V semaphore set).  Writers exclude everybody, readers share, and *)
(* a writer that has announced itself keeps new readers out.               *)
(*                                                                         *)
(* The module states a promise and models no code; AtomicRWMutex and       *)
(* SemRWMutex are shown to implement it.                                   *)
(***************************************************************************)
CONSTANTS
  Thread,
  Restored   \* the sets of threads that may die together and have what they
             \* held given back: the processes for a lock with an undo, {}
             \* for a lock without

VARIABLES
  readers,   \* the threads that hold the lock for reading
  writers,   \* the threads that hold it for writing: never more than one
  wanting    \* the writers that have announced themselves and are waiting

vars == <<readers, writers, wanting>>

Init ==
  /\ readers = {}
  /\ writers = {}
  /\ wanting = {}

AcquireR(t) ==
  /\ t \notin readers
  /\ writers = {}
  /\ wanting = {}
  /\ readers' = readers \union {t}
  /\ UNCHANGED <<writers, wanting>>

ReleaseR(t) ==
  /\ t \in readers
  /\ readers' = readers \ {t}
  /\ UNCHANGED <<writers, wanting>>

Announce(t) ==
  /\ t \notin readers \union writers \union wanting
  /\ wanting' = wanting \union {t}
  /\ UNCHANGED <<readers, writers>>

\* A TryWLock that finds the lock taken gives its announcement up.
Withdraw(t) ==
  /\ t \in wanting
  /\ wanting' = wanting \ {t}
  /\ UNCHANGED <<readers, writers>>

AcquireW(t) ==
  /\ t \in wanting
  /\ readers = {}
  /\ writers = {}
  /\ writers' = {t}
  /\ wanting' = wanting \ {t}
  /\ UNCHANGED readers

ReleaseW(t) ==
  /\ t \in writers
  /\ writers' = writers \ {t}
  /\ UNCHANGED <<readers, wanting>>

\* The threads of T are gone: all they held and wanted is given back at once.
Restore(T) ==
  /\ readers' = readers \ T
  /\ writers' = writers \ T
  /\ wanting' = wanting \ T

Next ==
  \/ \E t \in Thread :
       \/ AcquireR(t) \/ ReleaseR(t)
       \/ Announce(t) \/ Withdraw(t) \/ AcquireW(t) \/ ReleaseW(t)
  \/ \E T \in Restored : Restore(T)

Spec == Init /\ [][Next]_vars
=============================================================================
