-------------------------- MODULE SemRWMutexProofs --------------------------
(***************************************************************************)
(* Proofs about SemRWMutex, for any finite set of threads, any processes   *)
(* and any number of signals: its types, that a writer excludes everybody, *)
(* that the kernel's undo records are exact, and that it implements RWLock *)
(* with the death of a process as one step.                                *)
(***************************************************************************)
EXTENDS SemRWMutex, FiniteSetTheorems, TLAPS

-----------------------------------------------------------------------------
(* The inductive invariant *)

Shape ==
  /\ sem \in [Semaphore -> Int]
  /\ semadj \in [Process -> [Semaphore -> Int]]
  /\ pc \in [Thread -> Place]
  /\ noWait \in [Thread -> BOOLEAN]
  /\ thread_data \in [Thread -> {"none", "R", "W"}]
  /\ count_RLock \in [Process -> Int]
  /\ count_WLock \in [Process -> Int]
  /\ isIngore \in [Process -> BOOLEAN]
  /\ interrupts \in [Process -> 0..MaxInterrupt]

\* A thread inside the lock's code holds nothing, and its object is enabled.
PlaceAgrees ==
  \A t \in Thread : pc[t] # "idle" => thread_data[t] = "none" /\ ~Ignored(t)

Local == Shape /\ PlaceAgrees

\* The announcements that interrupted WLocks left on semaphore 3, one by one.
Leaks == {x \in Process \X (1..MaxInterrupt) : x[2] <= interrupts[x[1]]}

\* What the semaphores say of the threads of all processes together.
SemExact ==
  /\ IsFiniteSet(Leaks)
  /\ sem[0] = 1 - Cardinality(Writers)
  /\ sem[1] = Cardinality(Writers)
  /\ sem[2] = Cardinality(Readers)
  /\ sem[3] = Cardinality(Wanting) + Cardinality(Writers) + Cardinality(Leaks)

\* The threads whose records say they hold the lock, ignored or not.
Holding(what) == {t \in Thread : thread_data[t] = what}

\* The counters of an object count the records of its process's threads.
CountsExact ==
  \A p \in Process :
    /\ count_RLock[p] = Cardinality(Holding("R") \intersect ThreadsOf(p))
    /\ count_WLock[p] = Cardinality(Holding("W") \intersect ThreadsOf(p))

IInv == Local /\ SemExact /\ UndoExact /\ CountsExact /\ Exclusion

-----------------------------------------------------------------------------
(* The kernel's operations *)

\* What the six operations of the code add to the semaphores: the writers'
\* turn (0) goes down as the writers (1) go up, and a writer that enters does
\* not announce itself again (3).
LEMMA OperationsAdd ==
  /\ ReadAdd \in [Semaphore -> Int] /\ AskAdd \in [Semaphore -> Int]
  /\ WriteAdd \in [Semaphore -> Int] /\ WithdrawAdd \in [Semaphore -> Int]
  /\ ReadDone \in [Semaphore -> Int] /\ WriteDone \in [Semaphore -> Int]
  /\ ReadAdd[1] = 0 /\ ReadAdd[2] = 1 /\ ReadAdd[3] = ReadAdd[1] + 0
  /\ AskAdd[1] = 0 /\ AskAdd[2] = 0 /\ AskAdd[3] = AskAdd[1] + 1
  /\ WriteAdd[1] = 1 /\ WriteAdd[2] = 0 /\ WriteAdd[3] = WriteAdd[1] + (-1)
  /\ WithdrawAdd[1] = 0 /\ WithdrawAdd[2] = 0 /\ WithdrawAdd[3] = WithdrawAdd[1] + (-1)
  /\ ReadDone[1] = 0 /\ ReadDone[2] = -1 /\ ReadDone[3] = ReadDone[1] + 0
  /\ WriteDone[1] = -1 /\ WriteDone[2] = 0 /\ WriteDone[3] = WriteDone[1] + 0
  /\ ReadAdd[0] = -ReadAdd[1] /\ AskAdd[0] = -AskAdd[1] /\ WriteAdd[0] = -WriteAdd[1]
  /\ WithdrawAdd[0] = -WithdrawAdd[1] /\ ReadDone[0] = -ReadDone[1]
  /\ WriteDone[0] = -WriteDone[1]
  /\ ReadZero \in SUBSET Semaphore /\ WriteZero \in SUBSET Semaphore
BY DEF Op, Semaphore, ReadAdd, AskAdd, WriteAdd, WithdrawAdd, ReadDone, WriteDone,
       ReadZero, WriteZero

\* A function on the four semaphores is determined by its four values.
LEMMA OpOf ==
  ASSUME NEW f \in [Semaphore -> Int],
         NEW a \in Int, NEW b \in Int, NEW c \in Int, NEW d \in Int,
         f[0] = a, f[1] = b, f[2] = c, f[3] = d
  PROVE  f = Op(a, b, c, d)
BY DEF Op, Semaphore

\* A semop that succeeds adds its values to the semaphores, takes them from the
\* undo record of its process, and found what it wanted at zero there.
LEMMA SemopAdds ==
  ASSUME Shape, NEW t \in Thread,
         NEW add \in [Semaphore -> Int], NEW zero \in SUBSET Semaphore, semop(t, add, zero)
  PROVE  /\ sem' \in [Semaphore -> Int]
         /\ semadj' \in [Process -> [Semaphore -> Int]]
         /\ \A i \in Semaphore : sem'[i] = sem[i] + add[i] /\ sem'[i] >= 0
         /\ \A i \in zero : sem[i] = 0
         /\ \A p \in Process : p # ProcessOf[t] => semadj'[p] = semadj[p]
         /\ \A i \in Semaphore :
              semadj'[ProcessOf[t]][i] = semadj[ProcessOf[t]][i] - add[i]
<1>1. /\ \A i \in Semaphore : sem[i] + add[i] >= 0
      /\ \A i \in zero : sem[i] = 0
      /\ sem' = [i \in Semaphore |-> sem[i] + add[i]]
      /\ semadj' = [semadj EXCEPT ![ProcessOf[t]] = [i \in Semaphore |-> @[i] - add[i]]]
  BY DEF semop, Possible, Undo
<1>2. ProcessOf[t] \in Process
  BY ProcessAssumption
<1>3. sem \in [Semaphore -> Int] /\ semadj \in [Process -> [Semaphore -> Int]]
  BY DEF Shape
<1>4. sem' \in [Semaphore -> Int] /\ \A i \in Semaphore : sem'[i] = sem[i] + add[i]
  BY <1>1, <1>3
<1>5. semadj' \in [Process -> [Semaphore -> Int]]
  BY <1>1, <1>2, <1>3
<1>6. /\ \A p \in Process : p # ProcessOf[t] => semadj'[p] = semadj[p]
      /\ \A i \in Semaphore : semadj'[ProcessOf[t]][i] = semadj[ProcessOf[t]][i] - add[i]
  BY <1>1, <1>2, <1>3
<1>7. QED
  BY <1>1, <1>4, <1>5, <1>6

-----------------------------------------------------------------------------
(* Type correctness and where the threads are *)

\* The operations of the code change the semaphores within their types.
LEMMA SemopTypes ==
  ASSUME Shape, NEW t \in Thread,
         \/ semop(t, ReadAdd, ReadZero) \/ semop(t, AskAdd, {})
         \/ semop(t, WriteAdd, WriteZero) \/ semop(t, WithdrawAdd, {})
         \/ semop(t, ReadDone, {}) \/ semop(t, WriteDone, {})
  PROVE  sem' \in [Semaphore -> Int] /\ semadj' \in [Process -> [Semaphore -> Int]]
BY OperationsAdd, SemopAdds

\* Init puts every variable in its range.
LEMMA InitTypes == Init => Shape
BY MaxInterruptAssumption DEF Init, Shape, InitialSem, Place, Semaphore

\* A call, a step inside the lock's code and an unlock keep the types.
LEMMA ThreadTypes ==
  ASSUME Shape, NEW t \in Thread,
         Call(t) \/ InLock(t) \/ Unlock(t) \/ RLock_Fail(t) \/ WLock_Eintr(t)
  PROVE  Shape'
<1> USE ProcessAssumption
<1>1. sem' \in [Semaphore -> Int] /\ semadj' \in [Process -> [Semaphore -> Int]]
  BY SemopTypes
     DEF Shape, Call, RLock, WLock, InLock, RLock_Enter, RLock_Fail, WLock_Announce,
         WLock_Enter, WLock_Eagain, WLock_Withdraw, WLock_Eintr, Unlock, RUnLock, WUnLock, kernel
<1> USE DEF Shape, Call, RLock, WLock, InLock, RLock_Enter, RLock_Fail, WLock_Announce,
         WLock_Enter, WLock_Eagain, WLock_Withdraw, WLock_Eintr, Unlock, RUnLock, WUnLock,
         Goto, objs, after_RLock, after_WLock, after_RUnLock, after_WUnLock
<1>2. pc' \in [Thread -> Place]
  BY DEF Place
<1>3. noWait' \in [Thread -> BOOLEAN] /\ isIngore' \in [Process -> BOOLEAN]
  OBVIOUS
<1>4. thread_data' \in [Thread -> {"none", "R", "W"}]
  OBVIOUS
<1>5. count_RLock' \in [Process -> Int] /\ count_WLock' \in [Process -> Int]
  OBVIOUS
<1>6. interrupts' \in [Process -> 0..MaxInterrupt]
  BY MaxInterruptAssumption, SMTT(30)
<1>7. QED
  BY <1>1, <1>2, <1>3, <1>4, <1>5, <1>6

\* The death of a process and a switch of isIngore keep the types.
LEMMA ProcessTypes ==
  ASSUME Shape, NEW p \in Process, Die(p) \/ \E b \in BOOLEAN : SetIngore(p, b)
  PROVE  Shape'
<1>1. CASE Die(p)
  <2> USE <1>1 DEF Die, Shape
  <2>1. sem' \in [Semaphore -> Int]
    OBVIOUS
  <2>2. semadj' \in [Process -> [Semaphore -> Int]]
    OBVIOUS
  <2>3. pc' \in [Thread -> Place] /\ noWait' \in [Thread -> BOOLEAN]
    BY DEF Place
  <2>4. thread_data' \in [Thread -> {"none", "R", "W"}]
    OBVIOUS
  <2>5. /\ count_RLock' \in [Process -> Int] /\ count_WLock' \in [Process -> Int]
        /\ isIngore' \in [Process -> BOOLEAN]
    OBVIOUS
  <2>6. interrupts' \in [Process -> 0..MaxInterrupt]
    BY MaxInterruptAssumption
  <2>7. QED
    BY <2>1, <2>2, <2>3, <2>4, <2>5, <2>6
<1>2. ASSUME NEW b \in BOOLEAN, SetIngore(p, b)
      PROVE  Shape'
  BY <1>2 DEF SetIngore, Shape, kernel, objs
<1>3. QED
  BY <1>1, <1>2

\* Every step keeps the types.
LEMMA NextTypes == Shape /\ [Next]_vars => Shape'
<1> SUFFICES ASSUME Shape, [Next]_vars
             PROVE  Shape'
  OBVIOUS
<1>1. CASE UNCHANGED vars
  BY <1>1 DEF vars, kernel, objs, Shape
<1>2. QED
  BY <1>1, ThreadTypes, ProcessTypes DEF Next

\* Every step leaves the threads where their records say.
LEMMA LocalInductive == Local /\ [Next]_vars => Local'
<1> SUFFICES ASSUME Local, [Next]_vars
             PROVE  PlaceAgrees'
  BY NextTypes DEF Local
<1> USE ProcessAssumption DEF Local, Shape, PlaceAgrees, Ignored, Goto
<1>1. ASSUME NEW t \in Thread, Call(t)
      PROVE  PlaceAgrees'
  BY <1>1 DEF Call, RLock, WLock, objs, MayLock, after_RLock, after_WLock
<1>2. ASSUME NEW t \in Thread, InLock(t) \/ RLock_Fail(t) \/ WLock_Eintr(t)
      PROVE  PlaceAgrees'
  BY <1>2 DEF InLock, RLock_Enter, RLock_Fail, WLock_Announce, WLock_Enter, WLock_Eagain,
       WLock_Withdraw, WLock_Eintr, objs, after_RLock, after_WLock
<1>3. ASSUME NEW t \in Thread, Unlock(t)
      PROVE  PlaceAgrees'
  BY <1>3 DEF Unlock, RUnLock, WUnLock, after_RUnLock, after_WUnLock
<1>4. ASSUME NEW p \in Process, Die(p)
      PROVE  PlaceAgrees'
  BY <1>4 DEF Die, ThreadsOf
<1>5. ASSUME NEW p \in Process, NEW b \in BOOLEAN, SetIngore(p, b)
      PROVE  PlaceAgrees'
  BY <1>5 DEF SetIngore, objs, MayLock
<1>6. CASE UNCHANGED vars
  BY <1>6 DEF vars, objs
<1>7. QED
  BY <1>1, <1>2, <1>3, <1>4, <1>5, <1>6 DEF Next

-----------------------------------------------------------------------------
(* What each step does to the holders and the waiting writers *)

SameHolders == Readers' = Readers /\ Writers' = Writers /\ Wanting' = Wanting

\* A step of a thread makes it enter, leave, ask or give up, and changes
\* nobody else; an announcement that a signal cuts short is no longer wanted.
LEMMA ThreadHolders ==
  ASSUME Local, NEW t \in Thread
  PROVE  /\ Call(t) \/ RLock_Fail(t) \/ WLock_Eagain(t) => SameHolders
         /\ RLock_Enter(t) => /\ t \notin Readers
                              /\ Readers' = Readers \union {t}
                              /\ Writers' = Writers /\ Wanting' = Wanting
         /\ WLock_Announce(t) => /\ t \notin Readers \union Writers \union Wanting
                                 /\ Wanting' = Wanting \union {t}
                                 /\ Readers' = Readers /\ Writers' = Writers
         /\ WLock_Enter(t) => /\ t \in Wanting /\ t \notin Writers
                              /\ Wanting' = Wanting \ {t}
                              /\ Writers' = Writers \union {t}
                              /\ Readers' = Readers
         /\ WLock_Withdraw(t) \/ WLock_Eintr(t) =>
              /\ t \in Wanting
              /\ Wanting' = Wanting \ {t}
              /\ Readers' = Readers /\ Writers' = Writers
<1> USE ProcessAssumption
    DEF Local, Shape, PlaceAgrees, Ignored, Goto, SameHolders, Readers, Writers, Wanting, objs,
        after_RLock, after_WLock
<1>1. Call(t) => SameHolders
  BY DEF Call, RLock, WLock, MayLock
<1>2. RLock_Fail(t) \/ WLock_Eagain(t) => SameHolders
  BY DEF RLock_Fail, WLock_Eagain
<1>3. RLock_Enter(t) => /\ t \notin Readers
                        /\ Readers' = Readers \union {t}
                        /\ Writers' = Writers /\ Wanting' = Wanting
  BY DEF RLock_Enter
<1>4. WLock_Announce(t) => /\ t \notin Readers \union Writers \union Wanting
                           /\ Wanting' = Wanting \union {t}
                           /\ Readers' = Readers /\ Writers' = Writers
  BY DEF WLock_Announce
<1>5. WLock_Enter(t) => /\ t \in Wanting /\ t \notin Writers
                        /\ Wanting' = Wanting \ {t}
                        /\ Writers' = Writers \union {t}
                        /\ Readers' = Readers
  BY DEF WLock_Enter
<1>6. WLock_Withdraw(t) \/ WLock_Eintr(t) =>
        /\ t \in Wanting
        /\ Wanting' = Wanting \ {t}
        /\ Readers' = Readers /\ Writers' = Writers
  BY DEF WLock_Withdraw, WLock_Eintr
<1>7. QED
  BY <1>1, <1>2, <1>3, <1>4, <1>5, <1>6

\* An unlock of an enabled object lets its thread out, that of an ignored one
\* nobody.
LEMMA UnlockHolders ==
  ASSUME Local, NEW t \in Thread
  PROVE  /\ RUnLock(t) /\ ~Ignored(t) => /\ t \in Readers
                                         /\ Readers' = Readers \ {t}
                                         /\ Writers' = Writers /\ Wanting' = Wanting
         /\ WUnLock(t) /\ ~Ignored(t) => /\ t \in Writers
                                         /\ Writers' = Writers \ {t}
                                         /\ Readers' = Readers /\ Wanting' = Wanting
         /\ Unlock(t) /\ Ignored(t) => SameHolders
<1> USE ProcessAssumption
    DEF Local, Shape, PlaceAgrees, Ignored, SameHolders, Readers, Writers, Wanting,
        MayRUnLock, MayWUnLock, after_RUnLock, after_WUnLock
<1>1. RUnLock(t) /\ ~Ignored(t) => /\ t \in Readers
                                   /\ Readers' = Readers \ {t}
                                   /\ Writers' = Writers /\ Wanting' = Wanting
  BY DEF RUnLock
<1>2. WUnLock(t) /\ ~Ignored(t) => /\ t \in Writers
                                   /\ Writers' = Writers \ {t}
                                   /\ Readers' = Readers /\ Wanting' = Wanting
  BY DEF WUnLock
<1>3. Unlock(t) /\ Ignored(t) => SameHolders
  BY DEF Unlock, RUnLock, WUnLock
<1>4. QED
  BY <1>1, <1>2, <1>3

\* A death takes all of the process's threads out of every set, and isIngore is
\* switched for threads that hold nothing.
LEMMA ProcessHolders ==
  ASSUME Local, NEW p \in Process
  PROVE  /\ Die(p) => /\ Readers' = Readers \ ThreadsOf(p)
                      /\ Writers' = Writers \ ThreadsOf(p)
                      /\ Wanting' = Wanting \ ThreadsOf(p)
         /\ \A b \in BOOLEAN : SetIngore(p, b) => SameHolders
<1> USE ProcessAssumption DEF Local, Shape, Ignored, Readers, Writers, Wanting, ThreadsOf
<1>1. Die(p) => /\ Readers' = Readers \ ThreadsOf(p)
                /\ Writers' = Writers \ ThreadsOf(p)
                /\ Wanting' = Wanting \ ThreadsOf(p)
  BY DEF Die
<1>2. ASSUME NEW b \in BOOLEAN, SetIngore(p, b)
      PROVE  SameHolders
  BY <1>2 DEF SetIngore, MayLock, objs, SameHolders
<1>3. QED
  BY <1>1, <1>2

-----------------------------------------------------------------------------
(* Counting threads, all together and per process *)

\* T has d threads more than S, all of them of the process of t.
Shifts(S, T, t, d) ==
  /\ Cardinality(T) = Cardinality(S) + d
  /\ \A p \in Process :
       Cardinality(T \intersect ThreadsOf(p)) =
         Cardinality(S \intersect ThreadsOf(p)) + (IF p = ProcessOf[t] THEN d ELSE 0)

\* Sets of threads are finite, and so are their parts in a process.
LEMMA ThreadsFinite ==
  ASSUME NEW S \in SUBSET Thread
  PROVE  /\ IsFiniteSet(S) /\ Cardinality(S) \in Nat
         /\ \A p \in Process : /\ IsFiniteSet(S \intersect ThreadsOf(p))
                               /\ Cardinality(S \intersect ThreadsOf(p)) \in Nat
<1>1. IsFiniteSet(S)
  BY ThreadAssumption, FS_Subset
<1>2. ASSUME NEW p \in Process
      PROVE  IsFiniteSet(S \intersect ThreadsOf(p))
  BY <1>1, FS_Intersection
<1>3. QED
  BY <1>1, <1>2, FS_CardinalityType

\* Adding a thread, taking one away, and leaving the set alone.
LEMMA AddShifts ==
  ASSUME NEW S \in SUBSET Thread, NEW t \in Thread, t \notin S
  PROVE  Shifts(S, S \union {t}, t, 1)
<1>1. Cardinality(S \union {t}) = Cardinality(S) + 1
  BY ThreadsFinite, FS_AddElement
<1>2. ASSUME NEW p \in Process
      PROVE  Cardinality((S \union {t}) \intersect ThreadsOf(p)) =
               Cardinality(S \intersect ThreadsOf(p)) + (IF p = ProcessOf[t] THEN 1 ELSE 0)
  <2>0. /\ IsFiniteSet(S \intersect ThreadsOf(p))
        /\ Cardinality(S \intersect ThreadsOf(p)) \in Nat
    BY ThreadsFinite
  <2>1. CASE p = ProcessOf[t]
    <3>1. (S \union {t}) \intersect ThreadsOf(p) = (S \intersect ThreadsOf(p)) \union {t}
      BY <2>1 DEF ThreadsOf
    <3>2. Cardinality((S \intersect ThreadsOf(p)) \union {t}) =
            Cardinality(S \intersect ThreadsOf(p)) + 1
      BY <2>0, FS_AddElement
    <3>3. QED
      BY <2>1, <3>1, <3>2
  <2>2. CASE p # ProcessOf[t]
    <3>1. (S \union {t}) \intersect ThreadsOf(p) = S \intersect ThreadsOf(p)
      BY <2>2 DEF ThreadsOf
    <3>2. QED
      BY <2>0, <2>2, <3>1
  <2>3. QED
    BY <2>1, <2>2
<1>3. QED
  BY <1>1, <1>2 DEF Shifts

LEMMA RemoveShifts ==
  ASSUME NEW S \in SUBSET Thread, NEW t \in S
  PROVE  Shifts(S, S \ {t}, t, -1)
<1>1. Cardinality(S \ {t}) = Cardinality(S) + (-1)
  BY ThreadsFinite, FS_RemoveElement
<1>2. ASSUME NEW p \in Process
      PROVE  Cardinality((S \ {t}) \intersect ThreadsOf(p)) =
               Cardinality(S \intersect ThreadsOf(p)) + (IF p = ProcessOf[t] THEN -1 ELSE 0)
  <2>0. /\ IsFiniteSet(S \intersect ThreadsOf(p))
        /\ Cardinality(S \intersect ThreadsOf(p)) \in Nat
    BY ThreadsFinite
  <2>1. CASE p = ProcessOf[t]
    <3>1. (S \ {t}) \intersect ThreadsOf(p) = (S \intersect ThreadsOf(p)) \ {t}
      BY <2>1 DEF ThreadsOf
    <3>2. t \in S \intersect ThreadsOf(p)
      BY <2>1 DEF ThreadsOf
    <3>3. Cardinality((S \intersect ThreadsOf(p)) \ {t}) =
            Cardinality(S \intersect ThreadsOf(p)) - 1
      BY <2>0, <3>2, FS_RemoveElement
    <3>4. QED
      BY <2>0, <2>1, <3>1, <3>3
  <2>2. CASE p # ProcessOf[t]
    <3>1. (S \ {t}) \intersect ThreadsOf(p) = S \intersect ThreadsOf(p)
      BY <2>2 DEF ThreadsOf
    <3>2. QED
      BY <2>0, <2>2, <3>1
  <2>3. QED
    BY <2>1, <2>2
<1>3. QED
  BY <1>1, <1>2 DEF Shifts

LEMMA SameShifts ==
  ASSUME NEW S \in SUBSET Thread, NEW t \in Thread
  PROVE  Shifts(S, S, t, 0)
BY ThreadsFinite DEF Shifts

\* The holders and the waiting writers are threads, now and after the step.
LEMMA HoldersAreThreads ==
  /\ Readers \in SUBSET Thread /\ Writers \in SUBSET Thread /\ Wanting \in SUBSET Thread
  /\ Readers' \in SUBSET Thread /\ Writers' \in SUBSET Thread /\ Wanting' \in SUBSET Thread
BY DEF Readers, Writers, Wanting

-----------------------------------------------------------------------------
(* The semaphores and the undo records *)

\* A semop that adds to the semaphores what its thread's step adds to the
\* readers, the writers and the waiting writers (a) keeps the
\* semaphores and the undo records exact.
LEMMA BalancedSemop ==
  ASSUME Shape, SemExact, UndoExact, NEW t \in Thread,
         NEW add \in [Semaphore -> Int], NEW zero \in SUBSET Semaphore, semop(t, add, zero),
         Shifts(Readers, Readers', t, add[2]), Shifts(Writers, Writers', t, add[1]),
         NEW a \in Int, Shifts(Wanting, Wanting', t, a),
         add[0] = -add[1], add[3] = add[1] + a, interrupts' = interrupts
  PROVE  SemExact' /\ UndoExact'
<1> DEFINE r == add[2]
           w == add[1]
<1>0. r \in Int /\ w \in Int
  BY DEF Semaphore
<1>1. 0 \in Semaphore /\ 1 \in Semaphore /\ 2 \in Semaphore /\ 3 \in Semaphore
  BY DEF Semaphore
<1>2. /\ sem'[0] = sem[0] - w /\ sem'[1] = sem[1] + w
      /\ sem'[2] = sem[2] + r /\ sem'[3] = sem[3] + (w + a)
  BY <1>0, <1>1, SemopAdds DEF Shape
<1>3. /\ Cardinality(Readers) \in Nat /\ Cardinality(Writers) \in Nat
      /\ Cardinality(Wanting) \in Nat
  BY HoldersAreThreads, ThreadsFinite
<1>4. Leaks' = Leaks /\ IsFiniteSet(Leaks) /\ Cardinality(Leaks) \in Nat
  BY FS_CardinalityType DEF Leaks, SemExact
<1>5. SemExact'
  BY <1>0, <1>2, <1>3, <1>4 DEF SemExact, Shifts
<1>6. ASSUME NEW p \in Process
      PROVE  LET R == Cardinality(Readers' \intersect ThreadsOf(p))
                 W == Cardinality(Writers' \intersect ThreadsOf(p))
                 A == Cardinality(Wanting' \intersect ThreadsOf(p))
             IN  semadj'[p] = Op(W, -W, -R, -(W + A + interrupts[p]))
  <2> DEFINE R == Cardinality(Readers \intersect ThreadsOf(p))
             W == Cardinality(Writers \intersect ThreadsOf(p))
             A == Cardinality(Wanting \intersect ThreadsOf(p))
             I == interrupts[p]
  <2>1. R \in Nat /\ W \in Nat /\ A \in Nat /\ I \in Int
    BY HoldersAreThreads, ThreadsFinite, MaxInterruptAssumption DEF Shape
  <2>2. semadj[p] = Op(W, -W, -R, -(W + A + I))
    BY DEF UndoExact
  <2>3. CASE p # ProcessOf[t]
    <3>1. /\ Cardinality(Readers' \intersect ThreadsOf(p)) = R
          /\ Cardinality(Writers' \intersect ThreadsOf(p)) = W
          /\ Cardinality(Wanting' \intersect ThreadsOf(p)) = A
      BY <1>0, <2>1, <2>3 DEF Shifts
    <3>2. semadj'[p] = semadj[p]
      BY <2>3, SemopAdds
    <3>3. QED
      BY <2>2, <3>1, <3>2
  <2>4. CASE p = ProcessOf[t]
    <3>1. /\ Cardinality(Readers' \intersect ThreadsOf(p)) = R + r
          /\ Cardinality(Writers' \intersect ThreadsOf(p)) = W + w
          /\ Cardinality(Wanting' \intersect ThreadsOf(p)) = A + a
      BY <2>4 DEF Shifts
    <3>2. /\ semadj'[p] \in [Semaphore -> Int]
          /\ \A i \in Semaphore : semadj'[p][i] = semadj[p][i] - add[i]
      BY <2>4, SemopAdds
    <3> HIDE DEF R, W, A, I
    <3>3. /\ semadj[p][0] = W /\ semadj[p][1] = -W
          /\ semadj[p][2] = -R /\ semadj[p][3] = -(W + A + I)
      BY <2>1, <2>2 DEF Op, Semaphore
    <3> HIDE DEF r, w
    <3>4. /\ semadj'[p][0] = W + w /\ semadj'[p][1] = -(W + w)
          /\ semadj'[p][2] = -(R + r)
          /\ semadj'[p][3] = -((W + w) + (A + a) + I)
      BY <1>0, <1>1, <2>1, <3>2, <3>3 DEF r, w
    <3>5. semadj'[p] = Op(W + w, -(W + w), -(R + r), -((W + w) + (A + a) + I))
      <4>1. /\ W + w \in Int /\ -(W + w) \in Int /\ -(R + r) \in Int
              /\ -((W + w) + (A + a) + I) \in Int
          BY <1>0, <2>1
        <4>2. QED
          BY <3>2, <3>4, <4>1, OpOf
    <3>6. QED
      BY <3>1, <3>5 DEF I, R, W, A, r, w
  <2>5. QED
    BY <2>3, <2>4
<1>7. QED
  BY <1>5, <1>6 DEF UndoExact, ThreadsOf

\* A step that changes neither the kernel's records nor the holders keeps them
\* exact.
LEMMA QuietStep ==
  ASSUME SemExact, UndoExact, SameHolders, UNCHANGED kernel, interrupts' = interrupts
  PROVE  SemExact' /\ UndoExact'
BY DEF SemExact, UndoExact, SameHolders, kernel, Leaks, ThreadsOf

\* The semops of the lock's code keep the semaphores and the undo records exact.
LEMMA SemopsExact ==
  ASSUME Local, SemExact, UndoExact, NEW t \in Thread,
         \/ RLock_Enter(t) \/ WLock_Announce(t) \/ WLock_Enter(t) \/ WLock_Withdraw(t)
         \/ (Unlock(t) /\ ~Ignored(t))
  PROVE  SemExact' /\ UndoExact'
<1>1. Shape /\ {} \in SUBSET Semaphore
  BY DEF Local
<1>2. CASE RLock_Enter(t)
  <2>1. Shifts(Readers, Readers', t, ReadAdd[2]) /\ Shifts(Writers, Writers', t, ReadAdd[1])
        /\ Shifts(Wanting, Wanting', t, 0)
    BY <1>2, ThreadHolders, HoldersAreThreads, AddShifts, RemoveShifts,
       SameShifts, OperationsAdd
  <2>2. /\ semop(t, ReadAdd, ReadZero) /\ interrupts' = interrupts
        /\ ReadAdd \in [Semaphore -> Int] /\ ReadAdd[0] = -ReadAdd[1]
        /\ ReadAdd[3] = ReadAdd[1] + 0
    BY <1>2, OperationsAdd DEF RLock_Enter
  <2>3. QED
    BY <1>1, <2>1, <2>2, BalancedSemop, OperationsAdd
<1>3. CASE WLock_Announce(t)
  <2>1. Shifts(Readers, Readers', t, AskAdd[2]) /\ Shifts(Writers, Writers', t, AskAdd[1])
        /\ Shifts(Wanting, Wanting', t, 1)
    BY <1>3, ThreadHolders, HoldersAreThreads, AddShifts, RemoveShifts,
       SameShifts, OperationsAdd
  <2>2. /\ semop(t, AskAdd, {}) /\ interrupts' = interrupts
        /\ AskAdd \in [Semaphore -> Int] /\ AskAdd[0] = -AskAdd[1]
        /\ AskAdd[3] = AskAdd[1] + 1
    BY <1>3, OperationsAdd DEF WLock_Announce
  <2>3. QED
    BY <1>1, <2>1, <2>2, BalancedSemop, OperationsAdd
<1>4. CASE WLock_Enter(t)
  <2>1. Shifts(Readers, Readers', t, WriteAdd[2]) /\ Shifts(Writers, Writers', t, WriteAdd[1])
        /\ Shifts(Wanting, Wanting', t, -1)
    BY <1>4, ThreadHolders, HoldersAreThreads, AddShifts, RemoveShifts,
       SameShifts, OperationsAdd
  <2>2. /\ semop(t, WriteAdd, WriteZero) /\ interrupts' = interrupts
        /\ WriteAdd \in [Semaphore -> Int] /\ WriteAdd[0] = -WriteAdd[1]
        /\ WriteAdd[3] = WriteAdd[1] + (-1)
    BY <1>4, OperationsAdd DEF WLock_Enter
  <2>3. QED
    BY <1>1, <2>1, <2>2, BalancedSemop, OperationsAdd
<1>5. CASE WLock_Withdraw(t)
  <2>1. Shifts(Readers, Readers', t, WithdrawAdd[2]) /\ Shifts(Writers, Writers', t, WithdrawAdd[1])
        /\ Shifts(Wanting, Wanting', t, -1)
    BY <1>5, ThreadHolders, HoldersAreThreads, AddShifts, RemoveShifts,
       SameShifts, OperationsAdd
  <2>2. /\ semop(t, WithdrawAdd, {}) /\ interrupts' = interrupts
        /\ WithdrawAdd \in [Semaphore -> Int] /\ WithdrawAdd[0] = -WithdrawAdd[1]
        /\ WithdrawAdd[3] = WithdrawAdd[1] + (-1)
    BY <1>5, OperationsAdd DEF WLock_Withdraw
  <2>3. QED
    BY <1>1, <2>1, <2>2, BalancedSemop, OperationsAdd
<1>6. CASE RUnLock(t) /\ ~Ignored(t)
  <2>1. Shifts(Readers, Readers', t, ReadDone[2]) /\ Shifts(Writers, Writers', t, ReadDone[1])
        /\ Shifts(Wanting, Wanting', t, 0)
    BY <1>6, UnlockHolders, HoldersAreThreads, AddShifts, RemoveShifts,
       SameShifts, OperationsAdd
  <2>2. /\ semop(t, ReadDone, {}) /\ interrupts' = interrupts
        /\ ReadDone \in [Semaphore -> Int] /\ ReadDone[0] = -ReadDone[1]
        /\ ReadDone[3] = ReadDone[1] + 0
    BY <1>6, OperationsAdd DEF RUnLock
  <2>3. QED
    BY <1>1, <2>1, <2>2, BalancedSemop, OperationsAdd
<1>7. CASE WUnLock(t) /\ ~Ignored(t)
  <2>1. Shifts(Readers, Readers', t, WriteDone[2]) /\ Shifts(Writers, Writers', t, WriteDone[1])
        /\ Shifts(Wanting, Wanting', t, 0)
    BY <1>7, UnlockHolders, HoldersAreThreads, AddShifts, RemoveShifts,
       SameShifts, OperationsAdd
  <2>2. /\ semop(t, WriteDone, {}) /\ interrupts' = interrupts
        /\ WriteDone \in [Semaphore -> Int] /\ WriteDone[0] = -WriteDone[1]
        /\ WriteDone[3] = WriteDone[1] + 0
    BY <1>7, OperationsAdd DEF WUnLock
  <2>3. QED
    BY <1>1, <2>1, <2>2, BalancedSemop, OperationsAdd
<1>8. QED
  BY <1>2, <1>3, <1>4, <1>5, <1>6, <1>7 DEF Unlock

\* A signal leaves one announcement of its thread's process behind: semaphore 3
\* and the undo record, which do not change, go on counting it.
LEMMA EintrExact ==
  ASSUME Local, SemExact, UndoExact, NEW t \in Thread, WLock_Eintr(t)
  PROVE  SemExact' /\ UndoExact'
<1> DEFINE q == ProcessOf[t]
<1>0. q \in Process /\ interrupts \in [Process -> 0..MaxInterrupt]
  BY ProcessAssumption DEF Local, Shape
<1>1. /\ Shifts(Readers, Readers', t, 0) /\ Shifts(Writers, Writers', t, 0)
      /\ Shifts(Wanting, Wanting', t, -1)
  BY ThreadHolders, HoldersAreThreads, RemoveShifts, SameShifts
<1>2. /\ sem' = sem /\ semadj' = semadj
      /\ interrupts[q] < MaxInterrupt
      /\ interrupts' = [interrupts EXCEPT ![q] = interrupts[q] + 1]
  BY DEF WLock_Eintr, kernel
<1>3. /\ Leaks' = Leaks \union {<<q, interrupts[q] + 1>>}
      /\ <<q, interrupts[q] + 1>> \notin Leaks
  BY <1>0, <1>2, MaxInterruptAssumption DEF Leaks
<1>4. IsFiniteSet(Leaks') /\ Cardinality(Leaks') = Cardinality(Leaks) + 1
  BY <1>3, FS_AddElement DEF SemExact
<1>5. /\ Cardinality(Wanting) \in Nat /\ Cardinality(Writers) \in Nat
      /\ Cardinality(Leaks) \in Nat
  BY HoldersAreThreads, ThreadsFinite, FS_CardinalityType DEF SemExact
<1>6. SemExact'
  <2>1. /\ Cardinality(Readers') = Cardinality(Readers) + 0
        /\ Cardinality(Writers') = Cardinality(Writers) + 0
        /\ Cardinality(Wanting') = Cardinality(Wanting) + (-1)
    BY <1>1 DEF Shifts
  <2>2. Cardinality(Readers) \in Nat
    BY HoldersAreThreads, ThreadsFinite
  <2>3. QED
    BY <1>2, <1>4, <1>5, <2>1, <2>2 DEF SemExact
<1>7. ASSUME NEW p \in Process
      PROVE  LET R == Cardinality(Readers' \intersect ThreadsOf(p))
                 W == Cardinality(Writers' \intersect ThreadsOf(p))
                 A == Cardinality(Wanting' \intersect ThreadsOf(p))
             IN  semadj'[p] = Op(W, -W, -R, -(W + A + interrupts'[p]))
  <2> DEFINE R == Cardinality(Readers \intersect ThreadsOf(p))
             W == Cardinality(Writers \intersect ThreadsOf(p))
             A == Cardinality(Wanting \intersect ThreadsOf(p))
  <2>1. R \in Nat /\ W \in Nat /\ A \in Nat /\ interrupts[p] \in Int
    BY <1>0, HoldersAreThreads, ThreadsFinite, MaxInterruptAssumption
  <2>2. semadj'[p] = Op(W, -W, -R, -(W + A + interrupts[p]))
    BY <1>2 DEF UndoExact
  <2>3. /\ Cardinality(Readers' \intersect ThreadsOf(p)) = R
        /\ Cardinality(Writers' \intersect ThreadsOf(p)) = W
    BY <1>1, <2>1 DEF Shifts
  <2>4. Cardinality(Wanting' \intersect ThreadsOf(p)) + interrupts'[p] = A + interrupts[p]
    BY <1>0, <1>1, <1>2, <2>1 DEF Shifts
  <2>5. Cardinality(Wanting' \intersect ThreadsOf(p)) \in Nat /\ interrupts'[p] \in Int
    BY <1>0, <1>2, <2>1, HoldersAreThreads, ThreadsFinite
  <2> HIDE DEF R, W, A
  <2>6. W + Cardinality(Wanting' \intersect ThreadsOf(p)) + interrupts'[p]
          = W + A + interrupts[p]
    BY <2>1, <2>4, <2>5
  <2>7. QED
    BY <2>2, <2>3, <2>6
<1>8. QED
  BY <1>6, <1>7 DEF UndoExact, ThreadsOf

\* One writer at most.
LEMMA FewWriters ==
  ASSUME Exclusion
  PROVE  Cardinality(Writers) = 0 \/ Cardinality(Writers) = 1
<1>1. CASE Writers = {}
  BY <1>1, FS_EmptySet
<1>2. ASSUME NEW t \in Writers
      PROVE  Cardinality(Writers) = 1
  <2>1. Writers = {t}
    BY <1>2 DEF Exclusion
  <2>2. QED
    BY <2>1, FS_Singleton
<1>3. QED
  BY <1>1, <1>2

\* The death of a process gives back what its threads held and had announced
\* and what its interrupted WLocks left, and no more: nothing is clamped at zero.
LEMMA DieExact ==
  ASSUME Local, SemExact, UndoExact, Exclusion, NEW p \in Process, Die(p)
  PROVE  SemExact' /\ UndoExact'
<1> DEFINE R == Cardinality(Readers \intersect ThreadsOf(p))
           W == Cardinality(Writers \intersect ThreadsOf(p))
           A == Cardinality(Wanting \intersect ThreadsOf(p))
           I == interrupts[p]
<1>0. Shape /\ I \in Nat
  BY MaxInterruptAssumption DEF Local, Shape
<1>1. R \in Nat /\ W \in Nat /\ A \in Nat
  BY HoldersAreThreads, ThreadsFinite
<1>2. /\ Readers' = Readers \ ThreadsOf(p) /\ Writers' = Writers \ ThreadsOf(p)
      /\ Wanting' = Wanting \ ThreadsOf(p)
  BY ProcessHolders
<1>3. /\ Cardinality(Readers') = Cardinality(Readers) - R
      /\ Cardinality(Writers') = Cardinality(Writers) - W
      /\ Cardinality(Wanting') = Cardinality(Wanting) - A
  BY <1>2, HoldersAreThreads, ThreadsFinite, FS_Difference
<1>4. /\ Cardinality(Readers') \in Nat /\ Cardinality(Writers') \in Nat
      /\ Cardinality(Wanting') \in Nat
      /\ Cardinality(Readers) \in Nat /\ Cardinality(Writers) \in Nat
      /\ Cardinality(Wanting) \in Nat
  BY HoldersAreThreads, ThreadsFinite
<1>5. interrupts' = [interrupts EXCEPT ![p] = 0]
  BY DEF Die
<1>6. /\ IsFiniteSet(Leaks') /\ Cardinality(Leaks') = Cardinality(Leaks) - I
      /\ Cardinality(Leaks') \in Nat /\ Cardinality(Leaks) \in Nat
  <2> DEFINE own == {p} \X (1..I)
  <2>1. Leaks' = Leaks \ own
    BY <1>0, <1>5, MaxInterruptAssumption DEF Leaks, Shape
  <2>2. Leaks \intersect own = own
    BY <1>0, MaxInterruptAssumption DEF Leaks, Shape
  <2>3. IsFiniteSet(1..I) /\ Cardinality(1..I) = I
    BY <1>0, FS_Interval
  <2>4. IsFiniteSet({p}) /\ Cardinality({p}) = 1
    BY FS_Singleton
  <2>5. Cardinality(own) = 1 * I
    BY <2>3, <2>4, FS_Product
  <2> HIDE DEF own
  <2>6. IsFiniteSet(Leaks') /\ Cardinality(Leaks') = Cardinality(Leaks) - Cardinality(own)
    <3>1. IsFiniteSet(Leaks)
      BY DEF SemExact
    <3>2. IsFiniteSet(Leaks \ own)
          /\ Cardinality(Leaks \ own) = Cardinality(Leaks) - Cardinality(Leaks \intersect own)
      BY <3>1, FS_Difference
    <3>3. QED
      BY <2>1, <2>2, <3>2
  <2>7. QED
    BY <1>0, <2>5, <2>6, FS_CardinalityType DEF SemExact
<1>7. semadj[p] = Op(W, -W, -R, -(W + A + I))
  BY DEF UndoExact
<1> HIDE DEF R, W, A, I
<1>8. /\ semadj[p][0] = W /\ semadj[p][1] = -W
      /\ semadj[p][2] = -R /\ semadj[p][3] = -(W + A + I)
  BY <1>0, <1>1, <1>7 DEF Op, Semaphore
<1>9. /\ sem[0] + semadj[p][0] = 1 - Cardinality(Writers')
      /\ sem[1] + semadj[p][1] = Cardinality(Writers')
      /\ sem[2] + semadj[p][2] = Cardinality(Readers')
      /\ sem[3] + semadj[p][3] = Cardinality(Wanting') + Cardinality(Writers') + Cardinality(Leaks')
  BY <1>0, <1>1, <1>3, <1>4, <1>6, <1>8 DEF SemExact
<1>10. /\ 1 - Cardinality(Writers') >= 0
       /\ Cardinality(Wanting') + Cardinality(Writers') + Cardinality(Leaks') >= 0
  BY <1>1, <1>3, <1>4, <1>6, FewWriters
<1>11. /\ sem'[0] = 1 - Cardinality(Writers') /\ sem'[1] = Cardinality(Writers')
       /\ sem'[2] = Cardinality(Readers')
       /\ sem'[3] = Cardinality(Wanting') + Cardinality(Writers') + Cardinality(Leaks')
  <2>1. 0 \in Semaphore /\ 1 \in Semaphore /\ 2 \in Semaphore /\ 3 \in Semaphore
    BY DEF Semaphore
  <2>2. \A i \in Semaphore : sem'[i] = IF sem[i] + semadj[p][i] < 0 THEN 0
                                       ELSE sem[i] + semadj[p][i]
    BY DEF Die
  <2>3. /\ sem'[0] = sem[0] + semadj[p][0] /\ sem'[1] = sem[1] + semadj[p][1]
        /\ sem'[2] = sem[2] + semadj[p][2] /\ sem'[3] = sem[3] + semadj[p][3]
    <3>1. \A i \in Semaphore : sem[i] \in Int /\ semadj[p][i] \in Int
      BY <1>0 DEF Shape
    <3>2. QED
      BY <1>4, <1>9, <1>10, <2>1, <2>2, <3>1
  <2>4. QED
    BY <1>9, <2>3
<1>12. SemExact'
  BY <1>6, <1>11 DEF SemExact
<1>13. ASSUME NEW q \in Process
       PROVE  LET Rq == Cardinality(Readers' \intersect ThreadsOf(q))
                  Wq == Cardinality(Writers' \intersect ThreadsOf(q))
                  Aq == Cardinality(Wanting' \intersect ThreadsOf(q))
              IN  semadj'[q] = Op(Wq, -Wq, -Rq, -(Wq + Aq + interrupts'[q]))
  <2>1. CASE q = p
    <3>1. /\ Readers' \intersect ThreadsOf(q) = {} /\ Writers' \intersect ThreadsOf(q) = {}
          /\ Wanting' \intersect ThreadsOf(q) = {}
      BY <1>2, <2>1
    <3>2. interrupts'[q] = 0
      BY <1>0, <1>5, <2>1 DEF Shape
    <3>3. semadj'[q] = [i \in Semaphore |-> 0]
      BY <1>0, <2>1 DEF Die, Shape
    <3>4. Op(0, -0, -0, -(0 + 0 + 0)) = [i \in Semaphore |-> 0]
      BY DEF Op, Semaphore
    <3>5. QED
      BY <3>1, <3>2, <3>3, <3>4, FS_EmptySet
  <2>2. CASE q # p
    <3>1. /\ Readers' \intersect ThreadsOf(q) = Readers \intersect ThreadsOf(q)
          /\ Writers' \intersect ThreadsOf(q) = Writers \intersect ThreadsOf(q)
          /\ Wanting' \intersect ThreadsOf(q) = Wanting \intersect ThreadsOf(q)
      BY <1>2, <2>2 DEF ThreadsOf
    <3>2. semadj'[q] = semadj[q] /\ interrupts'[q] = interrupts[q]
      BY <1>0, <1>5, <2>2 DEF Die, Shape
    <3>3. QED
      BY <3>1, <3>2 DEF UndoExact
  <2>3. QED
    BY <2>1, <2>2
<1>14. QED
  BY <1>12, <1>13 DEF UndoExact, ThreadsOf

-----------------------------------------------------------------------------
(* Exclusion and the objects' counters *)

\* A reader's semop succeeds only when no writer is there or announced, and a
\* writer's only when nobody is there: the leaks can keep a reader out, never
\* let one in.
LEMMA EnterAlone ==
  ASSUME Local, SemExact, NEW t \in Thread
  PROVE  /\ RLock_Enter(t) => Writers = {} /\ Wanting = {}
         /\ WLock_Enter(t) => Readers = {} /\ Writers = {}
<1>1. /\ IsFiniteSet(Readers) /\ Cardinality(Readers) \in Nat
      /\ IsFiniteSet(Writers) /\ Cardinality(Writers) \in Nat
      /\ IsFiniteSet(Wanting) /\ Cardinality(Wanting) \in Nat
  BY HoldersAreThreads, ThreadsFinite
<1>2. Cardinality(Leaks) \in Nat
  BY FS_CardinalityType DEF SemExact
<1>3. ASSUME RLock_Enter(t)
      PROVE  Writers = {} /\ Wanting = {}
  <2>1. semop(t, ReadAdd, ReadZero)
    BY <1>3 DEF RLock_Enter
  <2>2. sem[1] = 0 /\ sem[3] = 0
    BY <2>1, OperationsAdd, SemopAdds DEF Local, ReadZero
  <2>3. Cardinality(Writers) = 0 /\ Cardinality(Wanting) = 0
    BY <1>1, <1>2, <2>2 DEF SemExact
  <2>4. QED
    BY <1>1, <2>3, FS_EmptySet
<1>4. ASSUME WLock_Enter(t)
      PROVE  Readers = {} /\ Writers = {}
  <2>1. semop(t, WriteAdd, WriteZero)
    BY <1>4 DEF WLock_Enter
  <2>2. sem[2] = 0 /\ sem[0] >= 1
    <3>1. WriteAdd[0] = -1 /\ 0 \in Semaphore /\ sem[0] \in Int
      BY OperationsAdd DEF Semaphore, Local, Shape
    <3>2. sem'[0] = sem[0] + WriteAdd[0] /\ sem'[0] >= 0 /\ sem[2] = 0
      BY <2>1, <3>1, OperationsAdd, SemopAdds DEF Local, WriteZero
    <3>3. QED
      BY <3>1, <3>2
  <2>3. Cardinality(Writers) = 0 /\ Cardinality(Readers) = 0
    BY <1>1, <2>2 DEF SemExact
  <2>4. QED
    BY <1>1, <2>3, FS_EmptySet
<1>5. QED
  BY <1>3, <1>4

\* Every step keeps the holders exclusive.
LEMMA ExclusionInductive ==
  ASSUME Local, SemExact, Exclusion, [Next]_vars
  PROVE  Exclusion'
<1>1. ASSUME NEW t \in Thread, RLock_Enter(t)
      PROVE  Exclusion'
  BY <1>1, EnterAlone, ThreadHolders DEF Exclusion
<1>2. ASSUME NEW t \in Thread, WLock_Enter(t)
      PROVE  Exclusion'
  BY <1>2, EnterAlone, ThreadHolders DEF Exclusion
<1>3. ASSUME Readers' \subseteq Readers, Writers' \subseteq Writers
      PROVE  Exclusion'
  BY <1>3 DEF Exclusion
<1>4. ASSUME NEW t \in Thread, \/ Call(t) \/ RLock_Fail(t) \/ WLock_Announce(t)
                               \/ WLock_Eagain(t) \/ WLock_Withdraw(t) \/ WLock_Eintr(t)
      PROVE  Exclusion'
  BY <1>3, <1>4, ThreadHolders DEF SameHolders
<1>5. ASSUME NEW t \in Thread, Unlock(t)
      PROVE  Exclusion'
  BY <1>3, <1>5, UnlockHolders DEF SameHolders, Unlock
<1>6. ASSUME NEW p \in Process, Die(p) \/ \E b \in BOOLEAN : SetIngore(p, b)
      PROVE  Exclusion'
  BY <1>3, <1>6, ProcessHolders DEF SameHolders
<1>7. CASE UNCHANGED vars
  BY <1>3, <1>7 DEF vars, objs, Readers, Writers, Ignored
<1>8. QED
  BY <1>1, <1>2, <1>4, <1>5, <1>6, <1>7 DEF Next, InLock

\* A counter of the objects that moves with a set of threads counts it still.
LEMMA CountShifts ==
  ASSUME NEW S \in SUBSET Thread, NEW T \in SUBSET Thread, NEW t \in Thread,
         NEW d \in Int, Shifts(S, T, t, d),
         NEW f \in [Process -> Int], NEW g \in [Process -> Int],
         \A p \in Process : f[p] = Cardinality(S \intersect ThreadsOf(p)),
         \A p \in Process : g[p] = IF p = ProcessOf[t] THEN f[p] + d ELSE f[p]
  PROVE  \A p \in Process : g[p] = Cardinality(T \intersect ThreadsOf(p))
<1> SUFFICES ASSUME NEW p \in Process
             PROVE  g[p] = Cardinality(T \intersect ThreadsOf(p))
  OBVIOUS
<1>1. Cardinality(T \intersect ThreadsOf(p)) =
        Cardinality(S \intersect ThreadsOf(p)) + (IF p = ProcessOf[t] THEN d ELSE 0)
  BY DEF Shifts
<1>2. f[p] = Cardinality(S \intersect ThreadsOf(p)) /\ f[p] \in Int
  OBVIOUS
<1>3. CASE p = ProcessOf[t]
  BY <1>1, <1>2, <1>3
<1>4. CASE p # ProcessOf[t]
  BY <1>1, <1>2, <1>4
<1>5. QED
  BY <1>3, <1>4

\* after_RLock and its companions change the record of one thread and one count
\* of its process's object alike.
LEMMA AfterExact ==
  ASSUME Local, CountsExact, NEW t \in Thread,
         \/ after_RLock(t) /\ thread_data[t] = "none"
         \/ after_WLock(t) /\ thread_data[t] = "none"
         \/ after_RUnLock(t) /\ thread_data[t] = "R"
         \/ after_WUnLock(t) /\ thread_data[t] = "W"
  PROVE  CountsExact'
<1> DEFINE R == Holding("R")
           W == Holding("W")
<1>1. /\ R \in SUBSET Thread /\ W \in SUBSET Thread /\ ProcessOf[t] \in Process
      /\ count_RLock \in [Process -> Int] /\ count_WLock \in [Process -> Int]
      /\ thread_data \in [Thread -> {"none", "R", "W"}]
  BY ProcessAssumption DEF Holding, Local, Shape
<1>2. /\ \A p \in Process : count_RLock[p] = Cardinality(R \intersect ThreadsOf(p))
      /\ \A p \in Process : count_WLock[p] = Cardinality(W \intersect ThreadsOf(p))
  BY DEF CountsExact
<1>3. CASE after_RLock(t) /\ thread_data[t] = "none"
  <2>1. t \notin R /\ R' = R \union {t} /\ W' = W
    BY <1>1, <1>3 DEF after_RLock, Holding
  <2>2. Shifts(R, R', t, 1) /\ R' \in SUBSET Thread
    BY <1>1, <2>1, AddShifts
  <2>3. /\ count_RLock' \in [Process -> Int]
        /\ \A p \in Process : count_RLock'[p] = IF p = ProcessOf[t] THEN count_RLock[p] + (1) ELSE count_RLock[p]
    BY <1>1, <1>3 DEF after_RLock
  <2>4. \A p \in Process : count_RLock'[p] = Cardinality(R' \intersect ThreadsOf(p))
    BY <1>1, <1>2, <2>2, <2>3, CountShifts
  <2>5. \A p \in Process : count_WLock'[p] = Cardinality(W' \intersect ThreadsOf(p))
    BY <1>2, <1>3, <2>1 DEF after_RLock
  <2>6. QED
    BY <2>4, <2>5 DEF CountsExact, ThreadsOf
<1>4. CASE after_WLock(t) /\ thread_data[t] = "none"
  <2>1. t \notin W /\ W' = W \union {t} /\ R' = R
    BY <1>1, <1>4 DEF after_WLock, Holding
  <2>2. Shifts(W, W', t, 1) /\ W' \in SUBSET Thread
    BY <1>1, <2>1, AddShifts
  <2>3. /\ count_WLock' \in [Process -> Int]
        /\ \A p \in Process : count_WLock'[p] = IF p = ProcessOf[t] THEN count_WLock[p] + (1) ELSE count_WLock[p]
    BY <1>1, <1>4 DEF after_WLock
  <2>4. \A p \in Process : count_WLock'[p] = Cardinality(W' \intersect ThreadsOf(p))
    BY <1>1, <1>2, <2>2, <2>3, CountShifts
  <2>5. \A p \in Process : count_RLock'[p] = Cardinality(R' \intersect ThreadsOf(p))
    BY <1>2, <1>4, <2>1 DEF after_WLock
  <2>6. QED
    BY <2>4, <2>5 DEF CountsExact, ThreadsOf
<1>5. CASE after_RUnLock(t) /\ thread_data[t] = "R"
  <2>1. t \in R /\ R' = R \ {t} /\ W' = W
    BY <1>1, <1>5 DEF after_RUnLock, Holding
  <2>2. Shifts(R, R', t, -1) /\ R' \in SUBSET Thread
    BY <1>1, <2>1, RemoveShifts
  <2>3. /\ count_RLock' \in [Process -> Int]
        /\ \A p \in Process : count_RLock'[p] = IF p = ProcessOf[t] THEN count_RLock[p] + (-1) ELSE count_RLock[p]
    BY <1>1, <1>5 DEF after_RUnLock
  <2>4. \A p \in Process : count_RLock'[p] = Cardinality(R' \intersect ThreadsOf(p))
    BY <1>1, <1>2, <2>2, <2>3, CountShifts
  <2>5. \A p \in Process : count_WLock'[p] = Cardinality(W' \intersect ThreadsOf(p))
    BY <1>2, <1>5, <2>1 DEF after_RUnLock
  <2>6. QED
    BY <2>4, <2>5 DEF CountsExact, ThreadsOf
<1>6. CASE after_WUnLock(t) /\ thread_data[t] = "W"
  <2>1. t \in W /\ W' = W \ {t} /\ R' = R
    BY <1>1, <1>6 DEF after_WUnLock, Holding
  <2>2. Shifts(W, W', t, -1) /\ W' \in SUBSET Thread
    BY <1>1, <2>1, RemoveShifts
  <2>3. /\ count_WLock' \in [Process -> Int]
        /\ \A p \in Process : count_WLock'[p] = IF p = ProcessOf[t] THEN count_WLock[p] + (-1) ELSE count_WLock[p]
    BY <1>1, <1>6 DEF after_WUnLock
  <2>4. \A p \in Process : count_WLock'[p] = Cardinality(W' \intersect ThreadsOf(p))
    BY <1>1, <1>2, <2>2, <2>3, CountShifts
  <2>5. \A p \in Process : count_RLock'[p] = Cardinality(R' \intersect ThreadsOf(p))
    BY <1>2, <1>6, <2>1 DEF after_WUnLock
  <2>6. QED
    BY <2>4, <2>5 DEF CountsExact, ThreadsOf
<1>7. QED
  BY <1>3, <1>4, <1>5, <1>6

\* Every step keeps the objects' counters exact.
LEMMA CountsInductive ==
  ASSUME Local, CountsExact, [Next]_vars
  PROVE  CountsExact'
<1>1. ASSUME UNCHANGED objs
      PROVE  CountsExact'
  BY <1>1 DEF objs, CountsExact, Holding, ThreadsOf
<1>2. ASSUME NEW t \in Thread, Call(t)
      PROVE  CountsExact'
  BY <1>1, <1>2, AfterExact DEF Call, RLock, WLock, MayLock
<1>3. ASSUME NEW t \in Thread, InLock(t) \/ RLock_Fail(t) \/ WLock_Eintr(t)
      PROVE  CountsExact'
  <2>1. CASE RLock_Enter(t) \/ WLock_Enter(t)
    BY <2>1, AfterExact DEF RLock_Enter, WLock_Enter, Local, PlaceAgrees
  <2>2. CASE ~(RLock_Enter(t) \/ WLock_Enter(t))
    BY <1>1, <1>3, <2>2
       DEF InLock, RLock_Fail, WLock_Announce, WLock_Eagain, WLock_Withdraw, WLock_Eintr
  <2>3. QED
    BY <2>1, <2>2
<1>4. ASSUME NEW t \in Thread, Unlock(t)
      PROVE  CountsExact'
  BY <1>4, AfterExact DEF Unlock, RUnLock, WUnLock, MayRUnLock, MayWUnLock
<1>5. ASSUME NEW p \in Process, Die(p)
      PROVE  CountsExact'
  <2>1. /\ count_RLock \in [Process -> Int] /\ count_WLock \in [Process -> Int]
        /\ count_RLock' = [count_RLock EXCEPT ![p] = 0]
        /\ count_WLock' = [count_WLock EXCEPT ![p] = 0]
    BY <1>5 DEF Die, Local, Shape
  <2>2. /\ Holding("R")' = Holding("R") \ ThreadsOf(p)
        /\ Holding("W")' = Holding("W") \ ThreadsOf(p)
    BY <1>5 DEF Die, Holding
  <2>3. ASSUME NEW q \in Process
        PROVE  /\ count_RLock'[q] = Cardinality(Holding("R")' \intersect ThreadsOf(q))
               /\ count_WLock'[q] = Cardinality(Holding("W")' \intersect ThreadsOf(q))
    <3>1. CASE q = p
      <4>1. /\ Holding("R")' \intersect ThreadsOf(q) = {}
            /\ Holding("W")' \intersect ThreadsOf(q) = {}
        BY <2>2, <3>1
      <4>2. QED
        BY <2>1, <3>1, <4>1, FS_EmptySet
    <3>2. CASE q # p
      <4>1. /\ Holding("R")' \intersect ThreadsOf(q) = Holding("R") \intersect ThreadsOf(q)
            /\ Holding("W")' \intersect ThreadsOf(q) = Holding("W") \intersect ThreadsOf(q)
        BY <2>2, <3>2 DEF ThreadsOf
      <4>2. QED
        BY <2>1, <3>2, <4>1 DEF CountsExact
    <3>3. QED
      BY <3>1, <3>2
  <2>4. QED
    BY <2>3 DEF CountsExact, ThreadsOf
<1>6. ASSUME NEW p \in Process, NEW b \in BOOLEAN, SetIngore(p, b)
      PROVE  CountsExact'
  BY <1>1, <1>6 DEF SetIngore
<1>7. CASE UNCHANGED vars
  BY <1>1, <1>7 DEF vars
<1>8. QED
  BY <1>2, <1>3, <1>4, <1>5, <1>6, <1>7 DEF Next

-----------------------------------------------------------------------------
(* The invariant and what follows from it *)

\* Every step of a thread keeps the semaphores and the undo records exact.
LEMMA ThreadExact ==
  ASSUME Local, SemExact, UndoExact, NEW t \in Thread,
         Call(t) \/ InLock(t) \/ Unlock(t) \/ RLock_Fail(t) \/ WLock_Eintr(t)
  PROVE  SemExact' /\ UndoExact'
<1>1. CASE \/ RLock_Enter(t) \/ WLock_Announce(t) \/ WLock_Enter(t) \/ WLock_Withdraw(t)
           \/ (Unlock(t) /\ ~Ignored(t))
  BY <1>1, SemopsExact
<1>2. CASE WLock_Eintr(t)
  BY <1>2, EintrExact
<1>3. CASE Call(t) \/ RLock_Fail(t) \/ WLock_Eagain(t)
  <2>1. SameHolders
    BY <1>3, ThreadHolders
  <2>2. UNCHANGED kernel /\ interrupts' = interrupts
    BY <1>3 DEF Call, RLock, WLock, RLock_Fail, WLock_Eagain
  <2>3. QED
    BY <2>1, <2>2, QuietStep
<1>4. CASE Unlock(t) /\ Ignored(t)
  <2>1. SameHolders
    BY <1>4, UnlockHolders
  <2>2. UNCHANGED kernel /\ interrupts' = interrupts
    BY <1>4 DEF Unlock, RUnLock, WUnLock
  <2>3. QED
    BY <2>1, <2>2, QuietStep
<1>5. QED
  BY <1>1, <1>2, <1>3, <1>4 DEF InLock

\* IInv is inductive.
LEMMA IInvInductive == IInv /\ [Next]_vars => IInv'
<1> SUFFICES ASSUME IInv, [Next]_vars
             PROVE  IInv'
  OBVIOUS
<1> USE DEF IInv
<1>1. Local' /\ Exclusion' /\ CountsExact'
  BY LocalInductive, ExclusionInductive, CountsInductive
<1>2. ASSUME NEW t \in Thread,
             Call(t) \/ InLock(t) \/ Unlock(t) \/ RLock_Fail(t) \/ WLock_Eintr(t)
      PROVE  SemExact' /\ UndoExact'
  BY <1>2, ThreadExact
<1>3. ASSUME NEW p \in Process, Die(p)
      PROVE  SemExact' /\ UndoExact'
  BY <1>3, DieExact
<1>4. ASSUME NEW p \in Process, NEW b \in BOOLEAN, SetIngore(p, b)
      PROVE  SemExact' /\ UndoExact'
  <2>1. SameHolders
    BY <1>4, ProcessHolders
  <2>2. UNCHANGED kernel /\ interrupts' = interrupts
    BY <1>4 DEF SetIngore
  <2>3. QED
    BY <2>1, <2>2, QuietStep
<1>5. ASSUME UNCHANGED vars
      PROVE  SemExact' /\ UndoExact'
  <2>1. SameHolders /\ UNCHANGED kernel /\ interrupts' = interrupts
    BY <1>5 DEF vars, objs, kernel, SameHolders, Readers, Writers, Wanting, Ignored
  <2>2. QED
    BY <2>1, QuietStep
<1>6. SemExact' /\ UndoExact'
  BY <1>2, <1>3, <1>4, <1>5 DEF Next
<1>7. QED
  BY <1>1, <1>6

\* The set as Create() makes it: nobody holds the lock, waits or has left
\* anything to undo.
LEMMA IInvInit == Init => IInv
<1> SUFFICES ASSUME Init
             PROVE  IInv
  OBVIOUS
<1>1. Readers = {} /\ Writers = {} /\ Wanting = {} /\ Holding("R") = {} /\ Holding("W") = {}
  BY DEF Init, Readers, Writers, Wanting, Holding
<1>2. Leaks = {}
  BY MaxInterruptAssumption DEF Init, Leaks
<1>3. IsFiniteSet({}) /\ Cardinality({}) = 0
  BY FS_EmptySet
<1>4. SemExact
  BY <1>1, <1>2, <1>3 DEF Init, InitialSem, Semaphore, SemExact
<1>5. UndoExact
  <2>1. Op(0, -0, -0, -(0 + 0 + 0)) = [i \in Semaphore |-> 0]
    BY DEF Op, Semaphore
  <2>2. ASSUME NEW p \in Process
        PROVE  semadj[p] = [i \in Semaphore |-> 0] /\ interrupts[p] = 0
    BY DEF Init
  <2>3. \A p \in Process : {} \intersect ThreadsOf(p) = {}
    OBVIOUS
  <2>4. QED
    BY <1>1, <1>3, <2>1, <2>2, <2>3 DEF UndoExact
<1>6. CountsExact
  <2>1. \A p \in Process : {} \intersect ThreadsOf(p) = {}
    OBVIOUS
  <2>2. QED
    BY <1>1, <1>3, <2>1 DEF Init, CountsExact
<1>7. Exclusion
  BY <1>1 DEF Exclusion
<1>8. Local
  BY InitTypes DEF Init, Local, PlaceAgrees
<1>9. QED
  BY <1>4, <1>5, <1>6, <1>7, <1>8 DEF IInv

\* The inductive invariant holds always.
LEMMA Invariant == Spec => []IInv
<1>1. QED
  BY IInvInit, IInvInductive, PTL DEF Spec

\* Type correctness of the semaphore lock (src/function/mymutex1.h): no
\* semaphore goes below zero, the writers' turn is never given twice and the
\* counters of the objects never go below zero, whatever is interrupted and
\* whichever process dies.
THEOREM TypeCorrect == Spec => []TypeOK
<1>1. ASSUME IInv
      PROVE  TypeOK
  <2>1. Shape
    BY <1>1 DEF IInv, Local
  <2>2. /\ Cardinality(Readers) \in Nat /\ Cardinality(Writers) \in Nat
        /\ Cardinality(Wanting) \in Nat /\ Cardinality(Leaks) \in Nat
    BY <1>1, HoldersAreThreads, ThreadsFinite, FS_CardinalityType DEF IInv, SemExact
  <2>3. Cardinality(Writers) = 0 \/ Cardinality(Writers) = 1
    BY <1>1, FewWriters DEF IInv
  <2>4. sem[0] \in 0..1 /\ sem[1] \in Nat /\ sem[2] \in Nat /\ sem[3] \in Nat
    BY <1>1, <2>2, <2>3 DEF IInv, SemExact
  <2>5. sem \in [Semaphore -> Nat] /\ sem[0] <= 1
    BY <2>1, <2>4 DEF Shape, Semaphore
  <2>6. ASSUME NEW p \in Process
        PROVE  count_RLock[p] \in Nat /\ count_WLock[p] \in Nat
    <3>1. Holding("R") \in SUBSET Thread /\ Holding("W") \in SUBSET Thread
      BY DEF Holding
    <3>2. QED
      BY <1>1, <3>1, ThreadsFinite DEF IInv, CountsExact
  <2>7. count_RLock \in [Process -> Nat] /\ count_WLock \in [Process -> Nat]
    BY <2>1, <2>6 DEF Shape
  <2>8. QED
    BY <2>1, <2>5, <2>7 DEF Shape, TypeOK
<1>2. QED
  BY <1>1, Invariant, PTL

\* A writer excludes every reader and every other writer (RLock, WLock, their
\* Try forms and unlocks in mymutex1.h), for any threads and processes,
\* whichever of them are killed inside the lock.
THEOREM MutualExclusion == Spec => []Exclusion
<1>1. IInv => Exclusion
  BY DEF IInv
<1>2. QED
  BY <1>1, Invariant, PTL

\* What the kernel will undo for a process (SEM_UNDO on every sembuf of
\* mymutex1.h) is what its threads hold and have announced and what its
\* interrupted WLocks left.
THEOREM UndoIsExact == Spec => []UndoExact
<1>1. IInv => UndoExact
  BY DEF IInv
<1>2. QED
  BY <1>1, Invariant, PTL

-----------------------------------------------------------------------------
(* The refinement of RWLock *)

\* A step of a thread is a step of RWLock, or stutters.
LEMMA ThreadRefines ==
  ASSUME IInv, NEW t \in Thread,
         Call(t) \/ InLock(t) \/ Unlock(t) \/ RLock_Fail(t) \/ WLock_Eintr(t)
  PROVE  [Promise!Next]_(Promise!vars)
<1> USE ThreadHolders, UnlockHolders DEF IInv, Promise!vars
<1>1. CASE RLock_Enter(t)
  <2>1. Promise!AcquireR(t)
    BY <1>1, EnterAlone DEF Promise!AcquireR
  <2>2. QED
    BY <2>1 DEF Promise!Next
<1>2. CASE WLock_Announce(t)
  <2>1. Promise!Announce(t)
    BY <1>2 DEF Promise!Announce
  <2>2. QED
    BY <2>1 DEF Promise!Next
<1>3. CASE WLock_Enter(t)
  <2>1. Promise!AcquireW(t)
    BY <1>3, EnterAlone DEF Promise!AcquireW
  <2>2. QED
    BY <2>1 DEF Promise!Next
<1>4. CASE WLock_Withdraw(t) \/ WLock_Eintr(t)
  <2>1. Promise!Withdraw(t)
    BY <1>4 DEF Promise!Withdraw
  <2>2. QED
    BY <2>1 DEF Promise!Next
<1>5. CASE RUnLock(t) /\ ~Ignored(t)
  <2>1. Promise!ReleaseR(t)
    BY <1>5 DEF Promise!ReleaseR
  <2>2. QED
    BY <2>1 DEF Promise!Next
<1>6. CASE WUnLock(t) /\ ~Ignored(t)
  <2>1. Promise!ReleaseW(t)
    BY <1>6 DEF Promise!ReleaseW
  <2>2. QED
    BY <2>1 DEF Promise!Next
<1>7. CASE \/ Call(t) \/ RLock_Fail(t) \/ WLock_Eagain(t)
           \/ (Unlock(t) /\ Ignored(t))
  BY <1>7 DEF SameHolders
<1>8. QED
  BY <1>1, <1>2, <1>3, <1>4, <1>5, <1>6, <1>7 DEF InLock, Unlock

\* CSemRWMutex keeps the promise of RWLock, and the death of a process gives
\* back at once all that its threads held and wanted: SEM_UNDO makes it the
\* abstract step Restore.
THEOREM RefinesRWLock == Spec => ImplementsRWLock
<1>1. Init => Promise!Init
  BY DEF Init, Promise!Init, Readers, Writers, Wanting
<1>2. IInv /\ [Next]_vars => [Promise!Next]_(Promise!vars)
  <2> SUFFICES ASSUME IInv, [Next]_vars
               PROVE  [Promise!Next]_(Promise!vars)
    OBVIOUS
  <2>1. ASSUME NEW t \in Thread,
               Call(t) \/ InLock(t) \/ Unlock(t) \/ RLock_Fail(t) \/ WLock_Eintr(t)
        PROVE  [Promise!Next]_(Promise!vars)
    BY <2>1, ThreadRefines
  <2>2. ASSUME NEW p \in Process, Die(p)
        PROVE  [Promise!Next]_(Promise!vars)
    <3>1. Promise!Restore(ThreadsOf(p))
      BY <2>2, ProcessHolders DEF IInv, Promise!Restore
    <3>2. QED
      BY <3>1 DEF Promise!Next
  <2>3. ASSUME NEW p \in Process, NEW b \in BOOLEAN, SetIngore(p, b)
        PROVE  [Promise!Next]_(Promise!vars)
    BY <2>3, ProcessHolders DEF IInv, SameHolders, Promise!vars
  <2>4. CASE UNCHANGED vars
    BY <2>4 DEF vars, objs, Readers, Writers, Wanting, Ignored, Promise!vars
  <2>5. QED
    BY <2>1, <2>2, <2>3, <2>4 DEF Next
<1>3. QED
  BY <1>1, <1>2, Invariant, PTL DEF Spec, ImplementsRWLock, Promise!Spec
=============================================================================
