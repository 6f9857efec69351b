------------------------- MODULE AtomicRWMutexProofs -------------------------
(***************************************************************************)
(* Proofs about AtomicRWMutex, for any finite set of threads, any number   *)
(* of processes and any number of deaths: its types, that a writer         *)
(* excludes everybody, that the shared counters and those of the objects   *)
(* are exact, and that it implements RWLock.                               *)
(***************************************************************************)
EXTENDS AtomicRWMutex, FiniteSetTheorems, TLAPS

-----------------------------------------------------------------------------
(* Type correctness *)

\* A critical section of the spin-flag lock keeps the types.
LEMMA SectionTypes ==
  ASSUME Shape, NEW t \in Thread, Section(t), dead' = dead
  PROVE  Shape'
<1> USE ObjectAssumption
    DEF Shape, Section, RLock_Enter, RLock_Refused, RUnLock_Leave,
        WLock_Announce, WLock_Enter, WLock_Refused, WUnLock_Leave,
        Goto, _UnLock, sem, objs,
        after_RLock, after_WLock, after_RUnLock, after_WUnLock
<1>1. R_count' \in Int /\ W_wait' \in Int
  OBVIOUS
<1>2. flag' \in BOOLEAN /\ OnW' \in BOOLEAN
  OBVIOUS
<1>3. pc' \in [Thread -> Place]
  BY DEF Place, Spinning
<1>4. noWait' \in [Thread -> BOOLEAN] /\ isIngore' \in [Object -> BOOLEAN]
  OBVIOUS
<1>5. thread_data' \in [Thread -> {"none", "R", "W"}]
  OBVIOUS
<1>6. count_RLock' \in [Object -> Int] /\ count_WLock' \in [Object -> Int]
  OBVIOUS
<1>7. dead' \in SUBSET Thread
  OBVIOUS
<1>8. QED
  BY <1>1, <1>2, <1>3, <1>4, <1>5, <1>6, <1>7

\* A call, ignored or not, and taking the flag keep the types.
LEMMA CallTypes ==
  ASSUME Shape, NEW t \in Thread, Call(t) \/ _Lock(t), dead' = dead
  PROVE  Shape'
<1> USE ObjectAssumption
    DEF Shape, Call, RLock, WLock, RUnLock, WUnLock, _Lock, Goto, sem, objs,
        after_RLock, after_WLock, after_RUnLock, after_WUnLock
<1>1. R_count' \in Int /\ W_wait' \in Int
  OBVIOUS
<1>2. flag' \in BOOLEAN /\ OnW' \in BOOLEAN
  OBVIOUS
<1>3. pc' \in [Thread -> Place]
  BY DEF Place, Spinning, Inside, EnterOf
<1>4. noWait' \in [Thread -> BOOLEAN] /\ isIngore' \in [Object -> BOOLEAN]
  OBVIOUS
<1>5. thread_data' \in [Thread -> {"none", "R", "W"}]
  OBVIOUS
<1>6. count_RLock' \in [Object -> Int] /\ count_WLock' \in [Object -> Int]
  OBVIOUS
<1>7. dead' \in SUBSET Thread
  OBVIOUS
<1>8. QED
  BY <1>1, <1>2, <1>3, <1>4, <1>5, <1>6, <1>7

\* Init puts every variable in its range.
LEMMA InitTypes == Init => Shape
<1> SUFFICES ASSUME Init
             PROVE  Shape
  OBVIOUS
<1> USE DEF Init
<1>1. R_count \in Int /\ W_wait \in Int
  OBVIOUS
<1>2. count_RLock \in [Object -> Int] /\ count_WLock \in [Object -> Int]
  OBVIOUS
<1>3. flag \in BOOLEAN /\ OnW \in BOOLEAN /\ dead \in SUBSET Thread
  BY Zenon
<1>4. noWait \in [Thread -> BOOLEAN] /\ isIngore \in [Object -> BOOLEAN]
  BY Zenon
<1>5. pc \in [Thread -> Place] /\ thread_data \in [Thread -> {"none", "R", "W"}]
  BY Zenon DEF Place
<1>6. QED
  BY <1>1, <1>2, <1>3, <1>4, <1>5 DEF Shape

\* Every step keeps the types.
LEMMA NextTypes == Shape /\ [Next]_vars => Shape'
<1> SUFFICES ASSUME Shape, [Next]_vars
             PROVE  Shape'
  OBVIOUS
<1>1. ASSUME NEW t \in Thread, Step(t)
      PROVE  Shape'
  BY <1>1, SectionTypes, CallTypes DEF Step
<1>2. ASSUME NEW t \in Thread, Crash(t)
      PROVE  Shape'
  BY <1>2 DEF Crash, Shape, sem, objs
<1>3. ASSUME NEW o \in Object, NEW b \in BOOLEAN, SetIngore(o, b)
      PROVE  Shape'
  BY <1>3 DEF SetIngore, Shape, sem, objs
<1>4. CASE UNCHANGED vars
  BY <1>4 DEF vars, Shape, sem, objs
<1>5. QED
  BY <1>1, <1>2, <1>3, <1>4 DEF Next


-----------------------------------------------------------------------------
(* The spin flag and the threads' own records *)

\* No step of the lock puts two threads between _Lock() and _UnLock().
LEMMA FlagInductive ==
  ASSUME Local, NEW t \in Thread, Call(t) \/ _Lock(t) \/ Section(t)
  PROVE  FlagExclusive'
<1> USE DEF Local, Shape, FlagExclusive
<1>1. CASE Call(t)
  BY <1>1 DEF Call, RLock, WLock, RUnLock, WUnLock, Goto, sem, Inside
<1>2. CASE _Lock(t)
  BY <1>2 DEF _Lock, Goto, Inside
<1>3. CASE Section(t)
  BY <1>3 DEF Section, RLock_Enter, RLock_Refused, RUnLock_Leave, WLock_Announce,
       WLock_Enter, WLock_Refused, WUnLock_Leave, Goto, Inside
<1>4. QED
  BY <1>1, <1>2, <1>3

\* Every step of the lock leaves a thread where its thread_data says.
LEMMA PlaceInductive ==
  ASSUME Local, NEW t \in Thread, Call(t) \/ _Lock(t) \/ Section(t)
  PROVE  PlaceAgrees'
<1> USE ObjectAssumption DEF Local, Shape, PlaceAgrees, Ignored, Goto
<1>1. CASE Call(t)
  BY <1>1 DEF Call, RLock, WLock, RUnLock, WUnLock, objs, MayLock, MayRUnLock, MayWUnLock,
       after_RLock, after_WLock, after_RUnLock, after_WUnLock
<1>2. CASE _Lock(t)
  BY <1>2 DEF _Lock, EnterOf, Spinning, objs
<1>3. CASE Section(t)
  BY <1>3 DEF Section, RLock_Enter, RLock_Refused, RUnLock_Leave, WLock_Announce,
       WLock_Enter, WLock_Refused, WUnLock_Leave, objs,
       after_RLock, after_WLock, after_RUnLock, after_WUnLock
<1>4. QED
  BY <1>1, <1>2, <1>3

\* Local is inductive.
LEMMA LocalInductive == Local /\ [Next]_vars => Local'
<1> SUFFICES ASSUME Local, [Next]_vars
             PROVE  Local'
  OBVIOUS
<1>1. Shape'
  BY NextTypes DEF Local
<1>2. ASSUME NEW t \in Thread, Step(t)
      PROVE  FlagExclusive' /\ PlaceAgrees'
  BY <1>2, FlagInductive, PlaceInductive DEF Step
<1>3. ASSUME NEW t \in Thread, Crash(t)
      PROVE  FlagExclusive' /\ PlaceAgrees'
  BY <1>3 DEF Crash, Local, FlagExclusive, PlaceAgrees, Ignored, sem, objs
<1>4. ASSUME NEW o \in Object, NEW b \in BOOLEAN, SetIngore(o, b)
      PROVE  FlagExclusive' /\ PlaceAgrees'
  <2> USE <1>4, ObjectAssumption DEF SetIngore, Local, sem, objs
  <2>1. FlagExclusive'
    BY DEF FlagExclusive
  <2>2. ASSUME NEW t \in Thread, pc[t] # "idle"
        PROVE  Ignored(t)' = Ignored(t)
    BY <2>2 DEF Ignored, Shape
  <2>3. PlaceAgrees'
    BY <2>2 DEF PlaceAgrees
  <2>4. QED
    BY <2>1, <2>3
<1>5. CASE UNCHANGED vars
  <2>1. FlagExclusive'
    BY <1>5 DEF vars, sem, Local, FlagExclusive
  <2>2. pc' = pc /\ thread_data' = thread_data /\ isIngore' = isIngore
    BY <1>5 DEF vars, objs
  <2>3. PlaceAgrees'
    <3>1. PlaceAgrees
      BY DEF Local
    <3>2. QED
      BY <2>2, <3>1 DEF PlaceAgrees, Ignored
  <2>4. QED
    BY <1>1, <2>1, <2>3 DEF Local
<1>6. QED
  BY <1>1, <1>2, <1>3, <1>4, <1>5 DEF Next, Local

-----------------------------------------------------------------------------
(* What each step does to the holders and the waiting writers *)

SameHolders == Readers' = Readers /\ Writers' = Writers /\ Wanting' = Wanting

\* Making a call, taking the flag, and being refused without giving up change
\* neither who holds the lock nor who waits for it.
LEMMA CallKeepsHolders ==
  ASSUME Local, NEW t \in Thread, Call(t) \/ _Lock(t)
  PROVE  SameHolders
<1> USE ObjectAssumption
    DEF Local, Shape, PlaceAgrees, Ignored, Goto, SameHolders, Readers, Writers, Wanting
<1>1. CASE Call(t)
  BY <1>1 DEF Call, RLock, WLock, RUnLock, WUnLock, objs, MayLock, MayRUnLock, MayWUnLock,
       after_RLock, after_WLock, after_RUnLock, after_WUnLock
<1>2. CASE _Lock(t)
  BY <1>2 DEF _Lock, EnterOf, Spinning, objs
<1>3. QED
  BY <1>1, <1>2

\* A critical section makes its own thread enter, leave, ask or give up, and
\* changes nobody else.
LEMMA SectionHolders ==
  ASSUME Local, NEW t \in Thread
  PROVE  /\ RLock_Enter(t) => /\ t \notin Readers
                              /\ Readers' = Readers \union {t}
                              /\ Writers' = Writers /\ Wanting' = Wanting
         /\ RLock_Refused(t) => SameHolders
         /\ RUnLock_Leave(t) => /\ t \in Readers
                                /\ Readers' = Readers \ {t}
                                /\ Writers' = Writers /\ Wanting' = Wanting
         /\ WLock_Announce(t) => /\ t \notin Readers \union Writers \union Wanting
                                 /\ Wanting' = Wanting \union {t}
                                 /\ Readers' = Readers /\ Writers' = Writers
         /\ WLock_Enter(t) => /\ t \in Wanting
                              /\ Wanting' = Wanting \ {t}
                              /\ Writers' = Writers \union {t}
                              /\ Readers' = Readers
         /\ WLock_Refused(t) => IF noWait[t]
                                THEN /\ t \in Wanting
                                     /\ Wanting' = Wanting \ {t}
                                     /\ Readers' = Readers /\ Writers' = Writers
                                ELSE SameHolders
         /\ WUnLock_Leave(t) => /\ t \in Writers
                                /\ Writers' = Writers \ {t}
                                /\ Readers' = Readers /\ Wanting' = Wanting
<1> USE ObjectAssumption
    DEF Local, Shape, PlaceAgrees, Ignored, Goto, SameHolders, Readers, Writers, Wanting, objs,
        after_RLock, after_WLock, after_RUnLock, after_WUnLock
<1>1. RLock_Enter(t) => /\ t \notin Readers
                        /\ Readers' = Readers \union {t}
                        /\ Writers' = Writers /\ Wanting' = Wanting
  BY DEF RLock_Enter
<1>2. RLock_Refused(t) => SameHolders
  BY DEF RLock_Refused
<1>3. RUnLock_Leave(t) => /\ t \in Readers
                          /\ Readers' = Readers \ {t}
                          /\ Writers' = Writers /\ Wanting' = Wanting
  BY DEF RUnLock_Leave
<1>4. WLock_Announce(t) => /\ t \notin Readers \union Writers \union Wanting
                           /\ Wanting' = Wanting \union {t}
                           /\ Readers' = Readers /\ Writers' = Writers
  BY DEF WLock_Announce
<1>5. WLock_Enter(t) => /\ t \in Wanting
                        /\ Wanting' = Wanting \ {t}
                        /\ Writers' = Writers \union {t}
                        /\ Readers' = Readers
  BY DEF WLock_Enter
<1>6. WLock_Refused(t) => IF noWait[t]
                          THEN /\ t \in Wanting
                               /\ Wanting' = Wanting \ {t}
                               /\ Readers' = Readers /\ Writers' = Writers
                          ELSE SameHolders
  BY DEF WLock_Refused
<1>7. WUnLock_Leave(t) => /\ t \in Writers
                          /\ Writers' = Writers \ {t}
                          /\ Readers' = Readers /\ Wanting' = Wanting
  BY DEF WUnLock_Leave
<1>8. QED
  BY <1>1, <1>2, <1>3, <1>4, <1>5, <1>6, <1>7

\* The other steps leave the holders alone: a death keeps what the thread held,
\* and isIngore is switched for threads that hold nothing.
LEMMA OthersKeepHolders ==
  ASSUME Local, \/ \E t \in Thread : Crash(t)
                \/ \E o \in Object, b \in BOOLEAN : SetIngore(o, b)
                \/ UNCHANGED vars
  PROVE  SameHolders /\ OnW' = OnW /\ R_count' = R_count /\ W_wait' = W_wait
<1> USE DEF SameHolders, Readers, Writers, Wanting, sem, objs
<1>1. ASSUME NEW t \in Thread, Crash(t)
      PROVE  SameHolders /\ OnW' = OnW /\ R_count' = R_count /\ W_wait' = W_wait
  BY <1>1 DEF Crash, Ignored
<1>2. ASSUME NEW o \in Object, NEW b \in BOOLEAN, SetIngore(o, b)
      PROVE  SameHolders /\ OnW' = OnW /\ R_count' = R_count /\ W_wait' = W_wait
  <2>1. ASSUME NEW t \in Thread, thread_data[t] # "none"
        PROVE  Ignored(t)' = Ignored(t)
    BY <1>2, <2>1, ObjectAssumption DEF SetIngore, Ignored, Local, Shape
  <2>2. thread_data' = thread_data /\ pc' = pc
    BY <1>2 DEF SetIngore
  <2>3. QED
    BY <1>2, <2>1, <2>2 DEF SetIngore
<1>3. CASE UNCHANGED vars
  BY <1>3 DEF vars, Ignored
<1>4. QED
  BY <1>1, <1>2, <1>3

-----------------------------------------------------------------------------
(* Mutual exclusion *)

\* The sets of holders and of waiting writers are finite.
LEMMA HoldersFinite ==
  /\ IsFiniteSet(Readers) /\ IsFiniteSet(Writers) /\ IsFiniteSet(Wanting)
<1>1. Readers \in SUBSET Thread /\ Writers \in SUBSET Thread /\ Wanting \in SUBSET Thread
  BY DEF Readers, Writers, Wanting
<1>2. QED
  BY <1>1, ThreadAssumption, FS_Subset

\* A critical section keeps the counters exact and the holders exclusive.
LEMMA SectionKeepsIInv ==
  ASSUME IInv, NEW t \in Thread, Section(t)
  PROVE  CountersExact' /\ Exclusion'
<1> USE HoldersFinite DEF IInv
<1>0. /\ R_count = Cardinality(Readers) /\ W_wait = Cardinality(Wanting)
      /\ OnW <=> Writers # {}
      /\ Cardinality(Readers) \in Nat /\ Cardinality(Wanting) \in Nat
  BY FS_CardinalityType DEF CountersExact
<1>1. CASE RLock_Enter(t)
  <2>1. /\ t \notin Readers /\ Readers' = Readers \union {t}
        /\ Writers' = Writers /\ Wanting' = Wanting
    BY <1>1, SectionHolders
  <2>2. R_count' = R_count + 1 /\ OnW' = OnW /\ W_wait' = W_wait /\ ~OnW
    BY <1>1 DEF RLock_Enter, ReadersMayEnter
  <2>3. Cardinality(Readers') = Cardinality(Readers) + 1
    BY <2>1, FS_AddElement
  <2>4. Writers' = {}
    BY <2>1, <2>2, <1>0
  <2>5. CountersExact'
    BY <1>0, <2>1, <2>2, <2>3 DEF CountersExact
  <2>6. QED
    BY <2>4, <2>5 DEF Exclusion
<1>2. CASE RLock_Refused(t)
  <2>1. SameHolders /\ R_count' = R_count /\ OnW' = OnW /\ W_wait' = W_wait
    BY <1>2, SectionHolders DEF RLock_Refused
  <2>2. QED
    BY <2>1 DEF SameHolders, CountersExact, Exclusion
<1>3. CASE RUnLock_Leave(t)
  <2>1. /\ t \in Readers /\ Readers' = Readers \ {t}
        /\ Writers' = Writers /\ Wanting' = Wanting
    BY <1>3, SectionHolders
  <2>2. R_count' = R_count - 1 /\ OnW' = OnW /\ W_wait' = W_wait
    BY <1>3 DEF RUnLock_Leave
  <2>3. Cardinality(Readers') = Cardinality(Readers) - 1
    BY <2>1, FS_RemoveElement
  <2>4. CountersExact'
    BY <1>0, <2>1, <2>2, <2>3 DEF CountersExact
  <2>5. QED
    BY <2>1, <2>4 DEF Exclusion
<1>4. CASE WLock_Announce(t)
  <2>1. /\ t \notin Wanting /\ Wanting' = Wanting \union {t}
        /\ Readers' = Readers /\ Writers' = Writers
    BY <1>4, SectionHolders
  <2>2. R_count' = R_count /\ OnW' = OnW /\ W_wait' = W_wait + 1
    BY <1>4 DEF WLock_Announce
  <2>3. Cardinality(Wanting') = Cardinality(Wanting) + 1
    BY <2>1, FS_AddElement
  <2>4. CountersExact'
    BY <1>0, <2>1, <2>2, <2>3 DEF CountersExact
  <2>5. QED
    BY <2>1, <2>4 DEF Exclusion
<1>5. CASE WLock_Enter(t)
  <2>1. /\ t \in Wanting /\ Wanting' = Wanting \ {t}
        /\ Readers' = Readers /\ Writers' = Writers \union {t}
    BY <1>5, SectionHolders
  <2>2. R_count' = R_count /\ W_wait' = W_wait - 1 /\ ~OnW /\ R_count = 0
    BY <1>5 DEF WLock_Enter, WriterMayEnter
  <2>3. OnW'
    BY <1>5 DEF WLock_Enter
  <2>4. Cardinality(Wanting') = Cardinality(Wanting) - 1
    BY <2>1, FS_RemoveElement
  <2>5. Readers = {} /\ Writers = {}
    BY <1>0, <2>2, FS_EmptySet
  <2>6. CountersExact'
    BY <1>0, <2>1, <2>2, <2>3, <2>4 DEF CountersExact
  <2>7. QED
    BY <2>1, <2>5, <2>6 DEF Exclusion
<1>6. CASE WLock_Refused(t) /\ noWait[t]
  <2>1. /\ t \in Wanting /\ Wanting' = Wanting \ {t}
        /\ Readers' = Readers /\ Writers' = Writers
    BY <1>6, SectionHolders
  <2>2. R_count' = R_count /\ OnW' = OnW /\ W_wait' = W_wait - 1
    BY <1>6 DEF WLock_Refused
  <2>3. Cardinality(Wanting') = Cardinality(Wanting) - 1
    BY <2>1, FS_RemoveElement
  <2>4. CountersExact'
    BY <1>0, <2>1, <2>2, <2>3 DEF CountersExact
  <2>5. QED
    BY <2>1, <2>4 DEF Exclusion
<1>7. CASE WLock_Refused(t) /\ ~noWait[t]
  <2>1. SameHolders /\ R_count' = R_count /\ OnW' = OnW /\ W_wait' = W_wait
    BY <1>7, SectionHolders DEF WLock_Refused
  <2>2. QED
    BY <2>1 DEF SameHolders, CountersExact, Exclusion
<1>8. CASE WUnLock_Leave(t)
  <2>1. /\ t \in Writers /\ Writers' = Writers \ {t}
        /\ Readers' = Readers /\ Wanting' = Wanting
    BY <1>8, SectionHolders
  <2>2. R_count' = R_count /\ W_wait' = W_wait /\ ~OnW'
    BY <1>8 DEF WUnLock_Leave
  <2>3. Writers' = {}
    BY <2>1 DEF Exclusion
  <2>4. CountersExact'
    BY <1>0, <2>1, <2>2, <2>3 DEF CountersExact
  <2>5. QED
    BY <2>3, <2>4 DEF Exclusion
<1>9. QED
  BY <1>1, <1>2, <1>3, <1>4, <1>5, <1>6, <1>7, <1>8 DEF Section

\* A step that changes neither the holders nor the counters keeps them exact.
LEMMA QuietStep ==
  ASSUME CountersExact, Exclusion, SameHolders,
         OnW' = OnW, R_count' = R_count, W_wait' = W_wait
  PROVE  CountersExact' /\ Exclusion'
BY DEF SameHolders, CountersExact, Exclusion

\* IInv is inductive.
LEMMA IInvInductive == IInv /\ [Next]_vars => IInv'
<1> SUFFICES ASSUME IInv, [Next]_vars
             PROVE  IInv'
  OBVIOUS
<1>1. Local'
  BY LocalInductive DEF IInv
<1>2. ASSUME NEW t \in Thread, Section(t)
      PROVE  CountersExact' /\ Exclusion'
  BY <1>2, SectionKeepsIInv
<1>3. ASSUME NEW t \in Thread, Call(t) \/ _Lock(t)
      PROVE  CountersExact' /\ Exclusion'
  <2>1. SameHolders
    BY <1>3, CallKeepsHolders DEF IInv
  <2>2. OnW' = OnW /\ R_count' = R_count /\ W_wait' = W_wait
    BY <1>3 DEF Call, RLock, WLock, RUnLock, WUnLock, _Lock, sem
  <2>3. QED
    BY <2>1, <2>2, QuietStep DEF IInv
<1>4. CASE \/ \E t \in Thread : Crash(t)
           \/ \E o \in Object, b \in BOOLEAN : SetIngore(o, b)
           \/ UNCHANGED vars
  <2>1. SameHolders /\ OnW' = OnW /\ R_count' = R_count /\ W_wait' = W_wait
    BY <1>4, OthersKeepHolders DEF IInv
  <2>2. QED
    BY <1>1, <2>1, QuietStep DEF IInv
<1>5. QED
  BY <1>1, <1>2, <1>3, <1>4 DEF Next, Step, IInv

\* The initial state satisfies IInv: nobody holds the lock or waits for it.
LEMMA IInvInit == Init => IInv
<1> SUFFICES ASSUME Init
             PROVE  IInv
  OBVIOUS
<1>1. Readers = {} /\ Writers = {} /\ Wanting = {}
  BY DEF Init, Readers, Writers, Wanting
<1>2. CountersExact
  BY <1>1, FS_EmptySet DEF Init, CountersExact
<1>3. \A t \in Thread : pc[t] = "idle"
  BY DEF Init
<1>4. FlagExclusive /\ PlaceAgrees
  BY <1>3 DEF FlagExclusive, PlaceAgrees, Inside
<1>5. QED
  BY <1>1, <1>2, <1>4, InitTypes DEF IInv, Local, Exclusion

\* The inductive invariant holds always.
LEMMA Invariant == Spec => []IInv
<1>1. QED
  BY IInvInit, IInvInductive, PTL DEF Spec

\* Type correctness of the spin-flag lock (src/function/mymutex2.h): RLock,
\* WLock, their unlocks, a crash and a switch of isIngore keep every
\* variable in its range, and R_count and W_wait never go below zero.
THEOREM TypeCorrect == Spec => []TypeOK
<1>1. IInv => TypeOK
  BY HoldersFinite, FS_CardinalityType DEF IInv, Local, CountersExact, TypeOK
<1>2. QED
  BY <1>1, Invariant, PTL

\* A writer excludes every reader and every other writer (RLock, WLock,
\* TryRLock, TryWLock and the unlocks of mymutex2.h), for any number of
\* threads and processes and whoever dies on the way.
THEOREM MutualExclusion == Spec => []Exclusion
<1>1. IInv => Exclusion
  BY DEF IInv
<1>2. QED
  BY <1>1, Invariant, PTL

\* OnW, R_count and W_wait always say exactly who holds the lock and how many
\* writers wait: no interleaving of the sections, refusals and crashes leaks
\* a count.
THEOREM CountersAreExact == Spec => []CountersExact
<1>1. IInv => CountersExact
  BY DEF IInv
<1>2. QED
  BY <1>1, Invariant, PTL

-----------------------------------------------------------------------------
(* The objects' own counters *)

\* The threads of an object whose records say what they hold, ignored or not.
Records(o, what) == {t \in Thread : ObjectOf[t] = o /\ thread_data[t] = what}

\* after_RLock and its companions change the record of one thread and one
\* counter of its object alike.
LEMMA AfterCounts ==
  ASSUME Shape, ObjectCountersExact, NEW t \in Thread, NEW o \in Object,
         \/ after_RLock(t) /\ thread_data[t] = "none"
         \/ after_WLock(t) /\ thread_data[t] = "none"
         \/ after_RUnLock(t) /\ thread_data[t] = "R"
         \/ after_WUnLock(t) /\ thread_data[t] = "W"
  PROVE  /\ count_RLock'[o] = Cardinality(Records(o, "R")')
         /\ count_WLock'[o] = Cardinality(Records(o, "W")')
<1>1. /\ count_RLock \in [Object -> Int] /\ count_WLock \in [Object -> Int]
      /\ thread_data \in [Thread -> {"none", "R", "W"}] /\ ObjectOf[t] \in Object
  BY ObjectAssumption DEF Shape
<1>2. IsFiniteSet(Records(o, "R")) /\ IsFiniteSet(Records(o, "W"))
  <2>1. Records(o, "R") \in SUBSET Thread /\ Records(o, "W") \in SUBSET Thread
    BY DEF Records
  <2>2. QED
    BY <2>1, ThreadAssumption, FS_Subset
<1>3. /\ count_RLock[o] = Cardinality(Records(o, "R"))
      /\ count_WLock[o] = Cardinality(Records(o, "W"))
  BY DEF ObjectCountersExact, Records
<1>4. CASE after_RLock(t) /\ thread_data[t] = "none"
  <2>1. /\ Records(o, "R")' = IF o = ObjectOf[t] THEN Records(o, "R") \union {t}
                                                   ELSE Records(o, "R")
        /\ t \notin Records(o, "R") /\ Records(o, "W")' = Records(o, "W")
    BY <1>1, <1>4 DEF after_RLock, Records
  <2>2. /\ count_RLock'[o] = IF o = ObjectOf[t] THEN count_RLock[o] + 1 ELSE count_RLock[o]
        /\ count_WLock'[o] = count_WLock[o]
    BY <1>1, <1>4 DEF after_RLock
  <2>3. CASE o = ObjectOf[t]
    <3>1. Cardinality(Records(o, "R")') = Cardinality(Records(o, "R")) + 1
      BY <1>2, <2>1, <2>3, FS_AddElement
    <3>2. QED
      BY <1>3, <2>1, <2>2, <2>3, <3>1
  <2>4. CASE o # ObjectOf[t]
    BY <1>3, <2>1, <2>2, <2>4
  <2>5. QED
    BY <2>3, <2>4
<1>5. CASE after_WLock(t) /\ thread_data[t] = "none"
  <2>1. /\ Records(o, "W")' = IF o = ObjectOf[t] THEN Records(o, "W") \union {t}
                                                   ELSE Records(o, "W")
        /\ t \notin Records(o, "W") /\ Records(o, "R")' = Records(o, "R")
    BY <1>1, <1>5 DEF after_WLock, Records
  <2>2. /\ count_WLock'[o] = IF o = ObjectOf[t] THEN count_WLock[o] + 1 ELSE count_WLock[o]
        /\ count_RLock'[o] = count_RLock[o]
    BY <1>1, <1>5 DEF after_WLock
  <2>3. CASE o = ObjectOf[t]
    <3>1. Cardinality(Records(o, "W")') = Cardinality(Records(o, "W")) + 1
      BY <1>2, <2>1, <2>3, FS_AddElement
    <3>2. QED
      BY <1>3, <2>1, <2>2, <2>3, <3>1
  <2>4. CASE o # ObjectOf[t]
    BY <1>3, <2>1, <2>2, <2>4
  <2>5. QED
    BY <2>3, <2>4
<1>6. CASE after_RUnLock(t) /\ thread_data[t] = "R"
  <2>1. /\ Records(o, "R")' = IF o = ObjectOf[t] THEN Records(o, "R") \ {t}
                                                   ELSE Records(o, "R")
        /\ (o = ObjectOf[t] => t \in Records(o, "R")) /\ Records(o, "W")' = Records(o, "W")
    BY <1>1, <1>6 DEF after_RUnLock, Records
  <2>2. /\ count_RLock'[o] = IF o = ObjectOf[t] THEN count_RLock[o] - 1 ELSE count_RLock[o]
        /\ count_WLock'[o] = count_WLock[o]
    BY <1>1, <1>6 DEF after_RUnLock
  <2>3. CASE o = ObjectOf[t]
    <3>1. Cardinality(Records(o, "R")') = Cardinality(Records(o, "R")) - 1
      BY <1>2, <2>1, <2>3, FS_RemoveElement
    <3>2. QED
      BY <1>3, <2>1, <2>2, <2>3, <3>1
  <2>4. CASE o # ObjectOf[t]
    BY <1>3, <2>1, <2>2, <2>4
  <2>5. QED
    BY <2>3, <2>4
<1>7. CASE after_WUnLock(t) /\ thread_data[t] = "W"
  <2>1. /\ Records(o, "W")' = IF o = ObjectOf[t] THEN Records(o, "W") \ {t}
                                                   ELSE Records(o, "W")
        /\ (o = ObjectOf[t] => t \in Records(o, "W")) /\ Records(o, "R")' = Records(o, "R")
    BY <1>1, <1>7 DEF after_WUnLock, Records
  <2>2. /\ count_WLock'[o] = IF o = ObjectOf[t] THEN count_WLock[o] - 1 ELSE count_WLock[o]
        /\ count_RLock'[o] = count_RLock[o]
    BY <1>1, <1>7 DEF after_WUnLock
  <2>3. CASE o = ObjectOf[t]
    <3>1. Cardinality(Records(o, "W")') = Cardinality(Records(o, "W")) - 1
      BY <1>2, <2>1, <2>3, FS_RemoveElement
    <3>2. QED
      BY <1>3, <2>1, <2>2, <2>3, <3>1
  <2>4. CASE o # ObjectOf[t]
    BY <1>3, <2>1, <2>2, <2>4
  <2>5. QED
    BY <2>3, <2>4
<1>8. QED
  BY <1>4, <1>5, <1>6, <1>7

\* Every step keeps the objects' counters exact.
LEMMA CountersInductive ==
  ASSUME Local, ObjectCountersExact, [Next]_vars
  PROVE  ObjectCountersExact'
<1>1. ASSUME UNCHANGED objs
      PROVE  ObjectCountersExact'
  BY <1>1 DEF objs, ObjectCountersExact
<1>2. ASSUME NEW t \in Thread,
             \/ after_RLock(t) /\ thread_data[t] = "none"
             \/ after_WLock(t) /\ thread_data[t] = "none"
             \/ after_RUnLock(t) /\ thread_data[t] = "R"
             \/ after_WUnLock(t) /\ thread_data[t] = "W"
      PROVE  ObjectCountersExact'
  BY <1>2, AfterCounts DEF Local, ObjectCountersExact, Records
<1>3. ASSUME NEW t \in Thread, Call(t)
      PROVE  ObjectCountersExact'
  BY <1>1, <1>2, <1>3 DEF Call, RLock, WLock, RUnLock, WUnLock, MayLock, MayRUnLock, MayWUnLock
<1>4. ASSUME NEW t \in Thread, _Lock(t)
      PROVE  ObjectCountersExact'
  BY <1>1, <1>4 DEF _Lock
<1>5. ASSUME NEW t \in Thread, Section(t)
      PROVE  ObjectCountersExact'
  <2>1. CASE RLock_Enter(t) \/ RUnLock_Leave(t) \/ WLock_Enter(t) \/ WUnLock_Leave(t)
    BY <1>2, <2>1 DEF RLock_Enter, RUnLock_Leave, WLock_Enter, WUnLock_Leave, Local, PlaceAgrees
  <2>2. CASE RLock_Refused(t) \/ WLock_Announce(t) \/ WLock_Refused(t)
    BY <1>1, <2>2 DEF RLock_Refused, WLock_Announce, WLock_Refused
  <2>3. QED
    BY <1>5, <2>1, <2>2 DEF Section
<1>6. ASSUME \/ \E t \in Thread : Crash(t)
             \/ \E o \in Object, b \in BOOLEAN : SetIngore(o, b)
             \/ UNCHANGED vars
      PROVE  ObjectCountersExact'
  BY <1>1, <1>6 DEF Crash, SetIngore, vars
<1>7. QED
  BY <1>3, <1>4, <1>5, <1>6 DEF Next, Step

\* What an object counts (count_RLock and count_WLock of mymutex2.h, by
\* which Attach, Detach and the destructor tell whether it is in use) is what
\* its threads' records say they hold, whether the object is ignored or not and
\* whoever is killed.
THEOREM ObjectCountersAreExact == Spec => []ObjectCountersExact
<1>1. Init => ObjectCountersExact
  <2>1. ASSUME Init, NEW o \in Object
        PROVE  /\ count_RLock[o] = 0 /\ count_WLock[o] = 0
               /\ {t \in Thread : ObjectOf[t] = o /\ thread_data[t] = "R"} = {}
               /\ {t \in Thread : ObjectOf[t] = o /\ thread_data[t] = "W"} = {}
    BY <2>1 DEF Init
  <2>2. QED
    BY <2>1, FS_EmptySet DEF ObjectCountersExact
<1>2. IInv /\ ObjectCountersExact /\ [Next]_vars => ObjectCountersExact'
  BY CountersInductive DEF IInv
<1>3. QED
  BY <1>1, <1>2, Invariant, PTL DEF Spec

-----------------------------------------------------------------------------
(* The refinement of RWLock *)

\* A critical section of the spin-flag lock is a step of RWLock, or stutters.
LEMMA SectionRefines ==
  ASSUME IInv, NEW t \in Thread, Section(t)
  PROVE  [Promise!Next]_(Promise!vars)
<1> USE SectionHolders
    DEF IInv, Promise!vars
<1>0. /\ (OnW <=> Writers # {}) /\ (R_count = 0 => Readers = {})
      /\ (W_wait = 0 => Wanting = {})
      /\ (\A s, u \in Writers : s = u)
  BY HoldersFinite, FS_EmptySet DEF CountersExact, Exclusion
<1>1. CASE RLock_Enter(t)
  <2>1. Promise!AcquireR(t)
    BY <1>0, <1>1 DEF RLock_Enter, ReadersMayEnter, Promise!AcquireR
  <2>2. QED
    BY <2>1 DEF Promise!Next
<1>2. CASE RLock_Refused(t)
  BY <1>2 DEF SameHolders
<1>3. CASE RUnLock_Leave(t)
  <2>1. Promise!ReleaseR(t)
    BY <1>3 DEF Promise!ReleaseR
  <2>2. QED
    BY <2>1 DEF Promise!Next
<1>4. CASE WLock_Announce(t)
  <2>1. Promise!Announce(t)
    BY <1>4 DEF Promise!Announce
  <2>2. QED
    BY <2>1 DEF Promise!Next
<1>5. CASE WLock_Enter(t)
  <2>1. Promise!AcquireW(t)
    BY <1>0, <1>5 DEF WLock_Enter, WriterMayEnter, Promise!AcquireW
  <2>2. QED
    BY <2>1 DEF Promise!Next
<1>6. CASE WLock_Refused(t) /\ noWait[t]
  <2>1. Promise!Withdraw(t)
    BY <1>6 DEF Promise!Withdraw
  <2>2. QED
    BY <2>1 DEF Promise!Next
<1>7. CASE WLock_Refused(t) /\ ~noWait[t]
  BY <1>7 DEF SameHolders
<1>8. CASE WUnLock_Leave(t)
  <2>1. Promise!ReleaseW(t)
    BY <1>8 DEF Promise!ReleaseW
  <2>2. QED
    BY <2>1 DEF Promise!Next
<1>9. QED
  BY <1>1, <1>2, <1>3, <1>4, <1>5, <1>6, <1>7, <1>8 DEF Section

\* CAtomicRWMutex keeps the promise of RWLock: in particular no reader enters
\* past an announced writer.
THEOREM RefinesRWLock == Spec => ImplementsRWLock
<1>1. Init => Promise!Init
  BY DEF Init, Promise!Init, Readers, Writers, Wanting
<1>2. IInv /\ [Next]_vars => [Promise!Next]_(Promise!vars)
  <2> SUFFICES ASSUME IInv, [Next]_vars
               PROVE  [Promise!Next]_(Promise!vars)
    OBVIOUS
  <2>1. ASSUME NEW t \in Thread, Section(t)
        PROVE  [Promise!Next]_(Promise!vars)
    BY <2>1, SectionRefines
  <2>2. ASSUME NEW t \in Thread, Call(t) \/ _Lock(t)
        PROVE  [Promise!Next]_(Promise!vars)
    BY <2>2, CallKeepsHolders DEF IInv, SameHolders, Promise!vars
  <2>3. CASE \/ \E t \in Thread : Crash(t)
             \/ \E o \in Object, b \in BOOLEAN : SetIngore(o, b)
             \/ UNCHANGED vars
    BY <2>3, OthersKeepHolders DEF IInv, SameHolders, Promise!vars
  <2>4. QED
    BY <2>1, <2>2, <2>3 DEF Next, Step
<1>3. QED
  BY <1>1, <1>2, Invariant, PTL DEF Spec, ImplementsRWLock, Promise!Spec
=============================================================================
