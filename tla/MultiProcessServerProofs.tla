---------------------- MODULE MultiProcessServerProofs ----------------------
(***************************************************************************)
(* Proofs about CMultiProcessServer: for any number of processes, blocks,  *)
(* job slots, tasks and faults, what MultiProcessServer promises of its    *)
(* blocks and slots is an invariant, and it implements TaskPipeline.       *)
(*                                                                         *)
(* No lock orders the three kinds of processes, so the argument follows    *)
(* each task through the states of its block:                              *)
(*                                                                         *)
(*   - a block is only ever written by the one whose turn its state says   *)
(*     it is, where a process, or the rollup, between its two writes is    *)
(*     found at the block it is about to hand on (Turns);                  *)
(*   - what was called for the tasks of a block is known from its state    *)
(*     (History);                                                          *)
(*   - the block the distributor is filling is free, and nobody touches    *)
(*     its tasks before it is handed over (Filling);                       *)
(*   - a slot's counts are those of the tasks of its job (Counted), so a   *)
(*     job whose counts meet has no task left in any block (Kept).         *)
(*                                                                         *)
(* A dead process breaks the turns: CheckChild clears a block the rollup   *)
(* is in the middle of.  From then on the distributor is Stopping, and     *)
(* nobody fills the block again.                                           *)
(***************************************************************************)
EXTENDS MultiProcessServer, SequenceTheorems, WellFoundedInduction, TLAPS, FiniteSetTheorems

-----------------------------------------------------------------------------
(* What each step writes.  The server's variables are records in functions *)
(* of functions; here the EXCEPTs of every action are worked out once,     *)
(* field by field, and found to keep the types.  The rest argues with      *)
(* these facts only.                                                       *)

Method    == {"Process", "UnProcess", "Rollup"}
TaskState == {"NULL", "NEW", "DONE", "UNDO", "CANCLE"}
BlockInfo == [task_state : TaskState, i_job : Job,
              tasks : Seq(Nat), error_task_index : 0..MAX_BLOCK_TASK - 1]
JobInfo   == [info : Nat, isUsed : BOOLEAN, isDistributeEnd : BOOLEAN,
              c_distribute : Nat, c_rollup : Nat]
DRecord   == [pc : {"top", "tell", "number", "loop", "wait", "stop", "gone", "open",
                    "reset", "use", "fill", "create", "created"},
              i_job : Job, q : Int, b : Slot, cmd : {"NULL", "EXIT", "PAUSE"},
              then : {"top", "loop", "stop"}]
RRecord   == [pc : {"visit", "undo", "null", "check", "main", "empty", "cmd"},
              i : Nat, ii : Nat, j : Slot, i_job : Job, error : 0..MAX_BLOCK_TASK - 1,
              isTaskRun : BOOLEAN, hadDoNothing : BOOLEAN, hadRollupError : BOOLEAN,
              countFlag : Nat]
PRecord   == [pc : {"visit", "done", "cancel", "cmd"}, i : Slot, ii : Nat,
              hadDoNothing : BOOLEAN]

PidTypes ==
  /\ state \in [PID -> {"NULL", "CREATE", "RUN", "EXITED", "COREDUMP"}]
  /\ cmd \in [PID -> {"NULL", "EXIT", "PAUSE"}]
  /\ stale \in [PID -> BOOLEAN]
  /\ alive \in [PID -> BOOLEAN]

RingTypes ==
  /\ block \in [Proc -> [Slot -> BlockInfo]]
  /\ next \in [Proc -> [distribute : Slot, process : Slot, rollup : Slot]]
  /\ i_process \in Proc

JobTypes ==
  /\ job \in [Job -> JobInfo]
  /\ size \in 0..MAX_JOB /\ idle_i \in 0..MAX_JOB
  /\ count_job \in [open : Nat, close : Nat]
  /\ count \in [Job -> Nat]

SeenTypes ==
  /\ stage \in Seq(Seq(Method)) /\ jobOf \in Seq(Nat) /\ Len(jobOf) = Len(stage)
  /\ phase \in Seq({"open", "ended", "closed"}) /\ opened \in Seq(Nat)

\* Where the three kinds of processes are in their programs.
PlaceTypes ==
  /\ d \in DRecord /\ (d.pc \in {"fill", "create", "created"} => d.q \in Proc)
  /\ p \in [Proc -> PRecord]
  /\ r \in RRecord
  /\ r.pc \in {"visit", "undo", "null", "check"} => r.i \in Proc
  /\ r.pc = "empty" => r.i \in Job
  /\ r.pc \in {"main", "cmd"} => r.i = 0

Types == PidTypes /\ RingTypes /\ JobTypes /\ SeenTypes /\ PlaceTypes

-----------------------------------------------------------------------------
(* What the steps are described with *)

\* The distributor has taken a slot and not yet given it to the rollup.
Taking == d.pc \in {"reset", "use"}

\* The distributor has a job to distribute.
Serving ==
  d.pc \in {"loop", "fill", "create", "created"} \/ (d.pc \in {"tell", "number"} /\ d.then = "loop")

\* The distributor will not distribute any more.
Stopping ==
  d.pc \in {"stop", "gone"} \/ (d.pc \in {"tell", "number"} /\ d.then = "stop")

Pos == Proc \X Slot
B(pos) == block[pos[1]][pos[2]]

-----------------------------------------------------------------------------
(* The small steps the actions are made of *)

USE SizeAssumption

LEMMA InRing ==
  ASSUME NEW x \in Nat
  PROVE  x % MAX_PROCESS_TASK_BLOCK \in Slot /\ x % MAX_PROCESS \in Proc
BY DEF Slot, Proc

LEMMA Lowest ==
  ASSUME NEW S \in SUBSET Int, NEW low \in Int, \A x \in S : low <= x, S # {}
  PROVE  Min(S) \in S
<1> DEFINE above == {n \in Nat : n + low \in S}
<1>1. PICK x \in S : TRUE
  OBVIOUS
<1>2. x - low \in above
  BY <1>1
<1>3. PICK n \in above : \A m \in above : ~(<<m, n>> \in OpToRel(<, Nat))
  BY <1>2, NatLessThanWellFounded, WFMin
<1>4. \A m \in above : ~(m < n)
  BY <1>3 DEF OpToRel
<1>5. \A y \in S : y - low \in above
  OBVIOUS
<1>6. \A y \in S : n + low <= y
  BY <1>4, <1>5
<1> QED
  BY <1>6 DEF Min

LEMMA SmallMod ==
  ASSUME NEW a \in Nat, NEW b \in Nat, a < b
  PROVE  a % b = a
<1>1. PICK m \in Int, n \in Int : m = a \div b /\ n = a % b
  OBVIOUS
<1>2. a = b * m + n /\ 0 <= n /\ n < b
  BY <1>1
<1>3. CASE m = 0
  BY <1>1, <1>2, <1>3
<1>4. CASE m >= 1
  <2>1. b * m >= b
    BY <1>4
  <2> QED
    BY <1>2, <2>1
<1>5. CASE m <= -1
  <2>1. b * m <= -b
    BY <1>5
  <2> QED
    BY <1>2, <2>1
<1> QED
  BY <1>3, <1>4, <1>5

LEMMA NoneLeft ==
  ASSUME NEW a \in Nat, a # 0
  PROVE  a % a = 0
<1>1. PICK m \in Int, n \in Int : m = a \div a /\ n = a % a
  OBVIOUS
<1>2. a = a * m + n /\ 0 <= n /\ n < a
  BY <1>1
<1>3. CASE m = 1
  BY <1>1, <1>2, <1>3
<1>4. CASE m >= 2
  <2>1. a * m >= a + a
    BY <1>4
  <2> QED
    BY <1>2, <2>1
<1>5. CASE m <= 0
  <2>1. a * m <= 0
    BY <1>5
  <2> QED
    BY <1>2, <2>1
<1> QED
  BY <1>3, <1>4, <1>5

LEMMA BlockWritten ==
  ASSUME RingTypes, NEW q \in Proc, NEW b \in Slot, NEW v \in BlockInfo,
         block' = [block EXCEPT ![q][b] = v]
  PROVE  /\ block' \in [Proc -> [Slot -> BlockInfo]]
         /\ block'[q][b] = v
         /\ \A pos \in Pos : pos # <<q, b>> => B(pos)' = B(pos)
<1>1. block \in [Proc -> [Slot -> BlockInfo]] /\ block[q] \in [Slot -> BlockInfo]
  BY DEF RingTypes
<1> QED
  BY <1>1 DEF Pos, B

LEMMA StateWritten ==
  ASSUME RingTypes, NEW q \in Proc, NEW b \in Slot,
         NEW s, s \in TaskState,
         block' = [block EXCEPT ![q][b].task_state = s]
  PROVE  /\ block' \in [Proc -> [Slot -> BlockInfo]]
         /\ block'[q][b].task_state = s
         /\ block'[q][b].i_job = block[q][b].i_job
         /\ block'[q][b].tasks = block[q][b].tasks
         /\ block'[q][b].error_task_index = block[q][b].error_task_index
         /\ \A pos \in Pos : pos # <<q, b>> => B(pos)' = B(pos)
<1>1. block[q][b] \in BlockInfo
  BY DEF RingTypes
<1>2. PICK v : v = [block[q][b] EXCEPT !.task_state = s]
  OBVIOUS
<1>3. /\ v \in BlockInfo /\ v.task_state = s /\ v.i_job = block[q][b].i_job
      /\ v.tasks = block[q][b].tasks /\ v.error_task_index = block[q][b].error_task_index
  BY <1>1, <1>2 DEF BlockInfo, TaskState
<1>4. block' = [block EXCEPT ![q][b] = v]
  BY <1>2
<1>5. /\ block' \in [Proc -> [Slot -> BlockInfo]] /\ block'[q][b] = v
      /\ \A pos \in Pos : pos # <<q, b>> => B(pos)' = B(pos)
  <2>1. v \in BlockInfo
    BY <1>3
  <2> QED
    BY <2>1, <1>4, BlockWritten, ZenonT(20)
<1> QED
  BY <1>3, <1>5

LEMMA CallSeen ==
  ASSUME SeenTypes, NEW S, NEW m \in Method, Call(S, m)
  PROVE  /\ stage' \in Seq(Seq(Method)) /\ Len(stage') = Len(stage)
         /\ DOMAIN stage' = DOMAIN stage
         /\ \A k \in DOMAIN stage :
              stage'[k] = (IF k \in S THEN Append(stage[k], m) ELSE stage[k])
         /\ \A k \in DOMAIN stage : Last(k)' = IF k \in S THEN m ELSE Last(k)
<1>1. stage \in Seq(Seq(Method)) /\ DOMAIN stage = 1..Len(stage)
  BY DEF SeenTypes
<1>2. stage' = [k \in 1..Len(stage) |-> IF k \in S THEN Append(stage[k], m) ELSE stage[k]]
  BY <1>1 DEF Call
<1>3. \A k \in 1..Len(stage) : stage[k] \in Seq(Method) /\ Append(stage[k], m) \in Seq(Method)
  BY <1>1
<1>4. stage' \in Seq(Seq(Method)) /\ Len(stage') = Len(stage)
  BY <1>1, <1>2, <1>3
<1>5. \A k \in 1..Len(stage) : Last(k)' = IF k \in S THEN m ELSE Last(k)
  <2> SUFFICES ASSUME NEW k \in 1..Len(stage)
               PROVE  Last(k)' = IF k \in S THEN m ELSE Last(k)
    OBVIOUS
  <2>1. stage[k] \in Seq(Method) /\ stage'[k] = IF k \in S THEN Append(stage[k], m) ELSE stage[k]
    BY <1>2, <1>3
  <2>2. Append(stage[k], m) # <<>> /\ Len(Append(stage[k], m)) = Len(stage[k]) + 1
        /\ Append(stage[k], m)[Len(stage[k]) + 1] = m
    <3>1. PICK v \in Seq(Method) : v = stage[k]
      BY <2>1
    <3>2. /\ Append(v, m) # <<>> /\ Len(Append(v, m)) = Len(v) + 1
          /\ Append(v, m)[Len(v) + 1] = m
      OBVIOUS
    <3> QED
      BY <3>1, <3>2
  <2>3. stage'[k] # <<>> => Last(k)' = stage'[k][Len(stage'[k])]
    BY DEF Last
  <2>4. CASE k \in S
    <3>1. stage'[k] = Append(stage[k], m) /\ Len(stage[k]) \in Nat
      BY <2>1, <2>4
    <3> QED
      BY <2>2, <2>3, <2>4, <3>1
  <2>5. CASE k \notin S
    BY <2>1, <2>5 DEF Last
  <2> QED
    BY <2>4, <2>5
<1> QED
  BY <1>1, <1>2, <1>4, <1>5

LEMMA BlockIs ==
  ASSUME RingTypes, NEW q \in Proc, NEW b \in Slot
  PROVE  block[q][b] \in BlockInfo /\ <<q, b>> \in Pos /\ B(<<q, b>>) = block[q][b]
BY DEF RingTypes, Pos, B

LEMMA PosIs ==
  ASSUME NEW pos \in Pos
  PROVE  pos[1] \in Proc /\ pos[2] \in Slot /\ pos = <<pos[1], pos[2]>>
BY DEF Pos

LEMMA CheckChildWrites ==
  ASSUME Types, CheckChild
  PROVE  /\ PidTypes' /\ block' \in [Proc -> [Slot -> BlockInfo]]
         /\ \A q \in Proc, b \in Slot :
              /\ block'[q][b].i_job = block[q][b].i_job
              /\ block'[q][b].tasks = block[q][b].tasks
              /\ block'[q][b].error_task_index = block[q][b].error_task_index
              /\ block'[q][b].task_state =
                   IF needexit(q) THEN "NULL" ELSE block[q][b].task_state
         /\ \A x \in PID :
              state'[x] = IF x \in Child /\ ~isOK(x) THEN "COREDUMP" ELSE state[x]
         /\ lost' = lost \cup {k \in UNION {TasksIn(q) : q \in {c \in Proc : needexit(c)}} :
                                 Last(k) # "Rollup"}
<1>1. \A q \in Proc, b \in Slot : block[q][b] \in BlockInfo
  BY DEF Types, RingTypes
<1>2. \A q \in Proc, b \in Slot :
        block'[q][b] = IF needexit(q) THEN [block[q][b] EXCEPT !.task_state = "NULL"]
                       ELSE block[q][b]
  BY DEF CheckChild
<1>3. \A q \in Proc, b \in Slot :
        /\ block'[q][b] \in BlockInfo
        /\ block'[q][b].i_job = block[q][b].i_job
        /\ block'[q][b].tasks = block[q][b].tasks
        /\ block'[q][b].error_task_index = block[q][b].error_task_index
        /\ block'[q][b].task_state = IF needexit(q) THEN "NULL" ELSE block[q][b].task_state
  <2> SUFFICES ASSUME NEW q \in Proc, NEW b \in Slot
               PROVE  /\ block'[q][b] \in BlockInfo
                      /\ block'[q][b].i_job = block[q][b].i_job
                      /\ block'[q][b].tasks = block[q][b].tasks
                      /\ block'[q][b].error_task_index = block[q][b].error_task_index
                      /\ block'[q][b].task_state =
                           IF needexit(q) THEN "NULL" ELSE block[q][b].task_state
    OBVIOUS
  <2>1. block[q][b] \in BlockInfo
    BY <1>1
  <2>2. CASE needexit(q)
    <3>1. block'[q][b] = [block[q][b] EXCEPT !.task_state = "NULL"]
      BY <1>2, <2>2
    <3> QED
      BY <2>1, <2>2, <3>1 DEF BlockInfo, TaskState
  <2>3. CASE ~needexit(q)
    BY <1>2, <2>1, <2>3
  <2> QED
    BY <2>2, <2>3
<1>4. block' \in [Proc -> [Slot -> BlockInfo]]
  BY <1>3 DEF CheckChild
<1>5. PidTypes'
  BY DEF CheckChild, Types, PidTypes
<1> QED
  BY <1>3, <1>4, <1>5 DEF CheckChild

LEMMA DGoes ==
  ASSUME NEW pc \in {"top", "tell", "loop", "wait", "stop", "gone", "open",
                     "reset", "use", "create", "created"},
         NEW j \in Job, NEW q \in Int, NEW c \in {"NULL", "EXIT", "PAUSE"},
         NEW then \in {"top", "loop", "stop"}, D_At(pc, j, q, c, then)
  PROVE  /\ d' \in DRecord /\ d'.pc = pc /\ d'.i_job = j /\ d'.q = q /\ d'.cmd = c
         /\ d'.then = then
BY DEF D_At, DRecord, Slot

-----------------------------------------------------------------------------
(* Types *)

LEMMA DPlaces ==
  ASSUME Types, d' \in DRecord, d'.pc \in {"fill", "create", "created"} => d'.q \in Proc,
         UNCHANGED <<p, r>>
  PROVE  PlaceTypes'
BY DEF Types, PlaceTypes

LEMMA JobWritten ==
  ASSUME job \in [Job -> JobInfo], NEW j \in Job, NEW v \in JobInfo,
         job' = [job EXCEPT ![j] = v]
  PROVE  /\ job' \in [Job -> JobInfo] /\ job'[j] = v
         /\ \A i \in Job : i # j => job'[i] = job[i]
OBVIOUS

LEMMA GoneTypes ==
  ASSUME Types, NEW x \in PID, NEW s \in {"EXITED", "COREDUMP"}, Gone(x, s)
  PROVE  PidTypes'
BY DEF Types, PidTypes, Gone

LEMMA SetCmdTypes ==
  ASSUME Types, D_SetCmd
  PROVE  /\ Types'
         /\ \/ D_Goto(d.then)
            \/ /\ d' \in DRecord /\ d'.pc = "number" /\ d'.then = d.then
               /\ d'.i_job = d.i_job
<1> DEFINE behind == {x \in Child : cmd[x] # d.cmd}
<1>0. d \in DRecord /\ d.pc = "tell"
  BY DEF Types, PlaceTypes, D_SetCmd
<1>1. /\ PidTypes' /\ RingTypes' /\ JobTypes' /\ SeenTypes'
  <2>1. cmd' \in [PID -> {"NULL", "EXIT", "PAUSE"}]
    <3>1. d.cmd \in {"NULL", "EXIT", "PAUSE"} /\ cmd \in [PID -> {"NULL", "EXIT", "PAUSE"}]
      BY <1>0 DEF Types, PidTypes, DRecord
    <3> QED
      BY <3>1 DEF D_SetCmd
  <2> QED
    BY <2>1 DEF D_SetCmd, Types, PidTypes, RingTypes, JobTypes, SeenTypes, jobs, seen
<1>2. CASE behind = {}
  <2>1. D_Goto(d.then)
    BY <1>2 DEF D_SetCmd
  <2>2. d' \in DRecord /\ d'.pc = d.then
    BY <1>0, <2>1, DGoes DEF D_Goto, DRecord
  <2>3. PlaceTypes'
    BY <1>0, <2>2, DPlaces DEF D_SetCmd, DRecord
  <2> QED
    BY <1>1, <2>1, <2>3 DEF Types
<1>3. CASE behind # {}
  <2>1. Min(behind) \in Child
    <3>1. behind \in SUBSET Int /\ \A x \in behind : -2 <= x
      BY DEF Child, Proc, ROLLUP
    <3>2. Min(behind) \in behind
      BY <1>3, <3>1, Lowest, -2 \in Int
    <3> QED
      BY <3>2
  <2>2. d' = [d EXCEPT !.pc = "number", !.q = Min(behind)] /\ UNCHANGED <<p, r>>
    BY <1>3 DEF D_SetCmd
  <2>3. Min(behind) \in Int
    BY <2>1 DEF Child, Proc, ROLLUP
  <2> HIDE DEF behind
  <2>4. /\ d' \in DRecord /\ d'.pc = "number" /\ d'.then = d.then /\ d'.i_job = d.i_job
    BY <1>0, <2>2, <2>3 DEF DRecord
  <2>5. PlaceTypes'
    BY <2>2, <2>4, DPlaces
  <2> QED
    BY <1>1, <2>4, <2>5 DEF Types
<1> QED
  BY <1>2, <1>3

LEMMA SetCmdSeqTypes ==
  ASSUME Types, D_SetCmdSeq
  PROVE  /\ Types'
         /\ d' \in DRecord /\ d'.pc = "tell" /\ d'.then = d.then /\ d'.i_job = d.i_job
<1>1. d \in DRecord
  BY DEF Types, PlaceTypes
<1>a. PICK nobody \in Int : nobody = 0
  OBVIOUS
<1>b. d' = [d EXCEPT !.pc = "tell", !.q = nobody]
  BY <1>a DEF D_SetCmdSeq
<1>2. d' \in DRecord /\ d'.pc = "tell" /\ d'.then = d.then /\ d'.i_job = d.i_job
  BY <1>1, <1>b DEF DRecord
<1>3. PlaceTypes'
  BY <1>2, DPlaces DEF D_SetCmdSeq
<1> QED
  BY <1>2, <1>3
  DEF D_SetCmdSeq, Types, PidTypes, RingTypes, JobTypes, SeenTypes, jobs, seen

LEMMA DGotoIs ==
  ASSUME Types,
         NEW pc \in {"top", "tell", "loop", "wait", "stop", "gone", "open",
                     "reset", "use", "created"},
         D_Goto(pc)
  PROVE  d' \in DRecord /\ d'.pc = pc /\ d'.i_job = d.i_job /\ d'.q = d.q /\ d'.then = "top"
<1>1. d.i_job \in Job /\ d.q \in Int
  BY DEF Types, PlaceTypes, DRecord
<1> QED
  BY <1>1, DGoes DEF D_Goto

LEMMA DTellIs ==
  ASSUME Types, NEW c \in {"NULL", "EXIT", "PAUSE"}, NEW then \in {"top", "loop", "stop"},
         D_Tell(c, then)
  PROVE  d' \in DRecord /\ d'.pc = "tell" /\ d'.i_job = d.i_job /\ d'.then = then
<1>1. d.i_job \in Job /\ 0 \in Int
  BY DEF Types, PlaceTypes, DRecord
<1> QED
  BY <1>1, DGoes DEF D_Tell

LEMMA DAbortIs ==
  ASSUME Types, D_Abort
  PROVE  d' \in DRecord /\ d'.pc = "tell" /\ d'.then = "stop"
BY DTellIs DEF D_Abort

LEMMA CheckTypes ==
  ASSUME Types, D_CheckChild \/ D_StopCheck
  PROVE  Types' /\ CheckChild /\ Stopping'
<1>1. CheckChild
  BY DEF D_CheckChild, D_StopCheck
<1>2. PidTypes' /\ block' \in [Proc -> [Slot -> BlockInfo]]
  BY <1>1, CheckChildWrites
<1>3. RingTypes' /\ JobTypes'
  BY <1>2 DEF D_CheckChild, D_StopCheck, Types, RingTypes, JobTypes, jobs
<1>4. SeenTypes' /\ UNCHANGED <<p, r>>
  BY DEF D_CheckChild, D_StopCheck, Types, SeenTypes, seen
<1>5. d' \in DRecord /\ d'.pc \in {"tell", "stop"} /\ Stopping'
  <2>1. CASE D_CheckChild
    BY <2>1, DAbortIs DEF D_CheckChild, Stopping
  <2>2. CASE D_StopCheck
    BY <2>2 DEF D_StopCheck, Stopping, Types, PlaceTypes
  <2> QED
    BY <2>1, <2>2
<1>6. PlaceTypes'
  BY <1>4, <1>5, DPlaces
<1> QED
  BY <1>1, <1>2, <1>3, <1>4, <1>5, <1>6 DEF Types

LEMMA WaitTypes ==
  ASSUME Types, D_Top \/ D_Waited \/ D_Drop \/ D_Fails
  PROVE  Types'
<1>1. PidTypes' /\ RingTypes' /\ JobTypes' /\ SeenTypes' /\ UNCHANGED <<p, r>>
  BY DEF D_Top, D_Waited, D_Drop, D_Fails, Fails, Types, PidTypes, RingTypes, JobTypes, SeenTypes,
         pids, jobs, seen
<1>2. d' \in DRecord /\ d'.pc \in {"open", "wait", "tell", "loop"}
  <2>1. CASE D_Top
    <3>1. CASE D_Goto("open")
      BY <3>1, DGotoIs
    <3>2. CASE D_At("wait", 0, 0, "NULL", "top") \/ D_At("wait", 0, 0, "NULL", "stop")
      BY <3>2, DGoes DEF Job
    <3> QED
      BY <2>1, <3>1, <3>2 DEF D_Top
  <2>2. CASE D_Waited
    BY <2>2, DTellIs, DAbortIs DEF D_Waited
  <2>3. CASE D_Fails
    BY <2>3, DAbortIs DEF D_Fails
  <2>4. CASE D_Drop
    <3>1. D_At("loop", d.i_job, 0, "NULL", "top") /\ d.i_job \in Job /\ 0 \in Int
      BY <2>4 DEF D_Drop, Types, PlaceTypes, DRecord
    <3> QED
      BY <3>1, DGoes
  <2> QED
    BY <2>1, <2>2, <2>3, <2>4
<1> QED
  BY <1>1, <1>2, DPlaces DEF Types

LEMMA ExitTypes ==
  ASSUME Types, D_Exit
  PROVE  Types'
<1>1. PidTypes'
  BY GoneTypes DEF D_Exit, PID, DISTRIBUTE
<1>2. RingTypes' /\ JobTypes' /\ SeenTypes' /\ UNCHANGED <<p, r>>
  BY DEF D_Exit, Types, RingTypes, JobTypes, SeenTypes, jobs, seen
<1>3. d' \in DRecord /\ d'.pc = "gone"
  BY DGotoIs DEF D_Exit
<1> QED
  BY <1>1, <1>2, <1>3, DPlaces DEF Types

\* The slot GetIdleJobInfo finds is not in use.
LEMMA IdleJobIs ==
  ASSUME JobTypes, \A j \in Job : job[j].isUsed => j < size
  PROVE  /\ IdleJob[1] \in 0..MAX_JOB /\ IdleJob[2] \in 0..MAX_JOB /\ size <= IdleJob[1]
         /\ IdleJob[3] # -1 => /\ IdleJob[3] \in Job /\ ~job[IdleJob[3]].isUsed
                               /\ IdleJob[3] < IdleJob[1]
<1>1. size \in 0..MAX_JOB /\ idle_i \in 0..MAX_JOB
  BY DEF JobTypes
<1>2. CASE size < MAX_JOB
  BY <1>1, <1>2 DEF IdleJob, Job
<1>3. CASE size = MAX_JOB /\ idle_i < MAX_JOB /\ ~job[idle_i].isUsed
  BY <1>1, <1>3 DEF IdleJob, Job
<1>4. CASE size = MAX_JOB /\ ~(idle_i < MAX_JOB /\ ~job[idle_i].isUsed)
  <2>1. CASE Unused # {}
    <3>1. Min(Unused) \in Unused
      BY <1>1, <2>1, Lowest, Unused \in SUBSET Int, 0 \in Int, \A x \in Unused : 0 <= x DEF Unused
    <3> QED
      BY <1>1, <1>4, <2>1, <3>1 DEF IdleJob, Unused, Job
  <2>2. CASE Unused = {}
    BY <1>1, <1>4, <2>2 DEF IdleJob
  <2> QED
    BY <2>1, <2>2
<1> QED
  BY <1>1, <1>2, <1>3, <1>4

\* OpenJob either finds no job or gives one to a slot not in use.
LEMMA OpenJobIs ==
  ASSUME Types, \A j \in Job : job[j].isUsed => j < size, D_OpenJob
  PROVE  /\ Types' /\ size <= size' /\ ~Serving' /\ d'.pc # "use"
         /\ \/ UNCHANGED <<job, phase>> /\ ~Taking'
            \/ \E j \in Job :
                 /\ ~job[j].isUsed /\ j < size' /\ d'.pc = "reset" /\ d'.i_job = j
                 /\ phase' = Append(phase, "open")
                 /\ job'[j].info = Len(phase) + 1
                 /\ \A i \in Job :
                      /\ i # j => job'[i] = job[i]
                      /\ job'[i].isUsed = job[i].isUsed
<1> DEFINE j == IdleJob[3]
<1>1. /\ IdleJob[1] \in 0..MAX_JOB /\ IdleJob[2] \in 0..MAX_JOB /\ size <= IdleJob[1]
      /\ j # -1 => j \in Job /\ ~job[j].isUsed /\ j < IdleJob[1]
  BY IdleJobIs DEF Types
<1>2. size' = IdleJob[1] /\ idle_i' = IdleJob[2]
  BY DEF D_OpenJob
<1> HIDE DEF j
<1>3. PidTypes' /\ RingTypes'
  BY DEF D_OpenJob, Types, PidTypes, RingTypes, PID, DISTRIBUTE
<1>4. CASE UNCHANGED <<job, phase>> /\ d' \in DRecord /\ d'.pc \in {"top", "tell"} /\ ~Serving'
  <2>1. JobTypes' /\ SeenTypes'
    BY <1>1, <1>2, <1>4 DEF D_OpenJob, Types, JobTypes, SeenTypes
  <2>2. PlaceTypes'
    BY <1>4, DPlaces DEF D_OpenJob
  <2> QED
    BY <1>1, <1>2, <1>3, <1>4, <2>1, <2>2 DEF Types, Taking
<1>5. CASE /\ j # -1
           /\ phase' = Append(phase, "open")
           /\ job' = [job EXCEPT ![j].info = Len(phase) + 1]
           /\ D_At("reset", j, 0, "NULL", "top")
  <2>1. d' \in DRecord /\ d'.pc = "reset" /\ d'.i_job = j
    BY <1>1, <1>5, DGoes
  <2>2. phase \in Seq({"open", "ended", "closed"}) /\ Len(phase) \in Nat
    BY DEF Types, SeenTypes
  <2>3. job[j] \in JobInfo /\ job \in [Job -> JobInfo]
    BY <1>1, <1>5 DEF Types, JobTypes
  <2>4. PICK n \in Nat : n = Len(phase) + 1
    BY <2>2
  <2>5. PICK v : v = [job[j] EXCEPT !.info = n]
    OBVIOUS
  <2>6. v \in JobInfo /\ v.info = n /\ v.isUsed = job[j].isUsed
    BY <2>3, <2>5 DEF JobInfo
  <2>7. job' = [job EXCEPT ![j] = v]
    BY <1>5, <2>4, <2>5
  <2>8. job' \in [Job -> JobInfo] /\ job'[j] = v /\ \A i \in Job : i # j => job'[i] = job[i]
    BY <1>1, <1>5, <2>3, <2>6, <2>7
  <2>9. phase' \in Seq({"open", "ended", "closed"})
    BY <1>5, <2>2
  <2>10. JobTypes' /\ SeenTypes'
    BY <1>1, <1>2, <2>8, <2>9 DEF D_OpenJob, Types, JobTypes, SeenTypes
  <2>11. PlaceTypes'
    BY <2>1, DPlaces DEF D_OpenJob
  <2>12. \A i \in Job : job'[i].isUsed = job[i].isUsed
    BY <2>6, <2>8
  <2> QED
    BY <1>1, <1>2, <1>3, <1>5, <2>1, <2>4, <2>6, <2>8, <2>10, <2>11, <2>12
    DEF Types, Serving
<1>6. \/ UNCHANGED <<job, phase>> /\ D_Goto("top")
      \/ UNCHANGED <<job, phase>> /\ D_Abort
      \/ /\ j # -1
         /\ phase' = Append(phase, "open")
         /\ job' = [job EXCEPT ![j].info = Len(phase) + 1]
         /\ D_At("reset", j, 0, "NULL", "top")
  BY DEF D_OpenJob, j
<1> QED
  BY <1>4, <1>5, <1>6, DGotoIs, DAbortIs DEF Serving

LEMMA ResetJobIs ==
  ASSUME Types, D_ResetJob
  PROVE  /\ Types' /\ d'.pc = "use" /\ d'.i_job = d.i_job
         /\ job'[d.i_job].info = job[d.i_job].info /\ job'[d.i_job].isUsed = job[d.i_job].isUsed
         /\ ~job'[d.i_job].isDistributeEnd
         /\ job'[d.i_job].c_distribute = 0 /\ job'[d.i_job].c_rollup = 0
         /\ \A i \in Job : i # d.i_job => job'[i] = job[i]
<1>1. PICK j \in Job : j = d.i_job
  BY DEF Types, PlaceTypes, DRecord
<1>2. job \in [Job -> JobInfo] /\ job[j] \in JobInfo
  BY DEF Types, JobTypes
<1>3. PICK v : v = [[[job[j] EXCEPT !.isDistributeEnd = FALSE] EXCEPT !.c_distribute = 0]
                      EXCEPT !.c_rollup = 0]
  OBVIOUS
<1>4. /\ v \in JobInfo /\ v.info = job[j].info /\ v.isUsed = job[j].isUsed
      /\ ~v.isDistributeEnd /\ v.c_distribute = 0 /\ v.c_rollup = 0
  BY <1>2, <1>3 DEF JobInfo
<1>5. job' = [job EXCEPT ![j] = v]
  BY <1>1, <1>2, <1>3 DEF D_ResetJob
<1>6. job' \in [Job -> JobInfo] /\ job'[j] = v /\ \A i \in Job : i # j => job'[i] = job[i]
  BY <1>2, <1>4, <1>5, JobWritten
<1>7. PidTypes' /\ RingTypes' /\ JobTypes' /\ SeenTypes' /\ UNCHANGED <<p, r>>
  BY <1>6 DEF D_ResetJob, Types, PidTypes, RingTypes, JobTypes, SeenTypes, pids, seen
<1>8. d' \in DRecord /\ d'.pc = "use" /\ d'.i_job = d.i_job
  BY DGotoIs DEF D_ResetJob
<1> QED
  BY <1>1, <1>4, <1>6, <1>7, <1>8, DPlaces DEF Types

LEMMA UseJobIs ==
  ASSUME Types, D_UseJob
  PROVE  /\ Types' /\ d'.pc = "tell" /\ d'.then = "loop" /\ d'.i_job = d.i_job
         /\ job'[d.i_job].isUsed /\ count_job'.open = count_job.open + 1
         /\ count_job'.close = count_job.close
         /\ \A i \in Job :
              /\ job'[i].info = job[i].info
              /\ job'[i].isDistributeEnd = job[i].isDistributeEnd
              /\ job'[i].c_distribute = job[i].c_distribute
              /\ job'[i].c_rollup = job[i].c_rollup
              /\ i # d.i_job => job'[i] = job[i]
<1>1. PICK j \in Job : j = d.i_job
  BY DEF Types, PlaceTypes, DRecord
<1>2. job \in [Job -> JobInfo] /\ job[j] \in JobInfo
  BY DEF Types, JobTypes
<1>3. PICK v : v = [job[j] EXCEPT !.isUsed = TRUE]
  OBVIOUS
<1>4. /\ v \in JobInfo /\ v.info = job[j].info /\ v.isUsed
      /\ v.isDistributeEnd = job[j].isDistributeEnd
      /\ v.c_distribute = job[j].c_distribute /\ v.c_rollup = job[j].c_rollup
  BY <1>2, <1>3 DEF JobInfo
<1>5. job' = [job EXCEPT ![j] = v]
  BY <1>1, <1>2, <1>3 DEF D_UseJob
<1>6. job' \in [Job -> JobInfo] /\ job'[j] = v /\ \A i \in Job : i # j => job'[i] = job[i]
  BY <1>2, <1>4, <1>5, JobWritten
<1>7. /\ count_job' \in [open : Nat, close : Nat] /\ count_job'.open = count_job.open + 1
      /\ count_job'.close = count_job.close
  BY DEF D_UseJob, Types, JobTypes
<1>8. PidTypes' /\ RingTypes' /\ JobTypes' /\ SeenTypes' /\ UNCHANGED <<p, r>>
  BY <1>6, <1>7 DEF D_UseJob, Types, PidTypes, RingTypes, JobTypes, SeenTypes, pids, seen
<1>9. d' \in DRecord /\ d'.pc = "tell" /\ d'.then = "loop" /\ d'.i_job = d.i_job
  BY DTellIs DEF D_UseJob
<1> QED
  BY <1>1, <1>4, <1>6, <1>7, <1>8, <1>9, DPlaces DEF Types

LEMMA CloseJobIs ==
  ASSUME Types, D_CloseJob, job[d.i_job].info \in DOMAIN phase
  PROVE  /\ Types' /\ d'.pc = "tell" /\ d'.then = "top"
         /\ job'[d.i_job].isDistributeEnd
         /\ DOMAIN phase' = DOMAIN phase /\ Len(phase') = Len(phase)
         /\ \A i \in DOMAIN phase :
              phase'[i] = IF i = job[d.i_job].info THEN "ended" ELSE phase[i]
         /\ \A i \in Job :
              /\ job'[i].info = job[i].info
              /\ job'[i].isUsed = job[i].isUsed
              /\ job'[i].c_distribute = job[i].c_distribute
              /\ job'[i].c_rollup = job[i].c_rollup
              /\ i # d.i_job => job'[i] = job[i]
<1>1. PICK j \in Job : j = d.i_job
  BY DEF Types, PlaceTypes, DRecord
<1>2. job \in [Job -> JobInfo] /\ job[j] \in JobInfo
  BY DEF Types, JobTypes
<1>3. PICK v : v = [job[j] EXCEPT !.isDistributeEnd = TRUE]
  OBVIOUS
<1>4. /\ v \in JobInfo /\ v.info = job[j].info /\ v.isUsed = job[j].isUsed
      /\ v.isDistributeEnd
      /\ v.c_distribute = job[j].c_distribute /\ v.c_rollup = job[j].c_rollup
  BY <1>2, <1>3 DEF JobInfo
<1>5. job' = [job EXCEPT ![j] = v]
  BY <1>1, <1>2, <1>3 DEF D_CloseJob
<1>6. job' \in [Job -> JobInfo] /\ job'[j] = v /\ \A i \in Job : i # j => job'[i] = job[i]
  BY <1>2, <1>4, <1>5, JobWritten
<1>7. PICK k \in DOMAIN phase : k = job[j].info
  BY <1>1
<1>8. phase \in Seq({"open", "ended", "closed"}) /\ phase' = [phase EXCEPT ![k] = "ended"]
  BY <1>1, <1>7 DEF D_CloseJob, Types, SeenTypes
<1>9. /\ phase' \in Seq({"open", "ended", "closed"})
      /\ DOMAIN phase' = DOMAIN phase /\ Len(phase') = Len(phase)
      /\ \A i \in DOMAIN phase : phase'[i] = IF i = k THEN "ended" ELSE phase[i]
  BY <1>8
<1>10. PidTypes' /\ RingTypes' /\ JobTypes' /\ SeenTypes' /\ UNCHANGED <<p, r>>
  BY <1>6, <1>9 DEF D_CloseJob, Types, PidTypes, RingTypes, JobTypes, SeenTypes, pids
<1>11. d' \in DRecord /\ d'.pc = "tell" /\ d'.then = "top"
  BY DTellIs DEF D_CloseJob
<1> QED
  BY <1>1, <1>4, <1>6, <1>7, <1>9, <1>10, <1>11, DPlaces DEF Types

LEMMA CreateTypes ==
  ASSUME Types, D_Create \/ D_Created
  PROVE  /\ Types' /\ d'.pc \in {"created", "loop"} /\ d'.i_job = d.i_job
<1>0. d.q \in Proc /\ d.q \in PID /\ d.i_job \in Job /\ d.q \in Int
  BY DEF D_Create, D_Created, Types, PlaceTypes, DRecord, PID, Child, Proc
<1>1. PidTypes'
  BY <1>0 DEF D_Create, D_Created, Types, PidTypes, pids
<1>2. RingTypes' /\ JobTypes' /\ SeenTypes' /\ UNCHANGED <<p, r>>
  BY DEF D_Create, D_Created, Types, RingTypes, JobTypes, SeenTypes, jobs, seen
<1>3. D_Goto("created") \/ D_At("loop", d.i_job, 0, "NULL", "top")
  BY DEF D_Create, D_Created
<1>4. CASE D_Goto("created")
  BY <1>0, <1>1, <1>2, <1>4, DGotoIs, DPlaces DEF Types
<1>5. CASE D_At("loop", d.i_job, 0, "NULL", "top")
  BY <1>0, <1>1, <1>2, <1>5, DGoes, DPlaces DEF Types
<1> QED
  BY <1>3, <1>4, <1>5

\* The distributor is filling block b of process q.
FillingAt(q, b) == d.pc = "fill" /\ d.q = q /\ d.b = b

LEMMA FillIs ==
  ASSUME Types, d.pc = "fill"
  PROVE  \E q \in Proc, b \in Slot : FillingAt(q, b) /\ Filled = block[q][b]
<1>1. d.q \in Proc /\ d.b \in Slot
  BY DEF Types, PlaceTypes, DRecord
<1> QED
  BY <1>1 DEF FillingAt, Filled

\* The free block b of process q is taken to be filled.
Found(q, b) ==
  /\ d.pc = "loop" /\ FillingAt(q, b)' /\ d'.i_job = d.i_job
  /\ block[q][b].task_state = "NULL"
  /\ block'[q][b].task_state = "NULL" /\ block'[q][b].tasks = <<>>
  /\ block'[q][b].i_job = block[q][b].i_job
  /\ block'[q][b].error_task_index = block[q][b].error_task_index
  /\ \A pos \in Pos : pos # <<q, b>> => B(pos)' = B(pos)

LEMMA FindIs ==
  ASSUME Types, NEW hash \in Hash, D_Find(hash)
  PROVE  Types' /\ \E q \in Proc, b \in Slot : Found(q, b)
<1>1. PICK q \in Proc, b \in Slot :
        /\ b = next[q].distribute
        /\ FindIdelTaskInfo(HashToProcessIndex(hash), q)
        /\ next' = [next EXCEPT ![q].distribute = (b + 1) % MAX_PROCESS_TASK_BLOCK]
        /\ i_process' = (q + 1) % MAX_PROCESS
        /\ block' = [block EXCEPT ![q][b].tasks = <<>>]
        /\ d' = [d EXCEPT !.pc = "fill", !.q = q, !.b = b]
  <2>1. \A q \in Proc : next[q].distribute \in Slot
    BY DEF Types, RingTypes
  <2> QED
    BY <2>1 DEF D_Find
<1>2. block[q][b].task_state = "NULL" /\ block[q][b] \in BlockInfo
  BY <1>1 DEF FindIdelTaskInfo, Idle, Types, RingTypes
<1>3. PICK w : w = [block[q][b] EXCEPT !.tasks = <<>>]
  OBVIOUS
<1>4. /\ w \in BlockInfo /\ w.tasks = <<>> /\ w.task_state = "NULL"
      /\ w.i_job = block[q][b].i_job /\ w.error_task_index = block[q][b].error_task_index
  <2>1. PICK none \in Seq(Nat) : none = <<>>
    <3>1. <<>> \in Seq(Nat)
      OBVIOUS
    <3> QED
      BY <3>1
  <2>2. w = [block[q][b] EXCEPT !.tasks = none]
    BY <1>3, <2>1
  <2> QED
    BY <1>2, <2>1, <2>2 DEF BlockInfo
<1>5. block' = [block EXCEPT ![q][b] = w]
  BY <1>1, <1>3
<1>6. /\ block' \in [Proc -> [Slot -> BlockInfo]] /\ block'[q][b] = w
      /\ \A pos \in Pos : pos # <<q, b>> => B(pos)' = B(pos)
  <2>1. RingTypes /\ w \in BlockInfo
    BY <1>4 DEF Types
  <2> QED
    BY <2>1, <1>5, BlockWritten, ZenonT(30)
<1>7. PidTypes' /\ RingTypes' /\ JobTypes' /\ SeenTypes' /\ UNCHANGED <<p, r>>
  <2>1. (b + 1) % MAX_PROCESS_TASK_BLOCK \in Slot /\ (q + 1) % MAX_PROCESS \in Proc
    BY InRing DEF Slot, Proc
  <2>2. next' \in [Proc -> [distribute : Slot, process : Slot, rollup : Slot]]
    BY <1>1, <2>1 DEF Types, RingTypes
  <2>3. PidTypes' /\ JobTypes' /\ SeenTypes' /\ UNCHANGED <<p, r>>
    BY DEF D_Find, Types, PidTypes, JobTypes, SeenTypes, pids, jobs, seen
  <2> QED
    BY <1>1, <1>6, <2>1, <2>2, <2>3 DEF RingTypes
<1>8. d' \in DRecord /\ FillingAt(q, b)' /\ d'.i_job = d.i_job
  <2>1. d \in DRecord /\ q \in Int
    BY DEF Types, PlaceTypes, Proc
  <2>2. d' = [d EXCEPT !.pc = "fill", !.q = q, !.b = b]
    BY <1>1
  <2> QED
    BY <2>1, <2>2 DEF DRecord, FillingAt
<1>9. PlaceTypes'
  BY <1>7, <1>8, DPlaces DEF FillingAt
<1>10. Found(q, b)
  BY <1>2, <1>4, <1>6, <1>8 DEF Found, D_Find
<1> QED
  BY <1>7, <1>9, <1>10 DEF Types

\* A new task goes into the block b of process q, which is being filled.
Tasked(q, b) ==
  /\ FillingAt(q, b) /\ UNCHANGED d
  /\ DOMAIN stage' = 1..Len(stage) + 1 /\ DOMAIN jobOf' = 1..Len(stage) + 1
  /\ \A k \in 1..Len(stage) : stage'[k] = stage[k] /\ jobOf'[k] = jobOf[k]
  /\ stage'[Len(stage) + 1] = <<>> /\ jobOf'[Len(stage) + 1] = job[d.i_job].info
  /\ job'[d.i_job].info = job[d.i_job].info
  /\ job'[d.i_job].isUsed = job[d.i_job].isUsed
  /\ job'[d.i_job].isDistributeEnd = job[d.i_job].isDistributeEnd
  /\ job'[d.i_job].c_distribute = job[d.i_job].c_distribute + 1
  /\ job'[d.i_job].c_rollup = job[d.i_job].c_rollup
  /\ \A i \in Job : i # d.i_job => job'[i] = job[i]
  /\ \A pos \in Pos : pos # <<q, b>> => B(pos)' = B(pos)
  /\ Len(block[q][b].tasks) < MAX_BLOCK_TASK
  /\ block'[q][b].tasks = Append(block[q][b].tasks, Len(stage) + 1)
  /\ block'[q][b].task_state = block[q][b].task_state
  /\ block'[q][b].i_job = block[q][b].i_job
  /\ block'[q][b].error_task_index = block[q][b].error_task_index

LEMMA AppendIs ==
  ASSUME NEW S, NEW s \in Seq(S), NEW x \in S, NEW t, t = Append(s, x)
  PROVE  /\ t \in Seq(S) /\ Len(t) = Len(s) + 1 /\ Len(s) \in Nat
         /\ DOMAIN t = 1..Len(s) + 1 /\ t[Len(s) + 1] = x
         /\ \A k \in 1..Len(s) : t[k] = s[k]
<1>1. /\ Append(s, x) \in Seq(S) /\ Len(Append(s, x)) = Len(s) + 1
      /\ Append(s, x)[Len(s) + 1] = x
      /\ \A k \in 1..Len(s) : Append(s, x)[k] = s[k]
  BY AppendProperties
<1> QED
  BY <1>1

LEMMA TaskIs ==
  ASSUME Types, D_Task
  PROVE  Types' /\ \E q \in Proc, b \in Slot : Tasked(q, b)
<1>1. PICK q \in Proc, b \in Slot : FillingAt(q, b) /\ Filled = block[q][b]
  BY FillIs DEF D_Task
<1>2. PICK j \in Job : j = d.i_job
  BY DEF Types, PlaceTypes, DRecord
<1>3. job \in [Job -> JobInfo] /\ job[j] \in JobInfo
  BY DEF Types, JobTypes
<1>4. PICK c \in Nat : c = job[j].c_distribute + 1
  BY <1>3 DEF JobInfo
<1>5. PICK v : v = [job[j] EXCEPT !.c_distribute = c]
  OBVIOUS
<1>6. /\ v \in JobInfo /\ v.info = job[j].info /\ v.isUsed = job[j].isUsed
      /\ v.isDistributeEnd = job[j].isDistributeEnd
      /\ v.c_distribute = c /\ v.c_rollup = job[j].c_rollup
  BY <1>3, <1>5 DEF JobInfo
<1>7. job' = [job EXCEPT ![j] = v]
  BY <1>2, <1>3, <1>4, <1>5 DEF D_Task
<1>8. job' \in [Job -> JobInfo] /\ job'[j] = v /\ \A i \in Job : i # j => job'[i] = job[i]
  BY <1>3, <1>6, <1>7, JobWritten
<1>9. stage \in Seq(Seq(Method)) /\ jobOf \in Seq(Nat) /\ Len(jobOf) = Len(stage)
      /\ Len(stage) \in Nat
  BY DEF Types, SeenTypes
<1>10. PICK i \in Nat : i = job[j].info
  BY <1>3 DEF JobInfo
<1>11. PICK k \in Nat : k = Len(stage) + 1
  BY <1>9
<1>12. /\ stage' \in Seq(Seq(Method)) /\ Len(stage') = k /\ DOMAIN stage' = 1..k
       /\ stage'[k] = <<>> /\ \A m \in 1..Len(stage) : stage'[m] = stage[m]
  <2>1. PICK empty \in Seq(Method) : empty = <<>>
    <3>1. <<>> \in Seq(Method)
      OBVIOUS
    <3> QED
      BY <3>1
  <2>2. PICK S : S = Seq(Method)
    OBVIOUS
  <2>3. stage' = Append(stage, empty) /\ stage \in Seq(S) /\ empty \in S
    BY <1>9, <2>1, <2>2 DEF D_Task
  <2>4. /\ stage' \in Seq(S) /\ Len(stage') = Len(stage) + 1
        /\ DOMAIN stage' = 1..Len(stage) + 1 /\ stage'[Len(stage) + 1] = empty
        /\ \A m \in 1..Len(stage) : stage'[m] = stage[m]
    BY <2>3, AppendIs
  <2> QED
    BY <1>11, <2>1, <2>2, <2>4
<1>13. /\ jobOf' \in Seq(Nat) /\ Len(jobOf') = k /\ DOMAIN jobOf' = 1..k
       /\ jobOf'[k] = i /\ \A m \in 1..Len(stage) : jobOf'[m] = jobOf[m]
  <2>1. PICK S : S = Nat
    OBVIOUS
  <2>2. jobOf' = Append(jobOf, i) /\ jobOf \in Seq(S) /\ i \in S
    BY <1>2, <1>9, <1>10, <2>1 DEF D_Task
  <2>3. /\ jobOf' \in Seq(S) /\ Len(jobOf') = Len(jobOf) + 1
        /\ DOMAIN jobOf' = 1..Len(jobOf) + 1 /\ jobOf'[Len(jobOf) + 1] = i
        /\ \A m \in 1..Len(jobOf) : jobOf'[m] = jobOf[m]
    BY <2>2, AppendIs
  <2> QED
    BY <1>9, <1>11, <2>1, <2>3
<1>14. block[q][b] \in BlockInfo
  BY DEF Types, RingTypes
<1>15. PICK t \in Seq(Nat) : t = Append(block[q][b].tasks, k)
  <2>1. PICK old \in Seq(Nat) : old = block[q][b].tasks
    BY <1>14 DEF BlockInfo
  <2>2. Append(old, k) \in Seq(Nat)
    OBVIOUS
  <2> QED
    BY <2>1, <2>2
<1>16. PICK w : w = [block[q][b] EXCEPT !.tasks = t]
  OBVIOUS
<1>17. /\ w \in BlockInfo /\ w.tasks = t /\ w.task_state = block[q][b].task_state
       /\ w.i_job = block[q][b].i_job /\ w.error_task_index = block[q][b].error_task_index
  BY <1>14, <1>16 DEF BlockInfo
<1>18. block' = [block EXCEPT ![q][b] = w]
  <2>1. block' = [block EXCEPT ![q][b].tasks = Append(@, k)]
    BY <1>1, <1>11 DEF D_Task, FillingAt
  <2> QED
    BY <1>15, <1>16, <2>1
<1>19. /\ block' \in [Proc -> [Slot -> BlockInfo]] /\ block'[q][b] = w
       /\ \A pos \in Pos : pos # <<q, b>> => B(pos)' = B(pos)
  <2>1. RingTypes /\ w \in BlockInfo
    BY <1>17 DEF Types
  <2> QED
    BY <2>1, <1>18, BlockWritten, ZenonT(30)
<1>20. Types'
  <2>1. UNCHANGED <<d, p, r, pids, next, i_process, size, idle_i, count_job, count,
                    phase, opened>>
    BY DEF D_Task
  <2>2. PidTypes' /\ RingTypes'
    BY <1>19, <2>1 DEF Types, PidTypes, RingTypes, pids
  <2>3. JobTypes' /\ SeenTypes'
    BY <1>8, <1>12, <1>13, <2>1 DEF Types, JobTypes, SeenTypes
  <2>4. PlaceTypes'
    BY <2>1 DEF Types, PlaceTypes
  <2> QED
    BY <2>2, <2>3, <2>4 DEF Types
<1>21. Len(block[q][b].tasks) < MAX_BLOCK_TASK /\ UNCHANGED d
  BY <1>1 DEF D_Task
<1>22. Tasked(q, b)
  BY <1>1, <1>2, <1>4, <1>6, <1>8, <1>10, <1>11, <1>12, <1>13, <1>15, <1>17, <1>19, <1>21
  DEF Tasked
<1> QED
  BY <1>20, <1>22

\* The block b of process q is full, or will get no more, and is handed over.
HandedOver(q, b) ==
  /\ FillingAt(q, b) /\ d'.pc = "create" /\ d'.i_job = d.i_job
  /\ block[q][b].tasks # <<>>
  /\ block'[q][b].task_state = "NEW" /\ block'[q][b].i_job = d.i_job
  /\ block'[q][b].tasks = block[q][b].tasks
  /\ block'[q][b].error_task_index = block[q][b].error_task_index
  /\ \A pos \in Pos : pos # <<q, b>> => B(pos)' = B(pos)

LEMMA HandOverIs ==
  ASSUME Types, D_HandOver
  PROVE  Types' /\ \E q \in Proc, b \in Slot : HandedOver(q, b)
<1>1. PICK q \in Proc, b \in Slot : FillingAt(q, b) /\ Filled = block[q][b]
  BY FillIs DEF D_HandOver
<1>2. d.i_job \in Job /\ q \in Int /\ d.q = q
  BY <1>1 DEF Types, PlaceTypes, DRecord, Proc, FillingAt
<1>3. block[q][b] \in BlockInfo
  BY DEF Types, RingTypes
<1>4. PICK w : w = [[block[q][b] EXCEPT !.i_job = d.i_job] EXCEPT !.task_state = "NEW"]
  OBVIOUS
<1>5. /\ w \in BlockInfo /\ w.tasks = block[q][b].tasks /\ w.task_state = "NEW"
      /\ w.i_job = d.i_job /\ w.error_task_index = block[q][b].error_task_index
  BY <1>2, <1>3, <1>4 DEF BlockInfo, TaskState
<1>6. block' = [block EXCEPT ![q][b] = w]
  <2>1. block' = [block EXCEPT ![q][b].i_job = d.i_job, ![q][b].task_state = "NEW"]
    BY <1>1 DEF D_HandOver, FillingAt
  <2>2. block \in [Proc -> [Slot -> BlockInfo]]
    BY DEF Types, RingTypes
  <2> QED
    BY <1>4, <2>1, <2>2
<1>7. /\ block' \in [Proc -> [Slot -> BlockInfo]] /\ block'[q][b] = w
      /\ \A pos \in Pos : pos # <<q, b>> => B(pos)' = B(pos)
  <2>1. RingTypes /\ w \in BlockInfo
    BY <1>5 DEF Types
  <2> QED
    BY <2>1, <1>6, BlockWritten, ZenonT(30)
<1>8. PidTypes' /\ RingTypes' /\ JobTypes' /\ SeenTypes' /\ UNCHANGED <<p, r>>
  BY <1>7 DEF D_HandOver, Types, PidTypes, RingTypes, JobTypes, SeenTypes, pids, jobs, seen
<1>9. d' \in DRecord /\ d'.pc = "create" /\ d'.i_job = d.i_job /\ d'.q = q
  <2>1. D_At("create", d.i_job, q, "NULL", "top")
    BY <1>2 DEF D_HandOver
  <2> QED
    BY <1>2, <2>1, DGoes
<1>10. PlaceTypes'
  BY <1>8, <1>9, DPlaces
<1>11. block[q][b].tasks # <<>>
  BY <1>1 DEF D_HandOver
<1>12. HandedOver(q, b)
  BY <1>1, <1>5, <1>7, <1>9, <1>11 DEF HandedOver
<1> QED
  BY <1>8, <1>10, <1>12 DEF Types

LEMMA PassWritten ==
  ASSUME PlaceTypes, NEW q \in Proc, NEW f \in PRecord, P_Set(q, f)
  PROVE  p' \in [Proc -> PRecord] /\ p'[q] = f /\ \A c \in Proc : c # q => p'[c] = p[c]
BY DEF PlaceTypes, P_Set

LEMMA NewPassIs ==
  ASSUME NEW i \in Slot
  PROVE  NewPass(i) \in PRecord /\ NewPass(i).pc = "visit"
BY DEF NewPass, PRecord

LEMMA PNextIs ==
  ASSUME PlaceTypes, NEW q \in Proc, NEW nothing \in BOOLEAN, P_Next(q, nothing)
  PROVE  /\ p' \in [Proc -> PRecord] /\ p'[q].pc \in {"visit", "cmd"}
         /\ \A c \in Proc : c # q => p'[c] = p[c]
<1>1. PICK f : f = p[q]
  OBVIOUS
<1>2. f \in PRecord
  BY <1>1 DEF PlaceTypes
<1>3. PICK a \in Slot : a = (f.i + 1) % MAX_PROCESS_TASK_BLOCK
  BY <1>2, InRing DEF PRecord, Slot
<1>4. PICK b \in Nat : b = f.ii + 1
  BY <1>2 DEF PRecord
<1>5. PICK h \in BOOLEAN : h = (f.hadDoNothing /\ nothing)
  OBVIOUS
<1>6. PICK c \in {"visit", "cmd"} :
        c = IF f.ii + 1 < MAX_PROCESS_TASK_BLOCK THEN "visit" ELSE "cmd"
  OBVIOUS
<1>7. PICK g : g = [f EXCEPT !.i = a, !.ii = b, !.hadDoNothing = h, !.pc = c]
  OBVIOUS
<1>8. g \in PRecord /\ g.pc = c
  BY <1>2, <1>3, <1>4, <1>5, <1>6, <1>7 DEF PRecord
<1>9. P_Set(q, g)
  BY <1>1, <1>2, <1>3, <1>4, <1>5, <1>6, <1>7 DEF P_Next, PRecord
<1> QED
  BY <1>6, <1>8, <1>9, PassWritten

LEMMA PTo ==
  ASSUME PlaceTypes, NEW q \in Proc, NEW pc \in {"done", "cancel"},
         P_Set(q, [p[q] EXCEPT !.pc = pc, !.hadDoNothing = FALSE])
  PROVE  /\ p' \in [Proc -> PRecord] /\ p'[q].pc = pc /\ p'[q].i = p[q].i
         /\ \A c \in Proc : c # q => p'[c] = p[c]
<1>1. PICK f : f = p[q]
  OBVIOUS
<1>2. f \in PRecord
  BY <1>1 DEF PlaceTypes
<1>3. PICK h \in BOOLEAN : h = FALSE
  OBVIOUS
<1>4. PICK g : g = [f EXCEPT !.pc = pc, !.hadDoNothing = h]
  OBVIOUS
<1>5. g \in PRecord /\ g.pc = pc /\ g.i = f.i
  BY <1>2, <1>4 DEF PRecord
<1>6. P_Set(q, g)
  BY <1>1, <1>3, <1>4
<1> QED
  BY <1>1, <1>5, <1>6, PassWritten

LEMMA RestPlaces ==
  ASSUME Types, p' \in [Proc -> PRecord], UNCHANGED <<d, r>>
  PROVE  PlaceTypes'
BY DEF Types, PlaceTypes

LEMMA HereIs ==
  ASSUME Types, NEW q \in Proc
  PROVE  /\ p[q] \in PRecord /\ p[q].i \in Slot /\ Here(q) \in BlockInfo
         /\ <<q, p[q].i>> \in Pos /\ B(<<q, p[q].i>>) = Here(q)
<1>1. p[q] \in PRecord /\ p[q].i \in Slot
  BY DEF Types, PlaceTypes, PRecord
<1> QED
  BY <1>1, BlockIs DEF Types, Here

LEMMA LeaveTypes ==
  ASSUME Types, NEW x \in PID, LeaveOrphaned(x)
  PROVE  PidTypes'
BY DEF Types, PidTypes, LeaveOrphaned, PID, DISTRIBUTE

LEMMA RunTypes ==
  ASSUME Types, NEW q \in Proc, P_Run(q)
  PROVE  Types' /\ p'[q].pc = "visit" /\ \A c \in Proc : c # q => p'[c] = p[c]
<1>1. next[q].process \in Slot
  BY DEF Types, RingTypes
<1>2. NewPass(next[q].process) \in PRecord /\ NewPass(next[q].process).pc = "visit"
  BY <1>1, NewPassIs
<1>3. P_Set(q, NewPass(next[q].process)) /\ PlaceTypes
  BY DEF P_Run, Types
<1>4. /\ p' \in [Proc -> PRecord] /\ p'[q].pc = "visit"
      /\ \A c \in Proc : c # q => p'[c] = p[c]
  BY <1>2, <1>3, PassWritten
<1>5. PidTypes' /\ RingTypes' /\ JobTypes' /\ SeenTypes' /\ UNCHANGED <<d, r>>
  BY DEF P_Run, Types, PidTypes, RingTypes, JobTypes, SeenTypes, jobs, seen
<1> QED
  BY <1>4, <1>5, RestPlaces DEF Types

LEMMA SkipTypes ==
  ASSUME Types, NEW q \in Proc, P_Skip(q)
  PROVE  /\ Types' /\ p'[q].pc \in {"visit", "cmd"}
         /\ \A c \in Proc : c # q => p'[c] = p[c]
<1>1. P_Next(q, TRUE) /\ PlaceTypes
  BY DEF P_Skip, Types
<1>2. /\ p' \in [Proc -> PRecord] /\ p'[q].pc \in {"visit", "cmd"}
      /\ \A c \in Proc : c # q => p'[c] = p[c]
  BY <1>1, PNextIs
<1>3. PidTypes' /\ RingTypes' /\ JobTypes' /\ SeenTypes' /\ UNCHANGED <<d, r>>
  BY DEF P_Skip, Types, PidTypes, RingTypes, JobTypes, SeenTypes, pids, jobs, seen
<1> QED
  BY <1>2, <1>3, RestPlaces DEF Types

LEMMA ProcessTypes ==
  ASSUME Types, NEW q \in Proc, P_Process(q) \/ P_UnProcess(q)
  PROVE  /\ Types' /\ p'[q].pc = (IF P_Process(q) THEN "done" ELSE "cancel")
         /\ p'[q].i = p[q].i
         /\ \A c \in Proc : c # q => p'[c] = p[c]
         /\ DOMAIN stage' = DOMAIN stage
         /\ P_Process(q) => \A k \in DOMAIN stage :
              Last(k)' = IF k \in Range(Here(q).tasks) THEN "Process" ELSE Last(k)
         /\ P_UnProcess(q) => \A k \in DOMAIN stage :
              Last(k)' = IF \E m \in Here(q).error_task_index + 1..Len(Here(q).tasks) :
                              k = Here(q).tasks[m]
                         THEN "UnProcess" ELSE Last(k)
<1>1. SeenTypes /\ PlaceTypes
  BY DEF Types
<1>2. PidTypes' /\ RingTypes' /\ JobTypes' /\ UNCHANGED <<d, r>>
  BY DEF P_Process, P_UnProcess, Types, PidTypes, RingTypes, JobTypes, pids, jobs
<1>3. ~(P_Process(q) /\ P_UnProcess(q))
  BY DEF P_Process, P_UnProcess
<1>4. CASE P_Process(q)
  <2>1. Call(Range(Here(q).tasks), "Process") /\ "Process" \in Method
        /\ P_Set(q, [p[q] EXCEPT !.pc = "done", !.hadDoNothing = FALSE])
        /\ UNCHANGED <<jobOf, phase, opened>>
    BY <1>4 DEF P_Process, Method
  <2>2. /\ stage' \in Seq(Seq(Method)) /\ Len(stage') = Len(stage)
        /\ DOMAIN stage' = DOMAIN stage
        /\ \A k \in DOMAIN stage :
             Last(k)' = IF k \in Range(Here(q).tasks) THEN "Process" ELSE Last(k)
    BY <1>1, <2>1, CallSeen
  <2>3. /\ p' \in [Proc -> PRecord] /\ p'[q].pc = "done" /\ p'[q].i = p[q].i
        /\ \A c \in Proc : c # q => p'[c] = p[c]
    BY <1>1, <2>1, PTo
  <2>4. SeenTypes'
    BY <1>1, <2>1, <2>2 DEF SeenTypes
  <2> QED
    BY <1>2, <1>3, <1>4, <2>2, <2>3, <2>4, RestPlaces DEF Types
<1>5. CASE P_UnProcess(q)
  <2> DEFINE S == {Here(q).tasks[m] : m \in Here(q).error_task_index + 1..Len(Here(q).tasks)}
  <2>1. Call(S, "UnProcess") /\ "UnProcess" \in Method
        /\ P_Set(q, [p[q] EXCEPT !.pc = "cancel", !.hadDoNothing = FALSE])
        /\ UNCHANGED <<jobOf, phase, opened>>
    BY <1>5 DEF P_UnProcess, Method
  <2>a. \A k : k \in S <=> \E m \in Here(q).error_task_index + 1..Len(Here(q).tasks) :
                             k = Here(q).tasks[m]
    OBVIOUS
  <2> HIDE DEF S
  <2>2. /\ stage' \in Seq(Seq(Method)) /\ Len(stage') = Len(stage)
        /\ DOMAIN stage' = DOMAIN stage
        /\ \A k \in DOMAIN stage : Last(k)' = IF k \in S THEN "UnProcess" ELSE Last(k)
    BY <1>1, <2>1, CallSeen
  <2>3. /\ p' \in [Proc -> PRecord] /\ p'[q].pc = "cancel" /\ p'[q].i = p[q].i
        /\ \A c \in Proc : c # q => p'[c] = p[c]
    BY <1>1, <2>1, PTo
  <2>4. SeenTypes'
    BY <1>1, <2>1, <2>2 DEF SeenTypes
  <2> QED
    BY <1>2, <1>3, <1>5, <2>a, <2>2, <2>3, <2>4, RestPlaces DEF Types
<1> QED
  BY <1>4, <1>5

LEMMA HandOnTypes ==
  ASSUME Types, NEW q \in Proc, P_Done(q) \/ P_Cancel(q)
  PROVE  /\ Types' /\ p'[q].pc \in {"visit", "cmd"}
         /\ \A c \in Proc : c # q => p'[c] = p[c]
         /\ block'[q][p[q].i].task_state = (IF P_Done(q) THEN "DONE" ELSE "CANCLE")
         /\ block'[q][p[q].i].i_job = Here(q).i_job
         /\ block'[q][p[q].i].tasks = Here(q).tasks
         /\ block'[q][p[q].i].error_task_index = Here(q).error_task_index
         /\ \A pos \in Pos : pos # <<q, p[q].i>> => B(pos)' = B(pos)
<1>1. PidTypes' /\ JobTypes' /\ SeenTypes' /\ UNCHANGED <<d, r>>
  BY DEF P_Done, P_Cancel, Types, PidTypes, JobTypes, SeenTypes, pids, jobs, seen
<1>2. PICK i \in Slot : i = p[q].i
  BY HereIs
<1>3. PICK s : s = IF P_Done(q) THEN "DONE" ELSE "CANCLE"
  OBVIOUS
<1>4. block' = [block EXCEPT ![q][i].task_state = s]
  BY <1>2, <1>3 DEF P_Done, P_Cancel
<1>5. RingTypes /\ s \in TaskState /\ i \in Slot
  BY <1>2, <1>3 DEF Types, TaskState
<1>6. /\ block' \in [Proc -> [Slot -> BlockInfo]]
      /\ block'[q][i].task_state = s
      /\ block'[q][i].i_job = block[q][i].i_job
      /\ block'[q][i].tasks = block[q][i].tasks
      /\ block'[q][i].error_task_index = block[q][i].error_task_index
      /\ \A pos \in Pos : pos # <<q, i>> => B(pos)' = B(pos)
  BY <1>4, <1>5, StateWritten, ZenonT(30)
<1>7. RingTypes'
  <2>1. (i + 1) % MAX_PROCESS_TASK_BLOCK \in Slot
    BY InRing DEF Slot
  <2>2. next' \in [Proc -> [distribute : Slot, process : Slot, rollup : Slot]]
    <3>1. PICK a \in Slot : a = (i + 1) % MAX_PROCESS_TASK_BLOCK
      BY <2>1
    <3>2. next \in [Proc -> [distribute : Slot, process : Slot, rollup : Slot]]
      BY DEF Types, RingTypes
    <3>3. next' = next \/ next' = [next EXCEPT ![q].process = a]
      BY <1>2, <3>1 DEF P_Done, P_Cancel
    <3> QED
      BY <3>1, <3>2, <3>3
  <2> QED
    BY <1>6, <2>2 DEF P_Done, P_Cancel, Types, RingTypes
<1>8. P_Next(q, FALSE) /\ PlaceTypes
  BY DEF P_Done, P_Cancel, Types
<1>9. /\ p' \in [Proc -> PRecord] /\ p'[q].pc \in {"visit", "cmd"}
      /\ \A c \in Proc : c # q => p'[c] = p[c]
  BY <1>8, PNextIs
<1> QED
  BY <1>1, <1>2, <1>3, <1>6, <1>7, <1>9, RestPlaces DEF Types, Here

LEMMA FailsTypes ==
  ASSUME Types, NEW q \in Proc, P_Fails(q)
  PROVE  /\ Types' /\ DOMAIN stage' = DOMAIN stage
         /\ \A k \in DOMAIN stage : Last(k)' # Last(k) =>
              \/ /\ Here(q).task_state = "NEW" /\ "Process" \in Fault
                 /\ k \in Range(Here(q).tasks) /\ Last(k)' = "Process"
              \/ /\ Here(q).task_state = "UNDO" /\ "UnProcess" \in Fault
                 /\ Last(k)' = "UnProcess"
                 /\ \E m \in Here(q).error_task_index + 1..Len(Here(q).tasks) :
                      k = Here(q).tasks[m]
<1>1. SeenTypes /\ q \in PID
  BY DEF Types, PID, Child
<1>2. Here(q).tasks \in Seq(Nat) /\ Here(q).error_task_index \in Nat
  <2>1. Here(q) \in BlockInfo
    BY HereIs
  <2> QED
    BY <2>1 DEF BlockInfo
<1>3. PidTypes'
  BY <1>1, GoneTypes DEF P_Fails
<1>4. RingTypes' /\ JobTypes' /\ PlaceTypes'
  BY DEF P_Fails, Types, RingTypes, JobTypes, PlaceTypes, jobs
<1>5. CASE /\ Here(q).task_state = "NEW" /\ Fails("Process")
           /\ \E n \in 0..Len(Here(q).tasks) - 1 :
                Call({Here(q).tasks[k] : k \in 1..n}, "Process")
  <2>1. PICK n \in 0..Len(Here(q).tasks) - 1 :
          Call({Here(q).tasks[k] : k \in 1..n}, "Process")
    BY <1>5
  <2> DEFINE S == {Here(q).tasks[k] : k \in 1..n}
  <2>2. \A k \in S : k \in Range(Here(q).tasks)
    BY <1>2 DEF Range
  <2>3. Call(S, "Process") /\ "Process" \in Method
    BY <2>1 DEF Method
  <2> HIDE DEF S
  <2>4. /\ stage' \in Seq(Seq(Method)) /\ Len(stage') = Len(stage)
        /\ DOMAIN stage' = DOMAIN stage
        /\ \A k \in DOMAIN stage : Last(k)' = IF k \in S THEN "Process" ELSE Last(k)
    BY <1>1, <2>3, CallSeen
  <2>5. SeenTypes'
    BY <1>1, <2>4 DEF P_Fails, SeenTypes
  <2> QED
    BY <1>3, <1>4, <1>5, <2>2, <2>4, <2>5 DEF Types, Fails
<1>6. CASE /\ Here(q).task_state = "UNDO" /\ Fails("UnProcess")
           /\ \E n \in Here(q).error_task_index..Len(Here(q).tasks) - 1 :
                Call({Here(q).tasks[k] : k \in Here(q).error_task_index + 1..n}, "UnProcess")
  <2>1. PICK n \in Here(q).error_task_index..Len(Here(q).tasks) - 1 :
          Call({Here(q).tasks[k] : k \in Here(q).error_task_index + 1..n}, "UnProcess")
    BY <1>6
  <2> DEFINE S == {Here(q).tasks[k] : k \in Here(q).error_task_index + 1..n}
  <2>2. \A k \in S : \E m \in Here(q).error_task_index + 1..Len(Here(q).tasks) :
                       k = Here(q).tasks[m]
    BY <1>2
  <2>3. Call(S, "UnProcess") /\ "UnProcess" \in Method
    BY <2>1 DEF Method
  <2> HIDE DEF S
  <2>4. /\ stage' \in Seq(Seq(Method)) /\ Len(stage') = Len(stage)
        /\ DOMAIN stage' = DOMAIN stage
        /\ \A k \in DOMAIN stage : Last(k)' = IF k \in S THEN "UnProcess" ELSE Last(k)
    BY <1>1, <2>3, CallSeen
  <2>5. SeenTypes'
    BY <1>1, <2>4 DEF P_Fails, SeenTypes
  <2> QED
    BY <1>3, <1>4, <1>6, <2>2, <2>4, <2>5 DEF Types, Fails
<1> QED
  BY <1>5, <1>6 DEF P_Fails

LEMMA PCmdTypes ==
  ASSUME Types, NEW q \in Proc, P_Cmd(q)
  PROVE  /\ Types' /\ p'[q].pc = "visit"
         /\ \A c \in Proc : c # q => p'[c] = p[c]
         /\ \A c \in Proc : state'[c] = state[c] \/ (c = q /\ state'[c] = "EXITED")
         /\ \A c \in Proc : alive'[c] => alive[c]
<1>1. q \in PID /\ DISTRIBUTE \notin Proc /\ DISTRIBUTE \in PID /\ \A c \in Proc : c \in PID
  BY DEF PID, Child, DISTRIBUTE, Proc
<1>2. next[q].process \in Slot
  BY DEF Types, RingTypes
<1>3. NewPass(next[q].process) \in PRecord /\ NewPass(next[q].process).pc = "visit"
  BY <1>2, NewPassIs
<1>4. P_Set(q, NewPass(next[q].process)) /\ PlaceTypes
  BY DEF P_Cmd, Types
<1>5. /\ p' \in [Proc -> PRecord] /\ p'[q].pc = "visit"
      /\ \A c \in Proc : c # q => p'[c] = p[c]
  BY <1>3, <1>4, PassWritten
<1>6. RingTypes' /\ JobTypes' /\ SeenTypes' /\ UNCHANGED <<d, r>>
  BY DEF P_Cmd, Types, RingTypes, JobTypes, SeenTypes, jobs, seen
<1>7. \/ stale' = [stale EXCEPT ![q] = FALSE] /\ UNCHANGED <<state, cmd, alive>>
      \/ LeaveOrphaned(q) \/ Gone(q, "EXITED")
  BY DEF P_Cmd, process_cmd
<1>8. /\ PidTypes'
      /\ \A c \in Proc : state'[c] = state[c] \/ (c = q /\ state'[c] = "EXITED")
      /\ \A c \in Proc : alive'[c] => alive[c]
  <2>1. CASE stale' = [stale EXCEPT ![q] = FALSE] /\ UNCHANGED <<state, cmd, alive>>
    BY <2>1 DEF Types, PidTypes
  <2>2. CASE LeaveOrphaned(q)
    BY <1>1, <2>2, LeaveTypes DEF LeaveOrphaned, Types, PidTypes
  <2>3. CASE Gone(q, "EXITED")
    BY <1>1, <2>3, GoneTypes DEF Gone, Types, PidTypes
  <2> QED
    BY <1>7, <2>1, <2>2, <2>3
<1> QED
  BY <1>5, <1>6, <1>8, RestPlaces DEF Types

\* On to the next block: the rollup is between blocks and has kept the rest.
LEMMA RNextIs ==
  ASSUME Types, NEW s, s \in RRecord, s.i \in Proc, R_Next(s)
  PROVE  /\ r' \in RRecord /\ r'.pc \in {"visit", "main", "cmd"}
         /\ r'.pc = "visit" => r'.i \in Proc
         /\ r'.pc \in {"main", "cmd"} => r'.i = 0
         /\ r'.hadRollupError = s.hadRollupError /\ r'.i_job = s.i_job /\ r'.error = s.error
         /\ r'.countFlag = s.countFlag
<1>1. PICK ii, j : ii = s.ii + 1 /\ j = (s.j + 1) % MAX_PROCESS_TASK_BLOCK
  OBVIOUS
<1>2. ii \in Nat /\ j \in Slot /\ s.i + 1 \in Nat
  BY <1>1, InRing DEF RRecord, Slot
<1>3. CASE s.ii + 1 < MAX_PROCESS_TASK_BLOCK
  <2>1. r' = [s EXCEPT !.pc = "visit", !.ii = ii, !.j = j]
    BY <1>1, <1>3 DEF R_Next
  <2> QED
    BY <1>2, <2>1 DEF RRecord
<1>4. CASE ~(s.ii + 1 < MAX_PROCESS_TASK_BLOCK) /\ s.i + 1 < MAX_PROCESS
  <2>1. PICK i, z, n : i = s.i + 1 /\ z = 0 /\ n = next[i].rollup
    OBVIOUS
  <2>2. i \in Proc /\ z \in Nat /\ n \in Slot
    BY <1>4, <2>1 DEF Types, RingTypes, Proc
  <2>3. r' = [s EXCEPT !.pc = "visit", !.i = i, !.ii = z, !.j = n]
    BY <1>4, <2>1 DEF R_Next
  <2>4. i \in Nat
    BY <1>2, <2>1
  <2> QED
    BY <2>2, <2>3, <2>4 DEF RRecord
<1>5. CASE ~(s.ii + 1 < MAX_PROCESS_TASK_BLOCK) /\ ~(s.i + 1 < MAX_PROCESS)
  <2>1. PICK z, pc : z = 0 /\ pc = IF s.hadDoNothing THEN "main" ELSE "cmd"
    OBVIOUS
  <2>2. z \in Nat /\ z \in Slot
    BY <2>1 DEF Slot
  <2>3. r' = [s EXCEPT !.pc = pc, !.i = z, !.ii = z, !.j = z]
    BY <1>5, <2>1 DEF R_Next
  <2> QED
    BY <2>1, <2>2, <2>3 DEF RRecord
<1> QED
  BY <1>3, <1>4, <1>5

LEMMA RPlaces ==
  ASSUME Types, r' \in RRecord, UNCHANGED <<d, p>>,
         r'.pc \in {"visit", "undo", "null", "check"} => r'.i \in Proc,
         r'.pc = "empty" => r'.i \in Job,
         r'.pc \in {"main", "cmd"} => r'.i = 0
  PROVE  PlaceTypes'
BY DEF Types, PlaceTypes

LEMMA AtIs ==
  ASSUME Types, r.pc \in {"visit", "undo", "null", "check"}
  PROVE  /\ r \in RRecord /\ r.i \in Proc /\ r.j \in Slot /\ At \in BlockInfo
         /\ <<r.i, r.j>> \in Pos /\ B(<<r.i, r.j>>) = At
<1>1. r \in RRecord /\ r.i \in Proc /\ r.j \in Slot
  BY DEF Types, PlaceTypes, RRecord
<1> QED
  BY <1>1, BlockIs DEF Types, At

LEMMA VisitedTypes ==
  ASSUME Types, r.i \in Proc, Visited
  PROVE  next' \in [Proc -> [distribute : Slot, process : Slot, rollup : Slot]]
<1>1. PICK a : a = (r.j + 1) % MAX_PROCESS_TASK_BLOCK
  OBVIOUS
<1>2. a \in Slot
  BY <1>1, InRing DEF Types, PlaceTypes, RRecord, Slot
<1>3. next' = [next EXCEPT ![r.i].rollup = a]
  BY <1>1 DEF Visited
<1> QED
  BY <1>2, <1>3 DEF Types, RingTypes

LEMMA RSkipTypes ==
  ASSUME Types, R_Skip
  PROVE  /\ Types' /\ r'.pc \in {"visit", "main", "cmd"}
         /\ r'.hadRollupError = r.hadRollupError
<1>1. r \in RRecord /\ r.i \in Proc /\ At \in BlockInfo
  BY AtIs DEF R_Skip
<1>2. PICK t \in BOOLEAN : t = (r.isTaskRun \/ At.task_state = "NEW")
  BY <1>1 DEF RRecord
<1>3. PICK s : s = [r EXCEPT !.isTaskRun = t]
  OBVIOUS
<1>4. s \in RRecord /\ s.i = r.i /\ s.hadRollupError = r.hadRollupError
  BY <1>1, <1>3 DEF RRecord
<1>5. R_Next(s)
  BY <1>2, <1>3 DEF R_Skip
<1>6. /\ r' \in RRecord /\ r'.pc \in {"visit", "main", "cmd"}
      /\ r'.pc = "visit" => r'.i \in Proc
      /\ r'.pc \in {"main", "cmd"} => r'.i = 0
      /\ r'.hadRollupError = s.hadRollupError
  BY <1>1, <1>4, <1>5, RNextIs
<1>7. PidTypes' /\ RingTypes' /\ JobTypes' /\ SeenTypes' /\ UNCHANGED <<d, p>>
  BY DEF R_Skip, Types, PidTypes, RingTypes, JobTypes, SeenTypes, pids, jobs, seen
<1> QED
  BY <1>4, <1>6, <1>7, RPlaces DEF Types

LEMMA TurnBackTypes ==
  ASSUME Types, R_TurnBack
  PROVE  /\ Types' /\ r'.pc = "undo" /\ r'.hadRollupError /\ r'.error = At.error_task_index
         /\ r'.i = r.i /\ r'.j = r.j
<1>1. r \in RRecord /\ r.i \in Proc /\ At \in BlockInfo
  BY AtIs DEF R_TurnBack
<1>2. PICK c, e : c = r.countFlag + 1 /\ e = At.error_task_index
  OBVIOUS
<1>a. PICK f \in BOOLEAN : f = FALSE
  OBVIOUS
<1>3. c \in Nat /\ e \in 0..MAX_BLOCK_TASK - 1
  <2>1. r.countFlag \in Nat
    BY <1>1 DEF RRecord
  <2>2. At.error_task_index \in 0..MAX_BLOCK_TASK - 1
    BY <1>1 DEF BlockInfo
  <2> QED
    BY <1>2, <2>1, <2>2
<1>4. r' = [r EXCEPT !.pc = "undo", !.hadDoNothing = f, !.countFlag = c, !.error = e]
  BY <1>2, <1>a DEF R_TurnBack
<1>5. /\ r' \in RRecord /\ r'.pc = "undo" /\ r'.error = e /\ r'.i = r.i /\ r'.j = r.j
      /\ r'.hadRollupError = r.hadRollupError
  BY <1>1, <1>3, <1>4 DEF RRecord
<1>6. RingTypes'
  BY <1>1, VisitedTypes DEF R_TurnBack, Types, RingTypes
<1>7. PidTypes' /\ JobTypes' /\ SeenTypes' /\ UNCHANGED <<d, p>>
  BY DEF R_TurnBack, Types, PidTypes, JobTypes, SeenTypes, pids, jobs, seen
<1> QED
  BY <1>1, <1>2, <1>5, <1>6, <1>7, RPlaces DEF Types, R_TurnBack

\* The first n tasks of the block are rolled up.
LEMMA RollupIs ==
  ASSUME Types, NEW n \in 0..MAX_BLOCK_TASK, R_Rollup(n), At.tasks # <<>>,
         Len(At.tasks) <= MAX_BLOCK_TASK
  PROVE  /\ Types' /\ n <= Len(At.tasks) /\ r'.i = r.i /\ r'.j = r.j
         /\ r'.pc = (IF n = Len(At.tasks) THEN "null" ELSE "undo")
         /\ (r'.hadRollupError <=> n < Len(At.tasks))
         /\ r'.error = (IF n = Len(At.tasks) THEN 0 ELSE n)
         /\ r'.i_job = At.i_job
         /\ DOMAIN stage' = DOMAIN stage
         /\ \A k \in DOMAIN stage :
              Last(k)' = IF \E m \in 1..n : k = At.tasks[m] THEN "Rollup" ELSE Last(k)
         /\ job'[At.i_job].c_rollup = job[At.i_job].c_rollup + n
         /\ count' = [count EXCEPT ![At.i_job] = @ + n]
         /\ \A i \in Job :
              /\ job'[i].info = job[i].info
              /\ job'[i].isUsed = job[i].isUsed
              /\ job'[i].isDistributeEnd = job[i].isDistributeEnd
              /\ job'[i].c_distribute = job[i].c_distribute
              /\ i # At.i_job => job'[i] = job[i]
<1>1. r \in RRecord /\ r.i \in Proc /\ At \in BlockInfo /\ SeenTypes
  BY AtIs DEF R_Rollup, Types
<1>2. PICK j, len : j = At.i_job /\ len = Len(At.tasks)
  OBVIOUS
<1>3. j \in Job /\ At.tasks \in Seq(Nat) /\ len \in Nat /\ len # 0 /\ n <= len
  BY <1>1, <1>2 DEF BlockInfo, R_Rollup
<1>5. job \in [Job -> JobInfo] /\ job[j] \in JobInfo /\ job[j].c_rollup \in Nat /\ n \in Nat
  <2>1. job \in [Job -> JobInfo] /\ job[j] \in JobInfo
    BY <1>3 DEF Types, JobTypes
  <2> QED
    BY <2>1 DEF JobInfo
<1>a. PICK sum \in Nat : sum = job[j].c_rollup + n
  BY <1>5
<1>4. PICK v : v = [job[j] EXCEPT !.c_rollup = sum]
  OBVIOUS
<1>6. /\ v \in JobInfo /\ v.info = job[j].info /\ v.isUsed = job[j].isUsed
      /\ v.isDistributeEnd = job[j].isDistributeEnd
      /\ v.c_distribute = job[j].c_distribute /\ v.c_rollup = job[j].c_rollup + n
  BY <1>a, <1>4, <1>5 DEF JobInfo
<1>7. job' = [job EXCEPT ![j] = v]
  BY <1>a, <1>2, <1>3, <1>4, <1>5 DEF R_Rollup
<1>8. job' \in [Job -> JobInfo] /\ job'[j] = v /\ \A i \in Job : i # j => job'[i] = job[i]
  BY <1>3, <1>5, <1>6, <1>7, JobWritten
<1>9. count' = [count EXCEPT ![j] = @ + n] /\ count' \in [Job -> Nat]
  <2>1. count' = [count EXCEPT ![j] = @ + n]
    BY <1>2 DEF R_Rollup
  <2>2. count \in [Job -> Nat]
    BY DEF Types, JobTypes
  <2> QED
    BY <1>3, <1>5, <2>1, <2>2
<1>10. JobTypes'
  BY <1>8, <1>9 DEF R_Rollup, Types, JobTypes
<1>11. PICK S : S = {At.tasks[k] : k \in 1..n}
  OBVIOUS
<1>12. /\ stage' \in Seq(Seq(Method)) /\ Len(stage') = Len(stage)
       /\ DOMAIN stage' = DOMAIN stage
       /\ \A k \in DOMAIN stage : Last(k)' = IF k \in S THEN "Rollup" ELSE Last(k)
  <2>1. Call(S, "Rollup") /\ "Rollup" \in Method
    BY <1>11 DEF R_Rollup, Method
  <2> QED
    BY <1>1, <2>1, CallSeen
<1>13. SeenTypes'
  <2>1. opened' \in Seq(Nat)
    <3>1. job[j].info \in Nat /\ opened \in Seq(Nat)
      BY <1>1, <1>5 DEF JobInfo, SeenTypes
    <3>2. PICK info, old : info = job[j].info /\ old = opened
      OBVIOUS
    <3>3. opened' = old \/ opened' = Append(old, info)
      BY <1>2, <3>2 DEF R_Rollup
    <3>4. old \in Seq(Nat) /\ info \in Nat
      BY <3>1, <3>2
    <3>5. Append(old, info) \in Seq(Nat)
      BY <3>4
    <3> QED
      BY <3>3, <3>4, <3>5
  <2> QED
    BY <1>1, <1>12, <2>1 DEF R_Rollup, SeenTypes
<1>14. n % len = IF n = len THEN 0 ELSE n
  <2>1. CASE n = len
    <3>1. len % len = 0
      BY <1>3, NoneLeft
    <3> QED
      BY <2>1, <3>1
  <2>2. CASE n < len
    <3>1. n % len = n
      BY <1>3, <1>5, <2>2, SmallMod
    <3> QED
      BY <1>3, <1>5, <2>2, <3>1
  <2>3. n = len \/ n < len
    BY <1>3, <1>5
  <2> QED
    BY <2>1, <2>2, <2>3
<1>b. PICK f, h \in BOOLEAN : f = FALSE /\ h = (n < len)
  <2>1. (n < len) \in BOOLEAN
    BY <1>3, <1>5
  <2> QED
    BY <2>1
<1>15. PICK pc, e, c :
         /\ pc = IF n = len THEN "null" ELSE "undo"
         /\ e = IF n = len THEN 0 ELSE n
         /\ c = IF n < len THEN r.countFlag + 1 ELSE r.countFlag
  OBVIOUS
<1>16. /\ e \in 0..MAX_BLOCK_TASK - 1 /\ c \in Nat
       /\ pc \in {"null", "undo"}
  <2>1. r.countFlag \in Nat
    BY <1>1 DEF RRecord
  <2>2. n = len \/ n \in 0..MAX_BLOCK_TASK - 1
    BY <1>2, <1>3
  <2> QED
    BY <1>15, <2>1, <2>2
<1>17. r' = [r EXCEPT !.pc = pc, !.hadDoNothing = f, !.i_job = j, !.error = e,
                      !.hadRollupError = h, !.countFlag = c]
  BY <1>2, <1>14, <1>15, <1>b DEF R_Rollup
<1>18. /\ r' \in RRecord /\ r'.pc = pc /\ r'.error = e /\ r'.i = r.i /\ r'.j = r.j
       /\ r'.hadRollupError = h /\ r'.i_job = j
  BY <1>1, <1>3, <1>16, <1>17 DEF RRecord
<1>19. RingTypes'
  BY <1>1, VisitedTypes DEF R_Rollup, Types, RingTypes
<1>20. PidTypes' /\ UNCHANGED <<d, p>>
  BY DEF R_Rollup, Types, PidTypes, pids
<1>21. Types'
  BY <1>1, <1>10, <1>13, <1>16, <1>18, <1>19, <1>20, RPlaces DEF Types
<1>22. \A k : k \in S <=> \E m \in 1..n : k = At.tasks[m]
  BY <1>11
<1> QED
  BY <1>2, <1>3, <1>6, <1>8, <1>9, <1>12, <1>15, <1>b, <1>18, <1>21, <1>22

LEMMA UndoIs ==
  ASSUME Types, R_Undo
  PROVE  /\ Types' /\ r'.pc \in {"visit", "main", "cmd"}
         /\ r'.hadRollupError = r.hadRollupError
         /\ block'[r.i][r.j].task_state = "UNDO"
         /\ block'[r.i][r.j].error_task_index = r.error
         /\ block'[r.i][r.j].i_job = At.i_job /\ block'[r.i][r.j].tasks = At.tasks
         /\ \A pos \in Pos : pos # <<r.i, r.j>> => B(pos)' = B(pos)
<1>1. r \in RRecord /\ r.i \in Proc /\ r.j \in Slot /\ At \in BlockInfo
  BY AtIs DEF R_Undo
<1>2. PICK q, b, e, z : q = r.i /\ b = r.j /\ e = r.error /\ z = 0
  OBVIOUS
<1>3. e \in 0..MAX_BLOCK_TASK - 1 /\ z \in 0..MAX_BLOCK_TASK - 1 /\ q \in Proc /\ b \in Slot
  BY <1>1, <1>2 DEF RRecord
<1>4. PICK w : w = [[At EXCEPT !.task_state = "UNDO"] EXCEPT !.error_task_index = e]
  OBVIOUS
<1>5. /\ w \in BlockInfo /\ w.task_state = "UNDO" /\ w.error_task_index = e
      /\ w.i_job = At.i_job /\ w.tasks = At.tasks
  BY <1>1, <1>3, <1>4 DEF BlockInfo, TaskState
<1>6. block' = [block EXCEPT ![q][b] = w]
  <2>1. /\ block \in [Proc -> [Slot -> BlockInfo]] /\ block[q] \in [Slot -> BlockInfo]
        /\ At = block[q][b]
    BY <1>2, <1>3 DEF Types, RingTypes, At
  <2> QED
    BY <1>2, <1>3, <1>4, <2>1 DEF R_Undo
<1>7. RingTypes
  BY DEF Types
<1>8. /\ block' \in [Proc -> [Slot -> BlockInfo]] /\ block'[q][b] = w
      /\ \A pos \in Pos : pos # <<q, b>> => B(pos)' = B(pos)
  <2>1. w \in BlockInfo
    BY <1>5
  <2> QED
    BY <1>3, <1>6, <1>7, <2>1, BlockWritten, ZenonT(30)
<1>9. PICK s : s = [r EXCEPT !.error = z]
  OBVIOUS
<1>10. s \in RRecord /\ s.i \in Proc /\ s.hadRollupError = r.hadRollupError
  BY <1>1, <1>3, <1>9 DEF RRecord
<1>11. R_Next(s)
  BY <1>2, <1>9 DEF R_Undo
<1>12. /\ r' \in RRecord /\ r'.pc \in {"visit", "main", "cmd"}
       /\ r'.pc = "visit" => r'.i \in Proc
       /\ r'.pc \in {"main", "cmd"} => r'.i = 0
       /\ r'.hadRollupError = s.hadRollupError
  BY <1>10, <1>11, RNextIs
<1>13. PidTypes' /\ RingTypes' /\ JobTypes' /\ SeenTypes' /\ UNCHANGED <<d, p>>
  BY <1>8 DEF R_Undo, Types, PidTypes, RingTypes, JobTypes, SeenTypes, pids, jobs, seen
<1>14. Types'
  BY <1>12, <1>13, RPlaces DEF Types
<1> QED
  BY <1>2, <1>5, <1>8, <1>10, <1>12, <1>14

LEMMA NullIs ==
  ASSUME Types, R_Null
  PROVE  /\ Types' /\ r'.pc = "check" /\ r'.hadRollupError = r.hadRollupError
         /\ r'.i_job = r.i_job
         /\ block'[r.i][r.j].task_state = "NULL"
         /\ block'[r.i][r.j].error_task_index = At.error_task_index
         /\ block'[r.i][r.j].i_job = At.i_job /\ block'[r.i][r.j].tasks = At.tasks
         /\ \A pos \in Pos : pos # <<r.i, r.j>> => B(pos)' = B(pos)
<1>1. r \in RRecord /\ r.i \in Proc /\ r.j \in Slot
  BY AtIs DEF R_Null
<1>2. PICK q, b, s : q = r.i /\ b = r.j /\ s = "NULL"
  OBVIOUS
<1>3. q \in Proc /\ b \in Slot /\ RingTypes /\ s \in TaskState
  BY <1>1, <1>2 DEF Types, TaskState
<1>4. block' = [block EXCEPT ![q][b].task_state = s]
  BY <1>2 DEF R_Null
<1>5. /\ block' \in [Proc -> [Slot -> BlockInfo]]
      /\ block'[q][b].task_state = s
      /\ block'[q][b].i_job = block[q][b].i_job
      /\ block'[q][b].tasks = block[q][b].tasks
      /\ block'[q][b].error_task_index = block[q][b].error_task_index
      /\ \A pos \in Pos : pos # <<q, b>> => B(pos)' = B(pos)
  BY <1>3, <1>4, StateWritten, ZenonT(30)
<1>6. r' \in RRecord /\ r'.pc = "check" /\ r'.i = r.i /\ r'.i_job = r.i_job
      /\ r'.hadRollupError = r.hadRollupError
  BY <1>1 DEF R_Null, RRecord
<1>7. PidTypes' /\ RingTypes' /\ JobTypes' /\ SeenTypes' /\ UNCHANGED <<d, p>>
  BY <1>5 DEF R_Null, Types, PidTypes, RingTypes, JobTypes, SeenTypes, pids, jobs, seen
<1>8. Types'
  BY <1>1, <1>6, <1>7, RPlaces DEF Types
<1> QED
  BY <1>2, <1>5, <1>6, <1>8 DEF At

\* A job is closed, or nothing happens.
LEMMA CloseIs ==
  ASSUME Types, NEW j \in Job, CloseIfNeed(j), UNCHANGED <<size, idle_i, stage, jobOf, opened>>,
         MayClose(j) => job[j].info \in DOMAIN phase
  PROVE  /\ JobTypes' /\ SeenTypes'
         /\ IF MayClose(j)
            THEN /\ ~job'[j].isUsed /\ count' = [count EXCEPT ![j] = 0]
                 /\ count_job'.open = count_job.open
                 /\ count_job'.close = count_job.close + 1
                 /\ DOMAIN phase' = DOMAIN phase /\ Len(phase') = Len(phase)
                 /\ \A i \in DOMAIN phase :
                      phase'[i] = IF i = job[j].info THEN "closed" ELSE phase[i]
                 /\ \A i \in Job :
                      /\ job'[i].info = job[i].info
                      /\ job'[i].isDistributeEnd = job[i].isDistributeEnd
                      /\ job'[i].c_distribute = job[i].c_distribute
                      /\ job'[i].c_rollup = job[i].c_rollup
                      /\ i # j => job'[i] = job[i]
            ELSE UNCHANGED <<job, count, count_job, phase>>
<1>1. CASE ~MayClose(j)
  BY <1>1 DEF CloseIfNeed, Types, JobTypes, SeenTypes
<1>2. CASE MayClose(j)
  <2>1. job \in [Job -> JobInfo] /\ job[j] \in JobInfo
    BY DEF Types, JobTypes
  <2>2. PICK v : v = [job[j] EXCEPT !.isUsed = FALSE]
    OBVIOUS
  <2>3. /\ v \in JobInfo /\ v.info = job[j].info /\ ~v.isUsed
        /\ v.isDistributeEnd = job[j].isDistributeEnd
        /\ v.c_distribute = job[j].c_distribute /\ v.c_rollup = job[j].c_rollup
    BY <2>1, <2>2 DEF JobInfo
  <2>4. job' = [job EXCEPT ![j] = v]
    BY <1>2, <2>1, <2>2 DEF CloseIfNeed
  <2>5. job' \in [Job -> JobInfo] /\ job'[j] = v /\ \A i \in Job : i # j => job'[i] = job[i]
    BY <2>1, <2>3, <2>4, JobWritten
  <2>6. count' = [count EXCEPT ![j] = 0] /\ count' \in [Job -> Nat]
    BY <1>2 DEF CloseIfNeed, Types, JobTypes
  <2>7. /\ count_job' \in [open : Nat, close : Nat] /\ count_job'.open = count_job.open
        /\ count_job'.close = count_job.close + 1
    BY <1>2 DEF CloseIfNeed, Types, JobTypes
  <2>8. PICK k : k = job[j].info
    OBVIOUS
  <2>9. phase \in Seq({"open", "ended", "closed"}) /\ k \in DOMAIN phase
    BY <1>2, <2>8 DEF Types, SeenTypes
  <2>10. phase' = [phase EXCEPT ![k] = "closed"]
    BY <1>2, <2>8 DEF CloseIfNeed
  <2>11. /\ phase' \in Seq({"open", "ended", "closed"})
         /\ DOMAIN phase' = DOMAIN phase /\ Len(phase') = Len(phase)
         /\ \A i \in DOMAIN phase : phase'[i] = IF i = k THEN "closed" ELSE phase[i]
    BY <2>9, <2>10
  <2>12. JobTypes' /\ SeenTypes'
    BY <2>5, <2>6, <2>7, <2>11 DEF Types, JobTypes, SeenTypes
  <2> QED
    BY <1>2, <2>3, <2>5, <2>6, <2>7, <2>8, <2>11, <2>12
<1> QED
  BY <1>1, <1>2

\* The job the rollup looks at, and where it goes from there.
LEMMA LookIs ==
  ASSUME Types, NEW j \in Job, (R_Check /\ j = r.i_job) \/ (R_EmptyJob /\ j = r.i),
         MayClose(j) => job[j].info \in DOMAIN phase
  PROVE  /\ Types' /\ CloseIfNeed(j)
         /\ r'.pc \in {"visit", "main", "cmd", "empty"}
         /\ r'.hadRollupError = r.hadRollupError
<1>1. r \in RRecord /\ (R_Check => r.i \in Proc) /\ (R_EmptyJob => r.i \in Job)
  BY DEF Types, PlaceTypes, R_Check, R_EmptyJob
<1>2. CloseIfNeed(j) /\ UNCHANGED <<size, idle_i, stage, jobOf, opened>>
  BY DEF R_Check, R_EmptyJob
<1>3. JobTypes' /\ SeenTypes'
  BY <1>2, CloseIs
<1>4. /\ r' \in RRecord /\ r'.pc \in {"visit", "main", "cmd", "empty"}
      /\ r'.pc = "visit" => r'.i \in Proc
      /\ r'.pc = "empty" => r'.i \in Job
      /\ r'.pc \in {"main", "cmd"} => r'.i = 0
      /\ r'.hadRollupError = r.hadRollupError
  <2>1. CASE R_Check
    <3>1. PICK z : z = 0
      OBVIOUS
    <3>2. PICK s : s = [r EXCEPT !.i_job = z]
      OBVIOUS
    <3>3. s \in RRecord /\ s.i = r.i /\ s.hadRollupError = r.hadRollupError
      BY <1>1, <3>1, <3>2 DEF RRecord, Job
    <3>4. R_Next(s)
      BY <2>1, <3>1, <3>2 DEF R_Check
    <3> QED
      BY <1>1, <2>1, <3>3, <3>4, RNextIs
  <2>2. CASE R_EmptyJob
    <3>1. PICK i, pc : /\ i = (r.i + 1) % MAX_JOB
                       /\ pc = IF r.i + 1 < MAX_JOB THEN "empty" ELSE "cmd"
      OBVIOUS
    <3>2. i \in Job /\ i \in Nat /\ pc \in {"empty", "cmd"} /\ (pc = "cmd" => i = 0)
      <4>1. r.i \in Job /\ r.i + 1 \in Nat /\ r.i + 1 <= MAX_JOB
        BY <1>1, <2>2 DEF Job
      <4>2. r.i + 1 < MAX_JOB => (r.i + 1) % MAX_JOB = r.i + 1
        BY <4>1, SmallMod
      <4>3. MAX_JOB % MAX_JOB = 0
        BY NoneLeft
      <4>4. r.i + 1 = MAX_JOB => (r.i + 1) % MAX_JOB = 0
        BY <4>3
      <4> QED
        BY <3>1, <4>1, <4>2, <4>4 DEF Job
    <3>3. r' = [r EXCEPT !.i = i, !.pc = pc]
      BY <2>2, <3>1 DEF R_EmptyJob
    <3> QED
      BY <1>1, <3>2, <3>3 DEF RRecord
  <2> QED
    BY <2>1, <2>2
<1>5. PidTypes' /\ RingTypes' /\ UNCHANGED <<d, p>>
  BY DEF R_Check, R_EmptyJob, Types, PidTypes, RingTypes, pids
<1> QED
  BY <1>2, <1>3, <1>4, <1>5, RPlaces DEF Types

\* The rollup ends.
LEMMA REndsTypes ==
  ASSUME Types, R_OpenFails \/ R_CloseFails
  PROVE  /\ Types' /\ UNCHANGED <<block, jobs, count, d, p, r, seen, lost>>
         /\ \A c \in Proc : state'[c] = state[c] /\ alive'[c] = alive[c]
<1>1. ROLLUP \in PID /\ ROLLUP \notin Proc
  BY DEF PID, Child, ROLLUP, Proc
<1>2. Gone(ROLLUP, "EXITED") /\ UNCHANGED <<block, jobs, i_process, count, d, p, r, seen, lost>>
  BY DEF R_OpenFails, R_CloseFails, R_Leave
<1>3. PidTypes' /\ \A c \in Proc : state'[c] = state[c] /\ alive'[c] = alive[c]
  BY <1>1, <1>2, GoneTypes DEF Gone, Types, PidTypes, PID, Child
<1>4. RingTypes'
  <2>1. CASE R_OpenFails
    BY <1>2, <2>1, AtIs, VisitedTypes DEF R_OpenFails, Types, RingTypes
  <2>2. CASE R_CloseFails
    BY <1>2, <2>2 DEF R_CloseFails, Types, RingTypes
  <2> QED
    BY <2>1, <2>2
<1>5. JobTypes' /\ SeenTypes' /\ PlaceTypes'
  BY <1>2 DEF Types, JobTypes, SeenTypes, PlaceTypes, jobs, seen
<1> QED
  BY <1>2, <1>3, <1>4, <1>5 DEF Types

LEMMA RWaitsTypes ==
  ASSUME Types, R_Main \/ R_Cmd
  PROVE  /\ Types' /\ UNCHANGED <<block, jobs, count, d, p, seen, lost>>
         /\ \A c \in Proc : state'[c] = state[c] /\ alive'[c] = alive[c]
         /\ r.pc \notin {"undo", "null"} /\ r'.pc \notin {"undo", "null"}
         /\ r'.hadRollupError = r.hadRollupError
<1>1. ROLLUP \in PID /\ ROLLUP \notin Proc /\ DISTRIBUTE \notin Proc
  BY DEF PID, Child, ROLLUP, DISTRIBUTE, Proc
<1>2. UNCHANGED <<block, next, jobs, i_process, count, d, p, seen, lost>>
  BY DEF R_Main, R_Cmd
<1>3. r \in RRecord /\ r.pc \in {"main", "cmd"} /\ r.i = 0 /\ 0 \in Proc /\ 0 \in Job
  BY DEF R_Main, R_Cmd, Types, PlaceTypes, Proc, Job
<1>4. PidTypes' /\ \A c \in Proc : state'[c] = state[c] /\ alive'[c] = alive[c]
  <2>1. \/ UNCHANGED pids \/ LeaveOrphaned(ROLLUP) \/ Gone(ROLLUP, "EXITED")
        \/ stale' = [stale EXCEPT ![ROLLUP] = FALSE] /\ UNCHANGED <<state, cmd, alive>>
    BY DEF R_Main, R_Cmd, R_Leave, process_cmd
  <2>2. CASE UNCHANGED pids
    BY <2>2 DEF pids, Types, PidTypes
  <2>3. CASE LeaveOrphaned(ROLLUP)
    BY <1>1, <2>3, LeaveTypes DEF LeaveOrphaned, Types, PidTypes, PID, Child
  <2>4. CASE Gone(ROLLUP, "EXITED")
    BY <1>1, <2>4, GoneTypes DEF Gone, Types, PidTypes, PID, Child
  <2>5. CASE stale' = [stale EXCEPT ![ROLLUP] = FALSE] /\ UNCHANGED <<state, cmd, alive>>
    BY <2>5 DEF Types, PidTypes
  <2> QED
    BY <2>1, <2>2, <2>3, <2>4, <2>5
<1>5. /\ r' \in RRecord /\ r'.pc \in {"main", "cmd", "empty", "visit"} /\ r'.i = 0
      /\ r'.hadRollupError = r.hadRollupError
  <2>1. PICK j, f : j = next[0].rollup /\ f = 0
    OBVIOUS
  <2>2. j \in Slot
    BY <1>3, <2>1 DEF Types, RingTypes
  <2>3. PICK no \in BOOLEAN, yes \in BOOLEAN : no = FALSE /\ yes = TRUE
    OBVIOUS
  <2>4. \/ UNCHANGED r \/ r' = [r EXCEPT !.pc = "empty"]
        \/ r' = [r EXCEPT !.pc = "visit", !.j = j, !.isTaskRun = no, !.hadDoNothing = yes]
    BY <2>1, <2>3 DEF R_Main, R_Cmd, R_Leave
  <2>5. CASE UNCHANGED r
    BY <1>3, <2>5
  <2>6. CASE r' = [r EXCEPT !.pc = "empty"]
    BY <1>3, <2>6 DEF RRecord
  <2>7. CASE r' = [r EXCEPT !.pc = "visit", !.j = j, !.isTaskRun = no, !.hadDoNothing = yes]
    BY <1>3, <2>2, <2>7 DEF RRecord
  <2> QED
    BY <2>4, <2>5, <2>6, <2>7
<1>6. PlaceTypes'
  BY <1>2, <1>3, <1>5, RPlaces
<1>7. RingTypes' /\ JobTypes' /\ SeenTypes'
  BY <1>2 DEF Types, RingTypes, JobTypes, SeenTypes, jobs, seen
<1> QED
  BY <1>2, <1>3, <1>4, <1>5, <1>6, <1>7 DEF Types

\* The operator and the deaths.
LEMMA OutsideTypes ==
  ASSUME Types, (\E c \in Command : Operator(c)) \/ (\E x \in PID : Crash(x))
  PROVE  /\ Types' /\ UNCHANGED <<block, jobs, count, d, p, r, seen, lost>>
         /\ \A c \in Proc : state'[c] = state[c] /\ (alive'[c] => alive[c])
<1>1. UNCHANGED <<state, block, next, jobs, i_process, count, d, r, p, seen, lost>>
  BY DEF Operator, Crash
<1>2. PidTypes' /\ \A c \in Proc : alive'[c] => alive[c]
  <2>1. CASE \E c \in Command : Operator(c)
    <3>1. PICK c \in Command : Operator(c)
      BY <2>1
    <3>2. c \in {"NULL", "EXIT", "PAUSE"}
      BY <3>1
    <3> QED
      BY <3>1, <3>2 DEF Operator, Types, PidTypes
  <2>2. CASE \E x \in PID : Crash(x)
    BY <2>2 DEF Crash, Types, PidTypes, PID, Child
  <2> QED
    BY <2>1, <2>2
<1> QED
  BY <1>1, <1>2 DEF Types, RingTypes, JobTypes, SeenTypes, PlaceTypes, jobs, seen

-----------------------------------------------------------------------------
(* The argument.                                                           *)

(* The slots and their jobs *)

\* A slot in use is that of a job not closed, one not in use is free, or being
\* taken; no job has two slots.
Slots ==
  /\ \A j \in Job : job[j].info \in 0..Len(phase)
  /\ \A i, j \in Job : job[i].info = job[j].info /\ job[i].info # 0 => i = j
  /\ \A j \in Job : job[j].isUsed =>
       /\ j < size /\ job[j].info # 0
       /\ phase[job[j].info] = IF job[j].isDistributeEnd THEN "ended" ELSE "open"
  /\ \A j \in Job : ~job[j].isUsed =>
       job[j].info = 0 \/ phase[job[j].info] = "closed" \/ (Taking /\ d.i_job = j)
  /\ \A i \in DOMAIN phase : phase[i] # "closed" => \E j \in Job : job[j].info = i

TasksOf(i)  == {k \in DOMAIN stage : jobOf[k] = i}
RolledOf(i) == {k \in DOMAIN stage : jobOf[k] = i /\ Last(k) = "Rollup"}
InUse       == {j \in Job : job[j].isUsed}

\* What the distributor holds in hand.
InHand ==
  /\ Taking =>
       /\ ~job[d.i_job].isUsed /\ d.i_job < size
       /\ job[d.i_job].info # 0 /\ phase[job[d.i_job].info] = "open"
       /\ TasksOf(job[d.i_job].info) = {} /\ job[d.i_job].info \notin Range(opened)
  /\ d.pc = "use" =>
       /\ ~job[d.i_job].isDistributeEnd
       /\ job[d.i_job].c_distribute = 0 /\ job[d.i_job].c_rollup = 0
  /\ Serving => job[d.i_job].isUsed /\ ~job[d.i_job].isDistributeEnd

\* The counts of a slot are those of its job's tasks; a job is opened with its
\* first task that is rolled up.
SlotCounts(j) ==
  job[j].isUsed =>
    /\ job[j].c_distribute = Cardinality(TasksOf(job[j].info))
    /\ job[j].c_rollup = Cardinality(RolledOf(job[j].info))
    /\ ~r.hadRollupError => (job[j].c_rollup = 0 <=> job[j].info \notin Range(opened))

\* ... and the rollup's private copy agrees.
Counted ==
  /\ \A k \in DOMAIN jobOf : jobOf[k] \in DOMAIN phase
  /\ Range(opened) \subseteq DOMAIN phase
  /\ \A j \in Job : SlotCounts(j)
  /\ \A j \in Job : count[j] = IF job[j].isUsed THEN job[j].c_rollup ELSE 0
  /\ count_job.open - count_job.close = Cardinality(InUse)

-----------------------------------------------------------------------------
(* The blocks and their tasks *)

\* Every block has tasks of its own, also when it is free.
BlockApart(pos) ==
  /\ TasksAt(pos) \subseteq DOMAIN stage /\ Len(B(pos).tasks) <= MAX_BLOCK_TASK
  /\ IsInjective(B(pos).tasks)
  /\ B(pos).task_state # "NULL" => B(pos).tasks # <<>>
Apart ==
  /\ \A pos \in Pos : BlockApart(pos)
  /\ \A a, b \in Pos : a # b => TasksAt(a) \cap TasksAt(b) = {}
  /\ lost \subseteq DOMAIN stage

Between(q, pc, i) == p[q].pc = pc /\ p[q].i = i
RollupAt(pos) == r.pc \in {"undo", "null"} /\ pos = <<r.i, r.j>>

\* A process between two writes is at a block that is still its own to hand
\* on; one that was found dead has had its blocks cleared.
ProcessTurn(q) ==
  /\ p[q].pc \in {"done", "cancel"} => state[q] \in {"RUN", "COREDUMP"}
  /\ state[q] = "RUN" /\ p[q].pc = "done" => Here(q).task_state = "NEW"
  /\ state[q] = "RUN" /\ p[q].pc = "cancel" => Here(q).task_state = "UNDO"
  /\ state[q] = "COREDUMP" =>
       Stopping /\ \A b \in Slot : block[q][b].task_state \in {"NULL", "UNDO"}

\* So is the rollup, unless the block was cleared under it.
RollupTurn ==
  r.pc \in {"undo", "null"} =>
    /\ At.task_state = "DONE" \/ (At.task_state = "NULL" /\ Stopping)
    /\ At.tasks # <<>>
    /\ ~Between(r.i, "done", r.j) /\ ~Between(r.i, "cancel", r.j)

\* A block that no error has gone through, as far as the server goes on.
Unspoilt(pos) ==
  B(pos).task_state \in {"NEW", "DONE"} \/ (B(pos).task_state = "NULL" /\ ~Stopping)
    => B(pos).error_task_index = 0

Turns ==
  /\ \A q \in Proc : ProcessTurn(q)
  /\ RollupTurn
  /\ \A pos \in Pos : Unspoilt(pos)

\* A task before Process and before UnProcess is called for it, if need be again.
Fresh(k)    == Last(k) = "none" \/ (Last(k) = "Process" /\ "Process" \in Fault)
Undoable(k) == Last(k) = "Process" \/ (Last(k) = "UnProcess" /\ "UnProcess" \in Fault)

\* The first n tasks of a block.
First(tasks, n) == {tasks[m] : m \in 1..n \cap DOMAIN tasks}

\* What was called last for the tasks of a block.
NewRight(pos) ==
  B(pos).task_state = "NEW" =>
    \A k \in TasksAt(pos) :
      IF Between(pos[1], "done", pos[2]) THEN Last(k) = "Process" ELSE Fresh(k)
DoneRight(pos) ==
  B(pos).task_state = "DONE" /\ ~RollupAt(pos) => \A k \in TasksAt(pos) : Last(k) = "Process"
UndoRight(pos) ==
  B(pos).task_state = "UNDO" =>
    \A k \in TasksAt(pos) :
      IF k \in First(B(pos).tasks, B(pos).error_task_index) THEN Last(k) = "Rollup"
      ELSE IF Between(pos[1], "cancel", pos[2]) THEN Last(k) = "UnProcess"
      ELSE Undoable(k)
BlockRight(pos) == NewRight(pos) /\ DoneRight(pos) /\ UndoRight(pos)
RollupRight ==
  /\ r.pc = "null" => \A k \in Range(At.tasks) : Last(k) = "Rollup"
  /\ r.pc = "undo" =>
       \A k \in Range(At.tasks) :
         Last(k) = IF k \in First(At.tasks, r.error) THEN "Rollup" ELSE "Process"

History ==
  /\ \A pos \in Pos : BlockRight(pos)
  /\ RollupRight

\* A block that is handed over and has a task to be rolled up keeps the slot of
\* its job; a task that is on its way is in a block, or in the one being filled.
OnItsWay(pos) == B(pos).task_state # "NULL" \/ RollupAt(pos)
KeepsJob(pos) ==
  OnItsWay(pos) /\ (\E k \in TasksAt(pos) : Last(k) # "Rollup") =>
    /\ job[B(pos).i_job].isUsed
    /\ \A k \in TasksAt(pos) : jobOf[k] = job[B(pos).i_job].info
Carried(pos) == B(pos).task_state # "NULL" \/ FillingAt(pos[1], pos[2])
Held(k) ==
  Last(k) \in {"none", "Process"} /\ k \notin lost =>
    \E pos \in Pos : Carried(pos) /\ k \in TasksAt(pos)

Kept ==
  /\ \A pos \in Pos : KeepsJob(pos)
  /\ \A k \in DOMAIN stage : Held(k)

\* The block being filled is free, and its tasks, the job's in hand, untouched.
FilledRight(q, b) ==
  FillingAt(q, b) =>
    /\ block[q][b].task_state = "NULL"
    /\ \A k \in TasksAt(<<q, b>>) : Last(k) = "none" /\ jobOf[k] = job[d.i_job].info
Filling == \A q \in Proc, b \in Slot : FilledRight(q, b)

IInv ==
  /\ Types /\ Slots /\ InHand /\ Counted
  /\ Apart /\ Turns /\ History /\ Kept /\ Filling

-----------------------------------------------------------------------------
(* The first tasks of a block *)

LEMMA FirstIs ==
  ASSUME NEW s \in Seq(Nat), NEW n \in 0..Len(s)
  PROVE  \A k : k \in First(s, n) <=> \E m \in 1..n : k = s[m]
<1>1. 1..n \cap DOMAIN s = 1..n
  OBVIOUS
<1> QED
  BY <1>1 DEF First

LEMMA FirstRest ==
  ASSUME NEW s \in Seq(Nat), IsInjective(s), NEW e \in Nat, NEW k \in Range(s)
  PROVE  k \in First(s, e) <=> ~ \E m \in e + 1..Len(s) : k = s[m]
<1> DEFINE len == Len(s)
<1>0. len \in Nat /\ DOMAIN s = 1..len
  OBVIOUS
<1>1. PICK m \in 1..len : k = s[m]
  BY <1>0 DEF Range
<1> HIDE DEF len
<1>2. \A i \in 1..len : k = s[i] => i = m
  <2>1. \A a, b \in 1..len : s[a] = s[b] => a = b
    BY <1>0 DEF IsInjective
  <2> QED
    BY <1>1, <2>1
<1>3. k \in First(s, e) <=> m <= e
  <2>1. \A i : i \in 1..e \cap DOMAIN s <=> i \in 1..len /\ i <= e
    BY <1>0
  <2>2. k \in First(s, e) <=> \E i \in 1..len : i <= e /\ k = s[i]
    BY <2>1 DEF First
  <2> QED
    BY <1>1, <1>2, <2>2
<1>4. (\E i \in e + 1..len : k = s[i]) <=> ~(m <= e)
  <2>1. \A i : i \in e + 1..len <=> i \in 1..len /\ ~(i <= e)
    BY <1>0
  <2> QED
    BY <1>1, <1>2, <2>1
<1> QED
  BY <1>3, <1>4 DEF len

LEMMA FirstSize ==
  ASSUME NEW s \in Seq(Nat), IsInjective(s), NEW n \in 0..Len(s)
  PROVE  IsFiniteSet(First(s, n)) /\ Cardinality(First(s, n)) = n
<1> DEFINE f == [m \in 1..n |-> s[m]]
<1>1. f \in Bijection(1..n, First(s, n))
  <2>0. \A m \in 1..n : m \in DOMAIN s
    OBVIOUS
  <2>1. \A m \in 1..n : m \in DOMAIN s /\ f[m] \in First(s, n)
    <3>1. \A m \in 1..n : m \in 1..n \cap DOMAIN s /\ f[m] = s[m]
      BY <2>0
    <3> HIDE DEF f
    <3> QED
      BY <3>1 DEF First
  <2>2. \A a, b \in 1..n : f[a] = f[b] => a = b
    BY <2>1 DEF IsInjective
  <2>3. \A k \in First(s, n) : \E m \in 1..n : f[m] = k
    BY DEF First
  <2>4. f \in [1..n -> First(s, n)]
    BY <2>1
  <2> QED
    BY <2>2, <2>3, <2>4 DEF Bijection, Injection, Surjection, IsInjective
<1>2. IsFiniteSet(1..n) /\ Cardinality(1..n) = n
  <2>1. 1 \in Int /\ n \in Int
    OBVIOUS
  <2>2. IsFiniteSet(1..n) /\ Cardinality(1..n) = IF 1 > n THEN 0 ELSE n - 1 + 1
    BY <2>1, FS_Interval, Zenon
  <2>3. (IF 1 > n THEN 0 ELSE n - 1 + 1) = n
    OBVIOUS
  <2> QED
    BY <2>2, <2>3
<1>3. ExistsBijection(1..n, First(s, n))
  BY <1>1 DEF ExistsBijection
<1> HIDE DEF f
<1> QED
  BY <1>2, <1>3, FS_Bijection

LEMMA FiniteTasks ==
  ASSUME Types, NEW S \in SUBSET DOMAIN stage
  PROVE  IsFiniteSet(S) /\ Cardinality(S) \in Nat
<1>1. DOMAIN stage = 1..Len(stage) /\ Len(stage) \in Int /\ 1 \in Int
  BY DEF Types, SeenTypes
<1>2. IsFiniteSet(DOMAIN stage)
  BY <1>1, FS_Interval
<1> QED
  BY <1>2, FS_Subset, FS_CardinalityType

LEMMA FiniteSlots ==
  ASSUME NEW S \in SUBSET Job
  PROVE  IsFiniteSet(S) /\ Cardinality(S) \in Nat
<1>1. 0 \in Int /\ MAX_JOB - 1 \in Int
  OBVIOUS
<1>2. IsFiniteSet(Job)
  BY <1>1, FS_Interval DEF Job
<1> QED
  BY <1>2, FS_Subset, FS_CardinalityType

-----------------------------------------------------------------------------
(* The slots: what leaves them alone *)

\* A step that writes nothing of the slots and calls Rollup for no task.
JobsStay ==
  /\ UNCHANGED <<job, count, count_job, phase, opened, jobOf>> /\ size <= size'
  /\ DOMAIN stage' = DOMAIN stage
  /\ \A k \in DOMAIN stage : Last(k)' = "Rollup" <=> Last(k) = "Rollup"
  /\ r.hadRollupError => r'.hadRollupError

\* A step after which the distributor holds no other job in hand.
HandStays ==
  \/ UNCHANGED d
  \/ /\ ~Taking /\ ~Taking'
     /\ Serving' => Serving /\ d'.i_job = d.i_job

LEMMA TasksStay ==
  ASSUME JobsStay
  PROVE  \A i : TasksOf(i)' = TasksOf(i) /\ RolledOf(i)' = RolledOf(i)
<1> SUFFICES ASSUME NEW i
             PROVE  TasksOf(i)' = TasksOf(i) /\ RolledOf(i)' = RolledOf(i)
  OBVIOUS
<1>1. TasksOf(i)' = TasksOf(i)
  BY DEF JobsStay, TasksOf
<1>2. \A k : k \in RolledOf(i)' <=> k \in RolledOf(i)
  BY DEF JobsStay, RolledOf
<1> QED
  BY <1>1, <1>2

LEMMA SlotsStay ==
  ASSUME Types, Types', Slots, InHand, Counted, JobsStay, HandStays
  PROVE  Slots' /\ InHand' /\ Counted'
<1>1. \A i : TasksOf(i)' = TasksOf(i) /\ RolledOf(i)' = RolledOf(i)
  BY TasksStay
<1>2. size \in Int /\ size' \in Int /\ Job \subseteq Int
  BY DEF Types, JobTypes, Job
<1>3. Slots'
  <2>1. \A j \in Job : job'[j].isUsed =>
          /\ j < size' /\ job'[j].info # 0
          /\ phase'[job'[j].info] = IF job'[j].isDistributeEnd THEN "ended" ELSE "open"
    <3>1. \A j \in Job : j < size => j < size'
      BY <1>2 DEF JobsStay
    <3> QED
      BY <3>1 DEF Slots, JobsStay
  <2>2. \A j \in Job : ~job'[j].isUsed =>
          job'[j].info = 0 \/ phase'[job'[j].info] = "closed" \/ (Taking' /\ d'.i_job = j)
    BY DEF Slots, JobsStay, HandStays, Taking
  <2> QED
    BY <2>1, <2>2 DEF Slots, JobsStay
<1>4. InHand'
  <2>1. CASE UNCHANGED d
    <3>1. (Taking' <=> Taking) /\ (Serving' <=> Serving)
      BY <2>1 DEF Taking, Serving
    <3>2. d.i_job \in Job
      BY DEF Types, PlaceTypes, DRecord
    <3>3. d.i_job < size => d.i_job < size'
      <4>1. \A j \in Job : j < size => j < size'
        BY <1>2 DEF JobsStay
      <4> QED
        BY <3>2, <4>1
    <3>4. TasksOf(job[d.i_job].info)' = {} <=> TasksOf(job[d.i_job].info) = {}
      BY <1>1, <2>1 DEF JobsStay, TasksOf
    <3> QED
      BY <2>1, <3>1, <3>3, <3>4 DEF InHand, JobsStay
  <2>2. CASE ~Taking /\ ~Taking' /\ (Serving' => Serving /\ d'.i_job = d.i_job)
    BY <2>2 DEF InHand, JobsStay, Taking
  <2> QED
    BY <2>1, <2>2 DEF HandStays
<1>5. Counted'
  <2>1. \A j \in Job : SlotCounts(j)'
    <3> SUFFICES ASSUME NEW j \in Job, job[j].isUsed
                 PROVE  /\ job[j].c_distribute = Cardinality(TasksOf(job[j].info)')
                        /\ job[j].c_rollup = Cardinality(RolledOf(job[j].info)')
                        /\ ~r'.hadRollupError =>
                             (job[j].c_rollup = 0 <=> job[j].info \notin Range(opened))
      BY DEF SlotCounts, JobsStay, TasksOf, RolledOf
    <3>1. SlotCounts(j)
      BY DEF Counted
    <3> QED
      BY <1>1, <3>1 DEF SlotCounts, JobsStay
  <2>2. InUse' = InUse
    BY DEF InUse, JobsStay
  <2> QED
    BY <2>1, <2>2 DEF Counted, JobsStay
<1> QED
  BY <1>3, <1>4, <1>5

-----------------------------------------------------------------------------
(* The slots: what writes them *)

\* The slot of a job in hand is not in use.
LEMMA HandIs ==
  ASSUME Types
  PROVE  /\ d \in DRecord /\ d.i_job \in Job /\ job[d.i_job] \in JobInfo
         /\ job[d.i_job].info \in Nat
<1>1. d \in DRecord /\ d.i_job \in Job
  BY DEF Types, PlaceTypes, DRecord
<1>2. job[d.i_job] \in JobInfo
  BY <1>1 DEF Types, JobTypes
<1> QED
  BY <1>1, <1>2 DEF JobInfo

\* A new job.
LEMMA OpenJobSlots ==
  ASSUME Types, Slots, InHand, Counted, D_OpenJob
  PROVE  Slots' /\ InHand' /\ Counted'
<1>1. \A j \in Job : job[j].isUsed => j < size
  BY DEF Slots
<1>2. /\ Types' /\ size <= size' /\ ~Serving' /\ d'.pc # "use"
      /\ \/ UNCHANGED <<job, phase>> /\ ~Taking'
         \/ \E j \in Job :
              /\ ~job[j].isUsed /\ j < size' /\ d'.pc = "reset" /\ d'.i_job = j
              /\ phase' = Append(phase, "open")
              /\ job'[j].info = Len(phase) + 1
              /\ \A i \in Job :
                   /\ i # j => job'[i] = job[i]
                   /\ job'[i].isUsed = job[i].isUsed
  BY <1>1, OpenJobIs
<1>3. UNCHANGED <<count_job, count, stage, jobOf, opened, r>> /\ ~Taking
  BY DEF D_OpenJob, Taking
<1>4. CASE UNCHANGED <<job, phase>> /\ ~Taking'
  <2>1. JobsStay /\ HandStays
    BY <1>2, <1>3, <1>4 DEF JobsStay, HandStays, Last
  <2> QED
    BY <1>2, <2>1, SlotsStay
<1>5. ASSUME NEW j \in Job,
             ~job[j].isUsed, j < size', d'.pc = "reset", d'.i_job = j,
             phase' = Append(phase, "open"), job'[j].info = Len(phase) + 1,
             \A i \in Job : /\ i # j => job'[i] = job[i]
                            /\ job'[i].isUsed = job[i].isUsed
      PROVE  Slots' /\ InHand' /\ Counted'
  <2>0. PICK new : new = Len(phase) + 1
    OBVIOUS
  <2>1. /\ phase \in Seq({"open", "ended", "closed"}) /\ Len(phase) \in Nat
        /\ new = Len(phase) + 1 /\ new \in Nat /\ new # 0 /\ job'[j].info = new
    BY <1>5, <2>0 DEF Types, SeenTypes
  <2>2. /\ DOMAIN phase = 1..Len(phase) /\ DOMAIN phase' = 1..new /\ Len(phase') = new
        /\ phase'[new] = "open" /\ \A i \in DOMAIN phase : phase'[i] = phase[i]
    BY <1>5, <2>1
  <2>3. \A i \in Job : i # j => job'[i].info \in 0..Len(phase)
    BY <1>5 DEF Slots
  <2>4. \A i \in Job : job[i].info = 0 \/ job[i].info \in DOMAIN phase
    BY <2>1, <2>2 DEF Slots
  <2>5. job[j].info = 0 \/ phase[job[j].info] = "closed"
    BY <1>3, <1>5 DEF Slots
  <2>6. size \in Int /\ size' \in Int /\ Job \subseteq Int
    BY <1>2 DEF Types, JobTypes, Job
  <2>7. Slots'
    <3>1. \A i \in Job : job'[i].info \in 0..Len(phase')
      BY <1>5, <2>1, <2>2, <2>3
    <3>2. \A a, b \in Job : job'[a].info = job'[b].info /\ job'[a].info # 0 => a = b
      <4> SUFFICES ASSUME NEW a \in Job, NEW b \in Job,
                          job'[a].info = job'[b].info, job'[a].info # 0
                   PROVE  a = b
        OBVIOUS
      <4>1. a = j <=> b = j
        BY <1>5, <2>1, <2>3
      <4>2. CASE a # j /\ b # j
        <5>1. job[a].info = job[b].info /\ job[a].info # 0
          BY <1>5, <4>2
        <5> QED
          BY <5>1 DEF Slots
      <4> QED
        BY <4>1, <4>2
    <3>3. \A i \in Job : job'[i].isUsed =>
            /\ i < size' /\ job'[i].info # 0
            /\ phase'[job'[i].info] = IF job'[i].isDistributeEnd THEN "ended" ELSE "open"
      <4> SUFFICES ASSUME NEW i \in Job, job'[i].isUsed
                   PROVE  /\ i < size' /\ job'[i].info # 0
                          /\ phase'[job'[i].info] =
                               IF job'[i].isDistributeEnd THEN "ended" ELSE "open"
        OBVIOUS
      <4>1. i # j /\ job'[i] = job[i] /\ job[i].isUsed
        BY <1>5
      <4>2. /\ i < size /\ job[i].info # 0
            /\ phase[job[i].info] = IF job[i].isDistributeEnd THEN "ended" ELSE "open"
        BY <4>1 DEF Slots
      <4>3. i < size'
        BY <1>2, <2>6, <4>2
      <4> QED
        BY <2>2, <2>4, <4>1, <4>2, <4>3
    <3>4. \A i \in Job : ~job'[i].isUsed =>
            job'[i].info = 0 \/ phase'[job'[i].info] = "closed" \/ (Taking' /\ d'.i_job = i)
      <4> SUFFICES ASSUME NEW i \in Job, ~job'[i].isUsed, i # j
                   PROVE  job'[i].info = 0 \/ phase'[job'[i].info] = "closed"
        BY <1>5 DEF Taking
      <4>1. job[i].info = 0 \/ phase[job[i].info] = "closed"
        BY <1>3, <1>5 DEF Slots
      <4> QED
        BY <1>5, <2>2, <2>4, <4>1
    <3>5. \A i \in DOMAIN phase' : phase'[i] # "closed" => \E s \in Job : job'[s].info = i
      <4> SUFFICES ASSUME NEW i \in DOMAIN phase, phase[i] # "closed"
                   PROVE  \E s \in Job : job'[s].info = i
        BY <1>5, <2>1, <2>2
      <4>1. PICK s \in Job : job[s].info = i
        BY DEF Slots
      <4>2. s # j
        BY <2>1, <2>2, <2>5, <4>1
      <4> QED
        BY <1>5, <4>1, <4>2
    <3> QED
      BY <3>1, <3>2, <3>3, <3>4, <3>5 DEF Slots
  <2>8. \A k \in DOMAIN jobOf : jobOf[k] \in DOMAIN phase /\ jobOf[k] # new
    BY <2>1, <2>2 DEF Counted
  <2>9. Range(opened) \subseteq DOMAIN phase /\ new \notin Range(opened)
    BY <2>1, <2>2 DEF Counted
  <2>10. DOMAIN stage = DOMAIN jobOf
    BY DEF Types, SeenTypes
  <2>11. InHand'
    <3>1. TasksOf(new)' = {}
      BY <1>3, <2>8, <2>10 DEF TasksOf
    <3>2. job'[d'.i_job].info = new /\ ~job'[d'.i_job].isUsed
      BY <1>5, <2>1
    <3>3. TasksOf(job[d.i_job].info)' = TasksOf(new)'
      BY <3>2 DEF TasksOf
    <3> QED
      BY <1>2, <1>3, <1>5, <2>1, <2>2, <2>9, <3>1, <3>2, <3>3 DEF InHand, Taking
  <2>12. Counted'
    <3>1. \A i \in Job : SlotCounts(i)'
      <4> SUFFICES ASSUME NEW i \in Job, job'[i].isUsed
                   PROVE  SlotCounts(i)'
        BY DEF SlotCounts
      <4>1. job'[i] = job[i] /\ SlotCounts(i)
        BY <1>5 DEF Counted
      <4> QED
        BY <1>3, <4>1 DEF SlotCounts, TasksOf, RolledOf, Last
    <3>2. InUse' = InUse
      BY <1>5 DEF InUse
    <3>3. \A i \in Job : count[i] = IF job'[i].isUsed THEN job'[i].c_rollup ELSE 0
      BY <1>5 DEF Counted
    <3>4. /\ \A k \in DOMAIN jobOf : jobOf[k] \in DOMAIN phase'
          /\ Range(opened) \subseteq DOMAIN phase'
      BY <2>1, <2>2, <2>8, <2>9
    <3> QED
      BY <1>3, <3>1, <3>2, <3>3, <3>4 DEF Counted
  <2> QED
    BY <2>7, <2>11, <2>12
<1> QED
  BY <1>2, <1>4, <1>5

LEMMA ResetJobSlots ==
  ASSUME Types, Slots, InHand, Counted, D_ResetJob
  PROVE  Slots' /\ InHand' /\ Counted'
<1>1. PICK j \in Job : j = d.i_job
  BY HandIs
<1>2. /\ Types' /\ d'.pc = "use" /\ d'.i_job = j
      /\ job'[j].info = job[j].info /\ job'[j].isUsed = job[j].isUsed
      /\ ~job'[j].isDistributeEnd /\ job'[j].c_distribute = 0 /\ job'[j].c_rollup = 0
      /\ \A i \in Job : i # j => job'[i] = job[i]
  BY <1>1, ResetJobIs
<1>3. UNCHANGED <<size, count_job, count, stage, jobOf, phase, opened, r>> /\ Taking /\ Taking'
  BY <1>2 DEF D_ResetJob, seen, Taking
<1>4. /\ ~job[j].isUsed /\ j < size /\ job[j].info # 0 /\ phase[job[j].info] = "open"
      /\ TasksOf(job[j].info) = {} /\ job[j].info \notin Range(opened)
  BY <1>1, <1>3 DEF InHand
<1>5. Slots'
  <2>1. \A i \in Job : job'[i].info = job[i].info /\ job'[i].isUsed = job[i].isUsed
    BY <1>2
  <2>2. \A i \in Job : job[i].isUsed => job'[i] = job[i]
    BY <1>2, <1>4
  <2>3. \A i \in Job : ~job'[i].isUsed =>
          job'[i].info = 0 \/ phase[job'[i].info] = "closed" \/ (Taking' /\ d'.i_job = i)
    BY <1>1, <1>2, <1>3, <2>1 DEF Slots
  <2>4. /\ \A i \in Job : job'[i].info \in 0..Len(phase')
        /\ \A i, k \in Job : job'[i].info = job'[k].info /\ job'[i].info # 0 => i = k
    BY <1>3, <2>1 DEF Slots
  <2>5. \A i \in Job : job'[i].isUsed =>
          /\ i < size' /\ job'[i].info # 0
          /\ phase'[job'[i].info] = IF job'[i].isDistributeEnd THEN "ended" ELSE "open"
    BY <1>3, <2>1, <2>2 DEF Slots
  <2>6. \A i \in DOMAIN phase' : phase'[i] # "closed" => \E k \in Job : job'[k].info = i
    BY <1>3, <2>1 DEF Slots
  <2> QED
    BY <1>3, <2>3, <2>4, <2>5, <2>6 DEF Slots
<1>6. InHand'
  <2>1. TasksOf(job[d.i_job].info)' = {}
    BY <1>2, <1>3, <1>4 DEF TasksOf
  <2>2. ~Serving'
    BY <1>2 DEF Serving
  <2> QED
    BY <1>2, <1>3, <1>4, <2>1, <2>2 DEF InHand
<1>7. Counted'
  <2>1. \A i \in Job : SlotCounts(i)'
    <3> SUFFICES ASSUME NEW i \in Job, job'[i].isUsed
                 PROVE  SlotCounts(i)'
      BY DEF SlotCounts
    <3>1. job'[i] = job[i] /\ SlotCounts(i)
      BY <1>2, <1>4 DEF Counted
    <3> QED
      BY <1>3, <3>1 DEF SlotCounts, TasksOf, RolledOf, Last
  <2>2. InUse' = InUse
    BY <1>2 DEF InUse
  <2>3. \A i \in Job : count[i] = IF job'[i].isUsed THEN job'[i].c_rollup ELSE 0
    BY <1>2, <1>4 DEF Counted
  <2> QED
    BY <1>3, <2>1, <2>2, <2>3 DEF Counted
<1> QED
  BY <1>2, <1>5, <1>6, <1>7

\* The slot is handed to the rollup: its job has no tasks yet.
LEMMA UseJobSlots ==
  ASSUME Types, Slots, InHand, Counted, D_UseJob
  PROVE  Slots' /\ InHand' /\ Counted'
<1>1. PICK j \in Job : j = d.i_job
  BY HandIs
<1>2. /\ Types' /\ d'.pc = "tell" /\ d'.then = "loop" /\ d'.i_job = j
      /\ job'[j].isUsed /\ count_job'.open = count_job.open + 1
      /\ count_job'.close = count_job.close
      /\ \A i \in Job :
           /\ job'[i].info = job[i].info
           /\ job'[i].isDistributeEnd = job[i].isDistributeEnd
           /\ job'[i].c_distribute = job[i].c_distribute
           /\ job'[i].c_rollup = job[i].c_rollup
           /\ i # j => job'[i] = job[i]
  BY <1>1, UseJobIs
<1>3. /\ UNCHANGED <<size, count, stage, jobOf, phase, opened, r>>
      /\ Taking /\ ~Taking' /\ d.pc = "use"
  BY <1>2 DEF D_UseJob, seen, Taking
<1>4. /\ ~job[j].isUsed /\ j < size /\ job[j].info # 0 /\ phase[job[j].info] = "open"
      /\ TasksOf(job[j].info) = {} /\ job[j].info \notin Range(opened)
      /\ ~job[j].isDistributeEnd /\ job[j].c_distribute = 0 /\ job[j].c_rollup = 0
  BY <1>1, <1>3 DEF InHand
<1>5. Slots'
  <2>1. \A i \in Job : i # j => job'[i] = job[i]
    BY <1>2
  <2>2. \A i \in Job : job'[i].info = job[i].info
    BY <1>2
  <2>3. \A i \in Job : job'[i].isUsed =>
          /\ i < size /\ job'[i].info # 0
          /\ phase[job'[i].info] = IF job'[i].isDistributeEnd THEN "ended" ELSE "open"
    <3> SUFFICES ASSUME NEW i \in Job, job'[i].isUsed
                 PROVE  /\ i < size /\ job'[i].info # 0
                        /\ phase[job'[i].info] =
                             IF job'[i].isDistributeEnd THEN "ended" ELSE "open"
      OBVIOUS
    <3>1. CASE i = j
      BY <1>2, <1>4, <3>1
    <3>2. CASE i # j
      BY <2>1, <3>2 DEF Slots
    <3> QED
      BY <3>1, <3>2
  <2>4. \A i \in Job : ~job'[i].isUsed =>
          job'[i].info = 0 \/ phase[job'[i].info] = "closed"
    <3> SUFFICES ASSUME NEW i \in Job, ~job'[i].isUsed
                 PROVE  job'[i].info = 0 \/ phase[job'[i].info] = "closed"
      OBVIOUS
    <3>1. i # j /\ job'[i] = job[i]
      BY <1>2, <2>1
    <3>2. ~job[i].isUsed /\ d.i_job # i
      BY <1>1, <3>1
    <3>3. job[i].info = 0 \/ phase[job[i].info] = "closed"
      BY <3>2 DEF Slots
    <3> QED
      BY <3>1, <3>3
  <2>5. /\ \A i \in Job : job'[i].info \in 0..Len(phase')
        /\ \A i, k \in Job : job'[i].info = job'[k].info /\ job'[i].info # 0 => i = k
    BY <1>3, <2>2 DEF Slots
  <2>6. \A i \in DOMAIN phase' : phase'[i] # "closed" => \E k \in Job : job'[k].info = i
    BY <1>3, <2>2 DEF Slots
  <2> QED
    BY <1>3, <2>3, <2>4, <2>5, <2>6 DEF Slots
<1>6. InHand'
  <2>1. Serving' => job'[d'.i_job].isUsed /\ ~job'[d'.i_job].isDistributeEnd
    BY <1>2, <1>4
  <2> QED
    BY <1>2, <1>3, <2>1 DEF InHand
<1>7. Counted'
  <2>1. \A i \in Job : SlotCounts(i)'
    <3> SUFFICES ASSUME NEW i \in Job
                 PROVE  SlotCounts(i)'
      OBVIOUS
    <3>1. CASE i = j
      <4>1. TasksOf(job[i].info)' = {} /\ RolledOf(job[i].info)' = {}
        <5>1. TasksOf(job[i].info)' = {}
          BY <1>2, <1>3, <1>4, <3>1 DEF TasksOf
        <5> QED
          BY <5>1 DEF TasksOf, RolledOf
      <4>2. Cardinality({}) = 0
        BY FS_EmptySet
      <4> QED
        BY <1>2, <1>3, <1>4, <3>1, <4>1, <4>2 DEF SlotCounts
    <3>2. CASE i # j
      <4>1. job'[i] = job[i] /\ SlotCounts(i)
        BY <1>2, <3>2 DEF Counted
      <4> QED
        BY <1>3, <4>1 DEF SlotCounts, TasksOf, RolledOf, Last
    <3> QED
      BY <3>1, <3>2
  <2>2. Cardinality(InUse') = Cardinality(InUse) + 1
    <3>1. InUse' = InUse \cup {j} /\ j \notin InUse
      BY <1>2, <1>4 DEF InUse
    <3>2. InUse \in SUBSET Job
      BY DEF InUse
    <3>3. IsFiniteSet(InUse)
      BY <3>2, FiniteSlots
    <3> QED
      BY <3>1, <3>3, FS_AddElement
  <2>3. \A i \in Job : count[i] = IF job'[i].isUsed THEN job'[i].c_rollup ELSE 0
    <3> SUFFICES ASSUME NEW i \in Job
                 PROVE  count[i] = IF job'[i].isUsed THEN job'[i].c_rollup ELSE 0
      OBVIOUS
    <3>1. count[i] = IF job[i].isUsed THEN job[i].c_rollup ELSE 0
      BY DEF Counted
    <3> QED
      BY <1>2, <1>4, <3>1
  <2>4. count_job'.open - count_job'.close = Cardinality(InUse')
    <3>1. count_job.open - count_job.close = Cardinality(InUse)
      BY DEF Counted
    <3>2. count_job.open \in Nat /\ count_job.close \in Nat
      BY DEF Types, JobTypes
    <3> QED
      BY <1>2, <2>2, <3>1, <3>2
  <2> QED
    BY <1>3, <2>1, <2>3, <2>4 DEF Counted
<1> QED
  BY <1>2, <1>5, <1>6, <1>7

LEMMA CloseJobSlots ==
  ASSUME Types, Slots, InHand, Counted, D_CloseJob
  PROVE  Types' /\ Slots' /\ InHand' /\ Counted'
<1>1. PICK j \in Job : j = d.i_job
  BY HandIs
<1>2. /\ job[j].isUsed /\ ~job[j].isDistributeEnd
      /\ job[j].info # 0 /\ phase[job[j].info] = "open" /\ ~Taking
  BY <1>1 DEF InHand, Slots, D_CloseJob, Serving, Taking
<1>3. DOMAIN phase = 1..Len(phase) /\ Len(phase) \in Nat /\ job[j].info \in DOMAIN phase
  BY <1>2 DEF Types, SeenTypes, Slots
<1>4. /\ Types' /\ d'.pc = "tell" /\ d'.then = "top"
      /\ job'[j].isDistributeEnd
      /\ DOMAIN phase' = DOMAIN phase /\ Len(phase') = Len(phase)
      /\ \A i \in DOMAIN phase :
           phase'[i] = IF i = job[j].info THEN "ended" ELSE phase[i]
      /\ \A i \in Job :
           /\ job'[i].info = job[i].info
           /\ job'[i].isUsed = job[i].isUsed
           /\ job'[i].c_distribute = job[i].c_distribute
           /\ job'[i].c_rollup = job[i].c_rollup
           /\ i # j => job'[i] = job[i]
  BY <1>1, <1>3, CloseJobIs
<1>5. /\ UNCHANGED <<size, count, count_job, stage, jobOf, opened, r>>
      /\ ~Taking' /\ ~Serving'
  BY <1>4 DEF D_CloseJob, Taking, Serving
<1>6. Slots'
  <2>1. \A i \in Job : i # j => job[i].info = 0 \/ job[i].info # job[j].info
    BY DEF Slots
  <2>2. \A i \in Job : job'[i].isUsed =>
          /\ i < size /\ job'[i].info # 0
          /\ phase'[job'[i].info] = IF job'[i].isDistributeEnd THEN "ended" ELSE "open"
    <3> SUFFICES ASSUME NEW i \in Job, job'[i].isUsed
                 PROVE  /\ i < size /\ job'[i].info # 0
                        /\ phase'[job'[i].info] =
                             IF job'[i].isDistributeEnd THEN "ended" ELSE "open"
      OBVIOUS
    <3>1. /\ i < size /\ job[i].info # 0 /\ job[i].info \in DOMAIN phase
          /\ phase[job[i].info] = IF job[i].isDistributeEnd THEN "ended" ELSE "open"
      BY <1>3, <1>4 DEF Slots
    <3>2. CASE i = j
      BY <1>3, <1>4, <3>1, <3>2
    <3>3. CASE i # j
      BY <1>4, <2>1, <3>1, <3>3
    <3> QED
      BY <3>2, <3>3
  <2>3. \A i \in Job : ~job'[i].isUsed => job'[i].info = 0 \/ phase'[job'[i].info] = "closed"
    <3> SUFFICES ASSUME NEW i \in Job, ~job[i].isUsed, job[i].info # 0
                 PROVE  phase'[job'[i].info] = "closed"
      BY <1>4
    <3>1. job[i].info \in DOMAIN phase /\ phase[job[i].info] = "closed"
      BY <1>2, <1>3 DEF Slots
    <3> QED
      BY <1>2, <1>4, <3>1
  <2>4. \A i \in DOMAIN phase' : phase'[i] # "closed" => \E s \in Job : job'[s].info = i
    BY <1>2, <1>4 DEF Slots
  <2>5. /\ \A i \in Job : job'[i].info \in 0..Len(phase')
        /\ \A a, b \in Job : job'[a].info = job'[b].info /\ job'[a].info # 0 => a = b
    BY <1>4 DEF Slots
  <2> QED
    BY <1>5, <2>2, <2>3, <2>4, <2>5 DEF Slots
<1>7. InHand'
  BY <1>4, <1>5 DEF InHand
<1>8. Counted'
  <2>1. \A i \in Job : SlotCounts(i)'
    <3> SUFFICES ASSUME NEW i \in Job
                 PROVE  SlotCounts(i)'
      OBVIOUS
    <3>1. SlotCounts(i)
      BY DEF Counted
    <3>2. TasksOf(job[i].info)' = TasksOf(job[i].info) /\ RolledOf(job[i].info)' = RolledOf(job[i].info)
      BY <1>4, <1>5 DEF TasksOf, RolledOf, Last
    <3> QED
      BY <1>4, <1>5, <3>1, <3>2 DEF SlotCounts
  <2>2. InUse' = InUse
    BY <1>4 DEF InUse
  <2>3. \A i \in Job : count[i] = IF job'[i].isUsed THEN job'[i].c_rollup ELSE 0
    BY <1>4 DEF Counted
  <2> QED
    BY <1>4, <1>5, <2>1, <2>2, <2>3 DEF Counted
<1> QED
  BY <1>4, <1>6, <1>7, <1>8

\* The tasks after a new one was distributed.
LEMMA NewTask ==
  ASSUME Types, NEW info,
         DOMAIN stage' = 1..Len(stage) + 1, DOMAIN jobOf' = 1..Len(stage) + 1,
         \A k \in 1..Len(stage) : stage'[k] = stage[k] /\ jobOf'[k] = jobOf[k],
         stage'[Len(stage) + 1] = <<>>, jobOf'[Len(stage) + 1] = info
  PROVE  /\ DOMAIN stage = 1..Len(stage) /\ DOMAIN jobOf = 1..Len(stage) /\ Len(stage) \in Nat
         /\ \A k \in DOMAIN stage : k \in DOMAIN stage' /\ Last(k)' = Last(k) /\ jobOf'[k] = jobOf[k]
         /\ \A k \in DOMAIN stage' \ DOMAIN stage :
              k = Len(stage) + 1 /\ Last(k)' = "none" /\ jobOf'[k] = info
         /\ \A i : RolledOf(i)' = RolledOf(i)
         /\ \A i : i # info => TasksOf(i)' = TasksOf(i)
         /\ Cardinality(TasksOf(info)') = Cardinality(TasksOf(info)) + 1
<1>1. DOMAIN stage = 1..Len(stage) /\ DOMAIN jobOf = 1..Len(stage) /\ Len(stage) \in Nat
  BY DEF Types, SeenTypes
<1>2. PICK new \in Nat : new = Len(stage) + 1
  BY <1>1
<1>3. \A k \in DOMAIN stage : k \in DOMAIN stage' /\ Last(k)' = Last(k) /\ jobOf'[k] = jobOf[k]
  BY <1>1 DEF Last
<1>4. \A k \in DOMAIN stage' \ DOMAIN stage : k = new /\ Last(k)' = "none" /\ jobOf'[k] = info
  <2>1. \A k \in 1..Len(stage) + 1 : k \notin 1..Len(stage) => k = new
    BY <1>1, <1>2
  <2> QED
    BY <1>1, <1>2, <2>1 DEF Last
<1>5. \A i : RolledOf(i)' = RolledOf(i)
  <2> SUFFICES ASSUME NEW i
               PROVE  RolledOf(i)' = RolledOf(i)
    OBVIOUS
  <2>1. \A k : k \in RolledOf(i)' <=> k \in RolledOf(i)
    BY <1>3, <1>4 DEF RolledOf
  <2> QED
    BY <2>1
<1>6. \A i : i # info => TasksOf(i)' = TasksOf(i)
  <2> SUFFICES ASSUME NEW i, i # info
               PROVE  TasksOf(i)' = TasksOf(i)
    OBVIOUS
  <2>1. \A k : k \in TasksOf(i)' <=> k \in TasksOf(i)
    BY <1>3, <1>4 DEF TasksOf
  <2> QED
    BY <2>1
<1>7. Cardinality(TasksOf(info)') = Cardinality(TasksOf(info)) + 1
  <2>1. \A k : k \in TasksOf(info)' <=> k \in TasksOf(info) \/ k = new
    <3>1. new \in DOMAIN stage' /\ jobOf'[new] = info
      BY <1>1, <1>2
    <3> QED
      BY <1>3, <1>4, <3>1 DEF TasksOf
  <2>2. new \notin TasksOf(info)
    BY <1>1, <1>2 DEF TasksOf
  <2>3. IsFiniteSet(TasksOf(info)) /\ Cardinality(TasksOf(info)) \in Nat
    <3>1. TasksOf(info) \in SUBSET DOMAIN stage
      BY DEF TasksOf
    <3> QED
      BY <3>1, FiniteTasks
  <2>4. TasksOf(info)' = TasksOf(info) \cup {new}
    BY <2>1
  <2>5. Cardinality(TasksOf(info) \cup {new}) = Cardinality(TasksOf(info)) + 1
    BY <2>2, <2>3, FS_AddElement
  <2> QED
    BY <2>4, <2>5
<1> QED
  BY <1>1, <1>2, <1>3, <1>4, <1>5, <1>6, <1>7

\* A step that changes no slot but in its counts.
LEMMA SlotsKept ==
  ASSUME Slots, UNCHANGED <<size, phase>>,
         \A i \in Job : /\ job'[i].info = job[i].info
                        /\ job'[i].isUsed <=> job[i].isUsed
                        /\ job'[i].isDistributeEnd <=> job[i].isDistributeEnd,
         \A i \in Job : Taking /\ d.i_job = i => Taking' /\ d'.i_job = i
  PROVE  Slots'
<1>1. /\ \A i \in Job : job'[i].info \in 0..Len(phase)
      /\ \A a, c \in Job : job'[a].info = job'[c].info /\ job'[a].info # 0 => a = c
  <2>1. \A i \in Job : job'[i].info = job[i].info
    OBVIOUS
  <2> QED
    BY <2>1 DEF Slots
<1>2. ASSUME NEW i \in Job, job'[i].isUsed
      PROVE  /\ i < size /\ job'[i].info # 0
             /\ phase[job'[i].info] = IF job'[i].isDistributeEnd THEN "ended" ELSE "open"
  <2>1. /\ i < size /\ job[i].info # 0
        /\ phase[job[i].info] = IF job[i].isDistributeEnd THEN "ended" ELSE "open"
    BY <1>2 DEF Slots
  <2> QED
    BY <2>1
<1>3. ASSUME NEW i \in Job, ~job'[i].isUsed
      PROVE  job'[i].info = 0 \/ phase[job'[i].info] = "closed" \/ (Taking' /\ d'.i_job = i)
  <2>1. job[i].info = 0 \/ phase[job[i].info] = "closed" \/ (Taking /\ d.i_job = i)
    BY <1>3 DEF Slots
  <2> QED
    BY <2>1
<1>4. \A i \in DOMAIN phase : phase[i] # "closed" => \E a \in Job : job'[a].info = i
  <2>1. \A i \in DOMAIN phase : phase[i] # "closed" => \E a \in Job : job[a].info = i
    BY DEF Slots
  <2> QED
    BY <2>1
<1> QED
  BY <1>1, <1>2, <1>3, <1>4 DEF Slots

LEMMA TaskSlots ==
  ASSUME Types, Slots, InHand, Counted, D_Task
  PROVE  Slots' /\ InHand' /\ Counted'
<1>1. PICK j \in Job : j = d.i_job
  BY HandIs
<1>2. PICK info : info = job[j].info
  OBVIOUS
<1>a. PICK q \in Proc, b \in Slot : Tasked(q, b)
  BY TaskIs
<1>3. /\ Types' /\ d.pc = "fill" /\ UNCHANGED d
      /\ DOMAIN stage' = 1..Len(stage) + 1 /\ DOMAIN jobOf' = 1..Len(stage) + 1
      /\ \A k \in 1..Len(stage) : stage'[k] = stage[k] /\ jobOf'[k] = jobOf[k]
      /\ stage'[Len(stage) + 1] = <<>> /\ jobOf'[Len(stage) + 1] = info
      /\ job'[j].info = job[j].info
      /\ job'[j].isUsed = job[j].isUsed
      /\ job'[j].isDistributeEnd = job[j].isDistributeEnd
      /\ job'[j].c_distribute = job[j].c_distribute + 1
      /\ job'[j].c_rollup = job[j].c_rollup
      /\ \A i \in Job : i # j => job'[i] = job[i]
  BY <1>1, <1>2, <1>a, TaskIs DEF Tasked, FillingAt
<1>4. /\ UNCHANGED <<size, count, count_job, phase, opened, r>>
      /\ ~Taking /\ ~Taking' /\ Serving /\ Serving'
  BY <1>3 DEF D_Task, Taking, Serving
<1>5. job[j].isUsed /\ ~job[j].isDistributeEnd /\ info # 0
  BY <1>1, <1>2, <1>4 DEF InHand, Slots
<1>6. /\ DOMAIN stage = 1..Len(stage) /\ DOMAIN jobOf = 1..Len(stage) /\ Len(stage) \in Nat
      /\ \A k \in DOMAIN stage : jobOf'[k] = jobOf[k]
      /\ \A k \in DOMAIN stage' \ DOMAIN stage : jobOf'[k] = info
      /\ \A i : RolledOf(i)' = RolledOf(i)
      /\ \A i : i # info => TasksOf(i)' = TasksOf(i)
      /\ Cardinality(TasksOf(info)') = Cardinality(TasksOf(info)) + 1
  <2>1. /\ DOMAIN stage' = 1..Len(stage) + 1 /\ DOMAIN jobOf' = 1..Len(stage) + 1
        /\ \A k \in 1..Len(stage) : stage'[k] = stage[k] /\ jobOf'[k] = jobOf[k]
        /\ stage'[Len(stage) + 1] = <<>> /\ jobOf'[Len(stage) + 1] = info
    BY <1>3
  <2> QED
    BY <2>1, NewTask, ZenonT(60)
<1>7. \A i \in Job :
        /\ job'[i].info = job[i].info /\ job'[i].isUsed = job[i].isUsed
        /\ job'[i].isDistributeEnd = job[i].isDistributeEnd
        /\ job'[i].c_rollup = job[i].c_rollup
  BY <1>3
<1>8. Slots'
  BY <1>4, <1>7, SlotsKept
<1>9. InHand'
  <2>1. /\ ~Taking' /\ d'.pc # "use" /\ d'.i_job = j
        /\ job'[j].isUsed = job[j].isUsed /\ job'[j].isDistributeEnd = job[j].isDistributeEnd
    BY <1>1, <1>3, <1>4
  <2> QED
    BY <1>5, <2>1 DEF InHand
<1>10. Counted'
  <2>1. \A i \in Job : SlotCounts(i)'
    <3> SUFFICES ASSUME NEW i \in Job, job[i].isUsed
                 PROVE  SlotCounts(i)'
      BY <1>7 DEF SlotCounts
    <3>1. SlotCounts(i)
      BY DEF Counted
    <3>2. PICK number : number = job[i].info
      OBVIOUS
    <3>3. /\ job[i].c_distribute = Cardinality(TasksOf(number))
          /\ job[i].c_rollup = Cardinality(RolledOf(number))
          /\ ~r.hadRollupError => (job[i].c_rollup = 0 <=> number \notin Range(opened))
      BY <3>1, <3>2 DEF SlotCounts
    <3>4. job'[i].c_distribute = Cardinality(TasksOf(number)')
      <4>1. CASE i = j
        BY <1>2, <1>3, <1>6, <3>2, <3>3, <4>1
      <4>2. CASE i # j
        <5>1. number # info
          BY <1>2, <1>5, <3>2, <4>2 DEF Slots
        <5> QED
          BY <1>3, <1>6, <3>3, <4>2, <5>1
      <4> QED
        BY <4>1, <4>2
    <3>5. job'[i].c_rollup = Cardinality(RolledOf(number)')
      BY <1>6, <1>7, <3>3
    <3>6. job'[i].info = number
      BY <1>7, <3>2
    <3>7. /\ TasksOf(job[i].info)' = TasksOf(number)'
          /\ RolledOf(job[i].info)' = RolledOf(number)'
      BY <3>6 DEF TasksOf, RolledOf
    <3> QED
      BY <1>4, <1>7, <3>3, <3>4, <3>5, <3>6, <3>7 DEF SlotCounts
  <2>2. InUse' = InUse
    BY <1>7 DEF InUse
  <2>3. \A i \in Job : count[i] = IF job'[i].isUsed THEN job'[i].c_rollup ELSE 0
    BY <1>7 DEF Counted
  <2>4. \A k \in DOMAIN jobOf' : jobOf'[k] \in DOMAIN phase
    <3>1. info \in DOMAIN phase
      <4>1. DOMAIN phase = 1..Len(phase)
        BY DEF Types, SeenTypes
      <4> QED
        BY <1>2, <1>5, <4>1 DEF Slots
    <3>2. DOMAIN jobOf' = DOMAIN stage'
      BY <1>3
    <3> QED
      BY <1>6, <3>1, <3>2 DEF Counted
  <2> QED
    BY <1>4, <2>1, <2>2, <2>3, <2>4 DEF Counted
<1> QED
  BY <1>8, <1>9, <1>10

LEMMA RangeAppended ==
  ASSUME NEW s \in Seq(Nat), NEW x \in Nat
  PROVE  Range(Append(s, x)) = Range(s) \cup {x}
<1>1. PICK t \in Seq(Nat) : t = Append(s, x)
  <2>1. Append(s, x) \in Seq(Nat)
    OBVIOUS
  <2> QED
    BY <2>1
<1>2. /\ DOMAIN t = 1..Len(s) + 1 /\ DOMAIN s = 1..Len(s) /\ Len(s) \in Nat
      /\ t[Len(s) + 1] = x /\ \A i \in 1..Len(s) : t[i] = s[i]
  BY <1>1
<1>3. ASSUME NEW k
      PROVE  k \in Range(t) <=> k \in Range(s) \/ k = x
  <2>1. k \in Range(t) <=> \E i \in 1..Len(s) + 1 : t[i] = k
    BY <1>2 DEF Range
  <2>2. k \in Range(s) <=> \E i \in 1..Len(s) : s[i] = k
    BY <1>2 DEF Range
  <2>3. \A i \in 1..Len(s) + 1 : i \in 1..Len(s) \/ i = Len(s) + 1
    BY <1>2
  <2>4. \A i \in 1..Len(s) : i \in 1..Len(s) + 1
    BY <1>2
  <2>5. Len(s) + 1 \in 1..Len(s) + 1
    BY <1>2
  <2> QED
    BY <1>2, <2>1, <2>2, <2>3, <2>4, <2>5
<1> QED
  BY <1>1, <1>3

\* The block the rollup finds DONE: its tasks were processed, and are of the
\* job whose slot it names.
LEMMA DoneBlock ==
  ASSUME Types, Apart, History, Kept, r.pc = "visit", At.task_state = "DONE"
  PROVE  /\ At \in BlockInfo /\ At.i_job \in Job /\ At.tasks \in Seq(Nat)
         /\ At.tasks # <<>> /\ Len(At.tasks) \in 1..MAX_BLOCK_TASK /\ IsInjective(At.tasks)
         /\ \A k \in Range(At.tasks) :
              k \in DOMAIN stage /\ Last(k) = "Process" /\ jobOf[k] = job[At.i_job].info
         /\ job[At.i_job].isUsed
<1>1. PICK pos \in Pos : pos = <<r.i, r.j>> /\ B(pos) = At
  BY AtIs
<1>2. At \in BlockInfo
  BY AtIs
<1>3. At.i_job \in Job /\ At.tasks \in Seq(Nat)
  BY <1>2 DEF BlockInfo
<1>4. TasksAt(pos) = Range(At.tasks)
  BY <1>1 DEF TasksAt, B
<1>5. BlockApart(pos) /\ DoneRight(pos) /\ KeepsJob(pos)
  BY DEF Apart, History, BlockRight, Kept
<1>6. /\ At.tasks # <<>> /\ Len(At.tasks) <= MAX_BLOCK_TASK /\ IsInjective(At.tasks)
      /\ \A k \in Range(At.tasks) : k \in DOMAIN stage
  BY <1>1, <1>4, <1>5 DEF BlockApart
<1>7. \A k \in Range(At.tasks) : Last(k) = "Process"
  BY <1>1, <1>4, <1>5 DEF DoneRight, RollupAt
<1>8. Len(At.tasks) \in 1..MAX_BLOCK_TASK /\ At.tasks[1] \in Range(At.tasks)
  BY <1>3, <1>6 DEF Range
<1>9. \E k \in TasksAt(pos) : Last(k) # "Rollup"
  BY <1>4, <1>7, <1>8
<1>10. job[At.i_job].isUsed /\ \A k \in Range(At.tasks) : jobOf[k] = job[At.i_job].info
  BY <1>1, <1>4, <1>5, <1>9 DEF KeepsJob, OnItsWay
<1> QED
  BY <1>2, <1>3, <1>6, <1>7, <1>8, <1>10

\* n tasks of the block are rolled up, and no other.
LEMMA RollupSlots ==
  ASSUME Types, Slots, InHand, Counted, Apart, History, Kept,
         NEW n \in 0..MAX_BLOCK_TASK, R_Rollup(n)
  PROVE  Slots' /\ InHand' /\ Counted'
<1>0. r.pc = "visit" /\ At.task_state = "DONE" /\ ~r.hadRollupError
  BY DEF R_Rollup
<1>1. PICK j \in Job : j = At.i_job
  BY <1>0, DoneBlock
<1>2. PICK tasks \in Seq(Nat) : tasks = At.tasks
  BY <1>0, DoneBlock
<1>3. /\ tasks # <<>> /\ Len(tasks) \in 1..MAX_BLOCK_TASK /\ IsInjective(tasks)
      /\ \A k \in Range(tasks) :
           k \in DOMAIN stage /\ Last(k) = "Process" /\ jobOf[k] = job[j].info
      /\ job[j].isUsed
  BY <1>0, <1>1, <1>2, DoneBlock
<1>4. PICK info : info = job[j].info
  OBVIOUS
<1>5. /\ Types' /\ n \in 0..Len(tasks)
      /\ (r'.hadRollupError <=> n < Len(tasks))
      /\ DOMAIN stage' = DOMAIN stage
      /\ \A k \in DOMAIN stage :
           Last(k)' = IF \E m \in 1..n : k = tasks[m] THEN "Rollup" ELSE Last(k)
      /\ job'[j].c_rollup = job[j].c_rollup + n
      /\ count' = [count EXCEPT ![j] = @ + n]
      /\ \A i \in Job :
           /\ job'[i].info = job[i].info
           /\ job'[i].isUsed = job[i].isUsed
           /\ job'[i].isDistributeEnd = job[i].isDistributeEnd
           /\ job'[i].c_distribute = job[i].c_distribute
           /\ i # j => job'[i] = job[i]
  BY <1>1, <1>2, <1>3, RollupIs
<1>6. UNCHANGED <<size, count_job, jobOf, phase, d>>
  BY DEF R_Rollup
<1>7. \A k \in DOMAIN stage :
        Last(k)' = IF k \in First(tasks, n) THEN "Rollup" ELSE Last(k)
  <2>1. \A k : k \in First(tasks, n) <=> \E m \in 1..n : k = tasks[m]
    BY <1>5, FirstIs
  <2> QED
    BY <1>5, <2>1
<1>8. \A k \in First(tasks, n) :
        k \in DOMAIN stage /\ Last(k) = "Process" /\ jobOf[k] = info
  <2>1. First(tasks, n) \subseteq Range(tasks)
    BY DEF First, Range
  <2> QED
    BY <1>3, <1>4, <2>1
<1>9. /\ \A i : TasksOf(i)' = TasksOf(i)
      /\ \A i : i # info => RolledOf(i)' = RolledOf(i)
  <2>1. \A i : TasksOf(i)' = TasksOf(i)
    BY <1>5, <1>6 DEF TasksOf
  <2>2. ASSUME NEW i, i # info
        PROVE  RolledOf(i)' = RolledOf(i)
    <3>1. \A k : k \in RolledOf(i)' <=> k \in RolledOf(i)
      BY <1>5, <1>6, <1>7, <1>8, <2>2 DEF RolledOf
    <3> QED
      BY <3>1
  <2> QED
    BY <2>1, <2>2
<1>10. Cardinality(RolledOf(info)') = Cardinality(RolledOf(info)) + n
  <2>1. \A k : k \in RolledOf(info)' <=> k \in RolledOf(info) \/ k \in First(tasks, n)
    BY <1>5, <1>6, <1>7, <1>8 DEF RolledOf
  <2>2. \A k \in RolledOf(info) : k \notin First(tasks, n)
    BY <1>8 DEF RolledOf
  <2>3. RolledOf(info)' = RolledOf(info) \cup First(tasks, n)
        /\ RolledOf(info) \cap First(tasks, n) = {}
    BY <2>1, <2>2
  <2>4. IsFiniteSet(First(tasks, n)) /\ Cardinality(First(tasks, n)) = n
    BY <1>3, <1>5, FirstSize
  <2>5. IsFiniteSet(RolledOf(info)) /\ Cardinality(RolledOf(info)) \in Nat
    <3>1. RolledOf(info) \in SUBSET DOMAIN stage
      BY DEF RolledOf
    <3> QED
      BY <3>1, FiniteTasks
  <2>6. Cardinality(RolledOf(info) \cup First(tasks, n)) =
          Cardinality(RolledOf(info)) + Cardinality(First(tasks, n))
            - Cardinality(RolledOf(info) \cap First(tasks, n))
    BY <2>4, <2>5, FS_Union
  <2>7. Cardinality(RolledOf(info) \cap First(tasks, n)) = 0
    BY <2>3, FS_EmptySet
  <2> QED
    BY <2>3, <2>4, <2>5, <2>6, <2>7
<1>11. Range(opened') \subseteq Range(opened) \cup {info} /\ Range(opened) \subseteq Range(opened')
       /\ (job[j].c_rollup = 0 => info \in Range(opened'))
  <2>1. opened \in Seq(Nat) /\ info \in Nat
    <3>1. job[j] \in JobInfo
      BY DEF Types, JobTypes
    <3> QED
      BY <1>4, <3>1 DEF Types, SeenTypes, JobInfo
  <2>2. opened' = IF job[j].c_rollup = 0 THEN Append(opened, info) ELSE opened
    BY <1>1, <1>4 DEF R_Rollup
  <2>3. CASE job[j].c_rollup # 0
    BY <2>2, <2>3
  <2>4. CASE job[j].c_rollup = 0
    <3>1. opened' = Append(opened, info)
      BY <2>2, <2>4
    <3>2. Range(opened') = Range(opened) \cup {info}
      BY <2>1, <3>1, RangeAppended
    <3> QED
      BY <3>2
  <2> QED
    BY <2>3, <2>4
<1>12. Slots'
  <2>1. Taking' <=> Taking
    BY <1>6 DEF Taking
  <2> QED
    BY <1>5, <1>6, <2>1, SlotsKept
<1>13. InHand'
  <2>1. PICK h \in Job : h = d.i_job
    BY HandIs
  <2>2. h # j \/ (~Taking /\ d.pc # "use")
    BY <1>3, <2>1 DEF InHand, Taking
  <2>3. PICK number : number = job[h].info
    OBVIOUS
  <2>a. job'[h].info = number
    BY <1>5, <2>3
  <2>6. Taking => /\ ~job'[h].isUsed /\ h < size
                  /\ number # 0 /\ phase[number] = "open"
                  /\ TasksOf(number)' = {} /\ number \notin Range(opened')
    <3> SUFFICES ASSUME Taking
                 PROVE  /\ ~job'[h].isUsed /\ h < size
                        /\ number # 0 /\ phase[number] = "open"
                        /\ TasksOf(number)' = {} /\ number \notin Range(opened')
      OBVIOUS
    <3>1. /\ ~job[h].isUsed /\ h < size
          /\ number # 0 /\ phase[number] = "open"
          /\ TasksOf(number) = {} /\ number \notin Range(opened)
      BY <2>1, <2>3 DEF InHand
    <3>2. number # info /\ job'[h] = job[h]
      BY <1>4, <1>5, <2>2, <2>3, <3>1 DEF Slots
    <3> QED
      BY <1>9, <1>11, <3>1, <3>2
  <2>4. d.pc = "use" => ~job'[h].isDistributeEnd /\ job'[h].c_distribute = 0 /\ job'[h].c_rollup = 0
    BY <1>5, <2>1, <2>2 DEF InHand
  <2>5. Serving => job'[h].isUsed /\ ~job'[h].isDistributeEnd
    BY <1>5, <2>1 DEF InHand
  <2> QED
    <3>1. TasksOf(job[d.i_job].info)' = TasksOf(number)' /\ job'[d'.i_job].info = number
      BY <1>6, <2>1, <2>a DEF TasksOf
    <3>2. (Taking' <=> Taking) /\ (Serving' <=> Serving) /\ d'.pc = d.pc /\ d'.i_job = h
      BY <1>6, <2>1 DEF Taking, Serving
    <3> QED
      BY <1>6, <2>4, <2>5, <2>6, <3>1, <3>2 DEF InHand
<1>14. Counted'
  <2>1. \A i \in Job : SlotCounts(i)'
    <3> SUFFICES ASSUME NEW i \in Job, job[i].isUsed
                 PROVE  SlotCounts(i)'
      BY <1>5 DEF SlotCounts
    <3>1. SlotCounts(i)
      BY DEF Counted
    <3>2. PICK number : number = job[i].info
      OBVIOUS
    <3>3. /\ job[i].c_distribute = Cardinality(TasksOf(number))
          /\ job[i].c_rollup = Cardinality(RolledOf(number))
          /\ ~r.hadRollupError => (job[i].c_rollup = 0 <=> number \notin Range(opened))
      BY <3>1, <3>2 DEF SlotCounts
    <3>4. job[i].c_rollup \in Nat /\ n \in Nat /\ Len(tasks) \in Nat
      <4>1. job[i] \in JobInfo
        BY DEF Types, JobTypes
      <4> QED
        BY <4>1 DEF JobInfo
    <3>5. /\ job'[i].c_rollup = Cardinality(RolledOf(number)')
          /\ ~r'.hadRollupError => (job'[i].c_rollup = 0 <=> number \notin Range(opened'))
      <4>1. CASE i = j
        <5>1. job'[i].c_rollup = job[i].c_rollup + n /\ number = info
          BY <1>4, <1>5, <3>2, <4>1
        <5>2. job'[i].c_rollup = Cardinality(RolledOf(number)')
          BY <1>10, <3>3, <5>1
        <5>3. ~r'.hadRollupError => n # 0
          BY <1>3, <1>5, <3>4
        <5>4. ~r'.hadRollupError => job'[i].c_rollup # 0
          BY <3>4, <5>1, <5>3
        <5>5. number \in Range(opened')
          BY <1>0, <1>11, <3>3, <4>1, <5>1
        <5> QED
          BY <5>2, <5>4, <5>5
      <4>2. CASE i # j
        <5>1. number # info
          BY <1>4, <3>2, <4>2 DEF Slots
        <5>2. job'[i].c_rollup = job[i].c_rollup
          BY <1>5, <4>2
        <5>3. number \in Range(opened') <=> number \in Range(opened)
          BY <1>11, <5>1
        <5> QED
          BY <1>0, <1>9, <3>3, <5>1, <5>2, <5>3
      <4> QED
        BY <4>1, <4>2
    <3>6. job'[i].info = number
      BY <1>5, <3>2
    <3>7. /\ TasksOf(job[i].info)' = TasksOf(number)'
          /\ RolledOf(job[i].info)' = RolledOf(number)'
      BY <3>6 DEF TasksOf, RolledOf
    <3>8. job'[i].c_distribute = Cardinality(TasksOf(number)')
      BY <1>5, <1>9, <3>3
    <3> QED
      BY <3>5, <3>6, <3>7, <3>8 DEF SlotCounts
  <2>2. InUse' = InUse
    BY <1>5 DEF InUse
  <2>3. \A i \in Job : count'[i] = IF job'[i].isUsed THEN job'[i].c_rollup ELSE 0
    <3> SUFFICES ASSUME NEW i \in Job
                 PROVE  count'[i] = IF job'[i].isUsed THEN job'[i].c_rollup ELSE 0
      OBVIOUS
    <3>1. count[i] = IF job[i].isUsed THEN job[i].c_rollup ELSE 0
      BY DEF Counted
    <3>2. count'[i] = IF i = j THEN count[i] + n ELSE count[i]
      BY <1>5 DEF Types, JobTypes
    <3> QED
      BY <1>3, <1>5, <3>1, <3>2
  <2>4. Range(opened') \subseteq DOMAIN phase
    <3>1. info \in DOMAIN phase
      <4>1. DOMAIN phase = 1..Len(phase)
        BY DEF Types, SeenTypes
      <4>2. info # 0
        BY <1>3, <1>4 DEF Slots
      <4> QED
        BY <1>4, <4>1, <4>2 DEF Slots
    <3> QED
      BY <1>11, <3>1 DEF Counted
  <2> QED
    BY <1>6, <2>1, <2>2, <2>3, <2>4 DEF Counted
<1> QED
  BY <1>12, <1>13, <1>14

\* A job whose counts agree has no task left to be rolled up.
LEMMA AllRolledUp ==
  ASSUME Types, Counted, NEW j \in Job, MayClose(j)
  PROVE  \A k \in TasksOf(job[j].info) : Last(k) = "Rollup"
<1>1. PICK info : info = job[j].info
  OBVIOUS
<1>2. SlotCounts(j) /\ job[j].isUsed /\ job[j].c_distribute = job[j].c_rollup
  BY DEF Counted, MayClose, isRollupEnd
<1>3. Cardinality(TasksOf(info)) = Cardinality(RolledOf(info))
  BY <1>1, <1>2 DEF SlotCounts
<1>4. RolledOf(info) \in SUBSET TasksOf(info) /\ TasksOf(info) \in SUBSET DOMAIN stage
  BY DEF RolledOf, TasksOf
<1>5. IsFiniteSet(TasksOf(info))
  BY <1>4, FiniteTasks
<1>6. RolledOf(info) = TasksOf(info)
  BY <1>3, <1>4, <1>5, FS_Subset
<1> QED
  BY <1>1, <1>6 DEF RolledOf

LEMMA LookSlots ==
  ASSUME Types, Slots, InHand, Counted,
         NEW j \in Job, (R_Check /\ j = r.i_job) \/ (R_EmptyJob /\ j = r.i)
  PROVE  Types' /\ Slots' /\ InHand' /\ Counted' /\ CloseIfNeed(j)
<1>1. MayClose(j) => job[j].isUsed /\ job[j].isDistributeEnd /\ job[j].info # 0
                     /\ job[j].info \in DOMAIN phase
  <2>1. DOMAIN phase = 1..Len(phase)
    BY DEF Types, SeenTypes
  <2> QED
    BY <2>1 DEF MayClose, isRollupEnd, Slots
<1>2. /\ Types' /\ CloseIfNeed(j) /\ (r'.hadRollupError = r.hadRollupError)
  BY <1>1, LookIs
<1>3. UNCHANGED <<size, idle_i, stage, jobOf, opened, d>>
  BY DEF R_Check, R_EmptyJob
<1>4. (Taking' <=> Taking) /\ (Serving' <=> Serving)
  BY <1>3 DEF Taking, Serving
<1>5. CASE ~MayClose(j)
  <2>1. UNCHANGED <<job, count, count_job, phase>>
    BY <1>2, <1>5 DEF CloseIfNeed
  <2>2. JobsStay /\ HandStays
    <3>1. size \in Nat
      BY DEF Types, JobTypes
    <3> QED
      BY <1>2, <1>3, <2>1, <3>1 DEF JobsStay, HandStays, Last
  <2> QED
    BY <1>2, <2>2, SlotsStay
<1>6. CASE MayClose(j)
  <2>1. PICK info : info = job[j].info
    OBVIOUS
  <2>2. /\ ~job'[j].isUsed /\ count' = [count EXCEPT ![j] = 0]
        /\ count_job'.open = count_job.open
        /\ count_job'.close = count_job.close + 1
        /\ DOMAIN phase' = DOMAIN phase /\ Len(phase') = Len(phase)
        /\ \A i \in DOMAIN phase : phase'[i] = IF i = info THEN "closed" ELSE phase[i]
        /\ \A i \in Job :
             /\ job'[i].info = job[i].info
             /\ job'[i].isDistributeEnd = job[i].isDistributeEnd
             /\ job'[i].c_distribute = job[i].c_distribute
             /\ job'[i].c_rollup = job[i].c_rollup
             /\ i # j => job'[i] = job[i]
    BY <1>1, <1>2, <1>3, <1>6, <2>1, CloseIs
  <2>3. /\ job[j].isUsed /\ job[j].isDistributeEnd /\ info # 0 /\ info \in DOMAIN phase
        /\ DOMAIN phase = 1..Len(phase)
    BY <1>1, <1>6, <2>1 DEF Types, SeenTypes
  <2>4. \A i \in Job : i # j => job[i].info # info
    BY <2>1, <2>3 DEF Slots
  <2>5. \A i \in Job : job[i].info = 0 \/ job[i].info \in DOMAIN phase
    BY <2>3 DEF Slots
  <2>6. Slots'
    <3>1. /\ \A i \in Job : job'[i].info \in 0..Len(phase')
          /\ \A a, b \in Job : job'[a].info = job'[b].info /\ job'[a].info # 0 => a = b
      BY <2>2 DEF Slots
    <3>2. ASSUME NEW i \in Job, job'[i].isUsed
          PROVE  /\ i < size /\ job'[i].info # 0
                 /\ phase'[job'[i].info] = IF job'[i].isDistributeEnd THEN "ended" ELSE "open"
      <4>1. i # j /\ job'[i] = job[i]
        BY <2>2, <3>2
      <4>2. /\ i < size /\ job[i].info # 0
            /\ phase[job[i].info] = IF job[i].isDistributeEnd THEN "ended" ELSE "open"
        BY <3>2, <4>1 DEF Slots
      <4>3. phase'[job[i].info] = phase[job[i].info]
        BY <2>2, <2>4, <2>5, <4>1, <4>2
      <4> QED
        BY <4>1, <4>2, <4>3
    <3>3. ASSUME NEW i \in Job, ~job'[i].isUsed
          PROVE  job'[i].info = 0 \/ phase'[job'[i].info] = "closed" \/ (Taking' /\ d'.i_job = i)
      <4>1. CASE i = j
        BY <2>1, <2>2, <2>3, <4>1
      <4>2. CASE i # j
        <5>1. job[i].info = 0 \/ phase[job[i].info] = "closed" \/ (Taking /\ d.i_job = i)
          BY <2>2, <3>3, <4>2 DEF Slots
        <5>2. job[i].info # 0 => phase'[job[i].info] = phase[job[i].info]
          BY <2>2, <2>4, <2>5, <4>2
        <5> QED
          BY <1>3, <1>4, <2>2, <5>1, <5>2
      <4> QED
        BY <4>1, <4>2
    <3>4. ASSUME NEW i \in DOMAIN phase', phase'[i] # "closed"
          PROVE  \E a \in Job : job'[a].info = i
      <4>1. i \in DOMAIN phase /\ phase[i] # "closed"
        BY <2>2, <3>4
      <4>2. \E a \in Job : job[a].info = i
        BY <4>1 DEF Slots
      <4> QED
        BY <2>2, <4>2
    <3> QED
      BY <1>3, <3>1, <3>2, <3>3, <3>4 DEF Slots
  <2>7. InHand'
    <3>1. PICK h \in Job : h = d.i_job
      BY HandIs
    <3>2. PICK number : number = job[h].info
      OBVIOUS
    <3>3. Taking \/ Serving => h # j
      BY <2>3, <3>1 DEF InHand
    <3>4. d.pc = "use" => Taking
      BY DEF Taking
    <3>5. job'[h].info = number /\ (h # j => job'[h] = job[h])
      BY <2>2, <3>2
    <3>6. Taking => /\ ~job'[h].isUsed /\ h < size
                    /\ number # 0 /\ phase'[number] = "open"
                    /\ TasksOf(number)' = {} /\ number \notin Range(opened)
      <4>1. Taking => /\ ~job[h].isUsed /\ h < size
                      /\ number # 0 /\ phase[number] = "open"
                      /\ TasksOf(number) = {} /\ number \notin Range(opened)
        BY <3>1, <3>2 DEF InHand
      <4>2. TasksOf(number)' = TasksOf(number)
        BY <1>3 DEF TasksOf
      <4>3. Taking => number # info /\ number \in DOMAIN phase
        BY <2>4, <2>5, <3>2, <3>3, <4>1
      <4> QED
        BY <2>2, <3>3, <3>5, <4>1, <4>2, <4>3
    <3>7. d.pc = "use" => ~job'[h].isDistributeEnd /\ job'[h].c_distribute = 0 /\ job'[h].c_rollup = 0
      BY <3>1, <3>3, <3>4, <3>5 DEF InHand
    <3>8. Serving => job'[h].isUsed /\ ~job'[h].isDistributeEnd
      BY <3>1, <3>3, <3>5 DEF InHand
    <3>9. TasksOf(job[d.i_job].info)' = TasksOf(number)' /\ job'[d'.i_job].info = number
      BY <1>3, <3>1, <3>5 DEF TasksOf
    <3>10. d'.pc = d.pc /\ d'.i_job = h
      BY <1>3, <3>1
    <3> QED
      BY <1>3, <1>4, <3>6, <3>7, <3>8, <3>9, <3>10 DEF InHand
  <2>8. Counted'
    <3>1. \A i \in Job : SlotCounts(i)'
      <4> SUFFICES ASSUME NEW i \in Job, job'[i].isUsed
                   PROVE  SlotCounts(i)'
        BY DEF SlotCounts
      <4>1. i # j /\ job'[i] = job[i] /\ SlotCounts(i)
        BY <2>2 DEF Counted
      <4>2. TasksOf(job[i].info)' = TasksOf(job[i].info)
            /\ RolledOf(job[i].info)' = RolledOf(job[i].info)
        BY <1>3, <4>1 DEF TasksOf, RolledOf, Last
      <4> QED
        BY <1>2, <1>3, <4>1, <4>2 DEF SlotCounts
    <3>2. Cardinality(InUse') = Cardinality(InUse) - 1
      <4>1. InUse' = InUse \ {j} /\ j \in InUse
        BY <2>2, <2>3 DEF InUse
      <4>2. InUse \in SUBSET Job
        BY DEF InUse
      <4>3. IsFiniteSet(InUse)
        BY <4>2, FiniteSlots
      <4> QED
        BY <4>1, <4>3, FS_RemoveElement
    <3>3. \A i \in Job : count'[i] = IF job'[i].isUsed THEN job'[i].c_rollup ELSE 0
      <4> SUFFICES ASSUME NEW i \in Job
                   PROVE  count'[i] = IF job'[i].isUsed THEN job'[i].c_rollup ELSE 0
        OBVIOUS
      <4>1. count[i] = IF job[i].isUsed THEN job[i].c_rollup ELSE 0
        BY DEF Counted
      <4>2. count'[i] = IF i = j THEN 0 ELSE count[i]
        BY <2>2 DEF Types, JobTypes
      <4> QED
        BY <2>2, <4>1, <4>2
    <3>4. count_job'.open - count_job'.close = Cardinality(InUse')
      <4>1. count_job.open - count_job.close = Cardinality(InUse)
        BY DEF Counted
      <4>2. count_job.open \in Nat /\ count_job.close \in Nat
        BY DEF Types, JobTypes
      <4>3. count_job'.open = count_job.open /\ count_job'.close = count_job.close + 1
        BY <2>2, <4>2
      <4> QED
        BY <3>2, <4>1, <4>2, <4>3
    <3>5. /\ \A k \in DOMAIN jobOf : jobOf[k] \in DOMAIN phase
          /\ Range(opened) \subseteq DOMAIN phase
      BY DEF Counted
    <3> QED
      BY <1>3, <2>2, <3>1, <3>3, <3>4, <3>5 DEF Counted
  <2> QED
    BY <1>2, <2>6, <2>7, <2>8
<1> QED
  BY <1>5, <1>6

-----------------------------------------------------------------------------
(* The slots: the other steps *)

LEMMA JobsUnchanged ==
  ASSUME Types, UNCHANGED <<jobs, count, seen>>, r.hadRollupError => r'.hadRollupError
  PROVE  JobsStay
<1>1. size \in Nat
  BY DEF Types, JobTypes
<1> QED
  BY <1>1 DEF JobsStay, jobs, seen, Last

LEMMA DistributorQuiet ==
  ASSUME Types, \/ D_SetCmd \/ D_SetCmdSeq \/ D_CheckChild \/ D_Top \/ D_Waited
                \/ D_StopCheck \/ D_Exit \/ (\E hash \in Hash : D_Find(hash))
                \/ D_HandOver \/ D_Drop \/ D_Fails \/ D_Create \/ D_Created
  PROVE  JobsStay /\ HandStays /\ (Stopping => Stopping')
<1>1. JobsStay
  <2>1. UNCHANGED <<jobs, count, seen, r>>
    BY DEF D_SetCmd, D_SetCmdSeq, D_CheckChild, D_Top, D_Waited, D_StopCheck, D_Exit, D_Find,
           D_HandOver, D_Drop, D_Fails, D_Create, D_Created
  <2> QED
    BY <2>1, JobsUnchanged
<1>2. d \in DRecord
  BY HandIs
<1>3. CASE D_SetCmd
  <2>1. d.pc = "tell" /\ d.then \in {"top", "loop", "stop"}
    BY <1>2, <1>3 DEF D_SetCmd, DRecord
  <2>2. CASE D_Goto(d.then)
    <3>1. d'.pc = d.then /\ d'.i_job = d.i_job /\ d'.then = "top"
      BY <2>1, <2>2, DGotoIs
    <3> QED
      BY <1>1, <2>1, <3>1 DEF HandStays, Taking, Serving, Stopping
  <2>3. CASE d'.pc = "number" /\ d'.then = d.then /\ d'.i_job = d.i_job
    BY <1>1, <2>1, <2>3 DEF HandStays, Taking, Serving, Stopping
  <2> QED
    BY <1>3, <2>2, <2>3, SetCmdTypes
<1>4. CASE D_SetCmdSeq
  <2>1. d.pc = "number" /\ d'.pc = "tell" /\ d'.then = d.then /\ d'.i_job = d.i_job
    BY <1>4, SetCmdSeqTypes DEF D_SetCmdSeq
  <2> QED
    BY <1>1, <2>1 DEF HandStays, Taking, Serving, Stopping
<1>5. CASE D_CheckChild
  <2>1. d.pc \in {"top", "loop", "wait"} /\ d'.pc = "tell" /\ d'.then = "stop"
    BY <1>5, DAbortIs DEF D_CheckChild
  <2> QED
    BY <1>1, <2>1 DEF HandStays, Taking, Serving, Stopping
<1>6. CASE D_StopCheck
  BY <1>1, <1>6 DEF HandStays, D_StopCheck, Stopping
<1>7. CASE D_Top
  <2>1. d.pc = "top" /\ d'.pc \in {"open", "wait"}
    <3>1. CASE D_Goto("open")
      BY <1>7, <3>1, DGotoIs DEF D_Top
    <3>2. CASE D_At("wait", 0, 0, "NULL", "top") \/ D_At("wait", 0, 0, "NULL", "stop")
      BY <1>7, <3>2 DEF D_Top, D_At
    <3> QED
      BY <1>7, <3>1, <3>2 DEF D_Top
  <2> QED
    BY <1>1, <2>1 DEF HandStays, Taking, Serving, Stopping
<1>8. CASE D_Waited \/ D_Fails
  <2>1. d.pc \in {"wait", "loop", "fill"} /\ d'.pc = "tell" /\ d'.then \in {"top", "stop"}
    BY <1>8, DTellIs, DAbortIs DEF D_Waited, D_Fails
  <2> QED
    BY <1>1, <2>1 DEF HandStays, Taking, Serving, Stopping
<1>9. CASE D_Exit
  <2>1. d.pc = "stop" /\ d'.pc = "gone"
    BY <1>9, DGotoIs DEF D_Exit
  <2> QED
    BY <1>1, <2>1 DEF HandStays, Taking, Serving, Stopping
<1>10. CASE D_Create \/ D_Created
  <2>1. d.pc \in {"create", "created"} /\ d'.pc \in {"created", "loop"} /\ d'.i_job = d.i_job
    BY <1>10, CreateTypes DEF D_Create, D_Created
  <2> QED
    BY <1>1, <2>1 DEF HandStays, Taking, Serving, Stopping
<1>11. CASE (\E hash \in Hash : D_Find(hash)) \/ D_HandOver \/ D_Drop
  <2>1. d.pc \in {"loop", "fill"} /\ d'.pc \in {"loop", "fill", "create"} /\ d'.i_job = d.i_job
    <3>1. CASE \E hash \in Hash : D_Find(hash)
      BY <3>1, FindIs DEF Found, FillingAt
    <3>2. CASE D_HandOver
      BY <3>2, HandOverIs DEF HandedOver, FillingAt
    <3>3. CASE D_Drop
      BY <3>3 DEF D_Drop, D_At
    <3> QED
      BY <1>11, <3>1, <3>2, <3>3
  <2> QED
    BY <1>1, <2>1 DEF HandStays, Taking, Serving, Stopping
<1> QED
  BY <1>3, <1>4, <1>5, <1>6, <1>7, <1>8, <1>9, <1>10, <1>11

\* The block a running process looks at, before it calls a method for it.
LEMMA VisitedBlock ==
  ASSUME Types, Apart, History, NEW q \in Proc, p[q].pc = "visit"
  PROVE  /\ Here(q) \in BlockInfo /\ Here(q).tasks \in Seq(Nat) /\ IsInjective(Here(q).tasks)
         /\ Here(q).error_task_index \in Nat
         /\ Range(Here(q).tasks) \subseteq DOMAIN stage
         /\ Here(q).task_state = "NEW" => \A k \in Range(Here(q).tasks) : Fresh(k)
         /\ Here(q).task_state = "UNDO" =>
              \A k \in Range(Here(q).tasks) :
                IF k \in First(Here(q).tasks, Here(q).error_task_index) THEN Last(k) = "Rollup"
                ELSE Undoable(k)
<1>1. PICK pos \in Pos : pos = <<q, p[q].i>> /\ B(pos) = Here(q)
  BY HereIs
<1>2. TasksAt(pos) = Range(Here(q).tasks)
  BY <1>1 DEF TasksAt, Here
<1>3. BlockApart(pos) /\ NewRight(pos) /\ UndoRight(pos)
  BY DEF Apart, History, BlockRight
<1>4. ~Between(pos[1], "done", pos[2]) /\ ~Between(pos[1], "cancel", pos[2])
  BY <1>1 DEF Between
<1>5. Here(q) \in BlockInfo
  BY HereIs
<1>6. Here(q).tasks \in Seq(Nat) /\ Here(q).error_task_index \in Nat
  BY <1>5 DEF BlockInfo
<1>7. Range(Here(q).tasks) \subseteq DOMAIN stage /\ IsInjective(Here(q).tasks)
  BY <1>1, <1>2, <1>3 DEF BlockApart
<1>8. Here(q).task_state = "NEW" => \A k \in Range(Here(q).tasks) : Fresh(k)
  BY <1>1, <1>2, <1>3, <1>4 DEF NewRight
<1>9. Here(q).task_state = "UNDO" =>
        \A k \in Range(Here(q).tasks) :
          IF k \in First(Here(q).tasks, Here(q).error_task_index) THEN Last(k) = "Rollup"
          ELSE Undoable(k)
  BY <1>1, <1>2, <1>3, <1>4 DEF UndoRight
<1> QED
  BY <1>5, <1>6, <1>7, <1>8, <1>9

\* The calls a process makes: for tasks of its block only, as they are due.
LEMMA ProcessorCalls ==
  ASSUME Types, Apart, History, NEW q \in Proc,
         P_Process(q) \/ P_UnProcess(q) \/ P_Fails(q)
  PROVE  /\ DOMAIN stage' = DOMAIN stage
         /\ \A k \in DOMAIN stage : k \notin Range(Here(q).tasks) => Last(k)' = Last(k)
         /\ Here(q).task_state = "NEW" =>
              \A k \in Range(Here(q).tasks) :
                Fresh(k) /\ (Last(k)' = "Process" \/ (P_Fails(q) /\ Last(k)' = Last(k)))
         /\ Here(q).task_state = "UNDO" =>
              \A k \in Range(Here(q).tasks) :
                IF k \in First(Here(q).tasks, Here(q).error_task_index)
                THEN Last(k) = "Rollup" /\ Last(k)' = "Rollup"
                ELSE Undoable(k)
                     /\ (Last(k)' = "UnProcess" \/ (P_Fails(q) /\ Last(k)' = Last(k)))
         /\ P_Process(q) => Here(q).task_state = "NEW"
         /\ P_UnProcess(q) => Here(q).task_state = "UNDO"
         /\ P_Fails(q) =>
              \/ Here(q).task_state = "NEW" /\ "Process" \in Fault
              \/ Here(q).task_state = "UNDO" /\ "UnProcess" \in Fault
<1>1. p[q].pc = "visit"
  BY DEF P_Process, P_UnProcess, P_Fails
<1>2. PICK tasks \in Seq(Nat), e \in Nat : tasks = Here(q).tasks /\ e = Here(q).error_task_index
  BY <1>1, VisitedBlock
<1>3. /\ IsInjective(tasks) /\ Range(tasks) \subseteq DOMAIN stage
      /\ Here(q).task_state = "NEW" => \A k \in Range(tasks) : Fresh(k)
      /\ Here(q).task_state = "UNDO" =>
           \A k \in Range(tasks) :
             IF k \in First(tasks, e) THEN Last(k) = "Rollup" ELSE Undoable(k)
  BY <1>1, <1>2, VisitedBlock
<1>4. \A k \in Range(tasks) :
        k \in First(tasks, e) <=> ~ \E m \in e + 1..Len(tasks) : k = tasks[m]
  BY <1>3, FirstRest
<1>5. \A m \in e + 1..Len(tasks) : tasks[m] \in Range(tasks)
  BY DEF Range
<1>6. CASE P_Process(q)
  <2>1. /\ DOMAIN stage' = DOMAIN stage
        /\ \A k \in DOMAIN stage : Last(k)' = IF k \in Range(tasks) THEN "Process" ELSE Last(k)
    BY <1>2, <1>6, ProcessTypes
  <2>2. Here(q).task_state = "NEW" /\ ~P_UnProcess(q)
    BY <1>6 DEF P_Process, P_UnProcess
  <2>3. P_Fails(q) => "Process" \in Fault
    BY <2>2 DEF P_Fails, Fails
  <2> QED
    BY <1>2, <1>3, <2>1, <2>2, <2>3
<1>7. CASE P_UnProcess(q)
  <2>1. /\ DOMAIN stage' = DOMAIN stage
        /\ \A k \in DOMAIN stage :
             Last(k)' = IF \E m \in e + 1..Len(tasks) : k = tasks[m] THEN "UnProcess" ELSE Last(k)
    <3>1. /\ DOMAIN stage' = DOMAIN stage
          /\ \A k \in DOMAIN stage :
               Last(k)' = IF \E m \in Here(q).error_task_index + 1..Len(Here(q).tasks) :
                               k = Here(q).tasks[m]
                          THEN "UnProcess" ELSE Last(k)
      BY <1>7, ProcessTypes
    <3> QED
      BY <1>2, <3>1
  <2>2. Here(q).task_state = "UNDO" /\ ~P_Process(q)
    BY <1>7 DEF P_Process, P_UnProcess
  <2>3. P_Fails(q) => "UnProcess" \in Fault
    BY <2>2 DEF P_Fails, Fails
  <2>4. \A k \in DOMAIN stage : k \notin Range(tasks) => Last(k)' = Last(k)
    <3> SUFFICES ASSUME NEW k \in DOMAIN stage, k \notin Range(tasks)
                 PROVE  Last(k)' = Last(k)
      OBVIOUS
    <3>1. ~ \E m \in e + 1..Len(tasks) : k = tasks[m]
      BY <1>5
    <3> QED
      BY <2>1, <3>1
  <2>5. \A k \in Range(tasks) :
          Last(k)' = IF k \in First(tasks, e) THEN Last(k) ELSE "UnProcess"
    BY <1>3, <1>4, <2>1
  <2> QED
    BY <1>2, <1>3, <2>1, <2>2, <2>3, <2>4, <2>5
<1>8. CASE P_Fails(q)
  <2>1. /\ DOMAIN stage' = DOMAIN stage
        /\ \A k \in DOMAIN stage : Last(k)' # Last(k) =>
             \/ /\ Here(q).task_state = "NEW" /\ "Process" \in Fault
                /\ k \in Range(tasks) /\ Last(k)' = "Process"
             \/ /\ Here(q).task_state = "UNDO" /\ "UnProcess" \in Fault
                /\ Last(k)' = "UnProcess"
                /\ \E m \in e + 1..Len(tasks) : k = tasks[m]
    BY <1>2, <1>8, FailsTypes
  <2>2. \/ Here(q).task_state = "NEW" /\ "Process" \in Fault
        \/ Here(q).task_state = "UNDO" /\ "UnProcess" \in Fault
    BY <1>8 DEF P_Fails, Fails
  <2>3. P_Process(q) => Here(q).task_state = "NEW"
    BY DEF P_Process
  <2>4. P_UnProcess(q) => Here(q).task_state = "UNDO"
    BY DEF P_UnProcess
  <2>5. \A k \in DOMAIN stage : k \notin Range(tasks) => Last(k)' = Last(k)
    BY <1>5, <2>1
  <2>6. Here(q).task_state = "NEW" =>
          \A k \in Range(tasks) : Last(k)' = "Process" \/ Last(k)' = Last(k)
    BY <1>3, <2>1
  <2>7. Here(q).task_state = "UNDO" =>
          \A k \in Range(tasks) :
            IF k \in First(tasks, e) THEN Last(k)' = Last(k)
            ELSE Last(k)' = "UnProcess" \/ Last(k)' = Last(k)
    BY <1>3, <1>4, <2>1
  <2> QED
    BY <1>2, <1>3, <1>8, <2>1, <2>2, <2>3, <2>4, <2>5, <2>6, <2>7
<1> QED
  BY <1>6, <1>7, <1>8

LEMMA ProcessorTypes ==
  ASSUME Types, NEW q \in Proc, Processor(q)
  PROVE  Types' /\ UNCHANGED <<jobs, count, d, r, jobOf, phase, opened, lost>>
<1>1. Types'
  <2>1. \/ P_Run(q) \/ P_Skip(q) \/ P_Process(q) \/ P_UnProcess(q)
        \/ P_Done(q) \/ P_Cancel(q) \/ P_Fails(q) \/ P_Cmd(q)
    BY DEF Processor, Processing
  <2> QED
    BY <2>1, RunTypes, SkipTypes, ProcessTypes, HandOnTypes, FailsTypes, PCmdTypes
<1> QED
  BY <1>1 DEF Processor, Processing, P_Run, P_Skip, P_Process, P_UnProcess, P_Done, P_Cancel,
              P_Fails, P_Cmd, jobs, seen

LEMMA ProcessorQuiet ==
  ASSUME Types, Apart, History, NEW q \in Proc, Processor(q)
  PROVE  JobsStay /\ HandStays
<1>1. UNCHANGED <<jobs, count, d, r, jobOf, phase, opened>> /\ size \in Nat
  BY ProcessorTypes DEF Types, JobTypes
<1>2. CASE P_Process(q) \/ P_UnProcess(q) \/ P_Fails(q)
  <2>1. /\ DOMAIN stage' = DOMAIN stage
        /\ \A k \in DOMAIN stage : Last(k)' = "Rollup" <=> Last(k) = "Rollup"
    <3>1. Here(q).task_state \in {"NEW", "UNDO"}
      BY <1>2 DEF P_Process, P_UnProcess, P_Fails
    <3>2. /\ DOMAIN stage' = DOMAIN stage
          /\ \A k \in DOMAIN stage : k \notin Range(Here(q).tasks) => Last(k)' = Last(k)
          /\ Here(q).task_state = "NEW" =>
               \A k \in Range(Here(q).tasks) :
                 Fresh(k) /\ (Last(k)' = "Process" \/ Last(k)' = Last(k))
          /\ Here(q).task_state = "UNDO" =>
               \A k \in Range(Here(q).tasks) :
                 IF k \in First(Here(q).tasks, Here(q).error_task_index)
                 THEN Last(k) = "Rollup" /\ Last(k)' = "Rollup"
                 ELSE Undoable(k) /\ (Last(k)' = "UnProcess" \/ Last(k)' = Last(k))
      BY <1>2, ProcessorCalls
    <3> QED
      BY <3>1, <3>2 DEF Fresh, Undoable
  <2> QED
    BY <1>1, <2>1 DEF JobsStay, HandStays, jobs
<1>3. CASE P_Run(q) \/ P_Skip(q) \/ P_Done(q) \/ P_Cancel(q) \/ P_Cmd(q)
  <2>1. UNCHANGED <<jobs, count, seen, d, r>>
    BY <1>3 DEF P_Run, P_Skip, P_Done, P_Cancel, P_Cmd
  <2> QED
    BY <2>1, JobsUnchanged DEF HandStays
<1> QED
  BY <1>2, <1>3 DEF Processor, Processing

LEMMA RollupQuiet ==
  ASSUME Types, \/ R_Skip \/ R_TurnBack \/ R_OpenFails \/ R_Undo \/ R_Null \/ R_Main
                \/ R_CloseFails \/ R_Cmd
  PROVE  Types' /\ JobsStay /\ HandStays
<1>1. UNCHANGED <<jobs, count, seen, d>>
  BY DEF R_Skip, R_TurnBack, R_OpenFails, R_Undo, R_Null, R_Main, R_CloseFails, R_Cmd
<1>2. Types' /\ (r.hadRollupError => r'.hadRollupError)
  <2>1. CASE R_TurnBack
    BY <2>1, TurnBackTypes
  <2>2. CASE R_OpenFails \/ R_CloseFails
    BY <2>2, REndsTypes
  <2>3. CASE R_Main \/ R_Cmd
    BY <2>3, RWaitsTypes
  <2>4. CASE R_Skip \/ R_Undo \/ R_Null
    BY <2>4, RSkipTypes, UndoIs, NullIs
  <2> QED
    BY <2>1, <2>2, <2>3, <2>4
<1> QED
  BY <1>1, <1>2, JobsUnchanged DEF HandStays

LEMMA OutsideQuiet ==
  ASSUME Types, (\E c \in Command : Operator(c)) \/ (\E x \in PID : Crash(x))
  PROVE  Types' /\ JobsStay /\ HandStays
<1>1. Types' /\ UNCHANGED <<jobs, count, seen, d, r>>
  BY OutsideTypes
<1> QED
  BY <1>1, JobsUnchanged DEF HandStays

LEMMA StutterQuiet ==
  ASSUME Types, UNCHANGED vars
  PROVE  Types' /\ JobsStay /\ HandStays
<1>1. Types'
  BY DEF vars, pids, jobs, seen, environ, Types, PidTypes, RingTypes, JobTypes, SeenTypes, PlaceTypes
<1> QED
  BY <1>1, JobsUnchanged DEF vars, HandStays

\* Every step leaves slots, jobs and counts as they should be.
LEMMA StepSlots ==
  ASSUME IInv, [Next]_vars
  PROVE  Types' /\ Slots' /\ InHand' /\ Counted'
<1>1. Types /\ Slots /\ InHand /\ Counted /\ Apart /\ History /\ Kept
  BY DEF IInv
<1>2. ASSUME Types', JobsStay, HandStays
      PROVE  Types' /\ Slots' /\ InHand' /\ Counted'
  BY <1>1, <1>2, SlotsStay
<1>3. CASE Distributor
  <2>1. CASE \/ D_SetCmd \/ D_SetCmdSeq \/ D_CheckChild \/ D_Top \/ D_Waited
             \/ D_StopCheck \/ D_Exit \/ (\E hash \in Hash : D_Find(hash))
             \/ D_HandOver \/ D_Drop \/ D_Fails \/ D_Create \/ D_Created
    <3>1. Types'
      BY <1>1, <2>1, SetCmdTypes, SetCmdSeqTypes, CheckTypes, WaitTypes, ExitTypes, CreateTypes,
         FindIs, HandOverIs
    <3> QED
      BY <1>1, <1>2, <2>1, <3>1, DistributorQuiet
  <2>2. CASE D_OpenJob
    <3>1. \A j \in Job : job[j].isUsed => j < size
      BY <1>1 DEF Slots
    <3>2. Types'
      BY <1>1, <2>2, <3>1, OpenJobIs
    <3> QED
      BY <1>1, <2>2, <3>2, OpenJobSlots
  <2>3. CASE D_ResetJob
    BY <1>1, <2>3, ResetJobIs, ResetJobSlots
  <2>4. CASE D_UseJob
    BY <1>1, <2>4, UseJobIs, UseJobSlots
  <2>5. CASE D_Task
    BY <1>1, <2>5, TaskIs, TaskSlots
  <2>6. CASE D_CloseJob
    BY <1>1, <2>6, CloseJobSlots
  <2> QED
    BY <1>3, <2>1, <2>2, <2>3, <2>4, <2>5, <2>6 DEF Distributor
<1>4. ASSUME NEW q \in Proc, Processor(q)
      PROVE  Types' /\ Slots' /\ InHand' /\ Counted'
  BY <1>1, <1>2, <1>4, ProcessorTypes, ProcessorQuiet
<1>5. CASE Rollup
  <2>1. CASE \/ R_Skip \/ R_TurnBack \/ R_OpenFails \/ R_Undo \/ R_Null \/ R_Main
             \/ R_CloseFails \/ R_Cmd
    BY <1>1, <1>2, <2>1, RollupQuiet
  <2>2. ASSUME NEW n \in 0..MAX_BLOCK_TASK, R_Rollup(n)
        PROVE  Types' /\ Slots' /\ InHand' /\ Counted'
    <3>1. r.pc = "visit" /\ At.task_state = "DONE"
      BY <2>2 DEF R_Rollup
    <3>2. At.tasks # <<>> /\ Len(At.tasks) <= MAX_BLOCK_TASK
      BY <1>1, <3>1, DoneBlock
    <3>3. Types'
      BY <1>1, <2>2, <3>2, RollupIs
    <3> QED
      BY <1>1, <2>2, <3>3, RollupSlots
  <2>3. CASE R_Check \/ R_EmptyJob
    <3>1. PICK j \in Job : (R_Check /\ j = r.i_job) \/ (R_EmptyJob /\ j = r.i)
      <4>1. r.i_job \in Job
        BY <1>1 DEF Types, PlaceTypes, RRecord
      <4>2. R_EmptyJob => r.i \in Job
        BY <1>1 DEF Types, PlaceTypes, R_EmptyJob
      <4> QED
        BY <2>3, <4>1, <4>2
    <3> QED
      BY <1>1, <3>1, LookSlots
  <2> QED
    BY <1>5, <2>1, <2>2, <2>3 DEF Rollup
<1>6. CASE (\E c \in Command : Operator(c)) \/ (\E x \in PID : Crash(x))
  BY <1>1, <1>2, <1>6, OutsideQuiet
<1>7. CASE UNCHANGED vars
  BY <1>1, <1>2, <1>7, StutterQuiet
<1> QED
  BY <1>3, <1>4, <1>5, <1>6, <1>7 DEF Next

-----------------------------------------------------------------------------
(* The blocks: what leaves them alone *)

\* A step between two blocks: nothing is handed on and no method is called.
Aside ==
  /\ UNCHANGED <<block, stage>>
  /\ lost \subseteq lost' /\ lost' \subseteq lost \cup DOMAIN stage
  /\ Stopping => Stopping'
  /\ \A q \in Proc :
       /\ state'[q] = "COREDUMP" => state[q] = "COREDUMP"
       /\ p[q].pc \in {"done", "cancel"} \/ p'[q].pc \in {"done", "cancel"} =>
            p'[q] = p[q] /\ state'[q] = state[q]
  /\ UNCHANGED r \/ (r.pc \notin {"undo", "null"} /\ r'.pc \notin {"undo", "null"})

\* The tasks of the blocks, whatever their states.
TasksKept ==
  /\ DOMAIN stage' = DOMAIN stage
  /\ \A pos \in Pos : /\ B(pos)'.tasks = B(pos).tasks
                      /\ B(pos)'.task_state # "NULL" => B(pos).tasks # <<>>

LEMMA ApartStays ==
  ASSUME Apart, TasksKept, lost' \subseteq DOMAIN stage
  PROVE  Apart'
<1>1. \A pos \in Pos : TasksAt(pos)' = TasksAt(pos)
  BY DEF TasksKept, TasksAt, B
<1>2. \A pos \in Pos : BlockApart(pos)'
  <2> SUFFICES ASSUME NEW pos \in Pos
               PROVE  BlockApart(pos)'
    OBVIOUS
  <2>1. BlockApart(pos) /\ TasksAt(pos)' = TasksAt(pos)
    BY <1>1 DEF Apart
  <2>2. B(pos)'.tasks = B(pos).tasks /\ (B(pos)'.task_state # "NULL" => B(pos).tasks # <<>>)
    BY DEF TasksKept
  <2> QED
    BY <2>1, <2>2 DEF BlockApart, TasksKept
<1>3. \A a, b \in Pos : a # b => TasksAt(a)' \cap TasksAt(b)' = {}
  BY <1>1 DEF Apart
<1> QED
  BY <1>2, <1>3 DEF Apart, TasksKept

\* What is right of a block stays so while its tasks and its owner do.
LEMMA RightElsewhere ==
  ASSUME NEW pos \in Pos, BlockRight(pos), B(pos)' = B(pos),
         \A k \in TasksAt(pos) : Last(k)' = Last(k),
         Between(pos[1], "done", pos[2])' <=> Between(pos[1], "done", pos[2]),
         Between(pos[1], "cancel", pos[2])' <=> Between(pos[1], "cancel", pos[2]),
         RollupAt(pos) => RollupAt(pos)'
  PROVE  BlockRight(pos)'
<1>1. TasksAt(pos)' = TasksAt(pos)
  BY DEF TasksAt, B
<1>2. NewRight(pos)'
  BY <1>1 DEF BlockRight, NewRight, Fresh
<1>3. DoneRight(pos)'
  BY <1>1 DEF BlockRight, DoneRight
<1>4. UndoRight(pos)'
  BY <1>1 DEF BlockRight, UndoRight, Undoable, First
<1> QED
  BY <1>2, <1>3, <1>4 DEF BlockRight

LEMMA AsideBlocks ==
  ASSUME Types, Apart, Turns, History, Aside
  PROVE  Apart' /\ Turns' /\ History'
<1>0. \A pos \in Pos : B(pos)' = B(pos) /\ TasksAt(pos)' = TasksAt(pos)
  BY DEF Aside, B, TasksAt
<1>1. \A k : Last(k)' = Last(k)
  BY DEF Aside, Last
<1>2. \A q \in Proc : \A i :
       /\ Between(q, "done", i)' <=> Between(q, "done", i)
       /\ Between(q, "cancel", i)' <=> Between(q, "cancel", i)
  BY DEF Aside, Between
<1>3. Apart'
  <2>1. TasksKept
    BY <1>0 DEF Aside, TasksKept, Apart, BlockApart
  <2> QED
    BY <2>1, ApartStays DEF Aside, Apart
<1>4. Turns'
  <2>1. \A q \in Proc : ProcessTurn(q)'
    <3> SUFFICES ASSUME NEW q \in Proc
                 PROVE  ProcessTurn(q)'
      OBVIOUS
    <3>1. ProcessTurn(q)
      BY DEF Turns
    <3>2. CASE p[q].pc \in {"done", "cancel"} \/ p'[q].pc \in {"done", "cancel"}
      <4>1. p'[q] = p[q] /\ state'[q] = state[q]
        BY <3>2 DEF Aside
      <4> QED
        BY <3>1, <4>1 DEF ProcessTurn, Aside, Here
    <3>3. CASE p'[q].pc \notin {"done", "cancel"}
      BY <3>1, <3>3 DEF ProcessTurn, Aside
    <3> QED
      BY <3>2, <3>3
  <2>2. RollupTurn'
    <3>1. CASE r'.pc \notin {"undo", "null"}
      BY <3>1 DEF RollupTurn
    <3>2. CASE UNCHANGED r /\ r.pc \in {"undo", "null"}
      <4>1. r.i \in Proc
        BY <3>2, AtIs
      <4> QED
        BY <1>2, <3>2, <4>1 DEF Turns, RollupTurn, Aside, At
    <3> QED
      BY <3>1, <3>2 DEF Aside
  <2>3. \A pos \in Pos : Unspoilt(pos)'
    BY <1>0 DEF Turns, Unspoilt, Aside
  <2> QED
    BY <2>1, <2>2, <2>3 DEF Turns
<1>5. History'
  <2>1. \A pos \in Pos : BlockRight(pos)'
    <3> SUFFICES ASSUME NEW pos \in Pos
                 PROVE  BlockRight(pos)'
      OBVIOUS
    <3>1. BlockRight(pos) /\ pos[1] \in Proc
      BY PosIs DEF History
    <3>2. RollupAt(pos) => RollupAt(pos)'
      BY DEF Aside, RollupAt
    <3> QED
      BY <1>0, <1>1, <1>2, <3>1, <3>2, RightElsewhere
  <2>2. RollupRight'
    BY <1>1 DEF History, RollupRight, Aside, At, First
  <2> QED
    BY <2>1, <2>2 DEF History
<1> QED
  BY <1>3, <1>4, <1>5

\* No process stands between its two writes while it is not there.
LEMMA NotBetween ==
  ASSUME Types, Turns, NEW q \in Proc, state[q] # "RUN", ~Stopping
  PROVE  state[q] # "COREDUMP" /\ p[q].pc \notin {"done", "cancel"}
BY DEF Turns, ProcessTurn

LEMMA DistributorAside ==
  ASSUME Types, Apart, Turns,
         \/ D_SetCmd \/ D_SetCmdSeq \/ D_Top \/ D_Waited \/ D_Exit \/ D_Drop \/ D_Fails
         \/ D_Create \/ D_Created \/ D_OpenJob \/ D_ResetJob \/ D_UseJob \/ D_CloseJob
  PROVE  Aside
<1>1. UNCHANGED <<block, stage, p, r>>
  BY DEF D_SetCmd, D_SetCmdSeq, D_Top, D_Waited, D_Exit, D_Drop, D_Fails, D_Create, D_Created,
         D_OpenJob, D_ResetJob, D_UseJob, D_CloseJob, seen
<1>4. lost \subseteq lost' /\ lost' \subseteq lost \cup DOMAIN stage
  <2>1. CASE UNCHANGED lost
    BY <2>1
  <2>2. CASE D_Fails /\ d.pc = "fill"
    <3>1. PICK q \in Proc, b \in Slot : FillingAt(q, b) /\ Filled = block[q][b]
      BY <2>2, FillIs
    <3>2. TasksAt(<<q, b>>) \subseteq DOMAIN stage /\ TasksAt(<<q, b>>) = Range(Filled.tasks)
      <4>1. <<q, b>> \in Pos
        BY BlockIs DEF Types
      <4> QED
        BY <3>1, <4>1 DEF Apart, BlockApart, TasksAt
    <3> QED
      BY <2>2, <3>2 DEF D_Fails
  <2> QED
    BY <2>1, <2>2
       DEF D_SetCmd, D_SetCmdSeq, D_Top, D_Waited, D_Exit, D_Drop, D_Fails, D_Create, D_Created,
           D_OpenJob, D_ResetJob, D_UseJob, D_CloseJob, seen
<1>2. Stopping => Stopping'
  <2>1. CASE D_OpenJob \/ D_ResetJob \/ D_UseJob \/ D_CloseJob
    BY <2>1 DEF D_OpenJob, D_ResetJob, D_UseJob, D_CloseJob, Stopping
  <2> QED
    BY <2>1, DistributorQuiet
<1>3. ASSUME NEW q \in Proc
      PROVE  /\ state'[q] = "COREDUMP" => state[q] = "COREDUMP"
             /\ p[q].pc \in {"done", "cancel"} => state'[q] = state[q]
  <2>1. CASE UNCHANGED state
    BY <2>1
  <2>2. CASE D_Exit
    <3>1. state' = [state EXCEPT ![DISTRIBUTE] = "EXITED"] /\ q # DISTRIBUTE
      BY <2>2 DEF D_Exit, Gone, DISTRIBUTE, Proc
    <3> QED
      BY <3>1 DEF Types, PidTypes
  <2>3. CASE D_Create /\ state[d.q] \in {"NULL", "EXITED", "COREDUMP"}
    <3>1. /\ state' = [state EXCEPT ![d.q] = "CREATE"] /\ ~Stopping
          /\ d.q \in Proc /\ state[d.q] # "RUN"
      BY <2>3 DEF D_Create, Stopping, Types, PlaceTypes
    <3>2. state'[q] = IF q = d.q THEN "CREATE" ELSE state[q]
      BY <3>1 DEF Types, PidTypes, PID, Child
    <3> QED
      BY <3>1, <3>2, NotBetween
  <2> QED
    BY <2>1, <2>2, <2>3
       DEF D_SetCmd, D_SetCmdSeq, D_Top, D_Waited, D_Drop, D_Fails, D_Create, D_Created,
           D_OpenJob, D_ResetJob, D_UseJob, D_CloseJob, pids
<1> QED
  BY <1>1, <1>2, <1>3, <1>4 DEF Aside

LEMMA ProcessorAside ==
  ASSUME Types, Turns, NEW q \in Proc,
         P_Run(q) \/ (isRuning(q) /\ (P_Skip(q) \/ P_Cmd(q)))
  PROVE  Aside
<1>1. UNCHANGED <<block, stage, lost, d, r>>
  BY DEF P_Run, P_Skip, P_Cmd, seen
<1>2. p'[q].pc \notin {"done", "cancel"} /\ \A c \in Proc : c # q => p'[c] = p[c]
  BY RunTypes, SkipTypes, PCmdTypes
<1>3. p[q].pc \notin {"done", "cancel"}
  <2>1. CASE P_Run(q)
    <3>1. state[q] = "CREATE"
      BY <2>1 DEF P_Run
    <3> QED
      BY <3>1 DEF Turns, ProcessTurn
  <2> QED
    BY <2>1 DEF P_Skip, P_Cmd
<1>4. \A c \in Proc : (state'[c] = "COREDUMP" => state[c] = "COREDUMP")
                      /\ (c # q => state'[c] = state[c])
  <2>1. CASE P_Run(q)
    <3>1. state' = [state EXCEPT ![q] = "RUN"]
      BY <2>1 DEF P_Run
    <3> QED
      BY <3>1 DEF Types, PidTypes, PID, Child
  <2>2. CASE P_Skip(q)
    BY <2>2 DEF P_Skip, pids
  <2>3. CASE P_Cmd(q)
    BY <2>3, PCmdTypes
  <2> QED
    BY <2>1, <2>2, <2>3
<1> QED
  BY <1>1, <1>2, <1>3, <1>4 DEF Aside, Stopping

LEMMA RollupAside ==
  ASSUME Types, Slots,
         R_Skip \/ R_OpenFails \/ R_Check \/ R_Main \/ R_EmptyJob \/ R_CloseFails \/ R_Cmd
  PROVE  Aside
<1>1. UNCHANGED <<block, stage, lost, p, d>>
  BY DEF R_Skip, R_OpenFails, R_Check, R_Main, R_EmptyJob, R_CloseFails, R_Cmd, seen
<1>2. \A c \in Proc : state'[c] = state[c]
  <2>1. CASE R_Skip \/ R_Check \/ R_EmptyJob
    BY <2>1 DEF R_Skip, R_Check, R_EmptyJob, pids
  <2> QED
    BY <2>1, REndsTypes, RWaitsTypes
<1>3. r' = r \/ (r.pc \notin {"undo", "null"} /\ r'.pc \notin {"undo", "null"})
  <2>1. CASE R_Skip
    BY <2>1, RSkipTypes DEF R_Skip
  <2>2. CASE R_OpenFails \/ R_CloseFails
    BY <2>2, REndsTypes
  <2>3. CASE R_Main \/ R_Cmd
    BY <2>3, RWaitsTypes
  <2>4. CASE R_Check \/ R_EmptyJob
    <3>1. PICK j \in Job : (R_Check /\ j = r.i_job) \/ (R_EmptyJob /\ j = r.i)
      <4>1. r.i_job \in Job
        BY DEF Types, PlaceTypes, RRecord
      <4>2. R_EmptyJob => r.i \in Job
        BY DEF Types, PlaceTypes, R_EmptyJob
      <4> QED
        BY <2>4, <4>1, <4>2
    <3>2. MayClose(j) => job[j].info \in DOMAIN phase
      <4>1. DOMAIN phase = 1..Len(phase)
        BY DEF Types, SeenTypes
      <4> QED
        BY <4>1 DEF MayClose, Slots
    <3>3. r'.pc \in {"visit", "main", "cmd", "empty"}
      BY <3>1, <3>2, LookIs
    <3> QED
      BY <2>4, <3>3 DEF R_Check, R_EmptyJob
  <2> QED
    BY <2>1, <2>2, <2>3, <2>4
<1> QED
  BY <1>1, <1>2, <1>3 DEF Aside, Stopping

LEMMA OutsideAside ==
  ASSUME Types, (\E c \in Command : Operator(c)) \/ (\E x \in PID : Crash(x)) \/ UNCHANGED vars
  PROVE  Aside
<1>1. UNCHANGED <<block, stage, lost, d, p, r>> /\ \A c \in Proc : state'[c] = state[c]
  <2>1. CASE UNCHANGED vars
    BY <2>1 DEF vars, pids, seen
  <2> QED
    BY <2>1, OutsideTypes DEF seen
<1> QED
  BY <1>1 DEF Aside, Stopping

-----------------------------------------------------------------------------
(* The blocks: the distributor *)

\* CheckChild frees the blocks of whoever is not there; nobody fills them again.
LEMMA CheckBlocks ==
  ASSUME Types, Apart, Turns, History, D_CheckChild \/ D_StopCheck
  PROVE  Apart' /\ Turns' /\ History'
<1>1. Types' /\ Stopping' /\ UNCHANGED <<stage, p, r>>
  BY CheckTypes DEF D_CheckChild, D_StopCheck, seen
<1>2. /\ \A q \in Proc, b \in Slot :
           /\ block'[q][b].i_job = block[q][b].i_job
           /\ block'[q][b].tasks = block[q][b].tasks
           /\ block'[q][b].error_task_index = block[q][b].error_task_index
           /\ block'[q][b].task_state =
                IF needexit(q) THEN "NULL" ELSE block[q][b].task_state
      /\ \A x \in PID :
           state'[x] = IF x \in Child /\ ~isOK(x) THEN "COREDUMP" ELSE state[x]
      /\ lost' = lost \cup {k \in UNION {TasksIn(q) : q \in {c \in Proc : needexit(c)}} :
                              Last(k) # "Rollup"}
  BY CheckTypes, CheckChildWrites
<1>3. \A pos \in Pos : /\ B(pos)'.tasks = B(pos).tasks
                       /\ B(pos)'.error_task_index = B(pos).error_task_index
                       /\ B(pos)'.task_state \in {B(pos).task_state, "NULL"}
                       /\ TasksAt(pos)' = TasksAt(pos)
  BY <1>2, PosIs DEF B, TasksAt
<1>4. \A k : Last(k)' = Last(k)
  BY <1>1 DEF Last
<1>5. Apart'
  <2>1. TasksKept
    BY <1>1, <1>3 DEF TasksKept, Apart, BlockApart
  <2>2. lost' \subseteq DOMAIN stage
    <3>1. \A q \in Proc : TasksIn(q) \subseteq DOMAIN stage
      <4>1. \A q \in Proc, b \in Slot : Range(block[q][b].tasks) \subseteq DOMAIN stage
        <5> SUFFICES ASSUME NEW q \in Proc, NEW b \in Slot
                     PROVE  Range(block[q][b].tasks) \subseteq DOMAIN stage
          OBVIOUS
        <5>1. PICK pos \in Pos : pos = <<q, b>>
          BY DEF Pos
        <5>2. BlockApart(pos)
          BY DEF Apart
        <5> QED
          BY <5>1, <5>2 DEF BlockApart, TasksAt
      <4> QED
        BY <4>1 DEF TasksIn
    <3> QED
      BY <1>2, <3>1 DEF Apart
  <2> QED
    BY <2>1, <2>2, ApartStays
<1>6. Turns'
  <2>1. \A q \in Proc : ProcessTurn(q)'
    <3> SUFFICES ASSUME NEW q \in Proc
                 PROVE  ProcessTurn(q)'
      OBVIOUS
    <3>1. ProcessTurn(q) /\ p[q].i \in Slot
      BY HereIs DEF Turns
    <3>2. state'[q] = IF isOK(q) THEN state[q] ELSE "COREDUMP"
      BY <1>2 DEF PID, Child
    <3>3. state'[q] = "RUN" => state[q] = "RUN" /\ ~needexit(q)
      BY <3>2 DEF needexit, isRuning
    <3>4. state'[q] = "COREDUMP" => needexit(q)
      BY <3>2 DEF needexit, isOK, isRuning
    <3>5. p'[q].pc \in {"done", "cancel"} => state'[q] \in {"RUN", "COREDUMP"}
      BY <1>1, <3>1, <3>2 DEF ProcessTurn
    <3>6. state'[q] = "RUN" => block'[q][p[q].i].task_state = Here(q).task_state
      BY <1>2, <3>1, <3>3 DEF Here
    <3>7. state'[q] = "COREDUMP" => \A b \in Slot : block'[q][b].task_state = "NULL"
      BY <1>2, <3>4
    <3> QED
      BY <1>1, <3>1, <3>3, <3>5, <3>6, <3>7 DEF ProcessTurn, Here
  <2>2. RollupTurn'
    <3> SUFFICES ASSUME r.pc \in {"undo", "null"}
                 PROVE  RollupTurn'
      BY <1>1 DEF RollupTurn
    <3>1. /\ At'.tasks = At.tasks
          /\ At'.task_state = "NULL" \/ At'.task_state = At.task_state
      BY <1>1, <1>2, AtIs DEF At
    <3> QED
      BY <1>1, <3>1 DEF Turns, RollupTurn, Between
  <2>3. \A pos \in Pos : Unspoilt(pos)'
    BY <1>1, <1>3 DEF Turns, Unspoilt
  <2> QED
    BY <2>1, <2>2, <2>3 DEF Turns
<1>7. History'
  <2>1. \A pos \in Pos : BlockRight(pos)'
    <3> SUFFICES ASSUME NEW pos \in Pos
                 PROVE  BlockRight(pos)'
      OBVIOUS
    <3>1. NewRight(pos) /\ DoneRight(pos) /\ UndoRight(pos)
      BY DEF History, BlockRight
    <3>2. NewRight(pos)'
      BY <1>1, <1>3, <1>4, <3>1 DEF NewRight, Fresh, Between
    <3>3. DoneRight(pos)'
      BY <1>1, <1>3, <1>4, <3>1 DEF DoneRight, RollupAt
    <3>4. UndoRight(pos)'
      BY <1>1, <1>3, <1>4, <3>1 DEF UndoRight, Undoable, Between, First
    <3> QED
      BY <3>2, <3>3, <3>4 DEF BlockRight
  <2>2. RollupRight'
    <3> SUFFICES ASSUME r.pc \in {"undo", "null"}
                 PROVE  RollupRight'
      BY <1>1 DEF RollupRight
    <3>1. At'.tasks = At.tasks
      BY <1>1, <1>2, AtIs DEF At
    <3> QED
      BY <1>1, <1>4, <3>1 DEF History, RollupRight, First
  <2> QED
    BY <2>1, <2>2 DEF History
<1> QED
  BY <1>5, <1>6, <1>7

\* A free block is written, while nobody stands at it, and handed over at most
\* with tasks that nobody has touched.
LEMMA FreeBlockWritten ==
  ASSUME Types, Turns, History, NEW q \in Proc, NEW b \in Slot,
         UNCHANGED <<p, r, state>>, ~Stopping, ~Stopping',
         \A pos \in Pos : TasksAt(pos) \subseteq DOMAIN stage,
         \A pos \in Pos : pos # <<q, b>> => B(pos)' = B(pos),
         block[q][b].task_state = "NULL", block'[q][b].task_state \in {"NULL", "NEW"},
         block'[q][b].error_task_index = block[q][b].error_task_index,
         \A k \in DOMAIN stage : Last(k)' = Last(k),
         block'[q][b].task_state = "NEW" =>
           \A k \in TasksAt(<<q, b>>)' : Last(k)' = "none"
  PROVE  Turns' /\ History'
<1>1. PICK h \in Pos : h = <<q, b>>
  BY DEF Pos
<1>2. /\ B(h).task_state = "NULL" /\ B(h)'.task_state \in {"NULL", "NEW"}
      /\ B(h)'.error_task_index = B(h).error_task_index
      /\ \A pos \in Pos : pos # h => B(pos)' = B(pos) /\ TasksAt(pos)' = TasksAt(pos)
      /\ B(h)'.task_state = "NEW" => \A k \in TasksAt(h)' : Last(k)' = "none"
  <2>1. B(h) = block[q][b] /\ B(h)' = block'[q][b] /\ TasksAt(h)' = TasksAt(<<q, b>>)'
    BY <1>1 DEF B, TasksAt
  <2>2. \A pos \in Pos : B(pos)' = B(pos) => TasksAt(pos)' = TasksAt(pos)
    BY DEF B, TasksAt
  <2> QED
    BY <1>1, <2>1, <2>2
<1>3. \A c \in Proc : state[c] # "COREDUMP"
  BY DEF Turns, ProcessTurn
<1>4. r.pc \in {"undo", "null"} => <<r.i, r.j>> \in Pos /\ <<r.i, r.j>> # h /\ B(<<r.i, r.j>>) = At
  <2>1. r.pc \in {"undo", "null"} => At.task_state = "DONE"
    BY DEF Turns, RollupTurn
  <2> QED
    BY <1>2, <2>1, AtIs
<1>5. r.pc \in {"undo", "null"} => At' = At
  <2> SUFFICES ASSUME r.pc \in {"undo", "null"}
               PROVE  At' = At
    OBVIOUS
  <2>1. PICK pos \in Pos : pos = <<r.i, r.j>> /\ pos # h
    BY <1>4
  <2>2. B(pos)' = At' /\ B(pos) = At
    BY <2>1 DEF B, At
  <2> QED
    BY <1>2, <2>1, <2>2
<1>6. Turns'
  <2>1. \A c \in Proc : ProcessTurn(c)'
    <3> SUFFICES ASSUME NEW c \in Proc
                 PROVE  ProcessTurn(c)'
      OBVIOUS
    <3>1. ProcessTurn(c) /\ state'[c] = state[c] /\ p'[c] = p[c] /\ state[c] # "COREDUMP"
      BY <1>3 DEF Turns
    <3>2. Here(c).task_state # "NULL" => Here(c)' = Here(c)
      <4>1. PICK pos \in Pos : pos = <<c, p[c].i>> /\ B(pos) = Here(c)
        BY HereIs
      <4>2. Here(c)' = B(pos)'
        BY <4>1 DEF Here, B
      <4> QED
        BY <1>2, <4>1, <4>2
    <3> QED
      BY <3>1, <3>2 DEF ProcessTurn
  <2>2. RollupTurn'
    BY <1>5 DEF Turns, RollupTurn, Between
  <2>3. \A pos \in Pos : Unspoilt(pos)'
    <3>1. Unspoilt(h)'
      BY <1>2 DEF Turns, Unspoilt
    <3> QED
      BY <1>2, <3>1 DEF Turns, Unspoilt
  <2> QED
    BY <2>1, <2>2, <2>3 DEF Turns
<1>7. History'
  <2>1. \A pos \in Pos : pos # h => BlockRight(pos)'
    <3> SUFFICES ASSUME NEW pos \in Pos, pos # h
                 PROVE  BlockRight(pos)'
      OBVIOUS
    <3>1. BlockRight(pos) /\ B(pos)' = B(pos) /\ \A k \in TasksAt(pos) : Last(k)' = Last(k)
      BY <1>2 DEF History
    <3>2. /\ Between(pos[1], "done", pos[2])' <=> Between(pos[1], "done", pos[2])
          /\ Between(pos[1], "cancel", pos[2])' <=> Between(pos[1], "cancel", pos[2])
          /\ RollupAt(pos) => RollupAt(pos)'
      BY DEF Between, RollupAt
    <3> QED
      BY <3>1, <3>2, RightElsewhere
  <2>2. BlockRight(h)'
    <3>1. ~Between(q, "done", b)
      <4>1. Between(q, "done", b) /\ state[q] = "RUN" => Here(q) = B(h)
        BY <1>1 DEF Between, Here, B
      <4>2. ProcessTurn(q)
        BY DEF Turns
      <4> QED
        BY <1>2, <1>3, <4>1, <4>2 DEF ProcessTurn, Between
    <3>2. ~Between(h[1], "done", h[2])'
      BY <1>1, <3>1 DEF Between
    <3>3. NewRight(h)'
      BY <1>2, <3>2 DEF NewRight, Fresh
    <3>4. DoneRight(h)' /\ UndoRight(h)'
      BY <1>2 DEF DoneRight, UndoRight
    <3> QED
      BY <3>3, <3>4 DEF BlockRight
  <2>3. RollupRight'
    <3> SUFFICES ASSUME r.pc \in {"undo", "null"}
                 PROVE  RollupRight'
      BY DEF RollupRight
    <3>1. At' = At /\ \A k \in Range(At.tasks) : Last(k)' = Last(k)
      <4>1. Range(At.tasks) \subseteq DOMAIN stage
        <5>1. PICK pos \in Pos : pos = <<r.i, r.j>>
          BY <1>4
        <5> QED
          BY <5>1 DEF TasksAt, At
      <4> QED
        BY <1>5, <4>1
    <3> QED
      BY <3>1 DEF History, RollupRight, First
  <2> QED
    BY <2>1, <2>2, <2>3 DEF History
<1> QED
  BY <1>6, <1>7

\* What the three steps of a hand-over leave alone.
LEMMA HandOverRests ==
  ASSUME Types, (\E hash \in Hash : D_Find(hash)) \/ D_Task \/ D_HandOver
  PROVE  UNCHANGED <<p, r, state, lost>> /\ ~Stopping /\ ~Stopping'
<1>1. UNCHANGED <<p, r, state, lost>> /\ d.pc \in {"loop", "fill"}
  BY DEF D_Find, D_Task, D_HandOver, pids
<1>2. d'.pc \in {"fill", "create"}
  BY FindIs, TaskIs, HandOverIs DEF Found, Tasked, HandedOver, FillingAt
<1> QED
  BY <1>1, <1>2 DEF Stopping

LEMMA FindBlocks ==
  ASSUME Types, Apart, Turns, History, NEW hash \in Hash, D_Find(hash)
  PROVE  Apart' /\ Turns' /\ History'
<1>1. PICK q \in Proc, b \in Slot : Found(q, b)
  BY FindIs
<1>2. PICK h \in Pos : h = <<q, b>>
  BY DEF Pos
<1>3. UNCHANGED <<p, r, state, lost, stage>> /\ ~Stopping /\ ~Stopping'
  BY HandOverRests DEF D_Find, seen
<1>4. \A k : Last(k)' = Last(k)
  BY <1>3 DEF Last
<1>5. /\ B(h)'.tasks = <<>> /\ B(h)'.task_state = "NULL" /\ TasksAt(h)' = {}
      /\ \A pos \in Pos : pos # h => B(pos)' = B(pos) /\ TasksAt(pos)' = TasksAt(pos)
  <2>1. B(h)'.tasks = <<>> /\ B(h)'.task_state = "NULL"
    BY <1>1, <1>2 DEF Found, B
  <2>2. TasksAt(h)' = Range(<<>>)
    BY <2>1 DEF TasksAt, B
  <2>3. Range(<<>>) = {}
    BY DEF Range
  <2>4. \A pos \in Pos : pos # h => B(pos)' = B(pos)
    BY <1>1, <1>2 DEF Found
  <2> QED
    BY <2>1, <2>2, <2>3, <2>4 DEF B, TasksAt
<1>6. Apart'
  <2>1. BlockApart(h)'
    <3>1. Len(B(h)'.tasks) <= MAX_BLOCK_TASK /\ IsInjective(B(h)'.tasks)
      BY <1>5 DEF IsInjective
    <3> QED
      BY <1>5, <3>1 DEF BlockApart
  <2>2. \A pos \in Pos : pos # h => BlockApart(pos)'
    BY <1>3, <1>5 DEF Apart, BlockApart
  <2>3. \A a, c \in Pos : a # c => TasksAt(a)' \cap TasksAt(c)' = {}
    BY <1>5 DEF Apart
  <2> QED
    BY <1>3, <2>1, <2>2, <2>3 DEF Apart
<1>7. Turns' /\ History'
  <2>1. /\ block[q][b].task_state = "NULL" /\ block'[q][b].task_state = "NULL"
        /\ block'[q][b].error_task_index = block[q][b].error_task_index
        /\ \A pos \in Pos : pos # <<q, b>> => B(pos)' = B(pos)
    BY <1>1 DEF Found
  <2>2. \A pos \in Pos : TasksAt(pos) \subseteq DOMAIN stage
    BY DEF Apart, BlockApart
  <2> QED
    BY <1>3, <1>4, <2>1, <2>2, FreeBlockWritten
<1> QED
  BY <1>6, <1>7

\* The new task was in no block, and is in the one being filled.
TaskWritten(q, b, new) ==
  /\ new \notin DOMAIN stage
  /\ DOMAIN stage' = DOMAIN stage \cup {new}
  /\ \A k \in DOMAIN stage : Last(k)' = Last(k) /\ jobOf'[k] = jobOf[k]
  /\ Last(new)' = "none" /\ jobOf'[new] = job[d.i_job].info
  /\ TasksAt(<<q, b>>)' = TasksAt(<<q, b>>) \cup {new}
  /\ IsInjective(block'[q][b].tasks) /\ Len(block'[q][b].tasks) <= MAX_BLOCK_TASK
  /\ block[q][b].task_state = "NULL" /\ block'[q][b].task_state = "NULL"

LEMMA TaskWrites ==
  ASSUME Types, Apart, Filling, NEW q \in Proc, NEW b \in Slot, Tasked(q, b),
         NEW new \in Nat, new = Len(stage) + 1
  PROVE  TaskWritten(q, b, new)
<1>1. PICK info : info = job[d.i_job].info
  OBVIOUS
<1>2. /\ DOMAIN stage' = 1..Len(stage) + 1 /\ DOMAIN jobOf' = 1..Len(stage) + 1
      /\ \A k \in 1..Len(stage) : stage'[k] = stage[k] /\ jobOf'[k] = jobOf[k]
      /\ stage'[Len(stage) + 1] = <<>> /\ jobOf'[Len(stage) + 1] = info
  BY <1>1 DEF Tasked
<1>3. /\ DOMAIN stage = 1..Len(stage) /\ Len(stage) \in Nat
      /\ \A k \in DOMAIN stage : Last(k)' = Last(k) /\ jobOf'[k] = jobOf[k]
  BY <1>2, NewTask, ZenonT(60)
<1>4. new = Len(stage) + 1
  OBVIOUS
<1>5. new \notin DOMAIN stage /\ DOMAIN stage' = DOMAIN stage \cup {new}
  BY <1>2, <1>3, <1>4
<1>6. Last(new)' = "none" /\ jobOf'[new] = info
  BY <1>2, <1>4 DEF Last
<1>7. PICK t : t = block[q][b].tasks
  OBVIOUS
<1>8. /\ t \in Seq(Nat) /\ IsInjective(t) /\ Range(t) \subseteq DOMAIN stage
      /\ TasksAt(<<q, b>>) = Range(t)
  <2>1. block[q][b] \in BlockInfo /\ <<q, b>> \in Pos /\ B(<<q, b>>) = block[q][b]
    BY BlockIs DEF Types
  <2> QED
    BY <1>7, <2>1 DEF Apart, BlockApart, TasksAt, BlockInfo
<1>9. block'[q][b].tasks = Append(t, new) /\ Len(t) < MAX_BLOCK_TASK
  BY <1>4, <1>7 DEF Tasked
<1>10. TasksAt(<<q, b>>)' = TasksAt(<<q, b>>) \cup {new}
  BY <1>8, <1>9, RangeAppended DEF TasksAt
<1>11. IsInjective(Append(t, new)) /\ Len(Append(t, new)) <= MAX_BLOCK_TASK
  <2>1. PICK u \in Seq(Nat) : u = Append(t, new)
    <3>1. Append(t, new) \in Seq(Nat)
      BY <1>8
    <3> QED
      BY <3>1
  <2>2. /\ DOMAIN u = 1..Len(t) + 1 /\ DOMAIN t = 1..Len(t) /\ Len(t) \in Nat
        /\ Len(u) = Len(t) + 1
        /\ u[Len(t) + 1] = new /\ \A m \in 1..Len(t) : u[m] = t[m]
    BY <1>8, <2>1
  <2>3. \A m \in 1..Len(t) : u[m] # new
    BY <1>5, <1>8, <2>2 DEF Range
  <2>4. ASSUME NEW x \in 1..Len(t) + 1, NEW y \in 1..Len(t) + 1, u[x] = u[y]
        PROVE  x = y
    <3>1. (x \in 1..Len(t) \/ x = Len(t) + 1) /\ (y \in 1..Len(t) \/ y = Len(t) + 1)
      BY <2>2
    <3>2. CASE x \in 1..Len(t) /\ y \in 1..Len(t)
      BY <1>8, <2>2, <2>4, <3>2 DEF IsInjective
    <3> QED
      BY <2>2, <2>3, <2>4, <3>1, <3>2
  <2> QED
    BY <1>9, <2>1, <2>2, <2>4 DEF IsInjective
<1>12. block[q][b].task_state = "NULL" /\ block'[q][b].task_state = "NULL"
  BY DEF Filling, FilledRight, Tasked
<1> QED
  BY <1>1, <1>3, <1>4, <1>5, <1>6, <1>9, <1>10, <1>11, <1>12 DEF TaskWritten

LEMMA TaskBlocks ==
  ASSUME Types, Apart, Turns, History, Filling, D_Task
  PROVE  Apart' /\ Turns' /\ History'
<1>1. PICK q \in Proc, b \in Slot : Tasked(q, b)
  BY TaskIs
<1>2. PICK h \in Pos : h = <<q, b>>
  BY DEF Pos
<1>3. UNCHANGED <<p, r, state, lost>> /\ ~Stopping /\ ~Stopping'
  BY HandOverRests
<1>4. PICK new \in Nat : new = Len(stage) + 1
  BY DEF Types, SeenTypes
<1>5. /\ new \notin DOMAIN stage /\ DOMAIN stage' = DOMAIN stage \cup {new}
      /\ \A k \in DOMAIN stage : Last(k)' = Last(k)
      /\ TasksAt(h)' = TasksAt(h) \cup {new}
      /\ IsInjective(B(h)'.tasks) /\ Len(B(h)'.tasks) <= MAX_BLOCK_TASK
      /\ block[q][b].task_state = "NULL" /\ block'[q][b].task_state = "NULL"
  <2>1. /\ new \notin DOMAIN stage /\ DOMAIN stage' = DOMAIN stage \cup {new}
        /\ \A k \in DOMAIN stage : Last(k)' = Last(k)
        /\ TasksAt(<<q, b>>)' = TasksAt(<<q, b>>) \cup {new}
        /\ IsInjective(block'[q][b].tasks) /\ Len(block'[q][b].tasks) <= MAX_BLOCK_TASK
        /\ block[q][b].task_state = "NULL" /\ block'[q][b].task_state = "NULL"
    <3>1. TaskWritten(q, b, new)
      BY <1>1, <1>4, TaskWrites
    <3> QED
      BY <3>1 DEF TaskWritten
  <2>2. B(h)' = block'[q][b]
    BY <1>2 DEF B
  <2>3. TasksAt(h)' = TasksAt(<<q, b>>)' /\ TasksAt(h) = TasksAt(<<q, b>>)
    BY <1>2 DEF TasksAt
  <2> QED
    BY <2>1, <2>2, <2>3
<1>6. B(h)'.task_state = "NULL"
  BY <1>2, <1>5 DEF B
<1>7. \A pos \in Pos : pos # h => B(pos)' = B(pos) /\ TasksAt(pos)' = TasksAt(pos)
  BY <1>1, <1>2 DEF Tasked, B, TasksAt
<1>8. \A pos \in Pos : TasksAt(pos) \subseteq DOMAIN stage
  BY DEF Apart, BlockApart
<1>9. Apart'
  <2>1. BlockApart(h)'
    BY <1>5, <1>6, <1>8 DEF BlockApart
  <2>2. \A pos \in Pos : pos # h => BlockApart(pos)'
    BY <1>5, <1>7 DEF Apart, BlockApart
  <2>3. \A a, c \in Pos : a # c => TasksAt(a)' \cap TasksAt(c)' = {}
    <3>1. \A pos \in Pos : pos # h => TasksAt(pos)' \cap TasksAt(h)' = {}
      BY <1>5, <1>7, <1>8 DEF Apart
    <3> QED
      BY <1>7, <3>1 DEF Apart
  <2> QED
    BY <1>3, <1>5, <2>1, <2>2, <2>3 DEF Apart
<1>10. Turns' /\ History'
  <2>1. /\ block'[q][b].error_task_index = block[q][b].error_task_index
        /\ \A pos \in Pos : pos # <<q, b>> => B(pos)' = B(pos)
    BY <1>1 DEF Tasked
  <2> QED
    BY <1>3, <1>5, <1>8, <2>1, FreeBlockWritten
<1> QED
  BY <1>9, <1>10

LEMMA HandOverBlocks ==
  ASSUME Types, Apart, Turns, History, Filling, D_HandOver
  PROVE  Apart' /\ Turns' /\ History'
<1>1. PICK q \in Proc, b \in Slot : HandedOver(q, b)
  BY HandOverIs
<1>2. UNCHANGED <<p, r, state, lost, stage>> /\ ~Stopping /\ ~Stopping'
  BY HandOverRests DEF D_HandOver, seen
<1>3. \A k : Last(k)' = Last(k)
  BY <1>2 DEF Last
<1>4. /\ block[q][b].tasks # <<>> /\ block'[q][b].tasks = block[q][b].tasks
      /\ block'[q][b].task_state = "NEW"
      /\ block'[q][b].error_task_index = block[q][b].error_task_index
      /\ \A pos \in Pos : pos # <<q, b>> => B(pos)' = B(pos)
  BY <1>1 DEF HandedOver
<1>5. /\ block[q][b].task_state = "NULL"
      /\ \A k \in TasksAt(<<q, b>>) : Last(k) = "none"
  BY <1>1 DEF Filling, FilledRight, HandedOver
<1>6. Apart'
  <2>1. ASSUME NEW pos \in Pos
        PROVE  B(pos)'.tasks = B(pos).tasks /\ (B(pos)'.task_state # "NULL" => B(pos).tasks # <<>>)
    <3>1. CASE pos = <<q, b>>
      BY <1>4, <3>1 DEF B
    <3>2. CASE pos # <<q, b>>
      BY <1>4, <3>2 DEF Apart, BlockApart
    <3> QED
      BY <3>1, <3>2
  <2>2. TasksKept
    BY <1>2, <2>1 DEF TasksKept
  <2> QED
    BY <1>2, <2>2, ApartStays DEF Apart
<1>7. Turns' /\ History'
  <2>1. \A k \in TasksAt(<<q, b>>)' : Last(k)' = "none"
    BY <1>3, <1>4, <1>5 DEF TasksAt
  <2>2. \A pos \in Pos : TasksAt(pos) \subseteq DOMAIN stage
    BY DEF Apart, BlockApart
  <2> QED
    BY <1>2, <1>3, <1>4, <1>5, <2>1, <2>2, FreeBlockWritten
<1> QED
  BY <1>6, <1>7

-----------------------------------------------------------------------------
(* The blocks: the processes *)

\* What a process does to its block leaves all others as they were, and the
\* rollup where it stands.
LEMMA ProcessorElsewhere ==
  ASSUME Types, Apart, Turns, History, NEW q \in Proc, NEW h \in Pos, h = <<q, p[q].i>>,
         B(h).task_state \in {"NEW", "UNDO"}, UNCHANGED <<d, r>>,
         \A pos \in Pos : pos # h => B(pos)' = B(pos),
         \A k \in DOMAIN stage : k \notin TasksAt(h) => Last(k)' = Last(k),
         \A c \in Proc : c # q => p'[c] = p[c] /\ state'[c] = state[c],
         p'[q].pc \in {"done", "cancel"} => p'[q].i = p[q].i
  PROVE  /\ \A c \in Proc : c # q => ProcessTurn(c)'
         /\ RollupTurn' /\ RollupRight'
         /\ \A pos \in Pos : pos # h => Unspoilt(pos)' /\ BlockRight(pos)'
<1>1. \A c \in Proc, b \in Slot : c # q => block'[c][b] = block[c][b]
  <2> SUFFICES ASSUME NEW c \in Proc, NEW b \in Slot, c # q
               PROVE  block'[c][b] = block[c][b]
    OBVIOUS
  <2>1. PICK pos \in Pos : pos = <<c, b>>
    BY DEF Pos
  <2>2. pos[1] = c /\ pos[2] = b /\ h[1] = q
    BY <2>1
  <2> QED
    BY <2>2 DEF B
<1>2. Stopping' <=> Stopping
  BY DEF Stopping
<1>3. \A pos \in Pos : pos # h =>
        /\ \A k \in TasksAt(pos) : Last(k)' = Last(k)
        /\ Between(pos[1], "done", pos[2])' <=> Between(pos[1], "done", pos[2])
        /\ Between(pos[1], "cancel", pos[2])' <=> Between(pos[1], "cancel", pos[2])
  <2> SUFFICES ASSUME NEW pos \in Pos, pos # h
               PROVE  /\ \A k \in TasksAt(pos) : Last(k)' = Last(k)
                      /\ Between(pos[1], "done", pos[2])' <=> Between(pos[1], "done", pos[2])
                      /\ Between(pos[1], "cancel", pos[2])' <=> Between(pos[1], "cancel", pos[2])
    OBVIOUS
  <2>1. TasksAt(pos) \cap TasksAt(h) = {} /\ TasksAt(pos) \subseteq DOMAIN stage
    BY DEF Apart, BlockApart
  <2>2. pos[1] \in Proc /\ pos = <<pos[1], pos[2]>>
    BY PosIs
  <2>3. pos[1] # q \/ pos[2] # p[q].i
    BY <2>2
  <2> QED
    BY <2>1, <2>2, <2>3 DEF Between
<1>4. ASSUME NEW c \in Proc, c # q
      PROVE  ProcessTurn(c)'
  <2>1. ProcessTurn(c) /\ p'[c] = p[c] /\ state'[c] = state[c] /\ p[c].i \in Slot
    BY <1>4, HereIs DEF Turns
  <2>2. Here(c)' = Here(c) /\ \A b \in Slot : block'[c][b] = block[c][b]
    BY <1>1, <1>4, <2>1 DEF Here
  <2> QED
    BY <1>2, <2>1, <2>2 DEF ProcessTurn
<1>5. ASSUME r.pc \in {"undo", "null"}
      PROVE  \E pos \in Pos : pos = <<r.i, r.j>> /\ pos # h /\ B(pos) = At /\ B(pos)' = At'
  <2>1. PICK pos \in Pos : pos = <<r.i, r.j>> /\ B(pos) = At
    BY <1>5, AtIs
  <2>2. pos # h
    BY <1>5, <2>1 DEF Turns, RollupTurn
  <2>3. B(pos)' = At'
    BY <2>1 DEF B, At
  <2> QED
    BY <2>1, <2>2, <2>3
<1>6. RollupTurn'
  <2> SUFFICES ASSUME r.pc \in {"undo", "null"}
               PROVE  RollupTurn'
    BY DEF RollupTurn
  <2>1. PICK pos \in Pos : pos = <<r.i, r.j>> /\ pos # h /\ B(pos) = At /\ B(pos)' = At'
    BY <1>5
  <2>2. At' = At /\ pos[1] = r.i /\ pos[2] = r.j
    BY <2>1
  <2>3. ~Between(pos[1], "done", pos[2])' /\ ~Between(pos[1], "cancel", pos[2])'
    BY <1>3, <2>1, <2>2 DEF Turns, RollupTurn
  <2>4. ~Between(r.i, "done", r.j)' /\ ~Between(r.i, "cancel", r.j)'
    BY <2>2, <2>3 DEF Between
  <2> QED
    BY <1>2, <2>2, <2>4 DEF Turns, RollupTurn
<1>7. RollupRight'
  <2> SUFFICES ASSUME r.pc \in {"undo", "null"}
               PROVE  RollupRight'
    BY DEF RollupRight
  <2>1. PICK pos \in Pos : pos = <<r.i, r.j>> /\ pos # h /\ B(pos) = At /\ B(pos)' = At'
    BY <1>5
  <2>2. At' = At /\ \A k \in Range(At.tasks) : Last(k)' = Last(k)
    BY <1>3, <2>1 DEF TasksAt, B
  <2> QED
    BY <2>2 DEF History, RollupRight, First
<1>8. ASSUME NEW pos \in Pos, pos # h
      PROVE  Unspoilt(pos)' /\ BlockRight(pos)'
  <2>1. B(pos)' = B(pos) /\ Unspoilt(pos) /\ BlockRight(pos)
    BY <1>8 DEF Turns, History
  <2>2. RollupAt(pos) => RollupAt(pos)'
    BY DEF RollupAt
  <2>3. BlockRight(pos)'
    BY <1>3, <1>8, <2>1, <2>2, RightElsewhere
  <2> QED
    BY <1>2, <2>1, <2>3 DEF Unspoilt
<1> QED
  BY <1>4, <1>6, <1>7, <1>8

\* A process calls the methods for the tasks of its block.
LEMMA ProcessBlocks ==
  ASSUME Types, Apart, Turns, History, NEW q \in Proc, isRuning(q),
         P_Process(q) \/ P_UnProcess(q) \/ P_Fails(q)
  PROVE  Apart' /\ Turns' /\ History'
<1>1. PICK h \in Pos : h = <<q, p[q].i>> /\ B(h) = Here(q)
  BY HereIs
<1>2. /\ p[q].pc = "visit" /\ Here(q).task_state \in {"NEW", "UNDO"}
      /\ UNCHANGED <<d, r, block, lost>>
  BY DEF P_Process, P_UnProcess, P_Fails
<1>3. \A pos \in Pos : B(pos)' = B(pos) /\ TasksAt(pos)' = TasksAt(pos)
  BY <1>2 DEF B, TasksAt
<1>4. TasksAt(h) = Range(Here(q).tasks) /\ TasksAt(h) \subseteq DOMAIN stage
  BY <1>1 DEF TasksAt, B, Apart, BlockApart
<1>5. /\ DOMAIN stage' = DOMAIN stage
      /\ \A k \in DOMAIN stage : k \notin TasksAt(h) => Last(k)' = Last(k)
      /\ B(h).task_state = "NEW" =>
           \A k \in TasksAt(h) :
             Fresh(k) /\ (Last(k)' = "Process" \/ (P_Fails(q) /\ Last(k)' = Last(k)))
      /\ B(h).task_state = "UNDO" =>
           \A k \in TasksAt(h) :
             IF k \in First(B(h).tasks, B(h).error_task_index)
             THEN Last(k) = "Rollup" /\ Last(k)' = "Rollup"
             ELSE Undoable(k) /\ (Last(k)' = "UnProcess" \/ (P_Fails(q) /\ Last(k)' = Last(k)))
      /\ P_Process(q) => B(h).task_state = "NEW"
      /\ P_UnProcess(q) => B(h).task_state = "UNDO"
      /\ P_Fails(q) => \/ B(h).task_state = "NEW" /\ "Process" \in Fault
                       \/ B(h).task_state = "UNDO" /\ "UnProcess" \in Fault
  BY <1>1, <1>4, ProcessorCalls
<1>6. /\ \A c \in Proc : c # q => p'[c] = p[c] /\ state'[c] = state[c]
      /\ p'[q].i = p[q].i
      /\ \/ P_Fails(q) /\ p'[q].pc = "visit" /\ state'[q] = "EXITED"
         \/ ~P_Fails(q) /\ state'[q] = "RUN" /\ p'[q].pc = "done" /\ P_Process(q)
         \/ ~P_Fails(q) /\ state'[q] = "RUN" /\ p'[q].pc = "cancel" /\ P_UnProcess(q)
  <2>1. CASE P_Fails(q)
    <3>1. state' = [state EXCEPT ![q] = "EXITED"] /\ p' = p
      BY <2>1 DEF P_Fails, Gone
    <3> QED
      BY <1>2, <2>1, <3>1 DEF Types, PidTypes, PID, Child
  <2>2. CASE P_Process(q) \/ P_UnProcess(q)
    <3>1. UNCHANGED state /\ state[q] = "RUN"
      BY <2>2 DEF P_Process, P_UnProcess, pids, isRuning
    <3>2. /\ p'[q].pc = (IF P_Process(q) THEN "done" ELSE "cancel")
          /\ p'[q].i = p[q].i
          /\ \A c \in Proc : c # q => p'[c] = p[c]
      BY <2>2, ProcessTypes
    <3>3. ~P_Fails(q)
      <4>1. P_Fails(q) => p' = p
        BY DEF P_Fails
      <4> QED
        BY <1>2, <3>2, <4>1
    <3> QED
      BY <2>2, <3>1, <3>2, <3>3
  <2> QED
    BY <2>1, <2>2
<1>7. Apart'
  <2>1. TasksKept
    BY <1>3, <1>5 DEF TasksKept, Apart, BlockApart
  <2> QED
    BY <1>2, <2>1, ApartStays DEF Apart
<1>8. /\ \A c \in Proc : c # q => ProcessTurn(c)'
      /\ RollupTurn' /\ RollupRight'
      /\ \A pos \in Pos : pos # h => Unspoilt(pos)' /\ BlockRight(pos)'
  BY <1>1, <1>2, <1>3, <1>5, <1>6, ProcessorElsewhere
<1>9. ProcessTurn(q)'
  <2>1. Here(q)' = Here(q)
    BY <1>2, <1>6 DEF Here
  <2> QED
    BY <1>1, <1>5, <1>6, <2>1 DEF ProcessTurn
<1>10. Unspoilt(h)'
  BY <1>2, <1>3 DEF Turns, Unspoilt, Stopping
<1>11. BlockRight(h)'
  <2>1. h[1] = q /\ h[2] = p[q].i
    BY <1>1
  <2>2. /\ Between(h[1], "done", h[2])' <=> p'[q].pc = "done"
        /\ Between(h[1], "cancel", h[2])' <=> p'[q].pc = "cancel"
    BY <1>6, <2>1 DEF Between
  <2>3. NewRight(h)'
    BY <1>3, <1>5, <1>6, <2>2 DEF NewRight, Fresh
  <2>4. DoneRight(h)'
    BY <1>1, <1>2, <1>3 DEF DoneRight
  <2>5. UndoRight(h)'
    BY <1>3, <1>5, <1>6, <2>2 DEF UndoRight, Undoable, First
  <2> QED
    BY <2>3, <2>4, <2>5 DEF BlockRight
<1> QED
  BY <1>7, <1>8, <1>9, <1>10, <1>11 DEF Turns, History

\* ... and then hands it on.
LEMMA HandOnBlocks ==
  ASSUME Types, Apart, Turns, History, NEW q \in Proc, isRuning(q), P_Done(q) \/ P_Cancel(q)
  PROVE  Apart' /\ Turns' /\ History'
<1>1. PICK h \in Pos : h = <<q, p[q].i>> /\ B(h) = Here(q)
  BY HereIs
<1>2. UNCHANGED <<d, r, state, stage, lost>> /\ state[q] = "RUN"
  BY DEF P_Done, P_Cancel, pids, seen, isRuning
<1>3. /\ p'[q].pc \in {"visit", "cmd"}
      /\ \A c \in Proc : c # q => p'[c] = p[c]
      /\ B(h)'.task_state = (IF P_Done(q) THEN "DONE" ELSE "CANCLE")
      /\ B(h)'.tasks = B(h).tasks
      /\ B(h)'.error_task_index = B(h).error_task_index
      /\ \A pos \in Pos : pos # h => B(pos)' = B(pos)
      /\ TasksAt(h)' = TasksAt(h)
  <2>1. block'[q][p[q].i] = B(h)'
    BY <1>1 DEF B
  <2> QED
    BY <1>1, <2>1, HandOnTypes DEF TasksAt, B
<1>4. /\ P_Done(q) => p[q].pc = "done" /\ B(h).task_state = "NEW"
      /\ ~P_Done(q) => B(h).task_state = "UNDO"
  BY <1>1, <1>2 DEF P_Done, P_Cancel, Turns, ProcessTurn
<1>5. \A k : Last(k)' = Last(k)
  BY <1>2 DEF Last
<1>6. Apart'
  <2>1. TasksKept
    <3>1. \A pos \in Pos : B(pos)'.tasks = B(pos).tasks
      BY <1>3
    <3>2. \A pos \in Pos : B(pos).task_state # "NULL" => B(pos).tasks # <<>>
      BY DEF Apart, BlockApart
    <3>3. \A pos \in Pos : B(pos)'.task_state # "NULL" => B(pos).task_state # "NULL"
      BY <1>3, <1>4
    <3> QED
      BY <1>2, <3>1, <3>2, <3>3 DEF TasksKept
  <2> QED
    BY <1>2, <2>1, ApartStays DEF Apart
<1>7. /\ \A c \in Proc : c # q => ProcessTurn(c)'
      /\ RollupTurn' /\ RollupRight'
      /\ \A pos \in Pos : pos # h => Unspoilt(pos)' /\ BlockRight(pos)'
  <2>1. B(h).task_state \in {"NEW", "UNDO"}
    BY <1>4
  <2>2. p'[q].pc \in {"done", "cancel"} => p'[q].i = p[q].i
    BY <1>3
  <2> QED
    BY <1>1, <1>2, <1>3, <1>5, <2>1, <2>2, ProcessorElsewhere
<1>8. ProcessTurn(q)'
  BY <1>2, <1>3 DEF ProcessTurn
<1>9. Unspoilt(h)'
  BY <1>3, <1>4 DEF Turns, Unspoilt
<1>10. BlockRight(h)'
  <2>1. DoneRight(h)'
    <3> SUFFICES ASSUME P_Done(q)
                 PROVE  DoneRight(h)'
      BY <1>3 DEF DoneRight
    <3>1. NewRight(h) /\ Between(h[1], "done", h[2])
      BY <1>1, <1>4 DEF History, BlockRight, Between
    <3> QED
      BY <1>3, <1>4, <1>5, <3>1 DEF NewRight, DoneRight
  <2>2. NewRight(h)' /\ UndoRight(h)'
    BY <1>3 DEF NewRight, UndoRight
  <2> QED
    BY <2>1, <2>2 DEF BlockRight
<1> QED
  BY <1>6, <1>7, <1>8, <1>9, <1>10 DEF Turns, History

-----------------------------------------------------------------------------
(* The blocks: the rollup *)

\* What the rollup does to its block leaves all others as they were, and the
\* processes where they stand.
LEMMA RollupElsewhere ==
  ASSUME Types, Apart, Turns, History, NEW h \in Pos, h = <<r.i, r.j>>,
         B(h).task_state \in {"DONE", "NULL"},
         B(h)'.task_state \in {B(h).task_state, "NULL", "UNDO"},
         UNCHANGED <<d, p>>, \A q \in Proc : state'[q] = state[q],
         \A pos \in Pos : pos # h => B(pos)' = B(pos),
         \A k \in DOMAIN stage : k \notin TasksAt(h) => Last(k)' = Last(k),
         r'.pc \in {"undo", "null"} => r'.i = r.i /\ r'.j = r.j
  PROVE  /\ \A q \in Proc : ProcessTurn(q)'
         /\ \A pos \in Pos : pos # h => Unspoilt(pos)' /\ BlockRight(pos)'
<1>1. Stopping' <=> Stopping
  BY DEF Stopping
<1>2. ASSUME NEW q \in Proc
      PROVE  ProcessTurn(q)'
  <2>1. ProcessTurn(q) /\ p'[q] = p[q] /\ state'[q] = state[q]
    BY DEF Turns
  <2>2. Here(q).task_state \in {"NEW", "UNDO"} => Here(q)' = Here(q)
    <3>1. PICK pos \in Pos : pos = <<q, p[q].i>> /\ B(pos) = Here(q)
      BY HereIs
    <3>2. B(pos)' = Here(q)'
      BY <2>1, <3>1 DEF B, Here
    <3> QED
      BY <3>1, <3>2
  <2>3. state[q] = "COREDUMP" => \A b \in Slot : block'[q][b].task_state \in {"NULL", "UNDO"}
    <3> SUFFICES ASSUME state[q] = "COREDUMP", NEW b \in Slot
                 PROVE  block'[q][b].task_state \in {"NULL", "UNDO"}
      OBVIOUS
    <3>1. PICK pos \in Pos : pos = <<q, b>>
      BY DEF Pos
    <3>2. B(pos).task_state \in {"NULL", "UNDO"}
      BY <2>1, <3>1 DEF ProcessTurn, B
    <3>3. B(pos)'.task_state \in {"NULL", "UNDO"}
      BY <3>2
    <3> QED
      BY <3>1, <3>3 DEF B
  <2> QED
    BY <1>1, <2>1, <2>2, <2>3 DEF ProcessTurn
<1>3. ASSUME NEW pos \in Pos, pos # h
      PROVE  Unspoilt(pos)' /\ BlockRight(pos)'
  <2>1. B(pos)' = B(pos) /\ Unspoilt(pos) /\ BlockRight(pos)
    BY <1>3 DEF Turns, History
  <2>2. TasksAt(pos) \cap TasksAt(h) = {} /\ TasksAt(pos) \subseteq DOMAIN stage
    BY <1>3 DEF Apart, BlockApart
  <2>3. \A k \in TasksAt(pos) : Last(k)' = Last(k)
    BY <2>2
  <2>4. /\ Between(pos[1], "done", pos[2])' <=> Between(pos[1], "done", pos[2])
        /\ Between(pos[1], "cancel", pos[2])' <=> Between(pos[1], "cancel", pos[2])
    BY DEF Between
  <2>5. RollupAt(pos) => RollupAt(pos)'
    BY <1>3 DEF RollupAt
  <2>6. BlockRight(pos)'
    BY <2>1, <2>3, <2>4, <2>5, RightElsewhere
  <2> QED
    BY <1>1, <2>1, <2>6 DEF Unspoilt
<1> QED
  BY <1>2, <1>3

\* The rollup finds a block DONE and makes up its mind about it.
LEMMA RollupBlocks ==
  ASSUME Types, Apart, Turns, History, Kept,
         R_TurnBack \/ \E n \in 0..MAX_BLOCK_TASK : R_Rollup(n)
  PROVE  Apart' /\ Turns' /\ History'
<1>1. /\ r.pc = "visit" /\ At.task_state = "DONE"
      /\ UNCHANGED <<d, p, block, state, lost>>
  BY DEF R_TurnBack, R_Rollup, pids
<1>2. PICK h \in Pos : h = <<r.i, r.j>> /\ B(h) = At
  BY <1>1, AtIs
<1>3. PICK tasks \in Seq(Nat) : tasks = At.tasks
  BY <1>1, DoneBlock
<1>4. /\ tasks # <<>> /\ Len(tasks) \in 1..MAX_BLOCK_TASK /\ TasksAt(h) = Range(tasks)
      /\ \A k \in Range(tasks) : k \in DOMAIN stage /\ Last(k) = "Process"
  BY <1>1, <1>2, <1>3, DoneBlock DEF TasksAt, B
<1>5. At.error_task_index = 0
  BY <1>1, <1>2 DEF Turns, Unspoilt
<1>6. \A pos \in Pos : B(pos)' = B(pos) /\ TasksAt(pos)' = TasksAt(pos)
  BY <1>1 DEF B, TasksAt
<1>7. /\ r'.i = r.i /\ r'.j = r.j /\ r'.pc \in {"undo", "null"}
      /\ DOMAIN stage' = DOMAIN stage
      /\ \A k \in DOMAIN stage : k \notin Range(tasks) => Last(k)' = Last(k)
      /\ r'.pc = "null" => \A k \in Range(tasks) : Last(k)' = "Rollup"
      /\ r'.pc = "undo" =>
           \A k \in Range(tasks) :
             Last(k)' = IF k \in First(tasks, r'.error) THEN "Rollup" ELSE "Process"
  <2>1. CASE R_TurnBack
    <3>1. r'.pc = "undo" /\ r'.error = 0 /\ r'.i = r.i /\ r'.j = r.j /\ UNCHANGED stage
      BY <1>5, <2>1, TurnBackTypes DEF R_TurnBack, seen
    <3>2. First(tasks, 0) = {}
      BY DEF First
    <3> QED
      BY <1>4, <3>1, <3>2 DEF Last
  <2>2. ASSUME NEW n \in 0..MAX_BLOCK_TASK, R_Rollup(n)
        PROVE  /\ r'.i = r.i /\ r'.j = r.j /\ r'.pc \in {"undo", "null"}
               /\ DOMAIN stage' = DOMAIN stage
               /\ \A k \in DOMAIN stage : k \notin Range(tasks) => Last(k)' = Last(k)
               /\ r'.pc = "null" => \A k \in Range(tasks) : Last(k)' = "Rollup"
               /\ r'.pc = "undo" =>
                    \A k \in Range(tasks) :
                      Last(k)' = IF k \in First(tasks, r'.error) THEN "Rollup" ELSE "Process"
    <3>0. At.tasks # <<>> /\ Len(At.tasks) <= MAX_BLOCK_TASK
      BY <1>3, <1>4
    <3>1. /\ n <= Len(tasks) /\ r'.i = r.i /\ r'.j = r.j
          /\ r'.pc = (IF n = Len(tasks) THEN "null" ELSE "undo")
          /\ r'.error = (IF n = Len(tasks) THEN 0 ELSE n)
          /\ DOMAIN stage' = DOMAIN stage
          /\ \A k \in DOMAIN stage :
               Last(k)' = IF \E m \in 1..n : k = tasks[m] THEN "Rollup" ELSE Last(k)
      <4>1. /\ n <= Len(At.tasks) /\ r'.i = r.i /\ r'.j = r.j
            /\ r'.pc = (IF n = Len(At.tasks) THEN "null" ELSE "undo")
            /\ r'.error = (IF n = Len(At.tasks) THEN 0 ELSE n)
            /\ DOMAIN stage' = DOMAIN stage
            /\ \A k \in DOMAIN stage :
                 Last(k)' = IF \E m \in 1..n : k = At.tasks[m] THEN "Rollup" ELSE Last(k)
        BY <2>2, <3>0, RollupIs, ZenonT(60)
      <4> QED
        BY <1>3, <4>1
    <3>2. n \in 0..Len(tasks)
      BY <1>4, <3>1
    <3>3. \A k : k \in First(tasks, n) <=> \E m \in 1..n : k = tasks[m]
      BY <3>2, FirstIs
    <3>4. \A m \in 1..n : tasks[m] \in Range(tasks)
      BY <3>2 DEF Range
    <3>5. \A k \in DOMAIN stage : k \notin Range(tasks) => Last(k)' = Last(k)
      BY <3>1, <3>4
    <3>6. ASSUME r'.pc = "null", NEW k \in Range(tasks)
          PROVE  Last(k)' = "Rollup"
      <4>1. n = Len(tasks)
        BY <3>1, <3>6
      <4>2. \E m \in 1..n : k = tasks[m]
        BY <4>1 DEF Range
      <4> QED
        BY <1>4, <3>1, <4>2
    <3>7. ASSUME r'.pc = "undo", NEW k \in Range(tasks)
          PROVE  Last(k)' = IF k \in First(tasks, r'.error) THEN "Rollup" ELSE "Process"
      <4>1. r'.error = n
        BY <3>1, <3>7
      <4> QED
        BY <1>4, <3>1, <3>3, <4>1
    <3>8. r'.pc \in {"undo", "null"}
      BY <3>1
    <3> QED
      BY <3>1, <3>5, <3>6, <3>7, <3>8
  <2> QED
    BY <2>1, <2>2
<1>8. Apart'
  <2>1. TasksKept
    BY <1>6, <1>7 DEF TasksKept, Apart, BlockApart
  <2> QED
    BY <1>1, <2>1, ApartStays DEF Apart
<1>9. /\ \A q \in Proc : ProcessTurn(q)'
      /\ \A pos \in Pos : pos # h => Unspoilt(pos)' /\ BlockRight(pos)'
  <2>1. B(h).task_state \in {"DONE", "NULL"} /\ \A q \in Proc : state'[q] = state[q]
    BY <1>1, <1>2
  <2>2. \A k \in DOMAIN stage : k \notin TasksAt(h) => Last(k)' = Last(k)
    BY <1>4, <1>7
  <2> QED
    BY <1>1, <1>2, <1>6, <1>7, <2>1, <2>2, RollupElsewhere
<1>10. At' = At
  BY <1>1, <1>7 DEF At
<1>11. RollupTurn'
  <2>1. ~Between(r.i, "done", r.j) /\ ~Between(r.i, "cancel", r.j)
    <3>1. r.i \in Proc
      BY <1>1, AtIs
    <3>2. ProcessTurn(r.i) /\ r.j \in Slot
      BY <1>1, <3>1, AtIs DEF Turns
    <3>3. p[r.i].i = r.j => Here(r.i) = At
      BY DEF Here, At
    <3> QED
      BY <1>1, <3>2, <3>3 DEF ProcessTurn, Between, At
  <2> QED
    BY <1>1, <1>3, <1>4, <1>7, <1>10, <2>1 DEF RollupTurn, Between
<1>12. RollupRight'
  BY <1>3, <1>7, <1>10 DEF RollupRight, First
<1>13. Unspoilt(h)'
  BY <1>2, <1>5, <1>6 DEF Unspoilt
<1>14. BlockRight(h)'
  <2>1. RollupAt(h)'
    BY <1>2, <1>7 DEF RollupAt
  <2>2. B(h)'.task_state = "DONE"
    BY <1>1, <1>2, <1>6
  <2> QED
    BY <2>1, <2>2 DEF BlockRight, NewRight, DoneRight, UndoRight
<1> QED
  BY <1>8, <1>9, <1>11, <1>12, <1>13, <1>14 DEF Turns, History

\* ... and then writes its state.
LEMMA GiveBackBlocks ==
  ASSUME Types, Apart, Turns, History, R_Undo \/ R_Null
  PROVE  Apart' /\ Turns' /\ History'
<1>1. /\ r.pc \in {"undo", "null"} /\ UNCHANGED <<d, p, stage, state, lost>>
      /\ R_Undo <=> r.pc = "undo"
  BY DEF R_Undo, R_Null, pids, seen
<1>2. PICK h \in Pos : h = <<r.i, r.j>> /\ B(h) = At
  BY <1>1, AtIs
<1>3. /\ r'.pc \notin {"undo", "null"}
      /\ B(h)'.task_state = (IF R_Undo THEN "UNDO" ELSE "NULL")
      /\ B(h)'.error_task_index = (IF R_Undo THEN r.error ELSE At.error_task_index)
      /\ B(h)'.tasks = At.tasks /\ TasksAt(h)' = TasksAt(h) /\ TasksAt(h) = Range(At.tasks)
      /\ \A pos \in Pos : pos # h => B(pos)' = B(pos)
  <2>1. block'[r.i][r.j] = B(h)'
    BY <1>2 DEF B
  <2>2. /\ r'.pc \notin {"undo", "null"}
        /\ B(h)'.task_state = (IF R_Undo THEN "UNDO" ELSE "NULL")
        /\ B(h)'.error_task_index = (IF R_Undo THEN r.error ELSE At.error_task_index)
        /\ B(h)'.tasks = At.tasks
        /\ \A pos \in Pos : pos # h => B(pos)' = B(pos)
    <3>1. CASE R_Undo
      BY <1>2, <2>1, <3>1, UndoIs
    <3>2. CASE R_Null /\ ~R_Undo
      BY <1>2, <2>1, <3>2, NullIs
    <3> QED
      BY <3>1, <3>2
  <2> QED
    BY <1>2, <2>2 DEF TasksAt, B
<1>4. /\ At.task_state = "DONE" \/ (At.task_state = "NULL" /\ Stopping)
      /\ At.tasks # <<>>
      /\ ~Between(r.i, "done", r.j) /\ ~Between(r.i, "cancel", r.j)
  BY <1>1 DEF Turns, RollupTurn
<1>5. \A k : Last(k)' = Last(k)
  BY <1>1 DEF Last
<1>6. Apart'
  <2>1. TasksKept
    <3>1. \A pos \in Pos : B(pos)'.tasks = B(pos).tasks
      BY <1>2, <1>3
    <3>2. \A pos \in Pos : B(pos)'.task_state # "NULL" => B(pos).tasks # <<>>
      BY <1>2, <1>3, <1>4 DEF Apart, BlockApart
    <3> QED
      BY <1>1, <3>1, <3>2 DEF TasksKept
  <2> QED
    BY <1>1, <2>1, ApartStays DEF Apart
<1>7. /\ \A q \in Proc : ProcessTurn(q)'
      /\ \A pos \in Pos : pos # h => Unspoilt(pos)' /\ BlockRight(pos)'
  <2>1. /\ B(h).task_state \in {"DONE", "NULL"} /\ \A q \in Proc : state'[q] = state[q]
        /\ B(h)'.task_state \in {B(h).task_state, "NULL", "UNDO"}
    BY <1>1, <1>2, <1>3, <1>4
  <2> QED
    BY <1>1, <1>2, <1>3, <1>5, <2>1, RollupElsewhere
<1>8. RollupTurn' /\ RollupRight'
  BY <1>3 DEF RollupTurn, RollupRight
<1>9. Unspoilt(h)'
  BY <1>1, <1>2, <1>3, <1>4 DEF Turns, Unspoilt, Stopping
<1>10. BlockRight(h)'
  <2>1. NewRight(h)' /\ DoneRight(h)'
    BY <1>3 DEF NewRight, DoneRight
  <2>2. UndoRight(h)'
    <3> SUFFICES ASSUME R_Undo
                 PROVE  UndoRight(h)'
      BY <1>3 DEF UndoRight
    <3>1. \A k \in TasksAt(h) :
            Last(k) = IF k \in First(At.tasks, r.error) THEN "Rollup" ELSE "Process"
      BY <1>1, <1>3 DEF History, RollupRight
    <3>2. ~Between(h[1], "cancel", h[2])'
      BY <1>1, <1>2, <1>4 DEF Between
    <3> QED
      BY <1>3, <1>5, <3>1, <3>2 DEF UndoRight, Undoable, First
  <2> QED
    BY <2>1, <2>2 DEF BlockRight
<1> QED
  BY <1>6, <1>7, <1>8, <1>9, <1>10 DEF Turns, History

\* Every step leaves the blocks as they should be.
LEMMA StepBlocks ==
  ASSUME IInv, [Next]_vars
  PROVE  Apart' /\ Turns' /\ History'
<1>1. Types /\ Slots /\ InHand /\ Counted /\ Apart /\ Turns /\ History /\ Kept /\ Filling
  BY DEF IInv
<1>2. ASSUME Aside
      PROVE  Apart' /\ Turns' /\ History'
  BY <1>1, <1>2, AsideBlocks
<1>3. CASE Distributor
  <2>1. CASE D_CheckChild \/ D_StopCheck
    BY <1>1, <2>1, CheckBlocks
  <2>2. CASE (\E hash \in Hash : D_Find(hash)) \/ D_Task \/ D_HandOver
    BY <1>1, <2>2, FindBlocks, TaskBlocks, HandOverBlocks
  <2> QED
    BY <1>1, <1>2, <1>3, <2>1, <2>2, DistributorAside DEF Distributor
<1>4. ASSUME NEW q \in Proc, Processor(q)
      PROVE  Apart' /\ Turns' /\ History'
  <2>1. CASE P_Run(q) \/ (isRuning(q) /\ (P_Skip(q) \/ P_Cmd(q)))
    BY <1>1, <1>2, <2>1, ProcessorAside
  <2>2. CASE isRuning(q) /\ (P_Process(q) \/ P_UnProcess(q) \/ P_Fails(q))
    BY <1>1, <2>2, ProcessBlocks
  <2>3. CASE isRuning(q) /\ (P_Done(q) \/ P_Cancel(q))
    BY <1>1, <2>3, HandOnBlocks
  <2> QED
    BY <1>4, <2>1, <2>2, <2>3 DEF Processor, Processing
<1>5. CASE Rollup
  <2>1. CASE R_TurnBack \/ \E n \in 0..MAX_BLOCK_TASK : R_Rollup(n)
    BY <1>1, <2>1, RollupBlocks
  <2>2. CASE R_Undo \/ R_Null
    BY <1>1, <2>2, GiveBackBlocks
  <2>3. CASE R_Skip \/ R_OpenFails \/ R_Check \/ R_Main \/ R_EmptyJob \/ R_CloseFails \/ R_Cmd
    BY <1>1, <1>2, <2>3, RollupAside
  <2> QED
    BY <1>5, <2>1, <2>2, <2>3 DEF Rollup
<1>6. CASE (\E c \in Command : Operator(c)) \/ (\E x \in PID : Crash(x)) \/ UNCHANGED vars
  BY <1>1, <1>2, <1>6, OutsideAside
<1> QED
  BY <1>3, <1>4, <1>5, <1>6 DEF Next

-----------------------------------------------------------------------------
(* The tasks on their way *)

\* A step that keeps the tasks on their way in their blocks, and the slots they
\* belong to.
Keeping ==
  /\ UNCHANGED jobOf /\ DOMAIN stage' = DOMAIN stage
  /\ \A pos \in Pos : B(pos)'.tasks = B(pos).tasks /\ B(pos)'.i_job = B(pos).i_job
  /\ \A k \in DOMAIN stage :
       /\ Last(k) = "Rollup" => Last(k)' = "Rollup"
       /\ Last(k)' \in {"none", "Process"} /\ k \notin lost' =>
            Last(k) \in {"none", "Process"} /\ k \notin lost
  /\ \A pos \in Pos : OnItsWay(pos)' => OnItsWay(pos)
  /\ \A pos \in Pos :
       Carried(pos) /\ ~Carried(pos)' =>
         \A k \in TasksAt(pos) : k \in lost' \/ Last(k)' \notin {"none", "Process"}

LEMMA HeldStays ==
  ASSUME Apart, Kept, Keeping
  PROVE  \A k \in DOMAIN stage' : Held(k)'
<1> SUFFICES ASSUME NEW k \in DOMAIN stage, Last(k)' \in {"none", "Process"}, k \notin lost'
             PROVE  \E pos \in Pos : Carried(pos)' /\ k \in TasksAt(pos)'
  BY DEF Keeping, Held
<1>1. Last(k) \in {"none", "Process"} /\ k \notin lost
  BY DEF Keeping
<1>2. PICK pos \in Pos : Carried(pos) /\ k \in TasksAt(pos)
  BY <1>1 DEF Kept, Held
<1>3. TasksAt(pos)' = TasksAt(pos)
  BY DEF Keeping, TasksAt, B
<1>4. Carried(pos)'
  BY <1>2 DEF Keeping
<1> QED
  BY <1>2, <1>3, <1>4

LEMMA KeepsStays ==
  ASSUME Types, Apart, Kept, Keeping,
         \A i \in Job : job[i].isUsed => job'[i].isUsed /\ job'[i].info = job[i].info
  PROVE  Kept'
<1>1. \A pos \in Pos : KeepsJob(pos)'
  <2> SUFFICES ASSUME NEW pos \in Pos, OnItsWay(pos)',
                      NEW k \in TasksAt(pos)', Last(k)' # "Rollup"
               PROVE  /\ job'[B(pos)'.i_job].isUsed
                      /\ \A t \in TasksAt(pos)' : jobOf'[t] = job'[B(pos)'.i_job].info
    BY DEF KeepsJob
  <2>1. TasksAt(pos)' = TasksAt(pos) /\ TasksAt(pos) \subseteq DOMAIN stage
    BY DEF Keeping, TasksAt, B, Apart, BlockApart
  <2>2. /\ B(pos)'.i_job = B(pos).i_job /\ jobOf' = jobOf /\ Last(k) # "Rollup"
        /\ OnItsWay(pos)
    BY <2>1 DEF Keeping
  <2>3. B(pos).i_job \in Job
    <3>1. B(pos) \in BlockInfo
      BY PosIs DEF Types, RingTypes, B
    <3> QED
      BY <3>1 DEF BlockInfo
  <2>4. /\ job[B(pos).i_job].isUsed
        /\ \A t \in TasksAt(pos) : jobOf[t] = job[B(pos).i_job].info
    BY <2>1, <2>2 DEF Kept, KeepsJob
  <2> QED
    BY <2>1, <2>2, <2>3, <2>4
<1> QED
  BY <1>1, HeldStays DEF Kept

LEMMA CheckKept ==
  ASSUME Types, Apart, Kept, D_CheckChild \/ D_StopCheck
  PROVE  Kept'
<1>1. UNCHANGED <<stage, jobOf, job, r>> /\ d.pc # "fill"
  BY DEF D_CheckChild, D_StopCheck, seen, jobs
<1>2. /\ \A q \in Proc, b \in Slot :
           /\ block'[q][b].i_job = block[q][b].i_job
           /\ block'[q][b].tasks = block[q][b].tasks
           /\ block'[q][b].task_state =
                IF needexit(q) THEN "NULL" ELSE block[q][b].task_state
      /\ lost' = lost \cup {k \in UNION {TasksIn(q) : q \in {c \in Proc : needexit(c)}} :
                              Last(k) # "Rollup"}
  BY CheckTypes, CheckChildWrites
<1>3. \A k : Last(k)' = Last(k)
  BY <1>1 DEF Last
<1>4. ASSUME NEW pos \in Pos, B(pos).task_state # "NULL", B(pos)'.task_state = "NULL",
             NEW k \in TasksAt(pos)
      PROVE  k \in lost' \/ Last(k)' \notin {"none", "Process"}
  <2>1. pos[1] \in Proc /\ pos[2] \in Slot
    BY PosIs
  <2>2. needexit(pos[1])
    BY <1>2, <1>4, <2>1 DEF B
  <2>3. k \in TasksIn(pos[1])
    BY <1>4, <2>1 DEF TasksIn, TasksAt, B
  <2> QED
    BY <1>2, <1>3, <2>1, <2>2, <2>3
<1>5. \A pos \in Pos : B(pos)'.tasks = B(pos).tasks /\ B(pos)'.i_job = B(pos).i_job
  BY <1>2, PosIs DEF B
<1>6. \A pos \in Pos : OnItsWay(pos)' => OnItsWay(pos)
  BY <1>1, <1>2, PosIs DEF OnItsWay, RollupAt, B
<1>7. ASSUME NEW pos \in Pos, Carried(pos), ~Carried(pos)', NEW k \in TasksAt(pos)
      PROVE  k \in lost' \/ Last(k)' \notin {"none", "Process"}
  BY <1>1, <1>4, <1>7 DEF Carried, FillingAt
<1>8. Keeping
  BY <1>1, <1>2, <1>3, <1>5, <1>6, <1>7 DEF Keeping
<1> QED
  BY <1>1, <1>8, KeepsStays

-----------------------------------------------------------------------------
(* The tasks on their way: the block being filled *)

LEMMA OneFilled ==
  ASSUME NEW q \in Proc, NEW b \in Slot, FillingAt(q, b),
         NEW pos \in Pos, pos # <<q, b>>
  PROVE  ~FillingAt(pos[1], pos[2])
BY PosIs DEF FillingAt

\* A step that writes one block, which is free or being filled, and no other.
WritesOnly(h) ==
  /\ UNCHANGED <<r, lost>>
  /\ \A pos \in Pos : pos # h => B(pos)' = B(pos) /\ ~FillingAt(pos[1], pos[2])
  /\ \A k \in DOMAIN stage : Last(k)' = Last(k) /\ jobOf'[k] = jobOf[k]
  /\ \A i \in Job : job'[i].isUsed = job[i].isUsed /\ job'[i].info = job[i].info
  /\ Carried(h) => Carried(h)' /\ TasksAt(h) \subseteq TasksAt(h)'

LEMMA KeptElsewhere ==
  ASSUME Types, Apart, Kept, NEW h \in Pos, WritesOnly(h), KeepsJob(h)',
         \A k \in DOMAIN stage' : k \notin DOMAIN stage => Held(k)'
  PROVE  Kept'
<1>1. ASSUME NEW pos \in Pos, pos # h
      PROVE  KeepsJob(pos)'
  <2>1. /\ B(pos)' = B(pos) /\ TasksAt(pos)' = TasksAt(pos)
        /\ TasksAt(pos) \subseteq DOMAIN stage
    BY <1>1 DEF WritesOnly, Apart, BlockApart, TasksAt, B
  <2>2. B(pos).i_job \in Job
    <3>1. B(pos) \in BlockInfo
      BY PosIs DEF Types, RingTypes, B
    <3> QED
      BY <3>1 DEF BlockInfo
  <2>3. KeepsJob(pos)
    BY DEF Kept
  <2>4. \A k \in TasksAt(pos) : Last(k)' = Last(k) /\ jobOf'[k] = jobOf[k]
    BY <2>1 DEF WritesOnly
  <2>5. /\ job'[B(pos).i_job].isUsed = job[B(pos).i_job].isUsed
        /\ job'[B(pos).i_job].info = job[B(pos).i_job].info
    BY <2>2 DEF WritesOnly
  <2>6. OnItsWay(pos)' => OnItsWay(pos)
    BY <2>1 DEF WritesOnly, OnItsWay, RollupAt
  <2> QED
    BY <2>1, <2>3, <2>4, <2>5, <2>6 DEF KeepsJob
<1>2. ASSUME NEW k \in DOMAIN stage, k \in DOMAIN stage'
      PROVE  Held(k)'
  <2> SUFFICES ASSUME Last(k)' \in {"none", "Process"}, k \notin lost'
               PROVE  \E pos \in Pos : Carried(pos)' /\ k \in TasksAt(pos)'
    BY DEF Held
  <2>1. Last(k) \in {"none", "Process"} /\ k \notin lost
    BY DEF WritesOnly
  <2>2. PICK pos \in Pos : Carried(pos) /\ k \in TasksAt(pos)
    BY <2>1 DEF Kept, Held
  <2>3. CASE pos = h
    BY <2>2, <2>3 DEF WritesOnly
  <2>4. CASE pos # h
    <3>1. B(pos)' = B(pos) /\ ~FillingAt(pos[1], pos[2])
      BY <2>4 DEF WritesOnly
    <3>2. Carried(pos)' /\ TasksAt(pos)' = TasksAt(pos)
      BY <2>2, <3>1 DEF Carried, TasksAt, B
    <3> QED
      BY <2>2, <3>2
  <2> QED
    BY <2>3, <2>4
<1> QED
  BY <1>1, <1>2 DEF Kept

LEMMA FindKept ==
  ASSUME Types, Apart, Kept, NEW hash \in Hash, D_Find(hash)
  PROVE  Kept'
<1>1. PICK q \in Proc, b \in Slot : Found(q, b)
  BY FindIs
<1>2. PICK h \in Pos : h = <<q, b>>
  BY DEF Pos
<1>3. UNCHANGED <<r, lost, stage, jobOf, job>> /\ d.pc = "loop"
  BY DEF D_Find, seen, jobs
<1>4. B(h).task_state = "NULL" /\ \A pos \in Pos : pos # h => B(pos)' = B(pos)
  BY <1>1, <1>2 DEF Found, B
<1>5. TasksAt(h)' = {}
  <2>1. TasksAt(h)' = Range(<<>>)
    BY <1>1, <1>2 DEF Found, TasksAt
  <2> QED
    BY <2>1 DEF Range
<1>6. WritesOnly(h)
  <2>1. \A k : Last(k)' = Last(k)
    BY <1>3 DEF Last
  <2>2. ~Carried(h) /\ \A pos \in Pos : ~FillingAt(pos[1], pos[2])
    BY <1>3, <1>4 DEF Carried, FillingAt
  <2> QED
    BY <1>3, <1>4, <2>1, <2>2 DEF WritesOnly
<1>7. KeepsJob(h)'
  BY <1>5 DEF KeepsJob
<1> QED
  BY <1>3, <1>6, <1>7, KeptElsewhere

LEMMA TaskKept ==
  ASSUME Types, Apart, Turns, Filling, Kept, D_Task
  PROVE  Kept'
<1>1. PICK q \in Proc, b \in Slot : Tasked(q, b)
  BY TaskIs
<1>2. PICK h \in Pos : h = <<q, b>>
  BY DEF Pos
<1>3. UNCHANGED <<r, lost, d>> /\ ~Stopping
  BY <1>1, HandOverRests DEF Tasked
<1>4. PICK new \in Nat : new = Len(stage) + 1
  BY DEF Types, SeenTypes
<1>5. TaskWritten(q, b, new)
  BY <1>1, <1>4, TaskWrites
<1>6. /\ TasksAt(h)' = TasksAt(h) \cup {new}
      /\ B(h).task_state = "NULL" /\ B(h)'.task_state = "NULL"
  <2>1. TasksAt(h)' = TasksAt(<<q, b>>)' /\ TasksAt(h) = TasksAt(<<q, b>>)
    BY <1>2 DEF TasksAt
  <2>2. B(h) = block[q][b] /\ B(h)' = block'[q][b]
    BY <1>2 DEF B
  <2> QED
    BY <1>5, <2>1, <2>2 DEF TaskWritten
<1>7. FillingAt(q, b) /\ FillingAt(q, b)' /\ Carried(h)'
  <2>1. FillingAt(q, b) /\ FillingAt(q, b)'
    BY <1>1, <1>3 DEF Tasked, FillingAt
  <2> QED
    BY <1>2, <2>1 DEF Carried
<1>8. WritesOnly(h)
  <2>1. \A pos \in Pos : pos # h => B(pos)' = B(pos)
    BY <1>1, <1>2 DEF Tasked
  <2>2. \A pos \in Pos : pos # h => ~FillingAt(pos[1], pos[2])
    BY <1>2, <1>7, OneFilled
  <2>3. \A k \in DOMAIN stage : Last(k)' = Last(k) /\ jobOf'[k] = jobOf[k]
    BY <1>5 DEF TaskWritten
  <2>4. \A i \in Job : job'[i].isUsed = job[i].isUsed /\ job'[i].info = job[i].info
    BY <1>1 DEF Tasked
  <2> QED
    BY <1>3, <1>6, <1>7, <2>1, <2>2, <2>3, <2>4 DEF WritesOnly
<1>9. KeepsJob(h)'
  <2>1. ~RollupAt(h)
    <3>1. r.pc \in {"undo", "null"} => At.task_state = "DONE"
      BY <1>3 DEF Turns, RollupTurn
    <3>2. RollupAt(h) => B(h) = At
      BY DEF RollupAt, At, B
    <3> QED
      BY <1>6, <3>1, <3>2 DEF RollupAt
  <2>2. ~OnItsWay(h)'
    BY <1>3, <1>6, <2>1 DEF OnItsWay, RollupAt
  <2> QED
    BY <2>2 DEF KeepsJob
<1>10. \A k \in DOMAIN stage' : k \notin DOMAIN stage => Held(k)'
  <2>1. \A k \in DOMAIN stage' : k \notin DOMAIN stage => k \in TasksAt(h)'
    BY <1>5, <1>6 DEF TaskWritten
  <2> QED
    BY <1>7, <2>1 DEF Held
<1> QED
  BY <1>8, <1>9, <1>10, KeptElsewhere

LEMMA HandOverKept ==
  ASSUME Types, InHand, Apart, Filling, Kept, D_HandOver
  PROVE  Kept'
<1>1. PICK q \in Proc, b \in Slot : HandedOver(q, b)
  BY HandOverIs
<1>2. PICK h \in Pos : h = <<q, b>>
  BY DEF Pos
<1>3. UNCHANGED <<r, lost, stage, jobOf, job>> /\ d.pc = "fill"
  BY DEF D_HandOver, seen, jobs
<1>4. PICK j \in Job : j = d.i_job
  BY HandIs
<1>5. job[j].isUsed
  BY <1>3, <1>4 DEF InHand, Serving
<1>6. /\ B(h)'.task_state = "NEW" /\ B(h)'.i_job = j /\ TasksAt(h)' = TasksAt(h)
      /\ \A pos \in Pos : pos # h => B(pos)' = B(pos)
  BY <1>1, <1>2, <1>4 DEF HandedOver, B, TasksAt
<1>7. \A k \in TasksAt(h) : jobOf[k] = job[j].info
  <2>1. \A k \in TasksAt(<<q, b>>) : jobOf[k] = job[d.i_job].info
    BY <1>1 DEF HandedOver, Filling, FilledRight
  <2> QED
    BY <1>2, <1>4, <2>1
<1>8. WritesOnly(h)
  <2>1. \A k : Last(k)' = Last(k)
    BY <1>3 DEF Last
  <2>2. \A pos \in Pos : pos # h => ~FillingAt(pos[1], pos[2])
    BY <1>1, <1>2, OneFilled DEF HandedOver
  <2>3. Carried(h)'
    BY <1>6 DEF Carried
  <2> QED
    BY <1>3, <1>6, <2>1, <2>2, <2>3 DEF WritesOnly
<1>9. KeepsJob(h)'
  BY <1>3, <1>5, <1>6, <1>7 DEF KeepsJob
<1> QED
  BY <1>3, <1>8, <1>9, KeptElsewhere

-----------------------------------------------------------------------------
(* The tasks on their way: the other steps *)

LEMMA AsideKeeping ==
  ASSUME Aside, UNCHANGED jobOf,
         \A pos \in Pos : FillingAt(pos[1], pos[2]) =>
                            FillingAt(pos[1], pos[2])' \/ TasksAt(pos) \subseteq lost'
  PROVE  Keeping
<1>1. \A pos \in Pos : OnItsWay(pos)' => OnItsWay(pos)
  BY DEF Aside, OnItsWay, RollupAt, B
<1>2. \A pos \in Pos : Carried(pos) /\ ~Carried(pos)' => TasksAt(pos) \subseteq lost'
  BY DEF Aside, Carried, B
<1> QED
  BY <1>1, <1>2 DEF Aside, Keeping, B, Last

LEMMA DistributorKept ==
  ASSUME Types, Slots, InHand, Apart, Turns, Kept,
         \/ D_SetCmd \/ D_SetCmdSeq \/ D_Top \/ D_Waited \/ D_Exit \/ D_Drop \/ D_Fails
         \/ D_Create \/ D_Created \/ D_OpenJob \/ D_ResetJob \/ D_UseJob \/ D_CloseJob
  PROVE  Kept'
<1>1. Keeping
  <2>1. UNCHANGED jobOf
    BY DEF D_SetCmd, D_SetCmdSeq, D_Top, D_Waited, D_Exit, D_Drop, D_Fails, D_Create, D_Created,
           D_OpenJob, D_ResetJob, D_UseJob, D_CloseJob, seen
  <2>2. ASSUME NEW pos \in Pos, FillingAt(pos[1], pos[2])
        PROVE  TasksAt(pos) \subseteq lost'
    <3>1. Range(Filled.tasks) = TasksAt(pos) /\ d.pc = "fill"
      BY <2>2 DEF FillingAt, Filled, TasksAt
    <3>2. CASE D_Drop
      <4>1. TasksAt(pos) = Range(<<>>)
        BY <3>1, <3>2 DEF D_Drop
      <4> QED
        BY <4>1 DEF Range
    <3>3. CASE D_Fails
      BY <3>1, <3>3 DEF D_Fails
    <3> QED
      BY <3>1, <3>2, <3>3
         DEF D_SetCmd, D_SetCmdSeq, D_Top, D_Waited, D_Exit, D_Create, D_Created,
             D_OpenJob, D_ResetJob, D_UseJob, D_CloseJob
  <2> QED
    BY <2>1, <2>2, DistributorAside, AsideKeeping
<1>2. \A i \in Job : job[i].isUsed => job'[i].isUsed /\ job'[i].info = job[i].info
  <2>1. CASE UNCHANGED job
    BY <2>1
  <2>2. CASE D_OpenJob
    <3>1. \A j \in Job : job[j].isUsed => j < size
      BY DEF Slots
    <3>2. \/ UNCHANGED job
          \/ \E j \in Job :
               /\ ~job[j].isUsed
               /\ \A i \in Job : i # j => job'[i] = job[i]
      BY <2>2, <3>1, OpenJobIs
    <3> QED
      BY <3>2
  <2>3. CASE D_ResetJob
    BY <2>3, ResetJobIs DEF InHand, D_ResetJob, Taking
  <2>4. CASE D_UseJob
    BY <2>4, UseJobIs DEF InHand, D_UseJob, Taking
  <2>5. CASE D_CloseJob
    <3>1. job[d.i_job].isUsed /\ d.i_job \in Job /\ DOMAIN phase = 1..Len(phase)
      BY <2>5, HandIs DEF InHand, D_CloseJob, Serving, Types, SeenTypes
    <3>2. job[d.i_job].info \in DOMAIN phase
      BY <3>1 DEF Slots
    <3> QED
      BY <2>5, <3>2, CloseJobIs
  <2> QED
    BY <2>1, <2>2, <2>3, <2>4, <2>5
       DEF D_SetCmd, D_SetCmdSeq, D_Top, D_Waited, D_Exit, D_Drop, D_Fails, D_Create, D_Created,
           jobs
<1> QED
  BY <1>1, <1>2, KeepsStays

LEMMA ProcessorKept ==
  ASSUME Types, Apart, Turns, History, Kept, NEW q \in Proc, Processor(q)
  PROVE  Kept'
<1>1. UNCHANGED <<job, jobOf, lost, d, r>>
  BY ProcessorTypes DEF jobs
<1>2. Keeping
  <2>1. CASE P_Run(q) \/ (isRuning(q) /\ (P_Skip(q) \/ P_Cmd(q)))
    BY <1>1, <2>1, ProcessorAside, AsideKeeping DEF FillingAt
  <2>2. CASE P_Process(q) \/ P_UnProcess(q) \/ P_Fails(q)
    <3>1. Here(q).task_state \in {"NEW", "UNDO"} /\ UNCHANGED block
      BY <2>2 DEF P_Process, P_UnProcess, P_Fails
    <3>2. /\ DOMAIN stage' = DOMAIN stage
          /\ \A k \in DOMAIN stage : k \notin Range(Here(q).tasks) => Last(k)' = Last(k)
          /\ Here(q).task_state = "NEW" =>
               \A k \in Range(Here(q).tasks) :
                 Fresh(k) /\ (Last(k)' = "Process" \/ Last(k)' = Last(k))
          /\ Here(q).task_state = "UNDO" =>
               \A k \in Range(Here(q).tasks) :
                 IF k \in First(Here(q).tasks, Here(q).error_task_index)
                 THEN Last(k) = "Rollup" /\ Last(k)' = "Rollup"
                 ELSE Undoable(k) /\ (Last(k)' = "UnProcess" \/ Last(k)' = Last(k))
      BY <2>2, ProcessorCalls
    <3>3. \A k \in DOMAIN stage :
            /\ Last(k) = "Rollup" => Last(k)' = "Rollup"
            /\ Last(k)' \in {"none", "Process"} => Last(k) \in {"none", "Process"}
      BY <3>1, <3>2 DEF Fresh, Undoable
    <3>4. \A pos \in Pos :
            /\ OnItsWay(pos)' <=> OnItsWay(pos)
            /\ Carried(pos)' <=> Carried(pos)
      BY <1>1, <3>1 DEF OnItsWay, RollupAt, Carried, FillingAt, B
    <3> QED
      BY <1>1, <3>1, <3>2, <3>3, <3>4 DEF Keeping, B
  <2>3. CASE isRuning(q) /\ (P_Done(q) \/ P_Cancel(q))
    <3>1. PICK h \in Pos : h = <<q, p[q].i>> /\ B(h) = Here(q)
      BY HereIs
    <3>2. /\ block'[q][p[q].i].task_state \in {"DONE", "CANCLE"}
          /\ block'[q][p[q].i].i_job = Here(q).i_job
          /\ block'[q][p[q].i].tasks = Here(q).tasks
          /\ \A pos \in Pos : pos # <<q, p[q].i>> => B(pos)' = B(pos)
      BY <2>3, HandOnTypes
    <3>3. block'[q][p[q].i] = B(h)'
      BY <3>1 DEF B
    <3>4. UNCHANGED stage
      BY <2>3 DEF P_Done, P_Cancel, seen
    <3>5. \A pos \in Pos : /\ B(pos)'.tasks = B(pos).tasks /\ B(pos)'.i_job = B(pos).i_job
                           /\ B(pos)'.task_state = "NULL" => B(pos).task_state = "NULL"
                           /\ B(pos).task_state = "NULL" => B(pos)'.task_state = "NULL"
      <4>1. Here(q).task_state # "NULL"
        BY <2>3 DEF Turns, ProcessTurn, isRuning, P_Done, P_Cancel
      <4> QED
        BY <3>1, <3>2, <3>3, <4>1
    <3>6. \A pos \in Pos :
            /\ OnItsWay(pos)' => OnItsWay(pos)
            /\ Carried(pos) => Carried(pos)'
      BY <1>1, <3>5 DEF OnItsWay, RollupAt, Carried, FillingAt
    <3> QED
      BY <1>1, <3>4, <3>5, <3>6 DEF Keeping, Last
  <2> QED
    BY <2>1, <2>2, <2>3 DEF Processor, Processing
<1> QED
  BY <1>1, <1>2, KeepsStays

LEMMA RollupKept ==
  ASSUME Types, Slots, Apart, Turns, History, Kept,
         \/ R_Skip \/ R_TurnBack \/ (\E n \in 0..MAX_BLOCK_TASK : R_Rollup(n))
         \/ R_OpenFails \/ R_Undo \/ R_Null \/ R_Main \/ R_CloseFails \/ R_Cmd
  PROVE  Kept'
<1>1. CASE R_Skip \/ R_OpenFails \/ R_Main \/ R_CloseFails \/ R_Cmd
  <2>1. UNCHANGED <<job, jobOf, d>>
    BY <1>1 DEF R_Skip, R_OpenFails, R_Main, R_CloseFails, R_Cmd, jobs, seen
  <2>2. Keeping
    BY <1>1, <2>1, RollupAside, AsideKeeping DEF FillingAt
  <2> QED
    BY <2>1, <2>2, KeepsStays
<1>2. CASE R_TurnBack
  <2>1. UNCHANGED <<block, stage, jobOf, job, lost, d>>
    BY <1>2 DEF R_TurnBack, jobs, seen
  <2>2. At.task_state = "DONE" /\ r'.i = r.i /\ r'.j = r.j
    BY <1>2, TurnBackTypes DEF R_TurnBack
  <2>3. \A pos \in Pos : OnItsWay(pos)' => OnItsWay(pos)
    BY <2>1, <2>2 DEF OnItsWay, RollupAt, B, At
  <2>4. \A pos \in Pos : Carried(pos)' <=> Carried(pos)
    BY <2>1 DEF Carried, FillingAt, B
  <2>5. Keeping
    BY <2>1, <2>3, <2>4 DEF Keeping, B, Last
  <2> QED
    BY <2>1, <2>5, KeepsStays
<1>3. ASSUME NEW n \in 0..MAX_BLOCK_TASK, R_Rollup(n)
      PROVE  Kept'
  <2>1. r.pc = "visit" /\ At.task_state = "DONE" /\ UNCHANGED <<block, jobOf, lost, d>>
    BY <1>3 DEF R_Rollup
  <2>2. At.tasks # <<>> /\ Len(At.tasks) <= MAX_BLOCK_TASK /\ At.i_job \in Job
    BY <2>1, DoneBlock
  <2>3. /\ DOMAIN stage' = DOMAIN stage
        /\ \A k \in DOMAIN stage :
             Last(k)' = IF \E m \in 1..n : k = At.tasks[m] THEN "Rollup" ELSE Last(k)
        /\ \A i \in Job : job'[i].info = job[i].info /\ job'[i].isUsed = job[i].isUsed
        /\ r'.i = r.i /\ r'.j = r.j
    BY <1>3, <2>2, RollupIs, ZenonT(60)
  <2>4. \A k \in DOMAIN stage : Last(k)' \in {Last(k), "Rollup"}
    BY <2>3
  <2>5. \A pos \in Pos : OnItsWay(pos)' => OnItsWay(pos)
    BY <2>1, <2>3 DEF OnItsWay, RollupAt, B, At
  <2>6. \A pos \in Pos : Carried(pos)' <=> Carried(pos)
    BY <2>1 DEF Carried, FillingAt, B
  <2>7. Keeping
    BY <2>1, <2>3, <2>4, <2>5, <2>6 DEF Keeping, B
  <2> QED
    BY <2>3, <2>7, KeepsStays
<1>4. CASE R_Undo \/ R_Null
  <2>1. /\ r.pc \in {"undo", "null"} /\ (R_Null => r.pc = "null")
        /\ UNCHANGED <<stage, jobOf, job, lost, d>>
    BY <1>4 DEF R_Undo, R_Null, jobs, seen
  <2>2. PICK h \in Pos : h = <<r.i, r.j>> /\ B(h) = At /\ TasksAt(h) = Range(At.tasks)
    BY <2>1, AtIs DEF TasksAt, At
  <2>3. block'[r.i][r.j] = B(h)'
    BY <2>2 DEF B
  <2>4. /\ B(h)'.tasks = B(h).tasks /\ B(h)'.i_job = B(h).i_job
        /\ B(h)'.task_state = "NULL" => R_Null
        /\ \A pos \in Pos : pos # h => B(pos)' = B(pos)
        /\ r'.pc \notin {"undo", "null"}
    <3>1. CASE R_Undo
      BY <2>2, <2>3, <3>1, UndoIs
    <3>2. CASE R_Null
      BY <2>2, <2>3, <3>2, NullIs
    <3> QED
      BY <1>4, <3>1, <3>2
  <2>5. R_Null => \A k \in TasksAt(h) : Last(k) = "Rollup"
    BY <2>1, <2>2 DEF History, RollupRight
  <2>6. \A k : Last(k)' = Last(k)
    BY <2>1 DEF Last
  <2>7. Keeping
    <3>1. \A pos \in Pos : B(pos)'.tasks = B(pos).tasks /\ B(pos)'.i_job = B(pos).i_job
      BY <2>4
    <3>2. \A pos \in Pos :
            B(pos).task_state # "NULL" /\ B(pos)'.task_state = "NULL" =>
              \A k \in TasksAt(pos) : Last(k)' = "Rollup"
      BY <2>4, <2>5, <2>6
    <3>3. \A pos \in Pos : OnItsWay(pos)' => OnItsWay(pos)
      BY <2>1, <2>2, <2>4 DEF OnItsWay, RollupAt
    <3>4. \A pos \in Pos :
            Carried(pos) /\ ~Carried(pos)' => \A k \in TasksAt(pos) : Last(k)' = "Rollup"
      BY <2>1, <3>2 DEF Carried, FillingAt
    <3> QED
      BY <2>1, <2>6, <3>1, <3>3, <3>4 DEF Keeping
  <2> QED
    BY <2>1, <2>7, KeepsStays
<1> QED
  BY <1>1, <1>2, <1>3, <1>4

\* When a job is closed all its tasks were rolled up: no block misses it.
LEMMA LookKept ==
  ASSUME Types, Slots, InHand, Counted, Apart, Kept,
         NEW j \in Job, (R_Check /\ j = r.i_job) \/ (R_EmptyJob /\ j = r.i)
  PROVE  Kept'
<1>1. CloseIfNeed(j) /\ UNCHANGED <<size, idle_i, stage, jobOf, opened, block, lost, d>>
  BY LookSlots DEF R_Check, R_EmptyJob
<1>2. \A k : Last(k)' = Last(k)
  BY <1>1 DEF Last
<1>3. Keeping
  <2>1. Aside
    BY RollupAside
  <2> QED
    BY <1>1, <2>1, AsideKeeping DEF FillingAt
<1>4. CASE ~MayClose(j)
  <2>1. UNCHANGED job
    BY <1>1, <1>4 DEF CloseIfNeed
  <2> QED
    BY <1>3, <2>1, KeepsStays
<1>5. CASE MayClose(j)
  <2>1. PICK info : info = job[j].info
    OBVIOUS
  <2>2. \A i \in Job : i # j => job'[i] = job[i]
    <3>1. job[j].info \in DOMAIN phase
      <4>1. DOMAIN phase = 1..Len(phase)
        BY DEF Types, SeenTypes
      <4> QED
        BY <1>5, <4>1 DEF MayClose, Slots
    <3> QED
      BY <1>1, <1>5, <3>1, CloseIs
  <2>3. \A k \in DOMAIN stage : jobOf[k] = info => Last(k) = "Rollup"
    BY <1>5, <2>1, AllRolledUp DEF TasksOf
  <2>4. ASSUME NEW pos \in Pos
        PROVE  KeepsJob(pos)'
    <3> SUFFICES ASSUME OnItsWay(pos)', NEW k \in TasksAt(pos)', Last(k)' # "Rollup"
                 PROVE  /\ job'[B(pos)'.i_job].isUsed
                        /\ \A t \in TasksAt(pos)' : jobOf'[t] = job'[B(pos)'.i_job].info
      BY DEF KeepsJob
    <3>1. /\ TasksAt(pos)' = TasksAt(pos) /\ B(pos)' = B(pos)
          /\ TasksAt(pos) \subseteq DOMAIN stage /\ OnItsWay(pos)
      BY <1>1, <1>3 DEF TasksAt, B, Apart, BlockApart, Keeping
    <3>2. /\ job[B(pos).i_job].isUsed
          /\ \A t \in TasksAt(pos) : jobOf[t] = job[B(pos).i_job].info
      BY <1>2, <3>1 DEF Kept, KeepsJob
    <3>3. B(pos).i_job # j
      BY <1>2, <2>1, <2>3, <3>1, <3>2
    <3>4. B(pos).i_job \in Job
      <4>1. B(pos) \in BlockInfo
        BY PosIs DEF Types, RingTypes, B
      <4> QED
        BY <4>1 DEF BlockInfo
    <3> QED
      BY <1>1, <2>2, <3>1, <3>2, <3>3, <3>4
  <2> QED
    BY <1>3, <2>4, HeldStays DEF Kept
<1> QED
  BY <1>4, <1>5

\* Every step keeps the tasks that are on their way.
LEMMA StepKept ==
  ASSUME IInv, [Next]_vars
  PROVE  Kept'
<1>1. Types /\ Slots /\ InHand /\ Counted /\ Apart /\ Turns /\ History /\ Kept /\ Filling
  BY DEF IInv
<1>2. CASE Distributor
  <2>1. CASE D_CheckChild \/ D_StopCheck
    BY <1>1, <2>1, CheckKept
  <2>2. CASE (\E hash \in Hash : D_Find(hash)) \/ D_Task \/ D_HandOver
    BY <1>1, <2>2, FindKept, TaskKept, HandOverKept
  <2> QED
    BY <1>1, <1>2, <2>1, <2>2, DistributorKept DEF Distributor
<1>3. ASSUME NEW q \in Proc, Processor(q)
      PROVE  Kept'
  BY <1>1, <1>3, ProcessorKept
<1>4. CASE Rollup
  <2>1. CASE R_Check \/ R_EmptyJob
    <3>1. PICK j \in Job : (R_Check /\ j = r.i_job) \/ (R_EmptyJob /\ j = r.i)
      <4>1. r.i_job \in Job
        BY <1>1 DEF Types, PlaceTypes, RRecord
      <4>2. R_EmptyJob => r.i \in Job
        BY <1>1 DEF Types, PlaceTypes, R_EmptyJob
      <4> QED
        BY <2>1, <4>1, <4>2
    <3> QED
      BY <1>1, <3>1, LookKept
  <2> QED
    BY <1>1, <1>4, <2>1, RollupKept DEF Rollup
<1>5. CASE (\E c \in Command : Operator(c)) \/ (\E x \in PID : Crash(x)) \/ UNCHANGED vars
  <2>1. Aside
    BY <1>1, <1>5, OutsideAside
  <2>2. UNCHANGED <<job, jobOf, d>>
    <3>1. CASE UNCHANGED vars
      BY <3>1 DEF vars, jobs, seen
    <3> QED
      BY <1>1, <1>5, <3>1, OutsideTypes DEF jobs, seen
  <2> QED
    BY <1>1, <2>1, <2>2, AsideKeeping, KeepsStays DEF FillingAt
<1> QED
  BY <1>2, <1>3, <1>4, <1>5 DEF Next

-----------------------------------------------------------------------------
(* The block being filled *)

\* The block is as free, and its tasks as untouched, as they were.
Untouched(pos) ==
  /\ B(pos)'.task_state = "NULL" /\ B(pos)'.tasks = B(pos).tasks
  /\ \A k \in TasksAt(pos) : Last(k)' = Last(k)

LEMMA FillingIs ==
  ASSUME Filling, NEW pos \in Pos, FillingAt(pos[1], pos[2])
  PROVE  /\ d.pc = "fill" /\ ~Stopping /\ B(pos).task_state = "NULL"
         /\ \A k \in TasksAt(pos) : Last(k) = "none" /\ jobOf[k] = job[d.i_job].info
<1>1. pos[1] \in Proc /\ pos[2] \in Slot /\ pos = <<pos[1], pos[2]>>
  BY PosIs
<1>2. FilledRight(pos[1], pos[2]) /\ TasksAt(<<pos[1], pos[2]>>) = TasksAt(pos)
  BY <1>1 DEF Filling
<1> QED
  BY <1>2 DEF FilledRight, FillingAt, Stopping, B

LEMMA FillingStays ==
  ASSUME Types, Filling, UNCHANGED <<d, jobOf>>,
         \A i \in Job : job'[i].info = job[i].info,
         \A pos \in Pos : FillingAt(pos[1], pos[2]) => Untouched(pos)
  PROVE  Filling'
<1> SUFFICES ASSUME NEW q \in Proc, NEW b \in Slot, FillingAt(q, b)
             PROVE  /\ block'[q][b].task_state = "NULL"
                    /\ \A k \in TasksAt(<<q, b>>)' :
                         Last(k)' = "none" /\ jobOf'[k] = job'[d'.i_job].info
  BY DEF Filling, FilledRight, FillingAt
<1>1. PICK pos \in Pos : pos = <<q, b>> /\ B(pos) = block[q][b]
  BY BlockIs DEF Types
<1>2. Untouched(pos)
  BY <1>1
<1>3. \A k \in TasksAt(pos) : Last(k) = "none" /\ jobOf[k] = job[d.i_job].info
  BY <1>1, FillingIs
<1>4. B(pos)' = block'[q][b] /\ TasksAt(<<q, b>>)' = TasksAt(pos)'
  BY <1>1 DEF B, TasksAt
<1>5. TasksAt(pos)' = TasksAt(pos)
  BY <1>2 DEF Untouched, TasksAt, B
<1>6. job'[d'.i_job].info = job[d.i_job].info
  BY HandIs
<1> QED
  BY <1>2, <1>3, <1>4, <1>5, <1>6 DEF Untouched

LEMMA AsideFilling ==
  ASSUME Types, Filling, Aside, UNCHANGED <<d, jobOf>>,
         \A i \in Job : job'[i].info = job[i].info
  PROVE  Filling'
<1>1. \A pos \in Pos : FillingAt(pos[1], pos[2]) => Untouched(pos)
  BY FillingIs DEF Aside, Untouched, B, Last
<1> QED
  BY <1>1, FillingStays

\* A call for the tasks of another block, or a write to one.
LEMMA ElsewhereFilling ==
  ASSUME Types, Apart, Filling, UNCHANGED <<d, jobOf>>,
         \A i \in Job : job'[i].info = job[i].info,
         NEW h \in Pos, ~Stopping => B(h).task_state # "NULL",
         \A pos \in Pos : pos # h => B(pos)' = B(pos),
         \A k \in DOMAIN stage : k \notin TasksAt(h) => Last(k)' = Last(k)
  PROVE  Filling'
<1>1. ASSUME NEW pos \in Pos, FillingAt(pos[1], pos[2])
      PROVE  Untouched(pos)
  <2>1. B(pos).task_state = "NULL" /\ pos # h
    BY <1>1, FillingIs
  <2>2. TasksAt(pos) \cap TasksAt(h) = {} /\ TasksAt(pos) \subseteq DOMAIN stage
    BY <2>1 DEF Apart, BlockApart
  <2> QED
    BY <2>1, <2>2 DEF Untouched
<1> QED
  BY <1>1, FillingStays

LEMMA FindFilling ==
  ASSUME Types, NEW hash \in Hash, D_Find(hash)
  PROVE  Filling'
<1>1. PICK q \in Proc, b \in Slot : Found(q, b)
  BY FindIs
<1>2. block'[q][b].task_state = "NULL" /\ TasksAt(<<q, b>>)' = {}
  <2>1. TasksAt(<<q, b>>)' = Range(<<>>)
    BY <1>1 DEF Found, TasksAt
  <2> QED
    BY <1>1, <2>1 DEF Found, Range
<1>3. \A c \in Proc, e \in Slot : FillingAt(c, e)' => c = q /\ e = b
  BY <1>1 DEF Found, FillingAt
<1> QED
  BY <1>2, <1>3 DEF Filling, FilledRight

LEMMA TaskFilling ==
  ASSUME Types, Apart, Filling, D_Task
  PROVE  Filling'
<1>1. PICK q \in Proc, b \in Slot : Tasked(q, b)
  BY TaskIs
<1>2. PICK new \in Nat : new = Len(stage) + 1
  BY DEF Types, SeenTypes
<1>3. TaskWritten(q, b, new)
  BY <1>1, <1>2, TaskWrites
<1>4. PICK j \in Job : j = d.i_job
  BY HandIs
<1>5. PICK info : info = job[j].info
  OBVIOUS
<1>6. FillingAt(q, b) /\ UNCHANGED d /\ job'[j].info = info
  BY <1>1, <1>4, <1>5 DEF Tasked
<1>7. /\ block'[q][b].task_state = "NULL"
      /\ TasksAt(<<q, b>>)' = TasksAt(<<q, b>>) \cup {new}
      /\ \A k \in DOMAIN stage : Last(k)' = Last(k) /\ jobOf'[k] = jobOf[k]
      /\ Last(new)' = "none" /\ jobOf'[new] = info
  BY <1>3, <1>4, <1>5 DEF TaskWritten
<1>8. \A k \in TasksAt(<<q, b>>) : k \in DOMAIN stage /\ Last(k) = "none" /\ jobOf[k] = info
  <2>1. <<q, b>> \in Pos
    BY BlockIs DEF Types
  <2>2. \A k \in TasksAt(<<q, b>>) : Last(k) = "none" /\ jobOf[k] = job[d.i_job].info
    BY <1>6 DEF Filling, FilledRight
  <2> QED
    BY <1>4, <1>5, <2>1, <2>2 DEF Apart, BlockApart
<1>9. \A k \in TasksAt(<<q, b>>)' : Last(k)' = "none" /\ jobOf'[k] = info
  BY <1>7, <1>8
<1>10. FilledRight(q, b)'
  BY <1>4, <1>6, <1>7, <1>9 DEF FilledRight
<1>11. \A c \in Proc, e \in Slot : FillingAt(c, e)' => c = q /\ e = b
  BY <1>6 DEF FillingAt
<1>12. \A c \in Proc, e \in Slot : FilledRight(c, e)'
  BY <1>10, <1>11 DEF FilledRight
<1> QED
  BY <1>12 DEF Filling

\* All the other steps of the distributor leave it without a block in hand.
LEMMA HandEmpty ==
  ASSUME Types,
         \/ D_SetCmd \/ D_SetCmdSeq \/ D_CheckChild \/ D_Top \/ D_Waited \/ D_StopCheck
         \/ D_Exit \/ D_OpenJob \/ D_ResetJob \/ D_UseJob \/ D_HandOver \/ D_Drop \/ D_Fails
         \/ D_Create \/ D_Created \/ D_CloseJob
  PROVE  d'.pc # "fill"
<1>1. d \in DRecord
  BY DEF Types, PlaceTypes
<1>2. CASE D_SetCmd \/ D_SetCmdSeq
  <2>1. ASSUME NEW pc \in {"tell", "number"}, NEW q,
               d' = [d EXCEPT !.pc = pc, !.q = q]
        PROVE  d'.pc # "fill"
    BY <1>1, <2>1 DEF DRecord
  <2>2. D_Goto(d.then) => d'.pc # "fill"
    BY <1>1 DEF D_Goto, D_At, DRecord
  <2>3. D_SetCmd => D_Goto(d.then) \/ \E q : d' = [d EXCEPT !.pc = "number", !.q = q]
    BY DEF D_SetCmd
  <2>4. D_SetCmdSeq => \E q : d' = [d EXCEPT !.pc = "tell", !.q = q]
    BY DEF D_SetCmdSeq
  <2> QED
    BY <1>2, <2>1, <2>2, <2>3, <2>4
<1>3. CASE D_StopCheck
  BY <1>3 DEF D_StopCheck
<1>4. CASE D_CheckChild \/ D_Top \/ D_Waited \/ D_Exit
  BY <1>4 DEF D_CheckChild, D_Top, D_Waited, D_Exit, D_Abort, D_Tell, D_Goto, D_At
<1>5. CASE D_OpenJob \/ D_ResetJob \/ D_UseJob \/ D_CloseJob
  BY <1>5 DEF D_OpenJob, D_ResetJob, D_UseJob, D_CloseJob, D_Abort, D_Tell, D_Goto, D_At
<1>6. CASE D_HandOver \/ D_Drop \/ D_Fails \/ D_Create \/ D_Created
  BY <1>6 DEF D_HandOver, D_Drop, D_Fails, D_Create, D_Created, D_Abort, D_Tell, D_Goto, D_At
<1> QED
  BY <1>2, <1>3, <1>4, <1>5, <1>6

LEMMA DistributorFilling ==
  ASSUME Types, Apart, Filling, Distributor
  PROVE  Filling'
<1>1. CASE \E hash \in Hash : D_Find(hash)
  BY <1>1, FindFilling
<1>2. CASE D_Task
  BY <1>2, TaskFilling
<1>3. CASE d'.pc # "fill"
  BY <1>3 DEF Filling, FilledRight, FillingAt
<1> QED
  BY <1>1, <1>2, <1>3, HandEmpty DEF Distributor

LEMMA ProcessorFilling ==
  ASSUME Types, Apart, Turns, History, Filling, NEW q \in Proc, Processor(q)
  PROVE  Filling'
<1>1. UNCHANGED <<job, jobOf, d>>
  BY ProcessorTypes DEF jobs
<1>2. PICK h \in Pos : h = <<q, p[q].i>> /\ B(h) = Here(q)
  BY HereIs
<1>3. CASE P_Run(q) \/ (isRuning(q) /\ (P_Skip(q) \/ P_Cmd(q)))
  BY <1>1, <1>3, ProcessorAside, AsideFilling
<1>4. CASE P_Process(q) \/ P_UnProcess(q) \/ P_Fails(q)
  <2>1. B(h).task_state # "NULL" /\ UNCHANGED block
    BY <1>2, <1>4 DEF P_Process, P_UnProcess, P_Fails
  <2>2. \A k \in DOMAIN stage : k \notin Range(Here(q).tasks) => Last(k)' = Last(k)
    BY <1>4, ProcessorCalls
  <2>3. TasksAt(h) = Range(Here(q).tasks)
    BY <1>2 DEF TasksAt, B
  <2>4. \A pos \in Pos : B(pos)' = B(pos)
    BY <2>1 DEF B
  <2> QED
    BY <1>1, <2>1, <2>2, <2>3, <2>4, ElsewhereFilling
<1>5. CASE isRuning(q) /\ (P_Done(q) \/ P_Cancel(q))
  <2>1. B(h).task_state # "NULL"
    BY <1>2, <1>5 DEF Turns, ProcessTurn, isRuning, P_Done, P_Cancel
  <2>2. \A pos \in Pos : pos # h => B(pos)' = B(pos)
    BY <1>2, <1>5, HandOnTypes
  <2>3. \A k : Last(k)' = Last(k)
    BY <1>5 DEF P_Done, P_Cancel, seen, Last
  <2> QED
    BY <1>1, <2>1, <2>2, <2>3, ElsewhereFilling
<1> QED
  BY <1>3, <1>4, <1>5 DEF Processor, Processing

LEMMA RollupFilling ==
  ASSUME Types, Slots, InHand, Counted, Apart, Turns, History, Kept, Filling, Rollup
  PROVE  Filling'
<1>1. CASE R_Skip \/ R_OpenFails \/ R_Main \/ R_CloseFails \/ R_Cmd
  <2>1. UNCHANGED <<job, jobOf, d>>
    BY <1>1 DEF R_Skip, R_OpenFails, R_Main, R_CloseFails, R_Cmd, jobs, seen
  <2> QED
    BY <1>1, <2>1, RollupAside, AsideFilling
<1>2. CASE R_TurnBack
  <2>1. UNCHANGED <<block, stage, jobOf, job, d>>
    BY <1>2 DEF R_TurnBack, jobs, seen
  <2>2. \A pos \in Pos : FillingAt(pos[1], pos[2]) => Untouched(pos)
    BY <2>1, FillingIs DEF Untouched, B, Last
  <2> QED
    BY <2>1, <2>2, FillingStays
<1>3. ASSUME NEW n \in 0..MAX_BLOCK_TASK, R_Rollup(n)
      PROVE  Filling'
  <2>1. /\ r.pc = "visit" /\ At.task_state = "DONE" /\ UNCHANGED <<block, jobOf, d>>
    BY <1>3 DEF R_Rollup
  <2>2. PICK h \in Pos : h = <<r.i, r.j>> /\ B(h) = At /\ TasksAt(h) = Range(At.tasks)
    BY <2>1, AtIs DEF TasksAt, At
  <2>3. /\ At.tasks # <<>> /\ Len(At.tasks) <= MAX_BLOCK_TASK
        /\ At.tasks \in Seq(Nat) /\ Len(At.tasks) \in 1..MAX_BLOCK_TASK
    BY <2>1, DoneBlock
  <2>4. /\ n <= Len(At.tasks)
        /\ \A k \in DOMAIN stage :
             Last(k)' = IF \E m \in 1..n : k = At.tasks[m] THEN "Rollup" ELSE Last(k)
        /\ \A i \in Job : job'[i].info = job[i].info
    BY <1>3, <2>3, RollupIs, ZenonT(60)
  <2>5. \A m \in 1..n : At.tasks[m] \in Range(At.tasks)
    BY <2>3, <2>4 DEF Range
  <2>6. \A k \in DOMAIN stage : k \notin TasksAt(h) => Last(k)' = Last(k)
    BY <2>2, <2>4, <2>5
  <2>7. \A pos \in Pos : B(pos)' = B(pos)
    BY <2>1 DEF B
  <2> QED
    BY <2>1, <2>2, <2>4, <2>6, <2>7, ElsewhereFilling
<1>4. CASE R_Undo \/ R_Null
  <2>1. r.pc \in {"undo", "null"} /\ UNCHANGED <<stage, jobOf, job, d>>
    BY <1>4 DEF R_Undo, R_Null, jobs, seen
  <2>2. PICK h \in Pos : h = <<r.i, r.j>> /\ B(h) = At
    BY <2>1, AtIs
  <2>3. \A pos \in Pos : pos # h => B(pos)' = B(pos)
    BY <1>4, <2>2, UndoIs, NullIs
  <2>4. ~Stopping => B(h).task_state # "NULL"
    BY <2>1, <2>2 DEF Turns, RollupTurn
  <2>5. \A k : Last(k)' = Last(k)
    BY <2>1 DEF Last
  <2> QED
    BY <2>1, <2>3, <2>4, <2>5, ElsewhereFilling
<1>5. CASE R_Check \/ R_EmptyJob
  <2>1. PICK j \in Job : (R_Check /\ j = r.i_job) \/ (R_EmptyJob /\ j = r.i)
    <3>1. r.i_job \in Job
      BY DEF Types, PlaceTypes, RRecord
    <3>2. R_EmptyJob => r.i \in Job
      BY DEF Types, PlaceTypes, R_EmptyJob
    <3> QED
      BY <1>5, <3>1, <3>2
  <2>2. CloseIfNeed(j) /\ UNCHANGED <<size, idle_i, stage, jobOf, opened, d>>
    BY <2>1, LookSlots DEF R_Check, R_EmptyJob
  <2>3. MayClose(j) => job[j].info \in DOMAIN phase
    <3>1. DOMAIN phase = 1..Len(phase)
      BY DEF Types, SeenTypes
    <3> QED
      BY <3>1 DEF MayClose, Slots
  <2>4. \A i \in Job : job'[i].info = job[i].info
    <3>1. CASE MayClose(j)
      BY <2>2, <2>3, <3>1, CloseIs
    <3>2. CASE ~MayClose(j)
      BY <2>2, <3>2 DEF CloseIfNeed
    <3> QED
      BY <3>1, <3>2
  <2> QED
    BY <1>5, <2>2, <2>4, RollupAside, AsideFilling
<1> QED
  BY <1>1, <1>2, <1>3, <1>4, <1>5 DEF Rollup

\* Nobody touches the block the distributor has in hand.
LEMMA StepFilling ==
  ASSUME IInv, [Next]_vars
  PROVE  Filling'
<1>1. /\ Types /\ Slots /\ InHand /\ Counted /\ Apart /\ Turns /\ History /\ Kept /\ Filling
  BY DEF IInv
<1>2. CASE (\E c \in Command : Operator(c)) \/ (\E x \in PID : Crash(x)) \/ UNCHANGED vars
  <2>1. Aside
    BY <1>1, <1>2, OutsideAside
  <2>2. UNCHANGED <<job, jobOf, d>>
    <3>1. CASE UNCHANGED vars
      BY <3>1 DEF vars, jobs, seen
    <3> QED
      BY <1>1, <1>2, <3>1, OutsideTypes DEF jobs, seen
  <2> QED
    BY <1>1, <2>1, <2>2, AsideFilling
<1> QED
  BY <1>1, <1>2, DistributorFilling, ProcessorFilling, RollupFilling DEF Next

-----------------------------------------------------------------------------
(* The beginning *)

LEMMA InitTypes ==
  ASSUME Init
  PROVE  Types
<1>1. PidTypes
  BY DEF Init, PidTypes, PID, Child
<1>2. 0 \in Slot /\ 0 \in Job /\ 0 \in Proc /\ 0 \in 0..MAX_BLOCK_TASK - 1 /\ 0 \in Nat /\ 0 \in Int
  BY DEF Slot, Job, Proc
<1>3. RingTypes
  <2>1. EmptyBlock \in BlockInfo
    BY <1>2 DEF EmptyBlock, BlockInfo, TaskState
  <2>2. [distribute |-> 0, process |-> 0, rollup |-> 0] \in
          [distribute : Slot, process : Slot, rollup : Slot]
    BY <1>2
  <2> QED
    BY <1>2, <2>1, <2>2 DEF Init, RingTypes
<1>4. JobTypes
  <2>1. EmptyJob \in JobInfo
    BY DEF EmptyJob, JobInfo
  <2> QED
    BY <2>1 DEF Init, JobTypes
<1>5. SeenTypes
  BY DEF Init, SeenTypes
<1>6. PlaceTypes
  <2>1. d \in DRecord /\ d.pc = "top"
    BY <1>2 DEF Init, DRecord
  <2>2. r \in RRecord /\ r.pc = "visit" /\ r.i = 0
    BY <1>2 DEF Init, RRecord
  <2>3. NewPass(0) \in PRecord
    BY <1>2, NewPassIs
  <2>4. p \in [Proc -> PRecord]
    BY <2>3 DEF Init
  <2> QED
    BY <1>2, <2>1, <2>2, <2>4 DEF PlaceTypes
<1> QED
  BY <1>1, <1>3, <1>4, <1>5, <1>6 DEF Types

LEMMA InitIInv ==
  ASSUME Init
  PROVE  IInv
<1>1. /\ \A j \in Job : job[j].info = 0 /\ ~job[j].isUsed
      /\ count = [j \in Job |-> 0] /\ count_job.open = 0 /\ count_job.close = 0
      /\ stage = <<>> /\ jobOf = <<>> /\ phase = <<>> /\ opened = <<>> /\ lost = {}
      /\ d.pc = "top" /\ r.pc = "visit"
      /\ \A q \in Proc : p[q].pc = "visit" /\ state[q] = "NULL"
  BY DEF Init, EmptyJob, NewPass, PID, Child
<1>2. \A pos \in Pos : B(pos) = EmptyBlock /\ TasksAt(pos) = {}
  <2> SUFFICES ASSUME NEW pos \in Pos
               PROVE  B(pos) = EmptyBlock /\ TasksAt(pos) = {}
    OBVIOUS
  <2>1. B(pos) = EmptyBlock
    BY PosIs DEF Init, B
  <2> QED
    BY <2>1 DEF TasksAt, B, EmptyBlock, Range
<1>3. Slots
  <2>1. Len(phase) = 0 /\ DOMAIN phase = {}
    BY <1>1
  <2> QED
    BY <1>1, <2>1 DEF Slots
<1>4. InHand
  BY <1>1 DEF InHand, Taking, Serving
<1>5. Counted
  <2>1. InUse = {}
    BY <1>1 DEF InUse
  <2>2. Cardinality(InUse) = 0
    BY <2>1, FS_EmptySet
  <2>3. DOMAIN jobOf = {} /\ Range(opened) = {}
    BY <1>1 DEF Range
  <2> QED
    BY <1>1, <2>2, <2>3 DEF Counted, SlotCounts
<1>6. Apart
  <2>1. Len(EmptyBlock.tasks) = 0 /\ DOMAIN EmptyBlock.tasks = {} /\ EmptyBlock.task_state = "NULL"
    BY DEF EmptyBlock
  <2>2. \A pos \in Pos : BlockApart(pos)
    BY <1>2, <2>1 DEF BlockApart, IsInjective
  <2> QED
    BY <1>1, <1>2, <2>2 DEF Apart
<1>7. Turns
  BY <1>1, <1>2 DEF Turns, ProcessTurn, RollupTurn, Unspoilt, EmptyBlock
<1>8. History
  BY <1>1, <1>2 DEF History, BlockRight, NewRight, DoneRight, UndoRight, RollupRight
<1>9. Kept
  <2>1. DOMAIN stage = {}
    BY <1>1
  <2> QED
    BY <1>2, <2>1 DEF Kept, KeepsJob
<1>10. Filling
  BY <1>1 DEF Filling, FilledRight, FillingAt
<1> QED
  BY <1>3, <1>4, <1>5, <1>6, <1>7, <1>8, <1>9, <1>10, InitTypes DEF IInv

\* The inductive invariant holds.
LEMMA Inductive == Spec => []IInv
<1>1. Init => IInv
  BY InitIInv
<1>2. IInv /\ [Next]_vars => IInv'
  BY StepSlots, StepBlocks, StepKept, StepFilling DEF IInv
<1> QED
  BY <1>1, <1>2, PTL DEF Spec

-----------------------------------------------------------------------------
(* What the runs check *)

\* What a slot that was given back still counts was counted once.
Bounded ==
  \A j \in Job : ~job[j].isUsed =>
    job[j].c_distribute <= Len(stage) /\ job[j].c_rollup <= Len(stage)

LEMMA TasksAtMost ==
  ASSUME Types, NEW S \in SUBSET DOMAIN stage
  PROVE  Cardinality(S) <= Len(stage)
<1>1. PICK len \in Nat : DOMAIN stage = 1..len /\ Len(stage) = len
  BY DEF Types, SeenTypes
<1>2. /\ IsFiniteSet(1..len)
      /\ Cardinality(1..len) = IF 1 > len THEN 0 ELSE len - 1 + 1
  <2>1. 1 \in Int /\ len \in Int
    OBVIOUS
  <2> QED
    BY <2>1, FS_Interval
<1>3. IsFiniteSet(DOMAIN stage) /\ Cardinality(DOMAIN stage) = len
  BY <1>1, <1>2
<1> QED
  BY <1>1, <1>3, FS_Subset

LEMMA UsedBounded ==
  ASSUME Types, Counted, NEW j \in Job, job[j].isUsed
  PROVE  job[j].c_distribute <= Len(stage) /\ job[j].c_rollup <= Len(stage)
<1>1. SlotCounts(j)
  BY DEF Counted
<1>2. /\ TasksOf(job[j].info) \in SUBSET DOMAIN stage
      /\ RolledOf(job[j].info) \in SUBSET DOMAIN stage
  BY DEF TasksOf, RolledOf
<1>3. /\ Cardinality(TasksOf(job[j].info)) <= Len(stage)
      /\ Cardinality(RolledOf(job[j].info)) <= Len(stage)
  BY <1>2, TasksAtMost
<1> QED
  BY <1>1, <1>3 DEF SlotCounts

\* A slot not in use keeps its counts until the distributor resets them.
LEMMA CountsLeft ==
  ASSUME IInv, [Next]_vars, NEW j \in Job, ~job'[j].isUsed
  PROVE  \/ job'[j].c_distribute = 0 /\ job'[j].c_rollup = 0
         \/ job'[j].c_distribute = job[j].c_distribute /\ job'[j].c_rollup = job[j].c_rollup
<1>1. Types /\ Slots /\ InHand /\ Counted /\ Apart /\ Turns /\ History /\ Kept
  BY DEF IInv
<1>2. CASE UNCHANGED job
  BY <1>2
<1>3. CASE D_OpenJob
  <2>1. PICK i : IdleJob[3] = i /\ (i # -1 => i \in Job)
    <3>1. \A a \in Job : job[a].isUsed => a < size
      BY <1>1 DEF Slots
    <3> QED
      BY <1>1, <3>1, IdleJobIs DEF Types
  <2>2. UNCHANGED job \/ (i \in Job /\ job' = [job EXCEPT ![i].info = Len(phase) + 1])
    BY <1>3, <2>1 DEF D_OpenJob
  <2>3. job[j] \in JobInfo
    BY <1>1 DEF Types, JobTypes
  <2>4. PICK new : new = Len(phase) + 1
    OBVIOUS
  <2>5. CASE i \in Job /\ job' = [job EXCEPT ![i].info = new]
    <3>1. job'[j] = IF j = i THEN [job[j] EXCEPT !.info = new] ELSE job[j]
      BY <1>1, <2>5 DEF Types, JobTypes
    <3> QED
      BY <2>3, <3>1 DEF JobInfo
  <2> QED
    BY <2>2, <2>4, <2>5
<1>4. CASE D_ResetJob
  BY <1>1, <1>4, ResetJobIs
<1>5. CASE D_UseJob
  BY <1>1, <1>5, UseJobIs
<1>6. CASE D_Task
  <2>1. PICK q \in Proc, b \in Slot : Tasked(q, b)
    BY <1>1, <1>6, TaskIs
  <2>2. job[d.i_job].isUsed
    BY <1>1, <1>6 DEF InHand, D_Task, Serving
  <2> QED
    BY <2>1, <2>2 DEF Tasked
<1>7. CASE D_CloseJob
  <2>1. job[d.i_job].isUsed /\ d.i_job \in Job /\ DOMAIN phase = 1..Len(phase)
    BY <1>1, <1>7, HandIs DEF InHand, D_CloseJob, Serving, Types, SeenTypes
  <2>2. job[d.i_job].info \in DOMAIN phase
    BY <1>1, <2>1 DEF Slots
  <2> QED
    BY <1>1, <1>7, <2>2, CloseJobIs
<1>8. CASE \E n \in 0..MAX_BLOCK_TASK : R_Rollup(n)
  <2>1. PICK n \in 0..MAX_BLOCK_TASK : R_Rollup(n)
    BY <1>8
  <2>2. r.pc = "visit" /\ At.task_state = "DONE"
    BY <2>1 DEF R_Rollup
  <2>3. At.tasks # <<>> /\ Len(At.tasks) <= MAX_BLOCK_TASK /\ job[At.i_job].isUsed
    BY <1>1, <2>2, DoneBlock
  <2>4. \A i \in Job : /\ job'[i].isUsed = job[i].isUsed
                       /\ i # At.i_job => job'[i] = job[i]
    BY <1>1, <2>1, <2>3, RollupIs, ZenonT(60)
  <2> QED
    BY <2>3, <2>4
<1>9. CASE R_Check \/ R_EmptyJob
  <2>1. PICK i \in Job : (R_Check /\ i = r.i_job) \/ (R_EmptyJob /\ i = r.i)
    <3>1. r.i_job \in Job
      BY <1>1 DEF Types, PlaceTypes, RRecord
    <3>2. R_EmptyJob => r.i \in Job
      BY <1>1 DEF Types, PlaceTypes, R_EmptyJob
    <3> QED
      BY <1>9, <3>1, <3>2
  <2>2. CloseIfNeed(i) /\ UNCHANGED <<size, idle_i, stage, jobOf, opened>>
    BY <1>1, <2>1, LookSlots DEF R_Check, R_EmptyJob
  <2>3. MayClose(i) => job[i].info \in DOMAIN phase
    <3>1. DOMAIN phase = 1..Len(phase)
      BY <1>1 DEF Types, SeenTypes
    <3> QED
      BY <1>1, <3>1 DEF MayClose, Slots
  <2>4. UNCHANGED job \/ \A a \in Job : /\ job'[a].c_distribute = job[a].c_distribute
                                        /\ job'[a].c_rollup = job[a].c_rollup
    BY <1>1, <2>2, <2>3, CloseIs
  <2> QED
    BY <2>4
<1>10. UNCHANGED job \/ D_OpenJob \/ D_ResetJob \/ D_UseJob \/ D_CloseJob \/ D_Task
       \/ (\E n \in 0..MAX_BLOCK_TASK : R_Rollup(n)) \/ R_Check \/ R_EmptyJob
  <2>1. CASE Distributor
    BY <2>1 DEF Distributor, D_SetCmd, D_SetCmdSeq, D_CheckChild, D_Top, D_Waited,
                D_StopCheck, D_Exit, D_Find, D_HandOver, D_Drop, D_Fails, D_Create, D_Created, jobs
  <2>2. CASE \E q \in Proc : Processor(q)
    BY <1>1, <2>2, ProcessorTypes DEF jobs
  <2>3. CASE Rollup
    BY <2>3 DEF Rollup, R_Skip, R_TurnBack, R_OpenFails, R_Undo, R_Null, R_Main,
                R_CloseFails, R_Cmd, jobs
  <2>4. CASE (\E c \in Command : Operator(c)) \/ (\E x \in PID : Crash(x))
    BY <1>1, <2>4, OutsideTypes DEF jobs
  <2>5. CASE UNCHANGED vars
    BY <2>5 DEF vars, jobs
  <2> QED
    BY <2>1, <2>2, <2>3, <2>4, <2>5 DEF Next
<1> QED
  BY <1>2, <1>3, <1>4, <1>5, <1>6, <1>7, <1>8, <1>9, <1>10

LEMMA StageGrows ==
  ASSUME IInv, [Next]_vars
  PROVE  Len(stage) <= Len(stage')
<1>1. Types /\ Types' /\ InHand
  BY StepSlots DEF IInv
<1>2. CASE DOMAIN stage' = DOMAIN stage
  BY <1>1, <1>2 DEF Types, SeenTypes
<1>3. CASE D_Task
  <2>1. PICK q \in Proc, b \in Slot : Tasked(q, b)
    BY <1>1, <1>3, TaskIs
  <2>2. DOMAIN stage' = 1..Len(stage) + 1
    BY <2>1 DEF Tasked
  <2> QED
    BY <1>1, <2>2 DEF Types, SeenTypes
<1>4. DOMAIN stage' = DOMAIN stage \/ D_Task
  <2>1. CASE Distributor
    BY <2>1 DEF Distributor, D_SetCmd, D_SetCmdSeq, D_CheckChild, D_Top, D_Waited, D_OpenJob,
                D_ResetJob, D_UseJob, D_CloseJob, D_StopCheck, D_Exit, D_Find, D_HandOver,
                D_Drop, D_Fails, D_Create, D_Created, seen
  <2>2. CASE \E q \in Proc : Processor(q)
    BY <2>2 DEF Processor, Processing, P_Run, P_Skip, P_Process, P_UnProcess, P_Done, P_Cancel,
                P_Fails, P_Cmd, Call, seen
  <2>3. CASE Rollup
    BY <2>3 DEF Rollup, R_Skip, R_TurnBack, R_Rollup, R_OpenFails, R_Undo, R_Null, R_Main,
                R_Check, R_EmptyJob, R_CloseFails, R_Cmd, Call, seen
  <2>4. CASE (\E c \in Command : Operator(c)) \/ (\E x \in PID : Crash(x)) \/ UNCHANGED vars
    BY <2>4 DEF Operator, Crash, vars, seen
  <2> QED
    BY <2>1, <2>2, <2>3, <2>4 DEF Next
<1> QED
  BY <1>2, <1>3, <1>4

LEMMA StepBounded ==
  ASSUME IInv, Bounded, [Next]_vars
  PROVE  Bounded'
<1> SUFFICES ASSUME NEW j \in Job, ~job'[j].isUsed
             PROVE  job'[j].c_distribute <= Len(stage') /\ job'[j].c_rollup <= Len(stage')
  BY DEF Bounded
<1>1. PICK a \in Nat, b \in Nat : a = Len(stage) /\ b = Len(stage') /\ a <= b
  BY StepSlots, StageGrows DEF IInv, Types, SeenTypes
<1>2. PICK c \in Nat, e \in Nat : c = job[j].c_distribute /\ e = job[j].c_rollup
  <2>1. job[j] \in JobInfo
    BY DEF IInv, Types, JobTypes
  <2> QED
    BY <2>1 DEF JobInfo
<1>3. c <= a /\ e <= a
  <2>1. job[j].isUsed => job[j].c_distribute <= Len(stage) /\ job[j].c_rollup <= Len(stage)
    BY UsedBounded DEF IInv
  <2> QED
    BY <1>1, <1>2, <2>1 DEF Bounded
<1>4. \/ job'[j].c_distribute = 0 /\ job'[j].c_rollup = 0
      \/ job'[j].c_distribute = c /\ job'[j].c_rollup = e
  BY <1>2, CountsLeft
<1> QED
  BY <1>1, <1>3, <1>4

\* Every variable keeps its type: positions stay in their rings, tasks and jobs
\* are ones there have been, and no count exceeds the tasks there are.
THEOREM TypeCorrect == Spec => []TypeOK
<1>1. Init => Bounded
  BY DEF Init, Bounded, EmptyJob
<1>2. IInv /\ Bounded /\ [Next]_vars => Bounded'
  BY StepBounded
<1>3. IInv /\ Bounded => TypeOK
  <2> SUFFICES ASSUME IInv, Bounded
               PROVE  TypeOK
    OBVIOUS
  <2>1. Types /\ Slots /\ Counted /\ Apart
    BY DEF IInv
  <2>2. PICK len \in Nat : len = Len(stage) /\ DOMAIN stage = 1..len
    BY <2>1 DEF Types, SeenTypes
  <2>3. /\ state \in [PID -> {"NULL", "CREATE", "RUN", "EXITED", "COREDUMP"}]
        /\ cmd \in [PID -> {"NULL", "EXIT", "PAUSE"}]
        /\ stale \in [PID -> BOOLEAN] /\ alive \in [PID -> BOOLEAN]
        /\ next \in [Proc -> [distribute : Slot, process : Slot, rollup : Slot]]
        /\ size \in 0..MAX_JOB /\ idle_i \in 0..MAX_JOB /\ i_process \in Proc
        /\ lost \subseteq DOMAIN stage
    BY <2>1 DEF Types, PidTypes, RingTypes, JobTypes, Apart
  <2>4. ASSUME NEW q \in Proc, NEW b \in Slot
        PROVE  /\ block[q][b].task_state \in {"NULL", "NEW", "DONE", "UNDO", "CANCLE"}
               /\ block[q][b].i_job \in Job
               /\ block[q][b].tasks \in Seq(DOMAIN stage)
               /\ Len(block[q][b].tasks) <= MAX_BLOCK_TASK
               /\ block[q][b].error_task_index \in 0..MAX_BLOCK_TASK - 1
    <3>1. PICK pos \in Pos : pos = <<q, b>> /\ B(pos) = block[q][b] /\ B(pos) \in BlockInfo
      BY <2>1, BlockIs DEF Types
    <3>2. TasksAt(pos) \subseteq DOMAIN stage /\ Len(B(pos).tasks) <= MAX_BLOCK_TASK
      BY <2>1 DEF Apart, BlockApart
    <3>3. PICK tasks \in Seq(Nat) : tasks = block[q][b].tasks /\ TasksAt(pos) = Range(tasks)
      BY <3>1 DEF BlockInfo, TasksAt
    <3>4. tasks \in Seq(DOMAIN stage)
      <4>1. DOMAIN tasks = 1..Len(tasks)
        OBVIOUS
      <4>2. \A i \in 1..Len(tasks) : tasks[i] \in DOMAIN stage
        BY <3>2, <3>3, <4>1 DEF Range
      <4> QED
        BY <4>2
    <3> QED
      BY <3>1, <3>2, <3>3, <3>4 DEF BlockInfo, TaskState
  <2>5. \A j \in Job : job[j].c_distribute <= len /\ job[j].c_rollup <= len
    <3>1. \A j \in Job : job[j].isUsed =>
            job[j].c_distribute <= Len(stage) /\ job[j].c_rollup <= Len(stage)
      BY <2>1, UsedBounded
    <3> QED
      BY <2>2, <3>1 DEF Bounded
  <2>6. job \in [Job -> [info : 0..Len(phase), isUsed : BOOLEAN, isDistributeEnd : BOOLEAN,
                         c_distribute : 0..len, c_rollup : 0..len]]
    <3>1. job \in [Job -> JobInfo]
      BY <2>1 DEF Types, JobTypes
    <3>2. ASSUME NEW j \in Job
          PROVE  job[j] \in [info : 0..Len(phase), isUsed : BOOLEAN, isDistributeEnd : BOOLEAN,
                             c_distribute : 0..len, c_rollup : 0..len]
      <4>1. job[j] \in JobInfo /\ job[j].info \in 0..Len(phase)
        BY <2>1, <3>1 DEF Slots
      <4>2. /\ job[j].c_distribute \in Nat /\ job[j].c_rollup \in Nat
            /\ job[j].isUsed \in BOOLEAN /\ job[j].isDistributeEnd \in BOOLEAN
        BY <4>1 DEF JobInfo
      <4>3. job[j].c_distribute \in 0..len /\ job[j].c_rollup \in 0..len
        BY <2>5, <4>2
      <4> QED
        BY <4>1, <4>2, <4>3 DEF JobInfo
    <3> QED
      BY <3>1, <3>2
  <2>7. count \in [Job -> 0..len]
    <3>1. count \in [Job -> Nat] /\ job \in [Job -> JobInfo]
      BY <2>1 DEF Types, JobTypes
    <3>2. \A j \in Job : count[j] \in 0..len
      <4> SUFFICES ASSUME NEW j \in Job
                   PROVE  count[j] \in 0..len
        OBVIOUS
      <4>1. count[j] = job[j].c_rollup \/ count[j] = 0
        BY <2>1 DEF Counted
      <4>2. count[j] \in Nat
        BY <3>1
      <4> QED
        BY <2>5, <4>1, <4>2
    <3> QED
      BY <3>1, <3>2
  <2> QED
    BY <2>2, <2>3, <2>4, <2>6, <2>7 DEF TypeOK
<1> QED
  BY <1>1, <1>2, <1>3, Inductive, PTL DEF Spec

\* No task is ever in two blocks, on their way or being filled: the distributor
\* fills only blocks nobody else is to write, though it takes no lock.  One that is
\* distributed and neither rolled up nor undone is in a block, but for those lost
\* with the blocks of a dead process or, when the application reports an error,
\* with the block in hand.
THEOREM TasksInOneBlock == Spec => []TaskInOneBlock
<1>1. IInv => TaskInOneBlock
  <2> SUFFICES ASSUME IInv, NEW k \in DOMAIN stage
               PROVE  /\ Cardinality(Holding(k)) <= 1
                      /\ Last(k) \in {"none", "Process"} /\ k \notin lost => Holding(k) # {}
    BY DEF TaskInOneBlock
  <2>1. Apart /\ Kept
    BY DEF IInv
  <2>2. \A pos : pos \in Holding(k) <=> pos \in Pos /\ Carried(pos) /\ k \in TasksAt(pos)
    <3>1. \A pos : pos \in Occupied <=> pos \in Pos /\ B(pos).task_state # "NULL"
      BY DEF Occupied, Pos, B
    <3>2. ASSUME NEW pos
          PROVE  pos \in BlockInHand <=> pos \in Pos /\ FillingAt(pos[1], pos[2])
      <4>1. d.pc = "fill" => <<d.q, d.b>> \in Pos
        BY DEF IInv, Types, PlaceTypes, DRecord, Pos
      <4>2. pos \in Pos => pos = <<pos[1], pos[2]>>
        BY PosIs
      <4> QED
        BY <4>1, <4>2 DEF BlockInHand, FillingAt
    <3> QED
      BY <3>1, <3>2 DEF Holding, Carried
  <2>3. Cardinality(Holding(k)) <= 1
    <3>1. CASE Holding(k) = {}
      BY <3>1, FS_EmptySet
    <3>2. CASE Holding(k) # {}
      <4>1. PICK pos \in Pos : pos \in Holding(k)
        BY <2>2, <3>2
      <4>2. \A c \in Holding(k) : c = pos
        BY <2>1, <2>2, <4>1 DEF Apart
      <4>3. Holding(k) = {pos}
        BY <4>1, <4>2
      <4>4. Cardinality({pos}) = 1
        BY FS_Singleton
      <4> QED
        BY <4>3, <4>4
    <3> QED
      BY <3>1, <3>2
  <2>4. Last(k) \in {"none", "Process"} /\ k \notin lost => Holding(k) # {}
    BY <2>1, <2>2 DEF Kept, Held
  <2> QED
    BY <2>3, <2>4
<1> QED
  BY <1>1, Inductive, PTL

\* While a block is on its way the slot it names is in use and still that of its
\* tasks' job: their job is never closed, and the slot never taken, under them.
THEOREM BlocksKeepJob == Spec => []BlockKeepsJob
<1>1. IInv => BlockKeepsJob
  <2> SUFFICES ASSUME IInv, NEW pos \in Occupied, NEW k \in TasksAt(pos), Last(k) # "Rollup"
               PROVE  /\ job[B(pos).i_job].isUsed
                      /\ \A t \in TasksAt(pos) : jobOf[t] = job[B(pos).i_job].info
    BY DEF BlockKeepsJob, B
  <2>1. pos \in Pos
    BY DEF Occupied, Pos
  <2>2. OnItsWay(pos)
    BY DEF Occupied, OnItsWay, B
  <2> QED
    BY <2>1, <2>2 DEF IInv, Kept, KeepsJob
<1> QED
  BY <1>1, Inductive, PTL

\* The rollup's private copy of c_rollup is the shared count of every job there
\* is, though the distributor resets the slot between two jobs.
THEOREM CountsAgree == Spec => []RollupCountAgrees
<1>1. IInv => RollupCountAgrees
  BY DEF IInv, Counted, RollupCountAgrees
<1> QED
  BY <1>1, Inductive, PTL

\* Every job that is not closed has one slot, and the slots in use are the jobs
\* opened and not closed.
THEOREM JobsKeepSlots == Spec => []JobKeepsSlot
<1>1. IInv => JobKeepsSlot
  <2> SUFFICES ASSUME IInv
               PROVE  JobKeepsSlot
    OBVIOUS
  <2>1. Types /\ Slots /\ Counted
    BY DEF IInv
  <2>2. ASSUME NEW i \in DOMAIN phase, phase[i] # "closed"
        PROVE  Cardinality({j \in Job : job[j].info = i}) = 1
    <3>1. i # 0
      BY <2>1 DEF Types, SeenTypes
    <3>2. PICK j \in Job : job[j].info = i
      BY <2>1, <2>2 DEF Slots
    <3>3. {a \in Job : job[a].info = i} = {j}
      BY <2>1, <3>1, <3>2 DEF Slots
    <3>4. Cardinality({j}) = 1
      BY FS_Singleton
    <3> QED
      BY <3>3, <3>4
  <2> QED
    BY <2>1, <2>2 DEF Counted, InUse, JobKeepsSlot
<1> QED
  BY <1>1, Inductive, PTL

-----------------------------------------------------------------------------
(* The promise of TaskPipeline *)

LEMMA SameLast == \A k : Promise!Last(k) = Last(k)
BY DEF Promise!Last, Last

LEMMA JobOfBlock ==
  ASSUME Types, Slots, NEW j \in Job, job[j].isUsed
  PROVE  job[j].info \in DOMAIN phase /\ phase[job[j].info] # "closed"
<1>1. DOMAIN phase = 1..Len(phase)
  BY DEF Types, SeenTypes
<1> QED
  BY <1>1 DEF Slots

\* The calls of a process are due.
LEMMA PromiseProcess ==
  ASSUME Types, Apart, History, NEW q \in Proc, P_Process(q) \/ P_UnProcess(q) \/ P_Fails(q)
  PROVE  Promise!Next
<1>1. p[q].pc = "visit" /\ UNCHANGED <<jobOf, phase, opened>>
  BY DEF P_Process, P_UnProcess, P_Fails
<1>2. PICK tasks \in Seq(Nat), e \in Nat : tasks = Here(q).tasks /\ e = Here(q).error_task_index
  BY <1>1, VisitedBlock
<1>3. /\ IsInjective(tasks) /\ Range(tasks) \subseteq DOMAIN stage
      /\ Here(q).task_state = "NEW" => \A k \in Range(tasks) : Fresh(k)
      /\ Here(q).task_state = "UNDO" =>
           \A k \in Range(tasks) :
             IF k \in First(tasks, e) THEN Last(k) = "Rollup" ELSE Undoable(k)
  BY <1>1, <1>2, VisitedBlock
<1>4. \A k \in Range(tasks) :
        k \in First(tasks, e) <=> ~ \E m \in e + 1..Len(tasks) : k = tasks[m]
  BY <1>3, FirstRest
<1>5. \A m \in 1..Len(tasks) : tasks[m] \in Range(tasks)
  BY DEF Range
<1>6. ASSUME NEW S \in SUBSET Range(tasks), Here(q).task_state = "NEW", Call(S, "Process")
      PROVE  Promise!Next
  <2>1. \A k \in S : Promise!Last(k) = "none"
                     \/ ("Process" \in Fault \cap {"Process", "UnProcess"}
                         /\ Promise!Last(k) = "Process")
    BY <1>3, <1>6, SameLast DEF Fresh
  <2>2. Promise!Process(S)
    BY <1>1, <1>6, <2>1 DEF Call, Promise!Process, Promise!Call
  <2>3. S \in SUBSET DOMAIN stage
    BY <1>3
  <2> QED
    BY <2>2, <2>3 DEF Promise!Next
<1>7. ASSUME NEW S \in SUBSET Range(tasks), Here(q).task_state = "UNDO", Call(S, "UnProcess"),
             \A k \in S : \E m \in e + 1..Len(tasks) : k = tasks[m]
      PROVE  Promise!Next
  <2>1. \A k \in S : Promise!Last(k) = "Process"
                     \/ ("UnProcess" \in Fault \cap {"Process", "UnProcess"}
                         /\ Promise!Last(k) = "UnProcess")
    BY <1>3, <1>4, <1>7, SameLast DEF Undoable
  <2>2. Promise!UnProcess(S)
    BY <1>1, <1>7, <2>1 DEF Call, Promise!UnProcess, Promise!Call
  <2>3. S \in SUBSET DOMAIN stage
    BY <1>3
  <2> QED
    BY <2>2, <2>3 DEF Promise!Next
<1>8. CASE P_Process(q)
  BY <1>2, <1>6, <1>8 DEF P_Process
<1>9. ASSUME NEW n \in 0..Len(tasks),
             Here(q).task_state = "UNDO", Call({tasks[k] : k \in e + 1..n}, "UnProcess")
      PROVE  Promise!Next
  <2>1. PICK S : S = {tasks[k] : k \in e + 1..n}
    OBVIOUS
  <2>2. \A k \in e + 1..n : k \in 1..Len(tasks) /\ k \in e + 1..Len(tasks)
    OBVIOUS
  <2>3. S \in SUBSET Range(tasks) /\ \A k \in S : \E m \in e + 1..Len(tasks) : k = tasks[m]
    BY <1>5, <2>1, <2>2
  <2> QED
    BY <1>7, <1>9, <2>1, <2>3
<1>10. CASE P_UnProcess(q)
  <2>1. PICK n \in 0..Len(tasks) : n = Len(tasks)
    OBVIOUS
  <2>2. Here(q).task_state = "UNDO" /\ Call({tasks[k] : k \in e + 1..n}, "UnProcess")
    BY <1>2, <1>10, <2>1 DEF P_UnProcess
  <2> QED
    BY <1>9, <2>2
<1>11. CASE P_Fails(q)
  <2>1. \/ /\ Here(q).task_state = "NEW"
           /\ \E n \in 0..Len(tasks) - 1 : Call({tasks[k] : k \in 1..n}, "Process")
        \/ /\ Here(q).task_state = "UNDO"
           /\ \E n \in e..Len(tasks) - 1 : Call({tasks[k] : k \in e + 1..n}, "UnProcess")
    BY <1>2, <1>11 DEF P_Fails
  <2>2. ASSUME NEW n \in 0..Len(tasks) - 1, Here(q).task_state = "NEW",
               Call({tasks[k] : k \in 1..n}, "Process")
        PROVE  Promise!Next
    <3>1. PICK S : S = {tasks[k] : k \in 1..n}
      OBVIOUS
    <3>2. \A k \in 1..n : k \in 1..Len(tasks)
      OBVIOUS
    <3>3. S \in SUBSET Range(tasks)
      BY <1>5, <3>1, <3>2
    <3> QED
      BY <1>6, <2>2, <3>1, <3>3
  <2>3. ASSUME NEW n \in e..Len(tasks) - 1, Here(q).task_state = "UNDO",
               Call({tasks[k] : k \in e + 1..n}, "UnProcess")
        PROVE  Promise!Next
    <3>1. n \in 0..Len(tasks)
      OBVIOUS
    <3> QED
      BY <1>9, <2>3, <3>1
  <2> QED
    BY <2>1, <2>2, <2>3
<1> QED
  BY <1>8, <1>10, <1>11

\* A job is opened before its first task is rolled up, and once.
LEMMA PromiseRollup ==
  ASSUME Types, Slots, Counted, Apart, History, Kept,
         NEW n \in 0..MAX_BLOCK_TASK, R_Rollup(n)
  PROVE  Promise!Next
<1>1. r.pc = "visit" /\ At.task_state = "DONE" /\ ~r.hadRollupError
  BY DEF R_Rollup
<1>2. PICK j \in Job, tasks \in Seq(Nat) : j = At.i_job /\ tasks = At.tasks
  BY <1>1, DoneBlock
<1>3. /\ job[j].isUsed
      /\ \A k \in Range(tasks) :
           k \in DOMAIN stage /\ Last(k) = "Process" /\ jobOf[k] = job[j].info
  BY <1>1, <1>2, DoneBlock
<1>4. PICK info : info = job[j].info
  OBVIOUS
<1>5. info \in DOMAIN phase /\ phase[info] # "closed"
  BY <1>3, <1>4, JobOfBlock
<1>6. PICK S : S = {tasks[k] : k \in 1..n}
  OBVIOUS
<1>7. /\ n \in 0..Len(tasks) /\ Call(S, "Rollup") /\ UNCHANGED <<jobOf, phase>>
      /\ opened' = IF job[j].c_rollup = 0 THEN Append(opened, info) ELSE opened
  BY <1>2, <1>4, <1>6 DEF R_Rollup
<1>8. \A k \in S : k \in Range(tasks)
  <2>1. \A k \in 1..n : k \in 1..Len(tasks)
    BY <1>7
  <2> QED
    BY <1>6, <2>1 DEF Range
<1>9. S \in SUBSET DOMAIN stage /\ S \subseteq Promise!Tasks(info)
  <2>1. DOMAIN jobOf = DOMAIN stage
    BY DEF Types, SeenTypes
  <2> QED
    BY <1>3, <1>4, <1>8, <2>1 DEF Promise!Tasks
<1>10. Promise!Call(S, "Rollup", "Process")
  BY <1>3, <1>7, <1>8, SameLast DEF Call, Promise!Call
<1>11. opened' = IF \E i \in DOMAIN opened : opened[i] = info THEN opened ELSE Append(opened, info)
  <2>1. job[j].c_rollup = 0 <=> info \notin Range(opened)
    BY <1>1, <1>3, <1>4 DEF Counted, SlotCounts
  <2>2. info \in Range(opened) <=> \E i \in DOMAIN opened : opened[i] = info
    BY DEF Range
  <2> QED
    BY <1>7, <2>1, <2>2
<1>12. Promise!Rollup(info, S)
  BY <1>5, <1>7, <1>9, <1>10, <1>11 DEF Promise!Rollup
<1> QED
  BY <1>5, <1>9, <1>12 DEF Promise!Next

\* A job is closed when it has ended and all its tasks were rolled up.
LEMMA PromiseClose ==
  ASSUME Types, Slots, InHand, Counted,
         NEW j \in Job, (R_Check /\ j = r.i_job) \/ (R_EmptyJob /\ j = r.i)
  PROVE  Promise!Next \/ UNCHANGED seen
<1>1. CloseIfNeed(j) /\ UNCHANGED <<stage, jobOf, opened>>
  BY LookSlots DEF R_Check, R_EmptyJob
<1>2. CASE ~MayClose(j)
  BY <1>1, <1>2 DEF CloseIfNeed, seen
<1>3. CASE MayClose(j)
  <2>1. PICK info : info = job[j].info
    OBVIOUS
  <2>2. info \in DOMAIN phase /\ phase[info] = "ended" /\ phase' = [phase EXCEPT ![info] = "closed"]
    <3>1. job[j].isUsed /\ job[j].isDistributeEnd
      BY <1>3 DEF MayClose, isRollupEnd
    <3> QED
      BY <1>1, <1>3, <2>1, <3>1, JobOfBlock DEF CloseIfNeed, Slots
  <2>3. \A k \in Promise!Tasks(info) : Promise!Last(k) = "Rollup"
    <3>1. DOMAIN jobOf = DOMAIN stage
      BY DEF Types, SeenTypes
    <3> QED
      BY <1>3, <2>1, <3>1, AllRolledUp, SameLast DEF Promise!Tasks, TasksOf
  <2>4. Promise!CloseJob(info)
    BY <1>1, <2>2, <2>3 DEF Promise!CloseJob
  <2> QED
    BY <2>2, <2>4 DEF Promise!Next
<1> QED
  BY <1>2, <1>3

\* A task is distributed for a job that is open.
LEMMA PromiseDistribute ==
  ASSUME Types, Slots, InHand, D_Task
  PROVE  Promise!Next
<1>1. PICK j \in Job : j = d.i_job
  BY HandIs
<1>2. PICK info : info = job[j].info
  OBVIOUS
<1>3. /\ stage' = Append(stage, <<>>) /\ jobOf' = Append(jobOf, info)
      /\ UNCHANGED <<phase, opened>>
  BY <1>1, <1>2 DEF D_Task
<1>4. job[j].isUsed /\ ~job[j].isDistributeEnd
  BY <1>1 DEF D_Task, InHand, Serving
<1>5. info \in DOMAIN phase /\ phase[info] = "open"
  BY <1>2, <1>4, JobOfBlock DEF Slots
<1>6. Promise!Distribute(info)
  BY <1>3, <1>5 DEF Promise!Distribute
<1> QED
  BY <1>5, <1>6 DEF Promise!Next

\* The server keeps the promise of TaskPipeline: no task is processed or rolled up
\* twice, or both rolled up and undone, no job is opened twice, or closed while
\* one of its tasks is still to be rolled up.
THEOREM RefinesPipeline == Spec => ImplementsPipeline
<1>1. Init => Promise!Init
  BY DEF Init, Promise!Init
<1>2. IInv /\ [Next]_vars => [Promise!Next]_(Promise!vars)
  <2> SUFFICES ASSUME IInv, [Next]_vars
               PROVE  Promise!Next \/ UNCHANGED seen
    BY DEF seen, Promise!vars
  <2>1. Types /\ Slots /\ InHand /\ Counted /\ Apart /\ History /\ Kept
    BY DEF IInv
  <2>2. CASE Distributor
    <3>1. CASE D_OpenJob
      <4>1. phase' = Append(phase, "open") \/ UNCHANGED phase
        BY <3>1 DEF D_OpenJob
      <4> QED
        BY <3>1, <4>1 DEF D_OpenJob, seen, Promise!Next, Promise!OpenJob
    <3>2. CASE D_Task
      BY <2>1, <3>2, PromiseDistribute
    <3>3. CASE D_CloseJob
      <4>1. PICK j \in Job : j = d.i_job
        BY <2>1, HandIs
      <4>2. PICK info : info = job[j].info
        OBVIOUS
      <4>3. job[j].isUsed /\ ~job[j].isDistributeEnd
        BY <2>1, <3>3, <4>1 DEF D_CloseJob, InHand, Serving
      <4>4. info \in DOMAIN phase /\ phase[info] = "open"
        BY <2>1, <4>2, <4>3, JobOfBlock DEF Slots
      <4>5. Promise!EndJob(info)
        BY <3>3, <4>1, <4>2, <4>4 DEF D_CloseJob, Promise!EndJob
      <4> QED
        BY <4>4, <4>5 DEF Promise!Next
    <3> QED
      BY <2>2, <3>1, <3>2, <3>3
         DEF Distributor, D_SetCmd, D_SetCmdSeq, D_CheckChild, D_Top, D_Waited, D_StopCheck,
             D_Exit, D_ResetJob, D_UseJob, D_Find, D_HandOver, D_Drop, D_Fails, D_Create,
             D_Created, seen
  <2>3. ASSUME NEW q \in Proc, Processor(q)
        PROVE  Promise!Next \/ UNCHANGED seen
    <3>1. CASE P_Process(q) \/ P_UnProcess(q) \/ P_Fails(q)
      BY <2>1, <3>1, PromiseProcess
    <3> QED
      BY <2>3, <3>1 DEF Processor, Processing, P_Run, P_Skip, P_Done, P_Cancel, P_Cmd, seen
  <2>4. CASE Rollup
    <3>1. CASE \E n \in 0..MAX_BLOCK_TASK : R_Rollup(n)
      BY <2>1, <3>1, PromiseRollup
    <3>2. CASE R_Check \/ R_EmptyJob
      <4>1. PICK j \in Job : (R_Check /\ j = r.i_job) \/ (R_EmptyJob /\ j = r.i)
        <5>1. r.i_job \in Job
          BY <2>1 DEF Types, PlaceTypes, RRecord
        <5>2. R_EmptyJob => r.i \in Job
          BY <2>1 DEF Types, PlaceTypes, R_EmptyJob
        <5> QED
          BY <3>2, <5>1, <5>2
      <4> QED
        BY <2>1, <4>1, PromiseClose
    <3> QED
      BY <2>4, <3>1, <3>2
         DEF Rollup, R_Skip, R_TurnBack, R_OpenFails, R_Undo, R_Null, R_Main, R_CloseFails,
             R_Cmd, seen
  <2>5. CASE (\E c \in Command : Operator(c)) \/ (\E x \in PID : Crash(x)) \/ UNCHANGED vars
    BY <2>5 DEF Operator, Crash, vars, seen
  <2> QED
    BY <2>2, <2>3, <2>4, <2>5 DEF Next
<1> QED
  BY <1>1, <1>2, Inductive, PTL DEF Spec, ImplementsPipeline, Promise!Spec
=============================================================================
