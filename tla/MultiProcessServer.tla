------------------------- MODULE MultiProcessServer -------------------------
(***************************************************************************)
(* CMultiProcessServer (src/shmfc/myMultiProcessServer.h).  One process    *)
(* distributes tasks, several process them, one rolls them up.  All they   *)
(* share is MPS_DATA in shared memory: rings of task blocks, the job       *)
(* slots, and a PID_DATA (state, command, command number) for each.  A     *)
(* block goes NULL -> NEW (distributor) -> DONE (its process) -> NULL      *)
(* (rollup), or, after an error of the rollup, DONE -> UNDO -> CANCLE.     *)
(*                                                                         *)
(* m_sync is only ever taken for reading, so it keeps nobody out: what     *)
(* holds the server together is the order of the writes, which the steps   *)
(* here follow.  Sleep and wakeup only decide when the next step comes:    *)
(* STATE_PAUSE and STATE_RUN are both "RUN" (isRuning).  CheckSum, the     *)
(* timers and the counts that are only displayed are left out.  The        *)
(* application's methods are an environment that may fail, a choice of     *)
(* how the work divides, and a record of the calls made to it.             *)
(***************************************************************************)
EXTENDS Integers, Sequences, FiniteSets, FiniteSetsExt, Functions

CONSTANTS
  MAX_JOB, MAX_PROCESS, MAX_PROCESS_TASK_BLOCK, MAX_BLOCK_TASK,
  Hash,          \* what GetNextTaskHash may return; negative: any process
  autoHighLow,   \* settings of the server
  exitIfNoJob,
  Fault,         \* what may go wrong: "crash" or a method of the application
  Command,       \* what the operator may order: "NULL", "PAUSE", "EXIT"
  MaxJob,        \* bound: jobs the application has
  MaxTask,       \* bound: tasks of all jobs together
  MaxFault,      \* bound: faults
  MaxCommand     \* bound: orders of the operator

ASSUME SizeAssumption ==
  /\ {MAX_JOB, MAX_PROCESS, MAX_PROCESS_TASK_BLOCK, MAX_BLOCK_TASK} \subseteq Nat \ {0}
  /\ Hash \subseteq Int
  /\ autoHighLow \in BOOLEAN /\ exitIfNoJob \in BOOLEAN
  /\ Command \subseteq {"NULL", "PAUSE", "EXIT"}
  /\ {MaxJob, MaxTask, MaxFault, MaxCommand} \subseteq Nat

Proc  == 0..MAX_PROCESS - 1
Slot  == 0..MAX_PROCESS_TASK_BLOCK - 1
Job   == 0..MAX_JOB - 1
ROLLUP     == -2
DISTRIBUTE == -1
Child == Proc \union {ROLLUP}
PID   == Child \union {DISTRIBUTE}

VARIABLES
  state, cmd,           \* PID_DATA of each process
  stale,                \* whether its cmd_seq was raised since its pass began
  alive,                \* whether the operating system still runs it
  block,                \* m_taskblocks
  next,                 \* nextDistribute, nextProcess, nextRollup: where they
                        \* point once their wrap-around is applied
  job,                  \* jobinfos
  size, idle_i,         \* JOBINFOS_T::size, and i of GetIdleJobInfo
  i_process,            \* where the round robin of _FindIdelTaskInfo stands
  count_job,            \* count_job_open and count_job_close
  count,                \* the rollup process's private copy of the c_rollup
  d, r, p,              \* where the processes are in their programs
  isInPause,
  stage, jobOf, phase, opened,   \* what the application has seen: TaskPipeline
  lost,                 \* tasks dropped with the blocks of a dead process, or
                        \* with the block in hand after an error
  faults, commands      \* bounds: how many there have been

pids    == <<state, cmd, stale, alive>>
jobs    == <<job, size, idle_i, count_job>>
seen    == <<stage, jobOf, phase, opened>>
environ == <<faults, commands>>
vars    == <<pids, block, next, jobs, i_process, count, d, r, p, isInPause,
             seen, lost, environ>>

\* doProcess at the beginning of a pass that starts at block i.
NewPass(i) == [pc |-> "visit", i |-> i, ii |-> 0, hadDoNothing |-> TRUE]

EmptyBlock == [task_state |-> "NULL", i_job |-> 0, tasks |-> <<>>, error_task_index |-> 0]
EmptyJob   == [info |-> 0, isUsed |-> FALSE, isDistributeEnd |-> FALSE,
               c_distribute |-> 0, c_rollup |-> 0]

TypeOK ==
  /\ state \in [PID -> {"NULL", "CREATE", "RUN", "EXITED", "COREDUMP"}]
  /\ cmd \in [PID -> {"NULL", "EXIT", "PAUSE"}]
  /\ stale \in [PID -> BOOLEAN]
  /\ alive \in [PID -> BOOLEAN]
  /\ \A q \in Proc, b \in Slot :
       /\ block[q][b].task_state \in {"NULL", "NEW", "DONE", "UNDO", "CANCLE"}
       /\ block[q][b].i_job \in Job
       /\ block[q][b].tasks \in Seq(DOMAIN stage)
       /\ Len(block[q][b].tasks) <= MAX_BLOCK_TASK
       /\ block[q][b].error_task_index \in 0..MAX_BLOCK_TASK - 1
  /\ next \in [Proc -> [distribute : Slot, process : Slot, rollup : Slot]]
  /\ job \in [Job -> [info : 0..Len(phase), isUsed : BOOLEAN,
                      isDistributeEnd : BOOLEAN,
                      c_distribute : 0..Len(stage), c_rollup : 0..Len(stage)]]
  /\ size \in 0..MAX_JOB /\ idle_i \in 0..MAX_JOB
  /\ i_process \in Proc
  /\ count \in [Job -> 0..Len(stage)]
  /\ lost \subseteq DOMAIN stage

\* clear() and init_distribute_and_rollup(): the distributor runs, the rollup
\* process has been forked and told to pause, the others are not there yet.
Init ==
  /\ state = [x \in PID |-> IF x \in Proc THEN "NULL" ELSE "RUN"]
  /\ cmd = [x \in PID |-> IF x = ROLLUP THEN "PAUSE" ELSE "NULL"]
  /\ stale = [x \in PID |-> FALSE]
  /\ alive = [x \in PID |-> x \notin Proc]
  /\ block = [q \in Proc |-> [b \in Slot |-> EmptyBlock]]
  /\ next = [q \in Proc |-> [distribute |-> 0, process |-> 0, rollup |-> 0]]
  /\ job = [j \in Job |-> EmptyJob]
  /\ size = 0 /\ idle_i = 0
  /\ i_process = 0
  /\ count_job = [open |-> 0, close |-> 0]
  /\ count = [j \in Job |-> 0]
  /\ d = [pc |-> "top", i_job |-> 0, q |-> 0, b |-> 0, cmd |-> "NULL", then |-> "top"]
  /\ r = [pc |-> "visit", i |-> 0, ii |-> 0, j |-> 0, i_job |-> 0, error |-> 0,
          isTaskRun |-> FALSE, hadDoNothing |-> TRUE,
          hadRollupError |-> FALSE, countFlag |-> 0]
  /\ p = [q \in Proc |-> NewPass(0)]
  /\ isInPause = FALSE
  /\ stage = <<>> /\ jobOf = <<>> /\ phase = <<>> /\ opened = <<>>
  /\ lost = {}
  /\ faults = 0 /\ commands = 0

-----------------------------------------------------------------------------
(* Faults, PID_DATA and CheckChild. *)

\* A fault of kind f happens now.
Fails(f) ==
  /\ f \in Fault
  /\ faults < MaxFault
  /\ faults' = faults + 1
  /\ UNCHANGED commands

isRuning(x) == state[x] = "RUN"

\* pid is set once the process runs, and kill(pid, 0) finds whoever is alive.
isOK(x) == state[x] \in {"NULL", "CREATE"} \/ (isRuning(x) /\ alive[x])

\* The process is gone, leaving state s.
Gone(x, s) ==
  /\ state' = [state EXCEPT ![x] = s]
  /\ alive' = [alive EXCEPT ![x] = FALSE]
  /\ UNCHANGED <<cmd, stale>>

HasNew(q) == \E b \in Slot : block[q][b].task_state = "NEW"
\* Mutant: a process without new blocks is never missed.
WrongNeedexit(q) == HasNew(q) /\ ~isRuning(q)

needexit(q) == ~isOK(q) \/ (HasNew(q) /\ ~isRuning(q))
ChildFailed == ~isOK(ROLLUP) \/ \E q \in Proc : needexit(q)

\* The last method called for task k.
Last(k) == IF stage[k] = <<>> THEN "none" ELSE stage[k][Len(stage[k])]

TasksIn(q) ==
  UNION {Range(block[q][b].tasks) : b \in {c \in Slot : block[q][c].task_state # "NULL"}}

(* CheckChild(): exitIfProcessCoredump is always set, so whoever is not OK   *)
(* is marked, and the blocks of such a process are cleared.                *)
CheckChild ==
  /\ state' = [x \in PID |-> IF x \in Child /\ ~isOK(x) THEN "COREDUMP" ELSE state[x]]
  /\ block' = [q \in Proc |-> [b \in Slot |->
                IF needexit(q) THEN [block[q][b] EXCEPT !.task_state = "NULL"]
                ELSE block[q][b]]]
  /\ lost' = lost \union {k \in UNION {TasksIn(q) : q \in {c \in Proc : needexit(c)}} :
                            Last(k) # "Rollup"}
  /\ UNCHANGED <<cmd, stale, alive>>

-----------------------------------------------------------------------------
(* The distributor: run(), doDistribute() and doDistribute_OneJob().       *)

D_At(pc, j, q, c, then) ==
  d' = [pc |-> pc, i_job |-> j, q |-> q, b |-> 0, cmd |-> c, then |-> then]
D_Goto(pc) == D_At(pc, d.i_job, d.q, "NULL", "top")
\* SetAllChildCmd(c), then on to pc.
D_Tell(c, pc) == D_At("tell", d.i_job, 0, c, pc)
\* Out with an error: StopAllChild() and exit.
D_Abort == D_Tell("EXIT", "stop")

(* SetAllChildCmd: the rollup process first, and only those whose command   *)
(* is another; setCmd writes the command and then raises the number.       *)
D_SetCmd ==
  LET behind == {x \in Child : cmd[x] # d.cmd}
  IN  /\ d.pc = "tell"
      /\ IF behind = {}
         THEN D_Goto(d.then) /\ UNCHANGED cmd
         ELSE /\ cmd' = [cmd EXCEPT ![Min(behind)] = d.cmd]
              /\ d' = [d EXCEPT !.pc = "number", !.q = Min(behind)]
      /\ UNCHANGED <<state, stale, alive, block, next, jobs, i_process, count,
                     r, p, isInPause, seen, lost, environ>>

D_SetCmdSeq ==
  /\ d.pc = "number"
  /\ stale' = [stale EXCEPT ![d.q] = TRUE]
  /\ d' = [d EXCEPT !.pc = "tell", !.q = 0]
  /\ UNCHANGED <<state, cmd, alive, block, next, jobs, i_process, count, r, p,
                 isInPause, seen, lost, environ>>

\* The checks made every time round (doDistribute, waitAllTaskFinish) and now
\* and then (while distributing).
D_CheckChild ==
  /\ d.pc \in {"top", "loop", "wait"}
  /\ ChildFailed
  /\ CheckChild
  /\ D_Abort
  /\ UNCHANGED <<next, jobs, i_process, count, r, p, isInPause, seen, environ>>

D_Top ==
  /\ d.pc = "top"
  /\ ~ChildFailed
  /\ \/ cmd[DISTRIBUTE] = "NULL" /\ isInPause' = FALSE /\ D_Goto("open")
     \/ cmd[DISTRIBUTE] = "PAUSE" /\ ~isInPause /\ UNCHANGED isInPause
        /\ D_At("wait", 0, 0, "NULL", "top")
     \/ cmd[DISTRIBUTE] = "EXIT" /\ isInPause' = FALSE
        /\ D_At("wait", 0, 0, "NULL", "stop")
  /\ UNCHANGED <<pids, block, next, jobs, i_process, count, r, p, seen, lost, environ>>

\* Mutant: what waits for the rollup counts as finished.
WrongAllTaskFinish == \A q \in Proc, b \in Slot : block[q][b].task_state # "NEW"

AllTaskFinish == \A q \in Proc, b \in Slot : block[q][b].task_state = "NULL"

\* waitAllTaskFinish() has succeeded: pause, or stop everybody.
D_Waited ==
  /\ d.pc = "wait"
  /\ AllTaskFinish
  /\ IF d.then = "top"
     THEN D_Tell("PAUSE", "top") /\ isInPause' = TRUE
     ELSE D_Abort /\ UNCHANGED isInPause
  /\ UNCHANGED <<pids, block, next, jobs, i_process, count, r, p, seen, lost, environ>>

\* StopAllChild(), its command given, checks the children until nobody runs;
\* then run() ends.
D_StopCheck ==
  /\ d.pc = "stop"
  /\ ChildFailed
  /\ CheckChild
  /\ UNCHANGED <<next, jobs, i_process, count, d, r, p, isInPause, seen, environ>>

D_Exit ==
  /\ d.pc = "stop"
  /\ \A x \in Child : ~isRuning(x)
  /\ Gone(DISTRIBUTE, "EXITED")
  /\ D_Goto("gone")
  /\ UNCHANGED <<block, next, jobs, i_process, count, r, p, isInPause, seen, lost, environ>>

\* GetIdleJobInfo(): new size, new i, and the slot or -1.
Unused == {j \in 0..size - 1 : ~job[j].isUsed}
\* Mutant: the slot the search stands at is not asked whether it is in use.
WrongIdleJob ==
  IF size < MAX_JOB THEN <<size + 1, idle_i, size>>
  ELSE <<size, (idle_i % MAX_JOB) + 1, idle_i % MAX_JOB>>

IdleJob ==
  IF size < MAX_JOB THEN <<size + 1, idle_i, size>>
  ELSE IF idle_i < MAX_JOB /\ ~job[idle_i].isUsed THEN <<size, idle_i + 1, idle_i>>
  ELSE IF Unused # {} THEN <<size, Min(Unused) + 1, Min(Unused)>>
  ELSE <<size, size, -1>>

(* GetIdleJobInfo and OpenJob, which fills the slot's jobinfo, has no job,  *)
(* or fails.                                                               *)
D_OpenJob ==
  LET j == IdleJob[3]
  IN  /\ d.pc = "open"
      /\ size' = IdleJob[1] /\ idle_i' = IdleJob[2]
      /\ \/ /\ j = -1
            /\ D_Goto("top")
            /\ UNCHANGED <<cmd, job, phase, environ>>
         \/ /\ j # -1 /\ Len(phase) < MaxJob
            /\ phase' = Append(phase, "open")
            /\ job' = [job EXCEPT ![j].info = Len(phase) + 1]
            /\ D_At("reset", j, 0, "NULL", "top")
            /\ UNCHANGED <<cmd, environ>>
         \/ /\ j # -1
            /\ cmd' = [cmd EXCEPT ![DISTRIBUTE] = IF exitIfNoJob THEN "EXIT" ELSE @]
            /\ D_Goto("top")
            /\ UNCHANGED <<job, phase, environ>>
         \/ /\ j # -1 /\ Fails("OpenJob")
            /\ D_Abort
            /\ UNCHANGED <<cmd, job, phase>>
      /\ UNCHANGED <<state, stale, alive, block, next, i_process, count_job, count, r, p,
                     isInPause, stage, jobOf, opened, lost>>

\* Mutant: isDistributeEnd of the slot's last job stays.
WrongResetJob ==
  /\ d.pc = "reset"
  /\ job' = [job EXCEPT ![d.i_job].c_distribute = 0, ![d.i_job].c_rollup = 0]
  /\ D_Goto("use")
  /\ UNCHANGED <<pids, block, next, size, idle_i, count_job, i_process, count, r, p,
                 isInPause, seen, lost, environ>>

(* SetUsed in the order of its writes: the slot is cleared while isUsed is   *)
(* still false, then handed to the rollup.                                 *)
D_ResetJob ==
  /\ d.pc = "reset"
  /\ job' = [job EXCEPT ![d.i_job].isDistributeEnd = FALSE,
                        ![d.i_job].c_distribute = 0,
                        ![d.i_job].c_rollup = 0]
  /\ D_Goto("use")
  /\ UNCHANGED <<pids, block, next, size, idle_i, count_job, i_process, count, r, p,
                 isInPause, seen, lost, environ>>

D_UseJob ==
  /\ d.pc = "use"
  /\ job' = [job EXCEPT ![d.i_job].isUsed = TRUE]
  /\ count_job' = [count_job EXCEPT !.open = @ + 1]
  /\ D_Tell("NULL", "loop")
  /\ UNCHANGED <<pids, block, next, size, idle_i, i_process, count, r, p,
                 isInPause, seen, lost, environ>>

\* _FindIdelTaskInfo: the k-th process it looks at, given a hash, and the
\* block of that process it looks at.
HashToProcessIndex(hash) == IF hash < 0 THEN -1 ELSE hash % MAX_PROCESS
Looked(iHash, k) ==
  IF iHash >= 0 THEN iHash
  ELSE IF autoHighLow THEN k ELSE (i_process + k) % MAX_PROCESS
Idle(q) == block[q][next[q].distribute].task_state = "NULL"

FindIdelTaskInfo(iHash, q) ==
  \E k \in 0..(IF iHash >= 0 THEN 0 ELSE MAX_PROCESS - 1) :
    /\ q = Looked(iHash, k)
    /\ Idle(q)
    /\ \A m \in 0..k - 1 : ~Idle(Looked(iHash, m))

(* There is a task with some hash: an idle block is found, and emptied.  It  *)
(* stays NULL, and its ring has moved past it, while it is filled.         *)
D_Find(hash) ==
  /\ d.pc = "loop"
  /\ \E q \in Proc :
       LET b == next[q].distribute
       IN  /\ FindIdelTaskInfo(HashToProcessIndex(hash), q)
           /\ next' = [next EXCEPT ![q].distribute = (b + 1) % MAX_PROCESS_TASK_BLOCK]
           /\ i_process' = (q + 1) % MAX_PROCESS
           /\ block' = [block EXCEPT ![q][b].tasks = <<>>]
           /\ d' = [d EXCEPT !.pc = "fill", !.q = q, !.b = b]
  /\ UNCHANGED <<pids, jobs, count, r, p, isInPause, seen, lost, environ>>

\* The block the distributor is filling, or was when it died.
Filled == block[d.q][d.b]
BlockInHand == IF d.pc = "fill" THEN {<<d.q, d.b>>} ELSE {}

\* Mutant: the block is handed over with its first task and filled on.
WrongTask ==
  /\ d.pc = "fill"
  /\ Len(Filled.tasks) < MAX_BLOCK_TASK
  /\ Len(stage) < MaxTask
  /\ stage' = Append(stage, <<>>)
  /\ jobOf' = Append(jobOf, job[d.i_job].info)
  /\ block' = [block EXCEPT ![d.q][d.b] =
                 [@ EXCEPT !.tasks = Append(@, Len(stage) + 1),
                           !.i_job = d.i_job, !.task_state = "NEW"]]
  /\ job' = [job EXCEPT ![d.i_job].c_distribute = @ + 1]
  /\ UNCHANGED <<pids, next, size, idle_i, count_job, i_process, count, d, r, p,
                 isInPause, phase, opened, lost, environ>>

(* DistributeTask gives another task, which is counted in the block and in   *)
(* the job.  (Nobody reads c_distribute before isDistributeEnd is set.)    *)
D_Task ==
  /\ d.pc = "fill"
  /\ Len(Filled.tasks) < MAX_BLOCK_TASK
  /\ Len(stage) < MaxTask
  /\ stage' = Append(stage, <<>>)
  /\ jobOf' = Append(jobOf, job[d.i_job].info)
  /\ block' = [block EXCEPT ![d.q][d.b].tasks = Append(@, Len(stage) + 1)]
  /\ job' = [job EXCEPT ![d.i_job].c_distribute = @ + 1]
  /\ UNCHANGED <<pids, next, size, idle_i, count_job, i_process, count, d, r, p,
                 isInPause, phase, opened, lost, environ>>

(* The block is full, the job ends, or the next task has another hash or is  *)
(* not there yet: the block is handed over, its state written last ...     *)
D_HandOver ==
  /\ d.pc = "fill"
  /\ Filled.tasks # <<>>
  /\ block' = [block EXCEPT ![d.q][d.b].i_job = d.i_job, ![d.q][d.b].task_state = "NEW"]
  /\ D_At("create", d.i_job, d.q, "NULL", "top")
  /\ UNCHANGED <<pids, next, jobs, i_process, count, r, p, isInPause, seen, lost, environ>>

\* ... or, with no task in it, left.
D_Drop ==
  /\ d.pc = "fill"
  /\ Filled.tasks = <<>>
  /\ D_At("loop", d.i_job, 0, "NULL", "top")
  /\ UNCHANGED <<pids, block, next, jobs, i_process, count, r, p, isInPause, seen,
                 lost, environ>>

(* isJobEnd or DistributeTask reports an error.  The tasks of the block in   *)
(* hand are distributed and counted, and nobody will ever see them.        *)
D_Fails ==
  /\ d.pc \in {"loop", "fill"}
  /\ Fails("DistributeTask")
  /\ lost' = lost \union (IF d.pc = "fill" THEN Range(Filled.tasks) ELSE {})
  /\ D_Abort
  /\ UNCHANGED <<pids, block, next, jobs, i_process, count, r, p, isInPause, seen>>

(* CreateOrWakeupProcessIfNeed: fork the process, and wait until it has     *)
(* written STATE_RUN; one that is there is only woken.                     *)
D_Create ==
  /\ d.pc = "create"
  /\ IF state[d.q] \in {"NULL", "EXITED", "COREDUMP"}
     THEN /\ state' = [state EXCEPT ![d.q] = "CREATE"]
          /\ cmd' = [cmd EXCEPT ![d.q] = "NULL"]
          /\ stale' = [stale EXCEPT ![d.q] = FALSE]
          /\ alive' = [alive EXCEPT ![d.q] = TRUE]
          /\ D_Goto("created")
     ELSE D_At("loop", d.i_job, 0, "NULL", "top") /\ UNCHANGED pids
  /\ UNCHANGED <<block, next, jobs, i_process, count, r, p, isInPause, seen, lost, environ>>

D_Created ==
  /\ d.pc = "created"
  /\ state[d.q] # "CREATE"
  /\ D_At("loop", d.i_job, 0, "NULL", "top")
  /\ UNCHANGED <<pids, block, next, jobs, i_process, count, r, p, isInPause, seen,
                 lost, environ>>

\* The job ends: CloseJob_Distribute, SetDistributeEnd, and the children pause.
D_CloseJob ==
  /\ d.pc = "loop"
  /\ job' = [job EXCEPT ![d.i_job].isDistributeEnd = TRUE]
  /\ phase' = [phase EXCEPT ![job[d.i_job].info] = "ended"]
  /\ D_Tell("PAUSE", "top")
  /\ UNCHANGED <<pids, block, next, size, idle_i, count_job, i_process, count, r, p,
                 isInPause, stage, jobOf, opened, lost, environ>>

Distributor ==
  \/ D_SetCmd \/ D_SetCmdSeq \/ D_CheckChild \/ D_Top \/ D_Waited
  \/ D_StopCheck \/ D_Exit \/ D_OpenJob \/ D_ResetJob \/ D_UseJob
  \/ (\E hash \in Hash : D_Find(hash)) \/ D_Task \/ D_HandOver \/ D_Drop
  \/ D_Fails \/ D_Create \/ D_Created \/ D_CloseJob

-----------------------------------------------------------------------------
(* A processing process: doProcess(). *)

P_Set(q, f) == p' = [p EXCEPT ![q] = f]

\* The child's first write, for which the parent waits; its first pass begins.
P_Run(q) ==
  /\ state[q] = "CREATE"
  /\ state' = [state EXCEPT ![q] = "RUN"]
  /\ P_Set(q, NewPass(next[q].process))
  /\ UNCHANGED <<cmd, stale, alive, block, next, jobs, i_process, count, d, r,
                 isInPause, seen, lost, environ>>

\* On to the next block, or to the end of the pass.
P_Next(q, nothing) ==
  P_Set(q, [p[q] EXCEPT !.i = (@ + 1) % MAX_PROCESS_TASK_BLOCK, !.ii = @ + 1,
                        !.hadDoNothing = @ /\ nothing,
                        !.pc = IF p[q].ii + 1 < MAX_PROCESS_TASK_BLOCK THEN "visit"
                               ELSE "cmd"])

Here(q) == block[q][p[q].i]
Call(S, m) ==
  stage' = [k \in DOMAIN stage |-> IF k \in S THEN Append(stage[k], m) ELSE stage[k]]

P_Skip(q) ==
  /\ p[q].pc = "visit"
  /\ Here(q).task_state \notin {"NEW", "UNDO"}
  /\ P_Next(q, TRUE)
  /\ UNCHANGED <<pids, block, next, jobs, i_process, count, d, r, isInPause, seen,
                 lost, environ>>

P_Process(q) ==
  /\ p[q].pc = "visit"
  /\ Here(q).task_state = "NEW"
  /\ Call(Range(Here(q).tasks), "Process")
  /\ P_Set(q, [p[q] EXCEPT !.pc = "done", !.hadDoNothing = FALSE])
  /\ UNCHANGED <<pids, block, next, jobs, i_process, count, d, r, isInPause, jobOf,
                 phase, opened, lost, environ>>

P_Done(q) ==
  /\ p[q].pc = "done"
  /\ block' = [block EXCEPT ![q][p[q].i].task_state = "DONE"]
  /\ next' = [next EXCEPT ![q].process = (p[q].i + 1) % MAX_PROCESS_TASK_BLOCK]
  /\ P_Next(q, FALSE)
  /\ UNCHANGED <<pids, jobs, i_process, count, d, r, isInPause, seen, lost, environ>>

\* Mutant: the whole block is undone.
WrongUnProcess(q) ==
  /\ p[q].pc = "visit"
  /\ Here(q).task_state = "UNDO"
  /\ Call(Range(Here(q).tasks), "UnProcess")
  /\ P_Set(q, [p[q] EXCEPT !.pc = "cancel", !.hadDoNothing = FALSE])
  /\ UNCHANGED <<pids, block, next, jobs, i_process, count, d, r, isInPause, jobOf,
                 phase, opened, lost, environ>>

\* The application undoes the failing task and those after it.
P_UnProcess(q) ==
  LET b == Here(q)
  IN  /\ p[q].pc = "visit"
      /\ b.task_state = "UNDO"
      /\ Call({b.tasks[k] : k \in b.error_task_index + 1..Len(b.tasks)}, "UnProcess")
      /\ P_Set(q, [p[q] EXCEPT !.pc = "cancel", !.hadDoNothing = FALSE])
      /\ UNCHANGED <<pids, block, next, jobs, i_process, count, d, r, isInPause, jobOf,
                     phase, opened, lost, environ>>

P_Cancel(q) ==
  /\ p[q].pc = "cancel"
  /\ block' = [block EXCEPT ![q][p[q].i].task_state = "CANCLE"]
  /\ P_Next(q, FALSE)
  /\ UNCHANGED <<pids, next, jobs, i_process, count, d, r, isInPause, seen, lost, environ>>

\* Process or UnProcess fails, some tasks of the block into it: setExit.
P_Fails(q) ==
  /\ p[q].pc = "visit"
  /\ \/ /\ Here(q).task_state = "NEW" /\ Fails("Process")
        /\ \E n \in 0..Len(Here(q).tasks) - 1 :
             Call({Here(q).tasks[k] : k \in 1..n}, "Process")
     \/ /\ Here(q).task_state = "UNDO" /\ Fails("UnProcess")
        /\ \E n \in Here(q).error_task_index..Len(Here(q).tasks) - 1 :
             Call({Here(q).tasks[k] : k \in Here(q).error_task_index + 1..n}, "UnProcess")
  /\ Gone(q, "EXITED")
  /\ UNCHANGED <<block, next, jobs, i_process, count, d, r, p, isInPause, jobOf,
                 phase, opened, lost>>

(* CheckMainPID fails: the distributor has ended, or is found dead and is    *)
(* marked.  Either way the caller leaves.                                  *)
MainGone == ~isRuning(DISTRIBUTE) \/ ~isOK(DISTRIBUTE)
LeaveOrphaned(x) ==
  /\ MainGone
  /\ state' = [state EXCEPT ![x] = "EXITED",
                            ![DISTRIBUTE] = IF isRuning(DISTRIBUTE) THEN "COREDUMP" ELSE @]
  /\ alive' = [alive EXCEPT ![x] = FALSE]
  /\ UNCHANGED <<cmd, stale>>

\* Mutant: a command number once changed stays so.
WrongProcessCmd(x) ==
  IF ~stale[x] /\ cmd[x] = "EXIT" THEN Gone(x, "EXITED")
  ELSE UNCHANGED <<state, cmd, stale, alive>>

(* process_cmd: nothing if the command number has changed since the pass     *)
(* began; else exit, or sleep.  The next pass begins.                      *)
process_cmd(x) ==
  IF ~stale[x] /\ cmd[x] = "EXIT" THEN Gone(x, "EXITED")
  ELSE stale' = [stale EXCEPT ![x] = FALSE] /\ UNCHANGED <<state, cmd, alive>>

\* The end of a pass: commands are looked at only if it had nothing to do.
P_Cmd(q) ==
  /\ p[q].pc = "cmd"
  /\ IF ~p[q].hadDoNothing
     THEN stale' = [stale EXCEPT ![q] = FALSE] /\ UNCHANGED <<state, cmd, alive>>
     ELSE IF MainGone THEN LeaveOrphaned(q) ELSE process_cmd(q)
  /\ P_Set(q, NewPass(next[q].process))
  /\ UNCHANGED <<block, next, jobs, i_process, count, d, r, isInPause, seen, lost, environ>>

\* doProcess, entered once the state is written.
Processing(q) ==
  /\ isRuning(q)
  /\ \/ P_Skip(q) \/ P_Process(q) \/ P_Done(q)
     \/ P_UnProcess(q) \/ P_Cancel(q) \/ P_Fails(q) \/ P_Cmd(q)

Processor(q) == alive[q] /\ (P_Run(q) \/ Processing(q))

-----------------------------------------------------------------------------
(* The rollup process: doRollup().  A pass visits every block of every      *)
(* process; one that found nothing to do looks for jobs to close.          *)

R_Leave ==
  /\ Gone(ROLLUP, "EXITED")
  /\ UNCHANGED r

\* On to the next block, or the next process, or to the end of the pass.
R_Next(s) ==
  r' = IF s.ii + 1 < MAX_PROCESS_TASK_BLOCK
       THEN [s EXCEPT !.pc = "visit", !.ii = @ + 1, !.j = (@ + 1) % MAX_PROCESS_TASK_BLOCK]
       ELSE IF s.i + 1 < MAX_PROCESS
       THEN [s EXCEPT !.pc = "visit", !.i = @ + 1, !.ii = 0, !.j = next[s.i + 1].rollup]
       ELSE [s EXCEPT !.pc = IF s.hadDoNothing THEN "main" ELSE "cmd", !.i = 0, !.ii = 0,
                      !.j = 0]

At == block[r.i][r.j]

R_Skip ==
  /\ r.pc = "visit"
  /\ At.task_state # "DONE"
  /\ R_Next([r EXCEPT !.isTaskRun = @ \/ At.task_state = "NEW"])
  /\ UNCHANGED <<pids, block, next, jobs, i_process, count, d, p, isInPause, seen,
                 lost, environ>>

\* Mutant: nextRollup runs off the end of the ring.
WrongVisited == next' = [next EXCEPT ![r.i].rollup = r.j + 1]

Visited == next' = [next EXCEPT ![r.i].rollup = (r.j + 1) % MAX_PROCESS_TASK_BLOCK]

\* After an error nothing is rolled up any more: the block is to be undone.
R_TurnBack ==
  /\ r.pc = "visit"
  /\ At.task_state = "DONE"
  /\ r.hadRollupError
  /\ Visited
  /\ r' = [r EXCEPT !.pc = "undo", !.hadDoNothing = FALSE, !.countFlag = @ + 1,
                    !.error = At.error_task_index]
  /\ UNCHANGED <<pids, block, jobs, i_process, count, d, p, isInPause, seen, lost, environ>>

(* The first n tasks of the block are rolled up: all of them, or the next    *)
(* one fails.  The job is opened if none of its tasks was rolled up before *)
(* (isNewRollup).  i_job is kept: the block's own is void once it is NULL. *)
R_Rollup(n) ==
  LET b == At
      j == b.i_job
  IN  /\ r.pc = "visit"
      /\ b.task_state = "DONE"
      /\ ~r.hadRollupError
      /\ n \in 0..Len(b.tasks)
      /\ IF n = Len(b.tasks) THEN UNCHANGED environ ELSE Fails("Rollup")
      /\ Visited
      /\ opened' = IF job[j].c_rollup = 0 THEN Append(opened, job[j].info) ELSE opened
      /\ Call({b.tasks[k] : k \in 1..n}, "Rollup")
      /\ job' = [job EXCEPT ![j].c_rollup = @ + n]
      /\ count' = [count EXCEPT ![j] = @ + n]
      /\ r' = [r EXCEPT !.pc = IF n = Len(b.tasks) THEN "null" ELSE "undo",
                        !.hadDoNothing = FALSE, !.i_job = j, !.error = n % Len(b.tasks),
                        !.hadRollupError = n < Len(b.tasks),
                        !.countFlag = IF n < Len(b.tasks) THEN @ + 1 ELSE @]
      /\ UNCHANGED <<pids, block, size, idle_i, count_job, i_process, d, p, isInPause,
                     jobOf, phase, lost>>

R_OpenFails ==
  /\ r.pc = "visit"
  /\ At.task_state = "DONE"
  /\ ~r.hadRollupError
  /\ job[At.i_job].c_rollup = 0
  /\ Fails("OpenJob_Rollup")
  /\ Visited
  /\ R_Leave
  /\ UNCHANGED <<block, jobs, i_process, count, d, p, isInPause, seen, lost>>

R_Undo ==
  /\ r.pc = "undo"
  /\ block' = [block EXCEPT ![r.i][r.j].task_state = "UNDO",
                            ![r.i][r.j].error_task_index = r.error]
  /\ R_Next([r EXCEPT !.error = 0])
  /\ UNCHANGED <<pids, next, jobs, i_process, count, d, p, isInPause, seen, lost, environ>>

\* Mutant: the block is not freed.
WrongNull ==
  /\ r.pc = "null"
  /\ r' = [r EXCEPT !.pc = "check"]
  /\ UNCHANGED <<pids, block, next, jobs, i_process, count, d, p, isInPause, seen, lost, environ>>

\* The block is free again, for the distributor to fill at once.
R_Null ==
  /\ r.pc = "null"
  /\ block' = [block EXCEPT ![r.i][r.j].task_state = "NULL"]
  /\ r' = [r EXCEPT !.pc = "check"]
  /\ UNCHANGED <<pids, next, jobs, i_process, count, d, p, isInPause, seen, lost, environ>>

isRollupEnd(j) == job[j].isDistributeEnd /\ job[j].c_distribute = job[j].c_rollup
MayClose(j) == job[j].isUsed /\ isRollupEnd(j)

\* Mutant: the private count of the slot survives its job.
WrongCloseIfNeed(j) ==
  IF MayClose(j)
  THEN /\ job' = [job EXCEPT ![j].isUsed = FALSE]
       /\ count_job' = [count_job EXCEPT !.close = @ + 1]
       /\ phase' = [phase EXCEPT ![job[j].info] = "closed"]
       /\ UNCHANGED count
  ELSE UNCHANGED <<job, count, count_job, phase>>

(* rullup_closejob_if_need: CloseJob_Rollup and SetIdle.  The fields are     *)
(* read one after the other, but while isUsed is set only this process     *)
(* clears it and c_distribute is final once isDistributeEnd is set.        *)
CloseIfNeed(j) ==
  IF MayClose(j)
  THEN /\ job' = [job EXCEPT ![j].isUsed = FALSE]
       /\ count' = [count EXCEPT ![j] = 0]
       /\ count_job' = [count_job EXCEPT !.close = @ + 1]
       /\ phase' = [phase EXCEPT ![job[j].info] = "closed"]
  ELSE UNCHANGED <<job, count, count_job, phase>>

R_Check ==
  /\ r.pc = "check"
  /\ CloseIfNeed(r.i_job)
  /\ R_Next([r EXCEPT !.i_job = 0])
  /\ UNCHANGED <<pids, block, next, size, idle_i, i_process, d, p, isInPause,
                 stage, jobOf, opened, lost, environ>>

\* A pass that did nothing: is the distributor there?
R_Main ==
  /\ r.pc = "main"
  /\ IF MainGone
     THEN LeaveOrphaned(ROLLUP) /\ UNCHANGED r
     ELSE UNCHANGED pids /\ r' = [r EXCEPT !.pc = "empty"]
  /\ UNCHANGED <<block, next, jobs, i_process, count, d, p, isInPause, seen, lost, environ>>

\* Mutant: jobs are closed only after one of their blocks.
WrongEmptyJob ==
  /\ r.pc = "empty"
  /\ r' = [r EXCEPT !.pc = "cmd"]
  /\ UNCHANGED <<pids, block, next, jobs, i_process, count, d, p, isInPause, seen, lost, environ>>

\* ... and the jobs that ended with nothing left to roll up, slot by slot.
R_EmptyJob ==
  /\ r.pc = "empty"
  /\ CloseIfNeed(r.i)
  /\ r' = [r EXCEPT !.i = (@ + 1) % MAX_JOB, !.pc = IF r.i + 1 < MAX_JOB THEN "empty" ELSE "cmd"]
  /\ UNCHANGED <<pids, block, next, size, idle_i, i_process, d, p, isInPause,
                 stage, jobOf, opened, lost, environ>>

allCountFlag == MAX_PROCESS * MAX_PROCESS_TASK_BLOCK

R_CloseFails ==
  /\ \/ r.pc = "check" /\ MayClose(r.i_job)
     \/ r.pc = "empty" /\ MayClose(r.i)
  /\ Fails("CloseJob_Rollup")
  /\ R_Leave
  /\ UNCHANGED <<block, next, jobs, i_process, count, d, p, isInPause, seen, lost>>

(* The end of the pass.  When, after an error, every block has been turned   *)
(* back, the process ends; commands wait for the tasks being processed.    *)
R_Cmd ==
  /\ r.pc = "cmd"
  /\ IF r.hadDoNothing /\ r.hadRollupError /\ r.countFlag = allCountFlag
     THEN R_Leave
     ELSE /\ IF r.isTaskRun
             THEN stale' = [stale EXCEPT ![ROLLUP] = FALSE] /\ UNCHANGED <<state, cmd, alive>>
             ELSE process_cmd(ROLLUP)
          /\ r' = [r EXCEPT !.pc = "visit", !.j = next[0].rollup, !.isTaskRun = FALSE,
                            !.hadDoNothing = TRUE]
  /\ UNCHANGED <<block, next, jobs, i_process, count, d, p, isInPause, seen, lost, environ>>

Rollup ==
  /\ alive[ROLLUP]
  /\ \/ R_Skip \/ R_TurnBack \/ (\E n \in 0..MAX_BLOCK_TASK : R_Rollup(n))
     \/ R_OpenFails \/ R_Undo \/ R_Null \/ R_Check \/ R_Main \/ R_EmptyJob
     \/ R_CloseFails \/ R_Cmd

-----------------------------------------------------------------------------
\* SetCommondPause, SetCommondExit and SetCommondContiue, from outside.
Operator(c) ==
  /\ commands < MaxCommand
  /\ commands' = commands + 1
  /\ cmd' = [cmd EXCEPT ![DISTRIBUTE] = c]
  /\ UNCHANGED <<state, stale, alive, block, next, jobs, i_process, count, d, r, p, isInPause,
                 seen, lost, faults>>

\* A process is killed or dumps core, wherever it is.
Crash(x) ==
  /\ alive[x]
  /\ Fails("crash")
  /\ alive' = [alive EXCEPT ![x] = FALSE]
  /\ UNCHANGED <<state, cmd, stale, block, next, jobs, i_process, count, d, r, p,
                 isInPause, seen, lost>>

Next ==
  \/ alive[DISTRIBUTE] /\ Distributor
  \/ \E q \in Proc : Processor(q)
  \/ Rollup
  \/ \E c \in Command : Operator(c)
  \/ \E x \in PID : Crash(x)

Spec == Init /\ [][Next]_vars

(* What the progress properties assume: every process that lives is         *)
(* scheduled (a sleep ends by itself), and the application ends its jobs.  *)
Fairness ==
  /\ WF_vars(alive[DISTRIBUTE] /\ Distributor)
  /\ SF_vars(alive[DISTRIBUTE] /\ D_CloseJob)
  /\ WF_vars(Rollup)
  /\ \A q \in Proc : WF_vars(Processor(q))

FairSpec == Spec /\ Fairness

-----------------------------------------------------------------------------
Promise == INSTANCE TaskPipeline WITH Again <- Fault \cap {"Process", "UnProcess"}
\* The server keeps the promise of TaskPipeline through every interleaving of
\* its processes, their deaths and the application's errors: no task is
\* processed or rolled up twice, or both rolled up and undone, no job is opened
\* twice or closed while one of its tasks is still to be rolled up.  (A process
\* that failed and was started again goes through its block again.)
ImplementsPipeline == Promise!Spec

Occupied == {pos \in Proc \X Slot : block[pos[1]][pos[2]].task_state # "NULL"}
TasksAt(pos) == Range(block[pos[1]][pos[2]].tasks)
Holding(k) == {pos \in Occupied \union BlockInHand : k \in TasksAt(pos)}

\* No task is ever in two blocks, be it on their way or being filled: the
\* distributor fills only free blocks although it looks at them without a lock.
\* A task that is distributed and neither rolled up nor undone is in one, except
\* for those lost with the blocks of a dead process, which CheckChild clears, and
\* those of the block in hand when isJobEnd or DistributeTask reports an error.
\* (The block the distributor was filling when it died still holds its tasks,
\* though it will never be handed over.)
TaskInOneBlock ==
  \A k \in DOMAIN stage :
    /\ Cardinality(Holding(k)) <= 1
    /\ Last(k) \in {"none", "Process"} /\ k \notin lost => Holding(k) # {}

\* While a block is on its way its job's slot is in use and still that job's:
\* the slot is not closed and given to another job under it, so that the tasks
\* are counted for, and processed with the data of, their own job.
BlockKeepsJob ==
  \A pos \in Occupied :
    LET b == block[pos[1]][pos[2]]
    IN  (\E k \in TasksAt(pos) : k \notin lost /\ Last(k) # "Rollup") =>
          /\ job[b.i_job].isUsed
          /\ \A k \in TasksAt(pos) : jobOf[k] = job[b.i_job].info

\* AddRollupCount ends the rollup process when its private copy of c_rollup is
\* not the shared one: the copy survives in the process while the distributor
\* resets the slot for the next job, and still they never differ.
RollupCountAgrees ==
  \A j \in Job : job[j].isUsed => count[j] = job[j].c_rollup

\* Every job that is not closed has a slot of its own, and the slots in use are
\* the jobs opened and not closed (what the code checks as "job计数").
JobKeepsSlot ==
  /\ \A i \in DOMAIN phase :
       phase[i] # "closed" => Cardinality({j \in Job : job[j].info = i}) = 1
  /\ count_job.open - count_job.close = Cardinality({j \in Job : job[j].isUsed})

Exited == \A x \in PID : ~alive[x]

\* While nobody is killed, every task distributed is rolled up in the end,
\* whatever the pauses and an exit do in between.
TasksFinish ==
  \A k \in 1..MaxTask :
    (k \in DOMAIN stage) ~> (faults > 0 \/ (k \in DOMAIN stage /\ Last(k) = "Rollup"))

\* While the server is not told to exit, an ended job is closed in the end, one
\* without tasks, and one whose last task was rolled up before it ended, included.
JobsClose ==
  \A i \in 1..MaxJob :
    (i \in DOMAIN phase /\ phase[i] = "ended")
      ~> (faults > 0 \/ cmd[DISTRIBUTE] = "EXIT" \/ (i \in DOMAIN phase /\ phase[i] = "closed"))

\* An exit that is not taken back ends every process, unless one is killed.
ExitEnds ==
  (cmd[DISTRIBUTE] = "EXIT") ~> (Exited \/ faults > 0 \/ cmd[DISTRIBUTE] # "EXIT")

\* No half of the server outlives the other: a child that is killed once it
\* runs, or the distributor wherever it is, brings all the processes down, the
\* idle ones and those that wait for tasks to finish included.
DeathStops ==
  ((\E x \in Child : ~alive[x] /\ isRuning(x)) \/ ~alive[DISTRIBUTE]) ~> Exited

\* The comment at myMultiProcessServer.h:403: a process whose commands changed
\* since its pass began goes round again first.  So the rollup, which exits only
\* after a pass that found nothing more to close, leaves no ended job behind
\* when the server has been ended without an error.
ExitClosesJobs ==
  (Exited /\ faults = 0) => \A i \in DOMAIN phase : phase[i] = "closed"

=============================================================================
