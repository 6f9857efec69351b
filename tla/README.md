# A TLA+ development of ctfc

ctfc is a C++ library for servers that keep their data in System V shared
memory: containers that several processes attach to, the locks that guard them,
a multi-process task server that divides work among forked processes, and an
HTTP server that gives each connection to a thread or a forked child. This directory models
the parts of it in which processes and threads meet, checks the models with TLC
on small instances, and proves for any number of processes and threads the
safety of seven of them: both locks, the task server, the hash table, the balanced
tree, the shared array and the socket server.

Paths below are relative to the repository (`src/...`). Line numbers of every
definition are in `PROJECT.json` under `map`.

## 1. The system

### 1.1 Components and what makes them correct

| Component | State | Operations | Correct when | Here |
|---|---|---|---|---|
| `CAtomicRWMutex` (`function/mymutex2.h`), as `CMyShmMutex` the lock of every container, of the log and of the HTTP server | in shared memory `flag`, `OnW`, `R_count`, `W_wait`; in each process an object with two counters and a record per thread | RLock, WLock, TryRLock, TryWLock, RUnLock, WUnLock, ingore, enable | writers exclude everybody; counters say who holds; an announced writer gets in | `AtomicRWMutex`, proved |
| `CSemRWMutex` (`function/mymutex1.h`), as `CMyRWMutex` the lock of the registry and of the task server | a set of four semaphores, the kernel's undo of each process; an object as above | the same | the same, and a dead process's share is given back | `SemRWMutex`, proved |
| `CMultiProcessServer` (`shmfc/myMultiProcessServer.h`) | rings of task blocks, job slots, a state and command per process, all in shared memory | distribute, process, roll up, undo, commands, deaths | every task processed once, rolled up once or undone; jobs closed when complete; the server stops when it must | `MultiProcessServer`, safety proved |
| `T_SHM_HASH` (`shmfc/shmHash.h`) on `T_MULTI_LIST` (`shmfc/shmMultiList.h`) | list heads, nodes, three counters of an extension, a helper thread per process | AddData, GetData, Extend, the helper's move | lookups exact while entries move; nothing lost or doubled | `ShmHash`, safety proved while every list head is made |
| `T_ARRAY` (`shmfc/shmArray.h`) and the map of its blocks (`shm_private_data`, `shmfc/shmEnv.h`) | size, capacity, the shared list of blocks; each process's map of them with its mutex | Add, Reserve, Clear, dereference, attach, detach | a handle means the same cell in every process | `ShmArray`, safety proved for one adding process |
| `T_SHMSET` (`shmfc/shmSet_NoMutex.h`, behind `shmSet_Mutex.h`, `shmMap_NoMutex.h`) | AVL nodes with handles, a free list through the same nodes, the head | insert, erase, find, bounds, iterators, rebuild, repair | ordered, balanced, no node lost or in two places, handles stay | `ShmSet`, proved |
| List sets, pools, LRU cache (`shmListSet*.h`, `shm*Pool*.h`, `shmLRU.h`) | built from the two above | | | not modelled |
| Registry and managed mutexes (`shmEnv.*`, `semmgr.h`) | a fixed table of names, ids and locks | register, find, delete under `ShmEnvLock` | one name, one slot, one lock | not modelled |
| `CWorkerThread`, `LockedList` (`function/`) | a flag, a condition variable, a queue | activate, work, pop | nothing queued is left lying | not modelled |
| `CThread`, `CThreadPool` (`httpd/myThread.*`) | command and state under a condition variable | create, run, exit, find idle | a job given is run once | not modelled |
| `CSocketServer` (`httpd/mysocketserver.h`) | child slots, commands, the accept lock, both listening ports | accept, make a child, collect it, pause, shut down, set the limit | no slot used twice, one left to the administrator, commands obeyed | `SocketServer`, safety proved |
| HTTP, TLS, sockets, script interpreter, templates, value types, console | sequential string handling, system calls, menus | | | not modelled |
| `src/src/apps`, the MFC script editor, build files | vendored or outside the core | | | not modelled |

`PROJECT.json` lists every component with its files and the reason it is not
modelled when it is not.

### 1.2 How they interact

The containers attach to named pieces of shared memory through the registry
(`shmEnv`), which also hands out the `mySEM` of each managed mutex. A container
call takes the container's `CMyShmMutex`, works on its `T_ARRAY`, and returns a
handle or a pointer. The hash table's helper thread takes the same mutex once
for each bucket it moves. The task server keeps its own shared memory; it takes
`m_sync` only for reading, so its processes work side by side without any
exclusion and rely on the order of their writes. In the socket server the main
loop and, when children are processes, the children take turns in accept under a
`CMyShmMutex` in the shared control block; `Start` chooses threads, and the code
for processes stands beside it.

### 1.3 What is hard here

* Interleavings of processes that share memory with one lock (hash table), or
  in effect with none (task server).
* Processes that die with a lock, a half-filled block or a half-moved bucket in
  hand. The semaphore lock is undone by the kernel, the atomic one is not.
* Calls in two parts: a writer announces itself and then takes the lock; a
  command is written in two words and read in two words; the helper moves a
  bucket entry by entry.
* Pointers and job numbers that are used after the lock or the block they were
  read from has been given back.
* Rings, slots and counters that wrap, and slots that are used again.
* Memory that every process maps elsewhere: each keeps a map of its own beside
  the shared list, read without a lock by all its threads.
* Work that must end: waiting writers, undone blocks, ended jobs, exits,
  shutdown.

`PROJECT.json`, under `hazards`, has the main ones at their lines, with the
properties that watch them, or a note when none does. Smaller ones, of parts that
wait for a module or that nothing is promised about:

* a block that cannot be connected is answered by an exception thrown with
  `thread_mutex` locked (`shmArray.h:208`): the other readers of that process then
  wait for ever, which `ReadsReturn` names as its exception;
* a registered lock constructed anew under processes attached to it
  (`shmEnv.cpp:748`, `mymutex2.h:322`); its counters displayed without the flag
  (`mymutex2.h:491`);
* look and pop of a queue in two sections (`LockedList.h:61`); a pool's search
  that gives up after one wait (`myThread.cpp:328`);
* the task server's order between blocks (`myMultiProcessServer.h:1447`), a wake-up
  that may be lost and costs a bounded sleep (`:381`), check sums (`:1453`, off by
  default), a leftover process of a slot (`:1438`);
* Extend's and the destructor's treatment of a thread that is not there, or not
  joined (`shmHash.h:292`, `:61`), both ends of the process;
* children left unwaited after a failed fork (`myMultiProcess.h:46`); a negated
  smallest hash (`shmListSetGroup.h:40`).

## 2. The modules

| Module | Content |
|---|---|
| `RWLock` | abstract: readers, one writer, announced writers, threads whose share is given back |
| `AtomicRWMutex` | the lock in shared memory, implements `RWLock` |
| `AtomicRWMutexProofs` | theorems about it |
| `SemRWMutex` | the lock on semaphores, implements `RWLock` |
| `SemRWMutexProofs` | theorems about it |
| `TaskPipeline` | abstract: what the task server promises its application |
| `MultiProcessServer` | the task server, implements `TaskPipeline` |
| `MultiProcessServerProofs` | theorems about it |
| `EntryStore` | abstract: a bag to which entries are added |
| `ShmHash` | the hash table with its lists, implements `EntryStore` |
| `ShmHashProofs` | theorems about it |
| `KeySet` | abstract: a set of keys with its walks and searches |
| `ShmSet` | the balanced tree and its free list, implements `KeySet` |
| `ShmSetTrees` | lemmas: what rotations, insertion and erasure do to a tree |
| `ShmSetProofs` | theorems about it |
| `GrowingArray` | abstract: one array that grows |
| `ShmArray` | blocks, the shared list of them and the private maps, implements `GrowingArray` |
| `ShmArrayProofs` | theorems about it |
| `ServicePool` | abstract: children in places, one place left to the administrator |
| `SocketServer` | the main loop, the child slots and the children, implements `ServicePool` |
| `SocketServerProofs` | theorem about it |
| `MCxxx` | values of the constants for TLC, nothing else |

Composition follows the code. `AtomicRWMutex` and `SemRWMutex` are shown to
implement one abstract lock, and the components that take a lock are modelled
over that promise rather than over its implementation: in `ShmHash` a call under
the mutex is one step because a writer excludes everybody, which is
`MutualExclusion`. The helper of the hash table is not: it may be killed in the
middle of a bucket, so it is a step per entry and holds `lock` between them. In `ShmArray`
the writers' lock is such a variable too, because Reserve is several writes that
readers without the lock can see, and in `SocketServer` `m_sem` is, because a
child that is a process can be killed with it in hand. `ShmSet` is sequential: every operation
runs under the container's lock, and a step is a whole call.

### 2.1 AtomicRWMutex

`flag`, `OnW`, `R_count` and `W_wait` are the fields of `mySEM`; `thread_data`
is what `getThreadData()` gives a thread; `count_RLock` and `count_WLock` are the
object's counters. Every access to the three counters lies between `_Lock()` and
`_UnLock()`, so a section is two steps: taking the flag (`_Lock`) and the body
with the release. WLock is two sections (`WLock_Announce`, `WLock_Enter` or
`WLock_Refused`), and between them, as in the code, a reader may look at the
counters and another writer may get in. A blocked caller leaves the flag, and comes
back to `_Lock`. TryRLock and TryWLock are the same calls with `noWait`.
`SetIngore` is ingore() and enable(), given from the console with nothing
locked through that object. `Crash` stops a thread anywhere, flag or lock in
hand; nothing is undone. A second lock by a thread that already holds one, and
an unlock without a lock, are refused by a safe object (`isSafe`) before
anything is touched; the guards say so, and the containers keep to them with
objects that are not safe. Attach, Detach, Create and Reset are set-up and
not modelled.

### 2.2 SemRWMutex

`sem` holds the four semaphores, `semadj` what the kernel will add back for
each process. A `semop` is atomic in the kernel, so each is one step (`Possible`
is the condition under which it does not block). WLock is two semops, TryWLock
one more when it is refused (`WLock_Eagain`, then `WLock_Withdraw`). A signal
may end a blocked call (`RLock_Fail`, `WLock_Eintr`): WLock then returns false
with its announcement standing, which `interrupts` counts. `Die` ends all the
threads of a process wherever they are and applies its undo; the process
that starts in its place attaches anew.

### 2.3 MultiProcessServer

`block` is `m_taskblocks`, `job` the slots of `JOBINFOS_T`, `state`, `cmd` and
`stale` the `PID_DATA` of each process (`stale` says that `cmd_seq` was raised
since the process's pass began, which is all the code asks of the number).
`d`, `r` and `p` are program positions. The steps follow the order of writes to
shared memory:

* the distributor (`D_...`): commands to the children in two writes
  (`D_SetCmd`, `D_SetCmdSeq`), CheckChild, the wait for all tasks, pause, exit,
  opening a job in a reset slot (`D_OpenJob`, `D_ResetJob`, `D_UseJob`),
  finding a free block and emptying it (`D_Find`), filling it task by task
  (`D_Task`), handing it over by writing its state (`D_HandOver`) or leaving it
  empty (`D_Drop`), starting a process (`D_Create`, `D_Created`), ending a job
  (`D_CloseJob`), the errors of the application (`D_Fails`, which may come while
  a block is half filled: its tasks are distributed and counted, and go to `lost`);
* a process (`P_...`): a pass over its ring from `nextProcess`, a block
  processed, undone or turned back, the command at the end of a pass (`P_Run` writes STATE_RUN in the
  forked child before `doProcess` is called, which is `Processing`);
* the rollup (`R_...`): a pass round robin over the rings, a block rolled up,
  turned back after an error, its job counted and closed, the idle pass over
  jobs without blocks, the command;
* `Operator` gives a command from outside; `Crash` kills any process.

The application is an environment: how many tasks, which hash, which method
fails, and a record (`stage`, `jobOf`, `phase`, `opened`) of the methods called, which
is the state of `TaskPipeline`. Left out: check sums, CPU binding, timers,
displayed counts, the key that tells a leftover process of a slot from the new
one, failure of fork. CheckChild's scan of the processes is one step and so is
the processing of a block; the distributor's wait for a free block
(FindIdelTaskInfo) is not told apart from the loop around it, which makes the same
checks; `c_distribute` is raised in the step that distributes the task (nobody reads
it before `isDistributeEnd` is set).

### 2.4 ShmHash

`head` is `HASH_HEAD`, `m_hashs` the array of list heads with the memory behind
it, `m_datas` the nodes with explicit `hNext`. A call under the mutex is one
step (`AddData`, `GetData`, `Extend`); Extend's join is a second
(`Extend_Join`). The helper is `Move_Begin` (the mutex taken, the first bucket
with a list found), `Move_Keep` or `Move_One` for each entry, `Move_End` (the
bucket counted, the mutex released), `Move_Exit`. Each attached process may
have a helper of its own; all go on from the shared `head`. `Leave` is the end of
a process at any moment, killed or by its destructor (which always ends in
`std::terminate` once a helper has been started, because the flag that should
stop it is never read), and the mutex stays taken if the helper was inside.
A key is its own hash. `Nodes(h, stop)` is what a walk from `h` meets before `stop`: as
many links as there are nodes, so that it is also defined for a list that
closes on itself, which the code would walk for ever (`Endless`).
clear, the failure to allocate list heads and the
user's writes through the returned pointer are not modelled.

### 2.5 ShmSet

The tree is a record of functions, one for each field of `T_TREE_NODE_STRUCT`
(`hLeft` and `hRight` are one function `child` of the side, so the two halves of
every pair of mirrored functions in the code are one definition), with the head's
`hHead`, `free_head` and `size`. Free cells are chained
through the parent link from the head's free list, as in the code, so one link
serves two structures. `Linked`, `Rotate`, `Balance` and `Inserted` are the code of insertion
from the leaf to the root, `Unlinked`, `Moved`, `Replaced` and `Shrunk` that of
erasure, which replaces a node with two children by relinking its predecessor
and not by copying. The code's recursive calls are recursive functions with the
same cases: what stands before the call is the choice of the argument, what
stands after it (`Grown`, `Shrunk`) is applied to the value. `Step` is the
iterator's ++ and --, `Bound` lower_bound and upper_bound, `Layer`, `Part` and
`Rebuilt` the fast rebuild, which also is repair: `Part` halves the sorted nodes
until a node is the middle one, as FastRebuild__SetNode does. The calls
are the actions: `Insert`, `Insert_Full`, `Erase`, `DeleteAndMoveNext`, `Clear`, `Repair`.
Left out: the flags with the incremental export, repair of a set without live
nodes (see 3.3), loading from files, and the data beside the key.

### 2.6 ShmArray

`capacity`, `size` and `vmaps` are the shared head, `cell` the memory of the
blocks, which are named by their number; `shm_addr_map` and `addr_map_size` are the
private map of each process, `thread_mutex` its mutex. A dereference is the code
of `operator->` in steps: `Find` (the block in the shared list, and the test outside
the mutex), `Lock` (the mutex, and the test again), `Connect` for each block,
`Connected`, `Use`; `Throw` is the refusal of the system, with the mutex left
locked. Add is a call under the container's lock in the order of its writes: `Add`, `Add_Room` or
`Reserve`, `Reserve_Vmap`, `Reserve_Capacity`, then the dereference that writes
the element, then `Add_Count`. `Reserve` tries as much again as there is and then halves, as
long as more than one cell would be left. `Attach`, `Detach` and `Kill` come between any two
steps. Left out: arrays in private memory (one block, copied when it grows),
`Adds_block`, `SetSize`, loading and saving, and the arrays that refuse to grow.

### 2.7 SocketServer

`childs` are the slots of `SocketServerData`, `m_sem` the holder of the accept lock,
`main` the main loop's place and locals, `child` each child's place. The `Svr_...`
actions are `SvrAccept` and the loop around it in order: collect the ended
children, count, take the turn of the other port (`Svr_Turn`), look and poll (`Svr_Admin`,
`Svr_User`, `Svr_Poll`), choose a slot (`Svr_AddChild`), make a process (`Svr_Fork`, then
`Svr_Store`: the child runs before its pid is stored) or a thread (`Svr_Number`, then
`Svr_Create`: the number is stored before the thread is there), look at the commands
(`Svr_Check`), wait for all (`Svr_WaitAll`). `MultiProcessMode` is a variable that
never changes, so that one run has both modes. A child serves (`Child_Command` is a
request that is a command), leaves or goes on to compete for the lock (`Child_WLock`,
`Child_Accept`), or is killed. Two ways in which a slot is never
emptied are modelled and recorded in `lost`: a thread that cannot be created
(the result of `CreateAndRunOnce` is not looked at) and a pid that the system
has given away between `waitpid` and `kill(pid, 0)`. The thirty seconds the parent waits for its child are not
a step: it goes on in either case. Left out: names and reports, the check of the admin
process (the server has stored its own pid there), and `isPaused`, which nobody calls.

## 3. The runs

| Run | Instance | What it shows |
|---|---|---|
| `lock_atomic` | 3 threads, 2 objects, 1 death | exclusion, exact counters, the object's counters, refinement of `RWLock`, progress of writers and readers |
| `lock_sem` | 3 threads, 2 processes, deaths without bound, 1 interrupted WLock for each life of a process | exclusion, exact undo, refinement, progress |
| `mps_slots` | 2 slots, 3 jobs, 2 processes with 1 block each, hash -1 and 1 | a slot closed by one process and reused by another while the other job goes on; division by hash over two rings |
| `mps_fail` | 1 process, a ring of 2 blocks of up to 2 tasks, one fault: a death or an error of any of seven methods, also between two tasks of one block | no task in two blocks or out of all of them but for the named exceptions, nothing doubled or closed incomplete after errors and deaths |
| `mps_live` | 1 process, 1 block, 2 tasks, pause or exit, 1 death | tasks finish, jobs close, exit ends, although a task may have to wait for the block of another; deaths are noticed |
| `mps_exit` | 2 slots, 2 jobs | finding 1 |
| `hash_table` | 2 processes, keys 0, 1, 3, 6 nodes, from 1 bucket to 4 | lists whole, lookups exact, pointers good, extension carried out |
| `hash_unmade` | 4 buckets, 10 entries in the first | finding 2 |
| `set_tree` | 4 keys in 3 or 4 cells with every sequence of calls; 5 keys in every order; erasures from the leanest trees of 5 layers | ordered and balanced, no cell lost or doubled, walks and searches exact, handles stay, behaves as a set |
| `array_map` | a process that adds, two reading threads in another, 3 blocks (1, 1 and 2 cells) | private maps agree with the shared list, one array for all, readers get through |
| `array_restart` | one process that adds, leaves and comes back | finding 3 |
| `socket_server` | 3 slots, 3 processes or threads, the limit set to 2 or 3, one slot lost | no slot used twice, a place for the administrator, shutdown and pause obeyed |

### 3.1 Why the bounds are enough

* Locks: three threads are the least with a holder, a waiting writer and a
  competitor of either kind; two in one process and one in another tell what
  is per process from what is per thread. One death in `lock_atomic` covers a
  death at every place; a second only leaves fewer threads.
* Task server: `mps_slots` needs a third job to reuse a slot while another is
  in use, and two processes are the least the round robin and the hash can
  choose between. A ring of two blocks (`mps_fail`) makes the three ring positions
  differ and wrap, and two tasks in a block (`mps_fail`) leave room for an error or a
  death while it is half filled. Two tasks for one block (`mps_live`)
  make the distributor wait for it and refill it. That a block is refilled with a task
  of another job while the rollup still works with the number it kept is within no
  run, and is proved (`BlocksKeepJob`, `RefinesPipeline`). The dimensions are spread
  over the runs because together they leave TLC's reach: two slots and a ring of two
  blocks, or two tasks for each of two processes, do not meet in one run. What the
  safety of this server is worth beyond these sizes is proved (4.3).
* Hash table: from one bucket the table is extended twice within six nodes,
  so that a helper meets buckets already moved and not, and keys 0, 1 and 3 go to
  each of the places a move can put them. The odd keys are there from the
  beginning, which makes every list head before it is used: with the code's four
  buckets the heads need not be made, and the table fails as
  `hash_unmade` shows. That run uses the code's own first size and the least
  number of entries that extends it.
* Set: four keys in fewer cells than keys reach every shape of three layers,
  a full set and the reuse of freed cells. The rotations that only
  erasure needs, and the chains of them, start from the leanest trees of five
  layers, where one erasure can shorten every layer.
* Array: two extensions are the least after which a thread can find the
  mutex with nothing left to do and another thread come to it again; the third
  block has two cells, so that a handle is not the place in its block. Two
  threads compete for the mutex of their process. The maximal number of blocks is not
  reached: memory ends first, and what happens at the last block is in 3.3.
* Socket server: three slots are the least with two user children that compete
  for the accept lock while one place is left to the administrator. Numbers are given
  out from the lowest, so that they are used again at once.
* Deadlock is checked only for `lock_sem`. The others may really stop: all
  threads dead or waiting for a dead one, a server that has exited, a table
  that is full, an array whose lock died with its writer.

### 3.2 Fairness

* `AtomicRWMutex`: weak fairness of the body of a section and of a holder's
  unlock, both of which nothing else can prevent; strong fairness of `_Lock`, since
  `test_and_set` in a loop that yields meets the flag clear again and again.
  Progress is promised only while nobody has been killed: a dead holder blocks
  this lock for ever, and the properties say so.
* `SemRWMutex`: weak fairness of a semop that stays possible and of a
  holder's unlock, and deaths that cease. Here progress holds through deaths. A
  reader is kept out by the announcement of an interrupted WLock while its
  process lives; `ReadersProgress` names that exception.
* `MultiProcessServer`: weak fairness of every living process (all sleeps are
  bounded), and strong fairness of the application ending its jobs, because a
  distributor that may always distribute one more task need not end a job.
* `ShmHash`: weak fairness of the helper and of the join. The calls are single
  steps that leave the mutex free, so the helper is always able to go on unless
  a process dies inside.
* `ShmArray`: weak fairness of a reader's dereference, and strong fairness of
  taking `thread_mutex`, which others take and give back. Nothing is
  assumed of writers, of attaching or of the system's answers.
* `SocketServer`: weak fairness of the main loop, none of whose calls blocks, of
  accept (300 seconds at most) and of `SocketProcess` once it has to end, which
  it tests every second (`src/httpd/myhttpserver.h:835`) and which assumes that a
  request handler returns; strong fairness of the accept lock, which is
  `WritersProgress` of `AtomicRWMutex`. Requests may last for ever otherwise, and commands need
  never come.

### 3.3 Findings

1. `mps_exit`: `setCmd` writes the command before its number and `process_cmd`
   reads the number before the command. A rollup in the middle of a pass sees the
   old number with CMD_EXIT and leaves, and an ended job is never closed.
2. `hash_unmade`: the helper walks the heads of all old buckets, made or not;
   an unmade head is zero, which is node 0. Two of them make node 0 its own
   successor, and the helper never gives the mutex back.
3. `array_restart`: Reserve stores the new block at the index of the shared
   list and counts the private map up by one, whatever it had counted. A process that
   attaches to a full array of several blocks and adds to it before it has
   dereferenced anything has a map with a hole that is never filled, and a later
   dereference of a handle in that block goes through address 0. `T_SHMSET`'s insert
   reserves before anything else (`shmSet_NoMutex.h:1684`), so it can happen there. In
   `array_map` only one process adds and it does not come back, and the map agrees.

Met while modelling, without a run of their own:

* Task server: a child killed before it has reported STATE_RUN is waited for in a
  loop that checks nothing (`myMultiProcessServer.h:1154`); a process whose Process()
  failed is started again by the next block and goes through the same block again
  (`:1121`; `TaskPipeline` allows it through `Again`); after an error of Rollup with a
  ring that is not full the server cannot be told to exit, because blocks that were
  never filled are not counted as turned back (`:1411`).
* Hash table: empty buckets are passed over without being counted, so the helper
  may return as finished with `bucket_moved` short of `old_bucket_count`, and the
  table is never extended again (`shmHash.h:238`); Extend on a table that needs no
  extending joins a thread that was never started (`:292`).
* Set: repair of a set whose nodes are all deleted returns before the free list is
  reset, with the array's size at 0: the next two insertions get the same cell
  (`shmSet_NoMutex.h:1653`); setting one flag clears the others (`:40`).
* Array: the private map refuses its last entry while the shared list may use it
  (`shmEnv.h:63`), so the hundredth block is made and never connected.
* Cache: with a single entry the replaced node is linked to itself (`shmLRU.h:131`).
* Socket server: a child process that has waited 300 seconds in vain calls
  SocketProcess with the connection it had closed, where the message beside says that it
  leaves (`mysocketserver.h:424`); a pause cannot be taken back, since nothing clears
  `cmd_bPause`; after a failed fork the main loop ends without telling the children.

## 4. What is proved

Every theorem holds for every value of the constants that the named assumptions
of its module allow, and each assumption is evaluated by a run.

| Module | Theorem | Statement |
|---|---|---|
| `AtomicRWMutexProofs` | `TypeCorrect`, `MutualExclusion`, `CountersAreExact`, `ObjectCountersAreExact` | `Spec => []Inv` for `TypeOK`, `Exclusion`, `CountersExact`, `ObjectCountersExact` |
| | `RefinesRWLock` | `Spec => ImplementsRWLock` |
| `SemRWMutexProofs` | `TypeCorrect`, `MutualExclusion`, `UndoIsExact` | `Spec => []Inv` for `TypeOK`, `Exclusion`, `UndoExact` |
| | `RefinesRWLock` | `Spec => ImplementsRWLock` |
| `MultiProcessServerProofs` | `TypeCorrect`, `TasksInOneBlock`, `BlocksKeepJob`, `CountsAgree`, `JobsKeepSlots` | `Spec => []Inv` for `TypeOK`, `TaskInOneBlock`, `BlockKeepsJob`, `RollupCountAgrees`, `JobKeepsSlot` |
| | `RefinesPipeline` | `Spec => ImplementsPipeline` |
| `ShmHashProofs` | `TypeCorrect` | `Spec => []TypeOK` |
| | `ListsWhole`, `LookupsExact` | `Spec /\ []HeadsMade => []Inv` for `ListsPartition`, `LookupExact` |
| | `PointersGood`, `RefinesStore` | `Spec /\ []HeadsMade => PointersStay`, and `=> ImplementsStore` |
| | `HeadsAreMade` | `Spec => []HeadsMade`, if `LastBucketFilled` |
| | `TableCorrect` | `Spec =>` the four properties, if `LastBucketFilled` |
| `ShmSetProofs` | `TreesOrdered`, `CellsShared`, `WalksExact` | `Spec => []Inv` for `TreeOK`, `CellsAccounted`, `WalkExact` |
| | `HandlesGood`, `RefinesKeySet` | `Spec => HandlesStay`, and `=> ImplementsKeySet` |
| `ShmArrayProofs` | `MapsAgree` | `Spec => []MapAgrees`, if `OneWriter` |
| | `RefinesArray` | `Spec => ImplementsArray`, if `OneWriter` |
| `SocketServerProofs` | `RefinesPool` | `Spec => ImplementsPool` |

In all of them the inductive invariant is called `IInv`, in `ShmHashProofs` `TableInv`.
Its parts are named, and the proof that a step keeps it has one case for each action. TLC has found every `IInv` to hold
on the instances of the runs, except `TableInv` and the one of `ShmSetProofs`, which
say that a labelling of the nodes exists; the runs themselves check the parts a reader cares for.

### 4.1 The lock in shared memory

For every finite set of threads, every assignment of threads to objects and any
number of deaths. `Exclusion` alone is not inductive: a writer enters because `OnW`
is false and `R_count` is zero, which says nothing of other threads unless the
counters are exact. They are changed by read and write under the flag, so they stay
exact only while one thread is inside (`FlagExclusive`) and while a
thread gives back what it took (`PlaceAgrees`: where a thread is in the code
agrees with what it remembers). Hence

    IInv == Shape /\ FlagExclusive /\ PlaceAgrees /\ CountersExact /\ Exclusion

The first three are shown inductive by themselves (`LocalInductive`).
`CountersExact` and `Exclusion` follow from what each section does to
the sets of holders (`SectionHolders`) and from adding or removing one member of a finite
set (`SectionKeepsIInv`); all other steps leave the holders alone. The refinement uses the same
invariant: each section is a step of `RWLock` on `Readers`, `Writers` and
`Wanting` (`SectionRefines`), everything else a stutter. The counters of an object
are a separate induction: a thread's record and its object's counter are changed in
one step, and no other thread has that record.

### 4.2 The lock on semaphores

For every finite set of threads, any processes, deaths without bound and any bound
on interrupted calls. There is no flag; what makes the counting right is that the kernel's
operations are atomic and that the undo records are exact:

    IInv == Local /\ SemExact /\ UndoExact /\ CountsExact /\ Exclusion

`SemExact` says of the four semaphores what they count: semaphore 3 counts the
writers, those that have announced themselves, and the announcements
that signals left behind. These belong to no thread any more, so they are a set of
their own (`Leaks`, a pair of a process and a number for each), finite because a
process has at most `MaxInterrupt` of them. A death gives back what the
undo record of the process says; because of `UndoExact` this is what its
threads held and announced, and `SemExact` holds again without them.

### 4.3 The task server

For any number of processes, blocks in a ring, tasks in a block, slots, jobs, faults
and commands. The processes exclude each other nowhere, so the invariant says whose
turn it is, and follows each task from there:

    IInv == Types /\ Slots /\ InHand /\ Counted /\ Apart /\ Turns /\ History /\ Kept /\ Filling

* `Turns`: a process or the rollup between its two writes is at a block whose state
  still says that it is its own to hand on. A dead process breaks this: `CheckChild`
  clears a block the rollup is in the middle of. From then on the distributor
  is `Stopping` and fills no block, so the state NULL does no harm.
* `History`: which method was called last for a task follows from the state of its block, up to
  `error_task_index`; with a failing Process or UnProcess it may be called again.
* `Counted`: a slot's two counts are the numbers of its job's tasks distributed and
  rolled up, and the rollup's private copy is the second. When they meet every
  task of the job has been rolled up, so closing it takes the slot from no block, which
  is `Kept`. This needs the order in which `SetUsed` resets a slot: `isUsed` last
  (`Slots`, `InHand`).
* `Apart`: no task is in two blocks, the free ones included, whose old tasks stay
  in them.
* `Filling`: while the distributor fills a block, its state is NULL, and its tasks are
  of the job in hand and no method has been called for them. That is what lets the
  block be handed over at once.
* `Kept` also says that a task on its way is in a block that is handed over or being
  filled (`Held`).

`TaskInOneBlock` follows from `Apart` and `Kept`. Its second half says
that every unfinished task is in some block, with two exceptions that `lost` records:
`CheckChild` clears the blocks of a dead process, and an error of isJobEnd or
DistributeTask leaves the tasks that the block in hand had so far. When the distributor
dies while it fills a block, the tasks are in that block, and stay there.

The proofs of invariance are by what an action writes, worked out once in the
first part of the module: actions that leave blocks and stages alone keep
`History` at once, those that hand one block on change one position. That no count
passes the number of tasks (`Bounded`) is proved with the types. In the refinement
every call of the application's methods is a step of `TaskPipeline` on `stage`, `jobOf`, `phase`
and `opened`; `Counted` gives the condition for closing, `History` that nothing
is called twice.

### 4.4 The hash table

For any processes, keys, first number of buckets, nodes and entries loaded, and any number
of extensions one after another. `hash_unmade` shows that the table is not correct as it stands, so the
theorems are about the runs that keep clear of the finding:

    HeadsMade == head.moved # head.old => head.old <= m_hashs.size

during a move all the old buckets have list heads. This is exactly what the finding's run
violates, and a table can be given it: `HeadsAreMade` proves it from the start when

    LastBucketFilled

holds, that is when some entry of the first load hashes to the last bucket of every bucket
count that extensions pass through: a hash whose low bits are all ones. From one bucket and
within six nodes that is a hash of 1 or 3, and the run `hash_table` loads both. Then the head of the last bucket is made whenever an
extension begins, and `TableCorrect` needs no condition on the behaviour.

What the properties say is about walks, so the invariant says where each node is:

    TableInv == TypeInv /\ ListInv        ListInv == \E at, rank : Shape(at, rank)

`at` gives a node its list and `rank` the number of nodes after it. `Laid` ties these
to the memory: a head is the node of the highest rank of its list, the successor of a node has the
rank below, no two nodes have both in common. A walk is then the set of nodes of
its list below a rank (`WalkExists` and the lemmas after it, by induction over the
rank; that a list of more ranks than nodes is impossible is the pigeonhole principle, `RankBound`), and each operation changes `at` and `rank` for
one node: `AddHead` puts it above all others of its list, `DeleteListOne` lowers those that were before it. `Place` is what
`LookupExact` rests on: a node is where the present bucket count wants it, or
where the old count does and that bucket has not been counted as moved. It is broken in the middle of a
bucket, and `Walking` is its replacement there: what the helper's iterator has
passed is where it belongs. The rest of the list is still ahead of the iterator only because the iterator
steps on before the node is moved. The refinement counts the nodes of each key, a
finite bag that AddData raises by one and a move leaves alone.

### 4.5 The balanced tree

For any keys, any number of cells, any programs and any number of calls. What the
properties say is about what recursive functions compute: the nodes below a node,
heights, walks. The invariant instead says where each node stands:

    OneTree(t) == \E S, lo, hi, ht, rk : Sound(t, S, lo, hi, ht, rk)

`S` are the nodes. `lo` and `hi` give each node the interval in which the keys below
it lie, `ht` the height of what is below it, and `rk` numbers the other cells along
the free list. That makes every condition one about a node and its neighbours.
`Tree`: the node's key cuts its interval in two, and on either side there is a child
that has that part for its interval, or no child and no key in that part; any two
nodes are one below the other or apart. `Even`: the balance factor is the difference
of the heights on the two sides and the height is one more than the greater. `Bare`,
`Chain` and `Counted`: cells that are not nodes have no children, form the free
list, and are as many as the array's size less the tree's.

In the middle of a call the tree is not balanced, but at one place only. `Even` has
that place as its parameters: the node `q` still counts `e` on its side `s`, which
was the height there before the call. `ShmSetTrees` shows that a rotation keeps the
ordered tree (`RotateOK`), that single and double rotation also make the heights
right (`BalanceOK`), and that `Grown` and `Shrunk` move the place up to the parent
and say truly whether it is higher or lower than before (`GrownOK`, `ShrunkOK`). A
new leaf (`LeafDone`) and a node taken out that has at most one child (`CutDone`)
start such a way. A node with two children is the hard case of `___erase`: its
predecessor `r` is cut out (`CutShape`), then put in the place of `p` with the
interval and the height of `p` (`PutShape`); the way back has two stretches, from
where `r` was up to the left child, whose parent by then is `r`, and from `r` in its
new place on; if the left child is `r` itself there is no first stretch
(`MoveFacts`, `MostIs`, `PairDone`). `Done` says of each stretch that it leaves all
outside its interval alone, which is what joins them.

Each recursive function of the model, such as `into`, `from` or `most`, has a value
only if some function has its equation. `Defined` shows that for all of them at
once: the sets of arguments whose measure is below `n` have such a function for
every `n`, by induction over the natural number `n` as a set (`Inductive`). The
measures are the height on ways down, how much narrower than the root's the interval
is on ways up, the rank in the free list and the size of the part in the fast
rebuild. What the functions return is then shown in the same manner, from the leaves
or from the root.

The fast rebuild sets each node from its number alone. `PartLaws` says what the
halving gives: the parts of any two numbers are nested or apart, a number's part is
halved from the part its parent is in the middle of. `LaidLinks` makes this an
ordered tree, in which the intervals are those of the keys just outside the part,
and `LaidEven` a balanced one, since the layers of two halves that differ in size by
at most one differ by at most one (`LayerHalved`).

`IInv` is `OneTree(tree)` with the ranges of the other variables and the bound of the
program on the array's size. From `OneTree` follow the invariants (`OneTreeHolds`, `OneTreeCells`,
`OneTreeWalks`), and for each action a lemma (`InsertDoes`, `EraseDoes`, `MoveDoes`,
...) gives the invariant after it, the handles that stay, and the keys, the iterator
and the answer: the step of `KeySet`.

### 4.6 The shared array

For any processes, threads, sizes of blocks and readers that come and go, under

    OneWriter == (\A p, q \in Writers : p = q) /\ Writers \cap Returning = {}

one process adds and it does not come back. The assumption is needed: `array_restart`
is the counterexample without its second half (finding 3), and a second adding process
that attaches late meets the same hole. What the assumption leaves is one process that
creates and fills an array while any number of others read it.

`MapAgrees` (an entry of a private map is the block of that number, and there are as many as
counted) is inductive with `MapWhole`: the adding process counts every block of the
shared list, in any other process the thread in `map` holds `thread_mutex` and its next
block is the one that its process counts next. `Geometry` (blocks follow each other without a gap) and
`AddersHaveLock` (what a thread in the middle of Add may rely on) carry the
refinement, and `FoundRight` a reader's: the block it found holds its handle also
after the list has grown.

### 4.7 The socket server

For any number of slots and children, processes or threads, and any changes of the limit.
`LiveHaveSlot`: the slot of a live child has its number, or the main loop is just about to
store it (as a process the child runs before its pid is stored). `CountHolds`: from counting
to filling a slot the children are no more than counted, since only the main loop
fills slots; so the tests of the limit hold when the child is made. With them each
step is a step of `ServicePool` or a stutter.

### 4.8 What is only model-checked

* Progress under fairness and ENABLED, in all modules: the provers here do not reach them.
* `ShmHash` where a list head is missing: there `ListsPartition` fails (finding 2).
* `ExitClosesJobs`, `ExtendReturns` and, with a process that returns, `MapAgrees` are
  violated; see 3.3.

## 5. The plan

Done, in this order: the two locks with their abstract specification; the task
server with its pipeline; the hash table with its store; the balanced tree with
its key set; the array with its maps; the socket server with its pool; then the
proofs of the locks, the array, the socket server, the task server, the hash table and the
balanced tree.

Next:

1. `ShmArray`: whether `MapAgrees` holds for several adding processes of which each
   has a complete map whenever it reserves, and if so, the proof.
2. Components without a module whose protocols are small: `CWorkerThread` with its
   flag and condition variable, `CThreadPool`, the LRU cache's list.

## 6. Not modelled

* `WorkerThread`, `LockedList`, `CThreadPool`, the registry: small protocols
  of their own, left for lack of room among about a dozen runs. The registry's search and
  write are under `ShmEnvLock` in every public call (`shmEnv.cpp:1013`), so
  what is left of it is the lock.
* List sets, pools and the LRU cache: built from the tree and the array; the cache
  adds a file and a list through the tree's nodes (3.3).
* The HTTP layer, TLS, the script interpreter, templates, value types and the
  console: sequential handling of strings and system calls, without
  state that two actors share.
* `src/src/apps`, the vendored OpenSSL tools, and the MFC editor, which are not
  this system's logic.
