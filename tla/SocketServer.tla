---------------------------- MODULE SocketServer ----------------------------
(***************************************************************************)
(* CSocketServer (src/httpd/mysocketserver.h): a main loop that takes      *)
(* connections in turn from the administrator's port and the users' port   *)
(* and gives each to a child, and the children, which are threads, or      *)
(* processes that go on to compete with the main loop for the users'       *)
(* connections under a lock in shared memory (RWLock, taken for writing).  *)
(* Start chooses threads; the code for processes is beside it, and the     *)
(* choice is a variable here that never changes.                           *)
(*                                                                         *)
(* The commands arrive as requests that some child serves: shut down,      *)
(* pause, and set the greatest number of children.  A connection is there  *)
(* or not there whenever somebody looks.                                   *)
(***************************************************************************)
EXTENDS Integers, FiniteSets, FiniteSetsExt

CONSTANTS
  CSocketServer_MAX_CHILD,   \* the length of childs
  Child,                     \* pids, or numbers of threads, given out from the lowest
  Modes,                     \* MultiProcessMode: among these
  Maxima,                    \* what max_child may be set to
  MaxLost,                   \* bound: children whose end nobody will notice
  Nobody, Main,              \* -1; the main loop as holder of the lock
  Grave                      \* a dead process as holder of the lock

ASSUME ServerAssumption ==
  /\ CSocketServer_MAX_CHILD \in Nat \ {0} /\ MaxLost \in Nat
  /\ Modes \subseteq BOOLEAN /\ Maxima \subseteq 1..CSocketServer_MAX_CHILD
  /\ {Nobody, Main, Grave} \cap Child = {} /\ Cardinality({Nobody, Main, Grave}) = 3

Slot == 1..CSocketServer_MAX_CHILD
Lowest(numbers) == {c \in numbers : \A d \in numbers : c <= d}

VARIABLES
  MultiProcessMode,
  \* SocketServerData
  cmd_bShutDown, cmd_bPause, state_bPause, max_child,
  m_sem,     \* who holds the lock of the users' port
  childs,    \* each slot: the pid of its child, and for which port it is
  main,      \* the main loop: where it is, whose turn it is (bM), its child count, the port,
             \* slot and number of the child it makes, and max_child as it read it last
  child,     \* each child: where it is, its slot and its port
  lost       \* the slots that hold a number of which no child will be reported

data == <<MultiProcessMode, cmd_bShutDown, cmd_bPause, state_bPause, max_child>>
vars == <<data, m_sem, childs, main, child, lost>>

NoChild == [at |-> "none", i |-> 0, mgr |-> FALSE]
EmptySlot == [pid |-> Nobody, isMgrPort |-> FALSE]
Live == {c \in Child : child[c].at \notin {"none", "zombie"}}
Zombies == {c \in Child : child[c].at = "zombie"}

GoMain(place) == main' = [main EXCEPT !.at = place]
Idle == [at |-> "check", bM |-> FALSE, count |-> 0, mgr |-> FALSE, i |-> 0, pid |-> Nobody,
         limit |-> 0]
BackInLoop == main' = [Idle EXCEPT !.bM = main.bM]
Go(c, place) == child' = [child EXCEPT ![c].at = place]

Init ==
  /\ MultiProcessMode \in Modes
  /\ cmd_bShutDown = FALSE /\ cmd_bPause = FALSE /\ state_bPause = FALSE
  /\ max_child = CSocketServer_MAX_CHILD
  /\ m_sem = Nobody
  /\ childs = [i \in Slot |-> EmptySlot]
  /\ main = [Idle EXCEPT !.at = "loop"]
  /\ child = [c \in Child |-> NoChild]
  /\ lost = {}

-----------------------------------------------------------------------------
(* The main loop.                                                          *)

\* clearStoppedChild: the ended processes are collected, and their slots are
\* free, except where the system has by then given the number to somebody else
\* and kill finds it alive.
clearStoppedChild(known) ==
  /\ known \subseteq Zombies
  /\ Cardinality(lost) + Cardinality(Zombies \ known) <= MaxLost \/ known = Zombies
  /\ childs' = [i \in Slot |-> IF childs[i].pid \in known
                               THEN [childs[i] EXCEPT !.pid = Nobody] ELSE childs[i]]
  /\ child' = [c \in Child |-> IF c \in Zombies THEN NoChild ELSE child[c]]
  /\ lost' = lost \cup {i \in Slot : childs[i].pid \in Zombies \ known}

ChildCount(slots) == Cardinality({i \in Slot : slots[i].pid # Nobody})

\* SvrAccept.  No room: it sleeps.  Otherwise it is the turn of the other port.
Svr_Turn ==
  /\ main.at = "loop"
  /\ \E known \in SUBSET Zombies : clearStoppedChild(known)
  /\ LET count == ChildCount(childs')
     IN IF count >= max_child \/ count >= CSocketServer_MAX_CHILD
        THEN BackInLoop
        ELSE main' = [main EXCEPT !.at = IF main.bM THEN "user" ELSE "admin", !.bM = ~@,
                                  !.count = count, !.limit = max_child]
  /\ UNCHANGED <<data, m_sem>>

\* The administrator's port, without the lock.
Svr_Admin ==
  /\ main.at = "admin"
  /\ IF cmd_bShutDown THEN BackInLoop ELSE main' = [main EXCEPT !.at = "poll", !.mgr = TRUE]
  /\ UNCHANGED <<data, m_sem, childs, child, lost>>

\* Mutant: no place is kept for the administrator.
WrongUser ==
  /\ main.at = "user"
  /\ IF cmd_bShutDown \/ m_sem # Nobody
     THEN BackInLoop /\ UNCHANGED m_sem
     ELSE /\ m_sem' = Main
          /\ main' = [main EXCEPT !.at = "poll", !.mgr = FALSE, !.limit = max_child]
  /\ UNCHANGED <<data, childs, child, lost>>

\* The users' port, if a place is left to the administrator and nobody has
\* the lock: the main loop does not wait for it.
Svr_User ==
  /\ main.at = "user"
  /\ IF main.count >= max_child - 1 \/ m_sem # Nobody \/ cmd_bShutDown
     THEN BackInLoop /\ UNCHANGED m_sem
     ELSE /\ m_sem' = Main
          /\ main' = [main EXCEPT !.at = "poll", !.mgr = FALSE, !.limit = max_child]
  /\ UNCHANGED <<data, childs, child, lost>>

\* There is a connection, or none in time, or an error.  A user is turned away
\* while the service is paused.
Svr_Poll ==
  /\ main.at = "poll"
  /\ \/ BackInLoop
     \/ (main.mgr \/ ~state_bPause) /\ GoMain("add")
  /\ m_sem' = IF m_sem = Main THEN Nobody ELSE m_sem
  /\ UNCHANGED <<data, childs, child, lost>>

\* AddChild: the first free slot, which stays free until a number is stored.
Svr_AddChild ==
  /\ main.at = "add"
  /\ LET free == {i \in Slot : childs[i].pid = Nobody}
     IN IF free = {} THEN BackInLoop /\ UNCHANGED childs
        ELSE /\ main' = [main EXCEPT !.at = "make", !.i = Min(free)]
             /\ childs' = [childs EXCEPT ![Min(free)].isMgrPort = main.mgr]
  /\ UNCHANGED <<data, m_sem, child, lost>>

\* A process: it serves, or ends because OnStartChildSocketProcess refuses, before
\* the parent stores its pid.  The parent then waits up to thirty seconds for it
\* to start, and goes on in either case.
Svr_Fork(c) ==
  /\ main.at = "make" /\ MultiProcessMode
  /\ c \in Lowest({d \in Child : child[d].at = "none"})
  /\ \E at \in {"serve", "zombie"} :
       child' = [child EXCEPT ![c] = [at |-> at, i |-> main.i, mgr |-> main.mgr]]
  /\ main' = [main EXCEPT !.at = "store", !.pid = c]
  /\ UNCHANGED <<data, m_sem, childs, lost>>

Svr_Fork_Fails ==
  /\ main.at = "make" /\ MultiProcessMode
  /\ GoMain("failed")
  /\ UNCHANGED <<data, m_sem, childs, child, lost>>

Svr_Store ==
  /\ main.at = "store"
  /\ childs' = [childs EXCEPT ![main.i].pid = main.pid]
  /\ BackInLoop
  /\ UNCHANGED <<data, m_sem, child, lost>>

\* A thread: its number, which is never used twice, is stored before it is
\* made, and stays if it cannot be made.
Svr_Number(c) ==
  /\ main.at = "make" /\ ~MultiProcessMode
  /\ c \in Lowest({d \in Child : child[d].at = "none" /\ \A i \in Slot : childs[i].pid # d})
  /\ childs' = [childs EXCEPT ![main.i].pid = c]
  /\ main' = [main EXCEPT !.at = "create", !.pid = c]
  /\ UNCHANGED <<data, m_sem, child, lost>>

Svr_Create ==
  /\ main.at = "create"
  /\ child' = [child EXCEPT ![main.pid] = [at |-> "serve", i |-> main.i, mgr |-> main.mgr]]
  /\ BackInLoop
  /\ UNCHANGED <<data, m_sem, childs, lost>>

Svr_Create_Fails ==
  /\ main.at = "create" /\ Cardinality(lost) < MaxLost
  /\ lost' = lost \cup {main.i}
  /\ BackInLoop
  /\ UNCHANGED <<data, m_sem, childs, child>>

\* Back in _Start_Listen: the pause takes effect, and the shutdown.
Svr_Check ==
  /\ main.at = "check"
  /\ state_bPause' = cmd_bPause
  /\ GoMain(IF cmd_bShutDown THEN "stopping" ELSE "loop")
  /\ UNCHANGED <<MultiProcessMode, cmd_bShutDown, cmd_bPause, max_child, m_sem, childs, child, lost>>

\* _WaitAllChildStop: the signal it sends to processes is caught and does
\* nothing by itself.
Svr_WaitAll ==
  /\ main.at = "stopping"
  /\ \E known \in SUBSET Zombies : clearStoppedChild(known)
  /\ GoMain(IF ChildCount(childs') = 0 THEN "stopped" ELSE "stopping")
  /\ UNCHANGED <<data, m_sem>>

-----------------------------------------------------------------------------
(* A child.                                                                *)

\* A process ends; a thread empties its slot itself.
Leave(c) ==
  IF MultiProcessMode
  THEN Go(c, "zombie") /\ UNCHANGED childs
  ELSE /\ childs' = [childs EXCEPT ![child[c].i].pid = Nobody]
       /\ child' = [child EXCEPT ![c] = NoChild]

\* A request in progress: the commands.
Child_Command(c) ==
  /\ child[c].at = "serve"
  /\ \/ cmd_bShutDown' = TRUE /\ UNCHANGED <<cmd_bPause, max_child>>
     \/ cmd_bPause' = TRUE /\ UNCHANGED <<cmd_bShutDown, max_child>>
     \/ max_child' \in Maxima /\ UNCHANGED <<cmd_bShutDown, cmd_bPause>>
  /\ UNCHANGED <<MultiProcessMode, state_bPause, m_sem, childs, main, child, lost>>

isChildNeedExit(c) == cmd_bShutDown \/ (~child[c].mgr /\ cmd_bPause)

\* SocketProcess returns.  A process for users goes on to the next connection.
Child_Served(c) ==
  /\ child[c].at = "serve"
  /\ IF isChildNeedExit(c) \/ ~MultiProcessMode \/ child[c].mgr
     THEN Leave(c) ELSE Go(c, "lock") /\ UNCHANGED childs
  /\ UNCHANGED <<data, m_sem, main, lost>>

Child_WLock(c) ==
  /\ child[c].at = "lock" /\ m_sem = Nobody
  /\ m_sem' = c
  /\ Go(c, "accept")
  /\ UNCHANGED <<data, childs, main, lost>>

\* Mutant: a child that is told to leave does not give the lock back.
WrongAccept(c) ==
  /\ child[c].at = "accept"
  /\ m_sem' = IF cmd_bShutDown THEN m_sem ELSE Nobody
  /\ Leave(c) \/ (~cmd_bShutDown /\ Go(c, "serve") /\ UNCHANGED childs)
  /\ UNCHANGED <<data, main, lost>>

\* _Accept for up to 300 seconds: told to leave, or an error, or a connection.
\* When the time is over SocketProcess is called on the closed one.
Child_Accept(c) ==
  /\ child[c].at = "accept"
  /\ m_sem' = Nobody
  /\ Leave(c) \/ (~cmd_bShutDown /\ Go(c, "serve") /\ UNCHANGED childs)
  /\ UNCHANGED <<data, main, lost>>

\* A process is killed; the lock it holds is not given back.
Child_Killed(c) ==
  /\ MultiProcessMode /\ c \in Live
  /\ Go(c, "zombie")
  /\ m_sem' = IF m_sem = c THEN Grave ELSE m_sem
  /\ UNCHANGED <<data, childs, main, lost>>

-----------------------------------------------------------------------------
MainLoop ==
  \/ Svr_Turn \/ Svr_Admin \/ Svr_User \/ Svr_Poll \/ Svr_AddChild
  \/ \E c \in Child : Svr_Fork(c) \/ Svr_Number(c)
  \/ Svr_Fork_Fails \/ Svr_Store \/ Svr_Create \/ Svr_Create_Fails
  \/ Svr_Check \/ Svr_WaitAll

Next ==
  \/ MainLoop
  \/ \E c \in Child :
       Child_Accept(c) \/ Child_Command(c) \/ Child_Served(c) \/ Child_WLock(c) \/ Child_Killed(c)

Spec == Init /\ [][Next]_vars

(* The main loop and the children run.  A request lasts as long as it      *)
(* likes, but SocketProcess looks every second whether it has to end       *)
(* (src/httpd/myhttpserver.h:835), and the lock is fair to those who wait  *)
(* for it (AtomicRWMutex, WritersProgress).                                *)
FairSpec ==
  /\ Spec /\ WF_vars(MainLoop)
  /\ \A c \in Child : /\ WF_vars(Child_Accept(c))
                      /\ WF_vars(isChildNeedExit(c) /\ Child_Served(c))
                      /\ SF_vars(Child_WLock(c))

-----------------------------------------------------------------------------
(* What must hold.                                                         *)

\* Whatever the order in which children are made, store their numbers, end and
\* are collected, and whoever changes max_child meanwhile: no two children
\* have one slot, there are no more than allowed, a place is left to the
\* administrator ("one must be kept for the management service",
\* mysocketserver.h:560), and the server has stopped only when they all have.
Serving(i) == {[child |-> c, admin |-> child[c].mgr] : c \in {d \in Live : child[d].i = i}}
Pool == INSTANCE ServicePool WITH
  Place <- Slot, serving <- [i \in Slot |-> Serving(i)],
  max <- max_child, limit <- IF main.limit = 0 THEN max_child ELSE main.limit, stopped <- (main.at = "stopped")
ImplementsPool == Pool!Spec

\* A command is obeyed: the server stops, unless it ended on a failed fork;
\* after a pause there are no children for users left, and none come.
\* Except where the code has no remedy: a slot that no child will empty, a
\* lock that a killed process took to its grave (never with threads, the mode
\* that Start chooses at line 786).
CommandsObeyed ==
  /\ cmd_bShutDown ~> (main.at \in {"stopped", "failed"} \/ lost # {} \/ m_sem = Grave)
  /\ [](cmd_bPause => <>[]((\A c \in Live : child[c].mgr) \/ m_sem = Grave))
==============================================================================
