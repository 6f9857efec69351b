---------------------------- MODULE TaskPipeline ----------------------------
(***************************************************************************)
(* What the multi-process server (shmfc/myMultiProcessServer.h) promises   *)
(* the application whose tasks it moves, whatever its processes, blocks    *)
(* and slots do: a task is processed once, then rolled up once or undone   *)
(* once, never both (Process and UnProcess may be called for it again only *)
(* if they may fail); a job is opened for the rollup before its first task *)
(* is rolled up and closed once, when its distribution has ended and every *)
(* one of its tasks has been rolled up.                                    *)
(*                                                                         *)
(* The module states a promise and models no code; MultiProcessServer is   *)
(* shown to implement it.                                                  *)
(***************************************************************************)
EXTENDS Naturals, Sequences

CONSTANT
  Again       \* the methods of a task that may fail and be called again

VARIABLES
  stage,      \* of every task so far: the methods called for it, in order
  jobOf,      \* the job of every task so far
  phase,      \* of every job so far: "open", "ended" or "closed"
  opened      \* the jobs the rollup has opened, in the order it did

vars == <<stage, jobOf, phase, opened>>

Init == stage = <<>> /\ jobOf = <<>> /\ phase = <<>> /\ opened = <<>>

Tasks(j) == {k \in DOMAIN jobOf : jobOf[k] = j}

\* The last method called for task k.
Last(k) == IF stage[k] = <<>> THEN "none" ELSE stage[k][Len(stage[k])]

\* Method m is called for the tasks of S, after method a or, having failed,
\* after itself.
Call(S, m, a) ==
  /\ \A k \in S : Last(k) = a \/ (m \in Again /\ Last(k) = m)
  /\ stage' = [k \in DOMAIN stage |-> IF k \in S THEN Append(stage[k], m) ELSE stage[k]]

OpenJob ==
  /\ phase' = Append(phase, "open")
  /\ UNCHANGED <<stage, jobOf, opened>>

Distribute(j) ==
  /\ phase[j] = "open"
  /\ stage' = Append(stage, <<>>)
  /\ jobOf' = Append(jobOf, j)
  /\ UNCHANGED <<phase, opened>>

EndJob(j) ==
  /\ phase[j] = "open"
  /\ phase' = [phase EXCEPT ![j] = "ended"]
  /\ UNCHANGED <<stage, jobOf, opened>>

Process(S) == Call(S, "Process", "none") /\ UNCHANGED <<jobOf, phase, opened>>
UnProcess(S) == Call(S, "UnProcess", "Process") /\ UNCHANGED <<jobOf, phase, opened>>

Rollup(j, S) ==
  /\ S \subseteq Tasks(j)
  /\ phase[j] # "closed"
  /\ Call(S, "Rollup", "Process")
  /\ opened' = IF \E i \in DOMAIN opened : opened[i] = j THEN opened ELSE Append(opened, j)
  /\ UNCHANGED <<jobOf, phase>>

CloseJob(j) ==
  /\ phase[j] = "ended"
  /\ \A k \in Tasks(j) : Last(k) = "Rollup"
  /\ phase' = [phase EXCEPT ![j] = "closed"]
  /\ UNCHANGED <<stage, jobOf, opened>>

Next ==
  \/ OpenJob
  \/ \E j \in DOMAIN phase :
       \/ Distribute(j) \/ EndJob(j) \/ CloseJob(j)
       \/ \E S \in SUBSET DOMAIN stage : Rollup(j, S)
  \/ \E S \in SUBSET DOMAIN stage : Process(S) \/ UnProcess(S)

Spec == Init /\ [][Next]_vars
=============================================================================
