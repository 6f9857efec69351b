------------------------------ MODULE MCShmArray ------------------------------
(* Instances of the array in shared memory for TLC.                         *)
EXTENDS ShmArray
CONSTANTS x, y

\* A process that adds, and one whose two threads read.
Two == {"p", "q"}
Three == {"p1", "q1", "q2"}
OfThree == [t \in Three |-> IF t = "p1" THEN "p" ELSE "q"]
First == {"p"}
Second == {"q"}
OfSecond == {"q1", "q2"}

\* One process of one thread that adds, ends and comes back.
One == {"p"}
OneThread == {"p1"}
OfOne == [t \in OneThread |-> "p"]
==============================================================================
