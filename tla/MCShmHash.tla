------------------------------ MODULE MCShmHash ------------------------------
(* Instances of the shared hash table for TLC.                              *)
EXTENDS ShmHash

Two == {"p1", "p2"}
One == {"p1"}
ThreeKeys == {0, 1, 3}
OddPair == <<1, 3>>

\* The code's four buckets just too full: every entry in the first of them.
Eights == {8 * i : i \in 0..9}
AllInFirst == [i \in 1..10 |-> 8 * (i - 1)]
==============================================================================
