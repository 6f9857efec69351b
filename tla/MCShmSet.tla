------------------------------ MODULE MCShmSet ------------------------------
(* Instances of the balanced tree for TLC.                                  *)
EXTENDS ShmSet, TLC

Thirteen == 0..12

\* Every short life of a set with four keys and three or four cells ...
Small == {[put |-> <<>>, use |-> 1..4, cells |-> n, calls |-> 7] : n \in {3, 4}}

\* ... every order in which five keys can be put in, and one call more ...
Orders == {[put |-> p, use |-> 1..5, cells |-> 5, calls |-> 1] : p \in Permutations(1..5)}

\* ... and the least trees of five layers, every node higher on one side: an
\* erasure on the low side turns two nodes on the way back.
Lean == {[put |-> p, use |-> 0..12, cells |-> 12, calls |-> 2] :
           p \in {<<7, 4, 10, 2, 6, 9, 12, 1, 3, 5, 8, 0>>,
                  <<5, 8, 2, 10, 6, 3, 0, 11, 9, 7, 4, 12>>}}

Programs == Small \cup Orders \cup Lean
=============================================================================
