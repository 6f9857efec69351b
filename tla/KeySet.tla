-------------------------------- MODULE KeySet --------------------------------
(***************************************************************************)
(* What an ordered set promises the program that changes it: it holds the  *)
(* keys that were put in and not taken out, and each call answers for      *)
(* them.  Nothing is said of nodes.                                        *)
(***************************************************************************)
EXTENDS Integers

CONSTANTS
  Key,        \* the keys, numbers in their order
  End         \* what an iterator stands at that is at no key

VARIABLES
  keys,       \* the keys in the set
  at,         \* the key of the iterator the last call returned, or End
  isNew       \* the last insertion said that its key was not there before

vars == <<keys, at, isNew>>

Least(S) == IF S = {} THEN End ELSE CHOOSE k \in S : \A j \in S : k <= j

Init == keys \in SUBSET Key /\ at = End /\ isNew = FALSE

Insert(k) == keys' = keys \cup {k} /\ at' = k /\ isNew' = (k \notin keys)

\* There is no room for one more: nothing is put in.
Refuse == at' = End /\ isNew' = FALSE /\ UNCHANGED keys

Erase(k) == keys' = keys \ {k} /\ at' = End /\ isNew' = FALSE

EraseAndMove(k) ==
  /\ k \in keys
  /\ keys' = keys \ {k} /\ at' = Least({j \in keys : j > k}) /\ isNew' = FALSE

Clear == keys' = {} /\ at' = End /\ isNew' = FALSE

\* The memory is put in order: no iterator is returned.
Rebuild == at' = End /\ isNew' = FALSE /\ UNCHANGED keys

Next ==
  \/ \E k \in Key : Insert(k) \/ Erase(k) \/ EraseAndMove(k)
  \/ Refuse \/ Clear \/ Rebuild

Spec == Init /\ [][Next]_vars
===============================================================================
