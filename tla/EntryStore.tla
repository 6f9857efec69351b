------------------------------ MODULE EntryStore ------------------------------
(***************************************************************************)
(* What a table of entries without deletion promises: it holds the bag of  *)
(* what was added.  How the entries are chained, which bucket they are in  *)
(* and who moves them meanwhile is nobody's business.                      *)
(***************************************************************************)
EXTENDS Naturals

CONSTANTS
  Key,       \* what distinguishes two entries
  Capacity   \* how many entries the memory has room for

VARIABLE held      \* how many entries with each key

\* One entry more.
Add(k) == held' = [held EXCEPT ![k] = @ + 1]

Next == \E k \in Key : Add(k)

\* It starts with any bag of entries that fits.
Init == held \in [Key -> 0..Capacity]

Spec == Init /\ [][Next]_held
===============================================================================
