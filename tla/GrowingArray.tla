----------------------------- MODULE GrowingArray -----------------------------
(***************************************************************************)
(* What an array in shared memory promises the threads that use it: one    *)
(* array, in which what was added under a handle is what everybody reads   *)
(* under that handle, until the array is cleared and the handle used anew. *)
(* Nothing is said of blocks, of capacity or of where anything is mapped.  *)
(***************************************************************************)
EXTENDS Integers

CONSTANTS
  Handle,     \* 0 and on, as many as there could ever be
  Data,
  Nothing     \* what a handle holds that nothing was added under

VARIABLES
  value,      \* what is in the array
  size,       \* the handle of the next element
  got         \* the handle that was read last, and what was there

vars == <<value, size, got>>

Init ==
  /\ value = [h \in Handle |-> Nothing]
  /\ size = 0
  /\ got = <<-1, Nothing>>

\* An element is added: its data first, then it counts.
Put(d) ==
  /\ size \in Handle
  /\ value' = [value EXCEPT ![size] = d]
  /\ UNCHANGED <<size, got>>

Count ==
  /\ size \in Handle /\ value[size] # Nothing
  /\ size' = size + 1
  /\ UNCHANGED <<value, got>>

Clear == size' = 0 /\ UNCHANGED <<value, got>>

Read(h) ==
  /\ value[h] # Nothing
  /\ got' = <<h, value[h]>>
  /\ UNCHANGED <<value, size>>

Next ==
  \/ \E d \in Data : Put(d)
  \/ Count \/ Clear
  \/ \E h \in Handle : Read(h)

Spec == Init /\ [][Next]_vars
===============================================================================
