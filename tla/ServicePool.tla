----------------------------- MODULE ServicePool -----------------------------
(***************************************************************************)
(* What a server with a bounded number of children promises: each child    *)
(* has a place of its own, there are never more than allowed, children for *)
(* users leave one place to the administrator, and the server only says    *)
(* that it has stopped when all places are empty.  How children are made,  *)
(* counted or told to end is not said.                                     *)
(***************************************************************************)
EXTENDS Integers, FiniteSets

CONSTANTS
  Place,
  Child

VARIABLES
  serving,   \* who has each place, and whether for the administrator
  max,       \* the children allowed
  limit,     \* what was allowed when the server looked last
  stopped    \* the server says so

vars == <<serving, max, limit, stopped>>

Busy == {i \in Place : serving[i] # {}}

Init ==
  /\ serving = [i \in Place |-> {}]
  /\ max = Cardinality(Place) /\ limit = max
  /\ stopped = FALSE

\* What is allowed may change at any time, and is not what counts until the
\* server looks.
Allow(n) == max' = n /\ limit' \in {limit, n} /\ UNCHANGED <<serving, stopped>>
Look == limit' = max /\ UNCHANGED <<serving, max, stopped>>

StartFor(i, c, admin) ==
  /\ ~stopped
  /\ serving[i] = {} /\ \A j \in Place : \A s \in serving[j] : s.child # c
  /\ Cardinality(Busy) < limit
  /\ ~admin => Cardinality(Busy) + 1 < limit
  /\ serving' = [serving EXCEPT ![i] = {[child |-> c, admin |-> admin]}]
  /\ limit' \in {limit, max}
  /\ UNCHANGED <<max, stopped>>

End(i) ==
  /\ serving[i] # {}
  /\ serving' = [serving EXCEPT ![i] = {}]
  /\ UNCHANGED <<max, limit, stopped>>

Stop ==
  /\ Busy = {}
  /\ stopped' = TRUE
  /\ UNCHANGED <<serving, max, limit>>

Next ==
  \/ \E n \in 1..Cardinality(Place) : Allow(n)
  \/ Look \/ Stop
  \/ \E i \in Place, c \in Child, admin \in BOOLEAN : StartFor(i, c, admin)
  \/ \E i \in Place : End(i)

Spec == Init /\ [][Next]_vars
==============================================================================
