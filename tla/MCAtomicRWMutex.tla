--------------------------- MODULE MCAtomicRWMutex ---------------------------
(* Two threads of one process and one thread of another share a mySEM. *)
EXTENDS AtomicRWMutex, TLC
CONSTANTS t1, t2, t3, o1, o2

MCObjectOf == t1 :> o1 @@ t2 :> o1 @@ t3 :> o2
=============================================================================
