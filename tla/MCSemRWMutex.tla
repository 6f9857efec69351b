---------------------------- MODULE MCSemRWMutex ----------------------------
(* Two threads of one process and one thread of another. *)
EXTENDS SemRWMutex, TLC
CONSTANTS t1, t2, t3, p1, p2

MCProcessOf == t1 :> p1 @@ t2 :> p1 @@ t3 :> p2
=============================================================================
