------------------------ MODULE MCMultiProcessServer ------------------------
(***************************************************************************)
(* The small instances of MultiProcessServer.  AnyProcess: no task has a   *)
(* hash, the server divides the work.  FreeOrLast: some tasks name the     *)
(* second of two processes.                                                *)
(***************************************************************************)
EXTENDS MultiProcessServer

AnyProcess == {-1}
FreeOrLast == {-1, 1}
=============================================================================
