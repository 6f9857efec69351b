--------------------------- MODULE MCSocketServer ---------------------------
(* Instances of the socket server for TLC.                                  *)
EXTENDS SocketServer
==============================================================================
