------------------------------ MODULE MC_Server ------------------------------
(* Three clients for two permits, and a channel of one frame.                 *)
EXTENDS SocketServer

\* One client writes a second frame behind its first.
OneWritesTwice == [c \in Connection |-> IF c = "c1" THEN 2 ELSE 1]
=============================================================================
