------------------------------ MODULE MCSockets ------------------------------
(* A task that may be broken in any call, and signalled.                     *)
EXTENDS Sockets
=============================================================================
