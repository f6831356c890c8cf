---------------------------- MODULE MCCommPipe ------------------------------
(* One writer and one reader on a small ring, as filesys.c and scsidev.c   *)
(* use the pipe.                                                           *)
EXTENDS CommPipe
CONSTANTS w1, a, b
MCWriters == {w1}
MCWords == {a, b}
=============================================================================
