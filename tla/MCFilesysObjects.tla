-------------------------- MODULE MCFilesysObjects --------------------------
(* One mounted directory that holds a file of each name.                   *)
EXTENDS FilesysObjects

Files == Names \X {FALSE}
NameSymmetry == Permutations(Names)

=============================================================================
