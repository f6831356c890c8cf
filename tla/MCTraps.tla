------------------------------ MODULE MCTraps -------------------------------
(* Two tasks; three contexts, so that a called function can invoke a trap  *)
(* while the other task is in one; one handler calls two functions.        *)
EXTENDS Traps, TLC
CONSTANTS c1, c2, c3
MCContexts == {c1, c2, c3}
MCMaxCalls == (c1 :> 2) @@ (c2 :> 1) @@ (c3 :> 0)
=============================================================================
