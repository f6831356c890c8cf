------------------------------- MODULE MCCia --------------------------------
(* Timers of two-bit registers and an E clock of two cycles: timer A alone, *)
(* one-shot or continuous, timer B on its own or chained to it.             *)
EXTENDS Cia

Cr(s, o, m) == [start |-> s, oneshot |-> o, inmode |-> m]
MCCra == {Cr(0, 0, "phi2"), Cr(1, 0, "phi2"), Cr(1, 1, "phi2")}
MCCrb == {Cr(1, 1, "phi2"), Cr(1, 0, "ta")}
MCMasks == {{}, {"tb", "flg"}}
=============================================================================
