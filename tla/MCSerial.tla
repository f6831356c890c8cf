------------------------------ MODULE MCSerial ------------------------------
(* Two interrupts: PORTS, raised by CIA-A and by host threads, and RBF.     *)
EXTENDS Serial, TLC
MCLevel == ("ports" :> 2) @@ ("rbf" :> 5)
MCEnableSets == {{"inten", "ports", "rbf"}}
=============================================================================
