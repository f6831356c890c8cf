-------------------------- MODULE MCFilesysPackets --------------------------
(* Instances of FilesysPackets: one unit with packets enough to fill its    *)
(* pipe and its list, and two units that may be reset.                      *)
EXTENDS FilesysPackets, TLC

CONSTANTS p1, p2, p3

\* The units packets are sent to: all to one, or p2 to another.
AllToOne == [p \in Packets |-> 1]
SecondToTwo == [p \in Packets |-> IF p = p2 THEN 2 ELSE 1]

PacketSymmetry == Permutations(Packets)
=============================================================================
