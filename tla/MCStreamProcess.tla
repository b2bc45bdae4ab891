--------------------------- MODULE MCStreamProcess ---------------------------
(* StreamProcess with two overlapping stops and three process identities:  *)
(* one for a process that is lost and two that the system hands out in     *)
(* turn.                                                                   *)
EXTENDS StreamProcess

CONSTANTS p1, p2, p3, s1, s2

MCPids     == {p1, p2, p3}
MCStoppers == {s1, s2}
=============================================================================
