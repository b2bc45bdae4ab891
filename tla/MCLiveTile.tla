------------------------------ MODULE MCLiveTile -------------------------------
(* A tile that is switched between two cameras. *)
EXTENDS LiveTile, TLC

CONSTANTS front, yard
MCCameras == {front, yard}
Symmetry == Permutations(MCCameras)
=============================================================================
