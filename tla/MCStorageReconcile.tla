-------------------------- MODULE MCStorageReconcile --------------------------
(* A share and a local disk, the cycle and two requests of the panel. *)
EXTENDS StorageReconcile

CONSTANTS share, disk, p1, p2
MCLocations == {share, disk}
MCShared == {share}
MCPanel == {p1, p2}
=============================================================================
