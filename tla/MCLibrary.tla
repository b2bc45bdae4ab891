------------------------------- MODULE MCLibrary -------------------------------
(* A camera, a person and a picture that either can name; two requests. *)
EXTENDS Library, TLC

CONSTANTS front, anna, photo, t1, t2
MCCameras == {front}
MCPeople == {anna}
MCPictures == {photo}
MCTasks == {t1, t2}
Symmetry == Permutations(MCTasks)
=============================================================================
