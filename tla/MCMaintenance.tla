----------------------------- MODULE MCMaintenance -----------------------------
(* Two streams of one camera. *)
EXTENDS Maintenance

CONSTANTS main, sub
MCStreams == {main, sub}
=============================================================================
