--------------------------- MODULE RecordedStream ---------------------------
(***************************************************************************)
(* What one recorded stream promises to the rest of the integration,       *)
(* without any of the tasks, flags and signals it is built from: at most   *)
(* one ffmpeg of its own writes its segments, ffmpeg is only launched      *)
(* while the stream is wanted, and a stream that has been switched off has *)
(* none left.  The promise has a gap: a writer may stray while the stream  *)
(* is on, and a stray is outside it for good.  StreamProcess implements    *)
(* this specification.                                                     *)
(***************************************************************************)
CONSTANT Pids    \* identities of operating system processes

VARIABLES
  phase,         \* "off", "on" or "closing" (a stop has been asked for)
  writers,       \* the ffmpeg processes of this stream that it answers for
  strays         \* those it no longer knows of

vars == <<phase, writers, strays>>

Init == phase = "off" /\ writers = {} /\ strays = {}

(* Someone wants the stream recorded. *)
Enable ==
  /\ phase = "off"
  /\ phase' = "on"
  /\ UNCHANGED <<writers, strays>>

(* The only step that adds a writer: wanted, and none there yet. *)
Launch ==
  /\ phase = "on"
  /\ writers = {}
  /\ \E p \in Pids \ strays : writers' = {p}
  /\ UNCHANGED <<phase, strays>>

(* The writer ends: the camera went away, ffmpeg crashed or was killed. *)
Exit ==
  /\ writers # {}
  /\ writers' = {}
  /\ UNCHANGED <<phase, strays>>

(* A writer is forgotten while it runs; a wanted stream launches another   *)
(* beside it.  Never while a stop is under way: that one sees it to its    *)
(* end.                                                                    *)
Stray ==
  /\ phase = "on"
  /\ writers # {}
  /\ writers' = {} /\ strays' = strays \cup writers
  /\ UNCHANGED phase

(* Nothing but its own end ends a stray.                                   *)
StrayExits ==
  /\ \E p \in strays : strays' = strays \ {p}
  /\ UNCHANGED <<phase, writers>>

(* A stop is asked for; from here on nothing is launched. *)
Disable ==
  /\ phase = "on"
  /\ phase' = "closing"
  /\ UNCHANGED <<writers, strays>>

(* The stop is over, which it may only be once nothing writes any more. *)
Release ==
  /\ phase \in {"on", "closing"}
  /\ writers = {}
  /\ phase' = "off"
  /\ UNCHANGED <<writers, strays>>

Next == Enable \/ Launch \/ Exit \/ Stray \/ StrayExits \/ Disable \/ Release

Spec == Init /\ [][Next]_vars

(* A stop that was asked for ends: the writer goes, then the stop returns. *)
FairSpec ==
  /\ Spec
  /\ WF_vars(phase = "closing" /\ Exit)
  /\ WF_vars(phase = "closing" /\ Release)
=============================================================================
