------------------------------- MODULE LiveTile --------------------------------
(***************************************************************************)
(* A live tile of the panel (frontend/src/components/live-stream.ts): the  *)
(* negotiation of a stream, transport by transport, while the tile leaves  *)
(* the screen, comes back, is taken out of the page or is given another    *)
(* camera.  pc is the await of start(), of which one is under way at a     *)
(* time.  Full screen and the loupe, which touch none of it, are left out. *)
(*                                                                         *)
(* A WebRTC session has the number of the start that negotiated it.  What  *)
(* is in the picture is left out.                                          *)
(***************************************************************************)
EXTENDS Naturals

CONSTANTS
  Cameras,
  MaxStarts    \* bound on negotiations

VARIABLES
  entityId,
  connected,   \* the tile is part of the page
  visible,     \* what the observer has last said
  mode,        \* what is rendered
  pc, types,   \* start(): its await, and the transports it may use
  starts,
  peer,        \* this.peer, or 0
  open,        \* the peer connections that are not closed
  unsubscribe, \* the session that this.unsubscribe ends, or 0
  sessions     \* the sessions at the server: [start, camera]

tileVars == <<entityId, connected, visible>>
startVars == <<pc, types, starts>>
streamVars == <<mode, peer, open, unsubscribe, sessions>>
vars == <<tileVars, startVars, streamVars>>

Init ==
  /\ entityId \in Cameras /\ connected = TRUE /\ visible = FALSE
  /\ mode = "idle" /\ pc = "idle" /\ types = {} /\ starts = 0
  /\ peer = 0 /\ open = {} /\ unsubscribe = 0 /\ sessions = {}

-----------------------------------------------------------------------------
(* start() and stop(), as the callbacks of the tile call them *)

start ==
  IF pc = "idle"
  THEN pc' = "capabilities" /\ starts' = starts + 1 /\ UNCHANGED types
  ELSE UNCHANGED startVars

stop ==
  /\ sessions' = {s \in sessions : s.start # unsubscribe} /\ unsubscribe' = 0
  /\ open' = open \ {peer} /\ peer' = 0
  /\ mode' = "idle"

Reported ==
  /\ connected /\ starts < MaxStarts
  /\ visible' = ~visible
  /\ IF visible' THEN start /\ UNCHANGED streamVars ELSE stop /\ UNCHANGED startVars
  /\ UNCHANGED <<entityId, connected>>

(* The view is switched; the tile in its place is reused. *)
OtherCamera ==
  /\ connected /\ starts < MaxStarts
  /\ \E camera \in Cameras \ {entityId} : entityId' = camera
  /\ IF visible THEN stop /\ start ELSE UNCHANGED <<startVars, streamVars>>
  /\ UNCHANGED <<connected, visible>>

Disconnected ==
  /\ connected /\ connected' = FALSE
  /\ stop
  /\ UNCHANGED <<entityId, visible, startVars>>

(* The new observer's first report starts nothing if it is no news. *)
Connected ==
  /\ ~connected /\ connected' = TRUE
  /\ UNCHANGED <<entityId, visible, startVars, streamVars>>

-----------------------------------------------------------------------------
(* What start() waits for *)

Finished == pc' = "idle" /\ UNCHANGED <<types, starts>>
Waits(for) == pc' = for /\ UNCHANGED <<types, starts>>

(* An image that goes on, or, without a token, one that does not *)
startMjpeg == mode' \in {"mjpeg", "still"} /\ Finished

NextTransport ==
  IF "hls" \in types THEN Waits("stream") /\ UNCHANGED mode ELSE startMjpeg

Capabilities ==
  /\ pc = "capabilities"
  /\ types' \in SUBSET {"web_rtc", "hls"} /\ UNCHANGED starts
  /\ IF "web_rtc" \in types' THEN pc' = "config" /\ UNCHANGED mode
     ELSE IF "hls" \in types' THEN pc' = "stream" /\ UNCHANGED mode
     ELSE pc' = "idle" /\ mode' \in {"mjpeg", "still"}
  /\ UNCHANGED <<tileVars, peer, open, unsubscribe, sessions>>

CapabilitiesFail ==
  /\ pc = "capabilities"
  /\ mode' = "error" /\ Finished
  /\ UNCHANGED <<tileVars, peer, open, unsubscribe, sessions>>

ClientConfig ==
  /\ pc = "config"
  /\ peer' = starts /\ open' = open \cup {starts}
  /\ Waits("offer")
  /\ UNCHANGED <<tileVars, mode, unsubscribe, sessions>>

(* createOffer and setLocalDescription, which a closed connection refuses *)
Offered ==
  /\ pc = "offer" /\ starts \in open
  /\ mode' = "webrtc" /\ Waits("subscribe")
  /\ sessions' = sessions \cup {[start |-> starts, camera |-> entityId]}
  /\ UNCHANGED <<tileVars, peer, open, unsubscribe>>

Subscribed ==
  /\ pc = "subscribe"
  /\ unsubscribe' = starts /\ Finished
  /\ UNCHANGED <<tileVars, mode, peer, open, sessions>>

(* The next transport is tried immediately. *)
WebRtcFails ==
  /\ pc \in {"config", "offer", "subscribe"}
  /\ sessions' = {s \in sessions : s.start # starts}
  /\ open' = open \ {peer} /\ peer' = 0
  /\ NextTransport
  /\ UNCHANGED <<tileVars, unsubscribe>>

startHls ==
  /\ pc = "stream"
  /\ \/ mode' = "hls" /\ Finished
     \/ startMjpeg
  /\ UNCHANGED <<tileVars, peer, open, unsubscribe, sessions>>

(* The server ends a session with an error. *)
SessionFails ==
  /\ sessions # {}
  /\ mode' = "error"
  /\ UNCHANGED <<tileVars, startVars, peer, open, unsubscribe, sessions>>

Next ==
  \/ Reported \/ OtherCamera \/ Disconnected \/ Connected
  \/ Capabilities \/ CapabilitiesFail \/ ClientConfig \/ Offered \/ Subscribed
  \/ WebRtcFails \/ startHls \/ SessionFails

Spec == Init /\ [][Next]_vars

-----------------------------------------------------------------------------
(* Properties *)

(* "A tile that is not on screen never opens a stream": once nothing is    *)
(* being negotiated, a tile the observer has seen leave the screen has no  *)
(* session at the server, no connection to the camera, and no picture that *)
(* goes on.                                                                *)
OffScreenHoldsNothing ==
  pc = "idle" /\ ~visible =>
    /\ sessions = {} /\ open = {}
    /\ mode \notin {"webrtc", "hls", "mjpeg"}
=============================================================================
