--------------------------- MODULE StorageReconcile ---------------------------
(***************************************************************************)
(* The coordinator and its recording location (coordinator.py): every      *)
(* update cycle probes the location, reconnects the network mount it lives *)
(* on, with backoff, and starts or stops the recordings on the transition. *)
(* The panel meanwhile saves configurations, pauses cameras, asks for a    *)
(* reconnect or a refresh; none of these waits for the others.             *)
(*                                                                         *)
(* The recorder is here what RecorderManager shows in detail: applies run  *)
(* one after the other, and a stop that cuts into one leaves open whether  *)
(* it still records afterwards.  Cameras that could not be resolved are    *)
(* tried again by every cycle, and when they announce themselves; a retry  *)
(* passes on what the recorder applied last, as it was before the retry    *)
(* waited.  Whether a camera is unresolved is left open.  One network      *)
(* share is behind all locations on a mount; a share can be unmounted or   *)
(* its server unreachable.                                                 *)
(***************************************************************************)
EXTENDS Naturals, Sequences

CONSTANTS
  Locations, Shared,  \* the locations, and those of them on the mount
  Nowhere, NoMount,   \* nothing is recorded; None
  Mount,              \* the mount's name
  Panel,              \* the panel's requests, and announcements of cameras, that
                      \* can be under way at once
  Cycle,              \* the coordinator's update cycle
  AUTO_RECONNECT_MAX_SKIP_CYCLES,
  MaxCalls,           \* bound on these
  MaxFaults           \* bound on what breaks outside

Tasks == Panel \cup {Cycle}

ASSUME LocationsAssumption == Shared \subseteq Locations /\ Nowhere \notin Locations
ASSUME TasksAssumption == Cycle \notin Panel
ASSUME CapAssumption == AUTO_RECONNECT_MAX_SKIP_CYCLES \in Nat \ {0}

VARIABLES
  base_path,        \* config.storage.base_path
  storage_error,    \* storage_error is not None
  ready,            \* _storage_ready
  reconnect_mount, skip, backoff,
  recording,        \* where the supervised streams write or try to, or Nowhere
  applies,          \* the recorder's lock: applies, the first one under way
  latest,           \* the location of _latest, or Nowhere for None
  overtaken,        \* (history) whether a retry that had waited set it to an older one
  task,             \* the coroutines
  server, mounted,  \* the share's server answers; the share is mounted
  calls, faults     \* what the bounds count

storageVars == <<storage_error, ready, reconnect_mount, skip, backoff>>
worldVars == <<server, mounted, faults>>
recorderVars == <<recording, applies, latest, overtaken>>
vars == <<base_path, storageVars, recorderVars, task, worldVars, calls>>

Idle == [pc |-> "idle"]
Usable(l) == l \in Shared => server /\ mounted

Init ==
  /\ base_path \in Locations
  /\ storage_error = FALSE /\ ready = FALSE
  /\ reconnect_mount = NoMount /\ skip = 0 /\ backoff = 0
  /\ recording = Nowhere /\ applies = <<>>
  /\ latest = Nowhere /\ overtaken = FALSE
  /\ task = [t \in Tasks |-> Idle]
  /\ server \in BOOLEAN /\ mounted \in BOOLEAN
  /\ calls = 0 /\ faults = 0

-----------------------------------------------------------------------------
(* The recorder *)

(* The line at the lock; whoever is the first in it has entered, and has   *)
(* set _latest, which a stop may have cleared again.                       *)
Line(line) ==
  /\ applies' = line
  /\ IF line = <<>> \/ Head(line).cut THEN UNCHANGED <<latest, overtaken>>
     ELSE latest' = Head(line).loc /\ overtaken' = Head(line).older

Waiting(t, l, older) == [task |-> t, loc |-> l, cut |-> FALSE, older |-> older]

(* async_apply is called; `then` says how the caller goes on after it. *)
CallApply(t, l, then) ==
  /\ Line(Append(applies, Waiting(t, l, FALSE)))
  /\ task' = [task EXCEPT ![t] = [pc |-> "applying", then |-> then]]
  /\ UNCHANGED recording

(* async_retry_unresolved with a camera to retry: what it passes on is     *)
(* older than what is, or will be applied before it.                       *)
Retry(t, line) ==
  /\ latest # Nowhere
  /\ LET older == overtaken \/ \E i \in DOMAIN line : line[i].loc # latest IN
       Line(Append(line, Waiting(t, latest, older)))
  /\ task' = [task EXCEPT ![t] = [pc |-> "applying", then |-> "idle"]]

(* The rest of a cycle, behind `line`: a retry, unless the location is     *)
(* gone or there is nothing to retry.                                      *)
GoOn(t, line, error) ==
  \/ Line(line) /\ task' = [task EXCEPT ![t] = Idle]
  \/ ~error /\ Retry(t, line)

(* async_stop_all, in the middle of an apply or not *)
StopAll(t) ==
  /\ recording' = Nowhere
  /\ applies' = [i \in DOMAIN applies |->
                   IF i = 1 THEN [applies[i] EXCEPT !.cut = TRUE] ELSE applies[i]]
  /\ latest' = Nowhere /\ UNCHANGED overtaken
  /\ task' = [task EXCEPT ![t] = Idle]

Probing(l, again) == [pc |-> "probing", loc |-> l, again |-> again]

(* The first apply is over, and the next one enters; or a KeyError has     *)
(* ended it.                                                               *)
ApplyDone ==
  /\ applies # <<>>
  /\ LET a == Head(applies) IN
       \/ /\ recording' = a.loc
          /\ IF task[a.task].then = "cycle" THEN GoOn(a.task, Tail(applies), storage_error)
             ELSE /\ Line(Tail(applies))
                  /\ task' = [task EXCEPT ![a.task] =
                       IF task[a.task].then = "refresh" THEN Probing(base_path, FALSE) ELSE Idle]
       \/ /\ a.cut
          /\ Line(Tail(applies))
          /\ task' = [task EXCEPT ![a.task] = Idle]
          /\ UNCHANGED recording
  /\ UNCHANGED <<base_path, storageVars, worldVars, calls>>

-----------------------------------------------------------------------------
(* _async_reconcile_storage *)

(* Faulty variant: what is gone is only noticed where no mount can help. *)
DecideIfHopeless(t, error, mount) ==
  CASE ~error /\ ~ready -> ready' = TRUE /\ CallApply(t, base_path, "cycle")
    [] error /\ ready /\ mount = NoMount -> ready' = FALSE /\ StopAll(t)
    [] OTHER -> GoOn(t, applies, error) /\ UNCHANGED <<ready, recording>>

(* Faulty variant: the flag stays set when recording stops. *)
DecideUnmarked(t, error, mount) ==
  CASE ~error /\ ~ready -> ready' = TRUE /\ CallApply(t, base_path, "cycle")
    [] error /\ ready -> StopAll(t) /\ UNCHANGED ready
    [] OTHER -> GoOn(t, applies, error) /\ UNCHANGED <<ready, recording>>

(* Its end: recording starts when the location came, stops when it went.   *)
(* The cycle then goes on to the retry.                                    *)
Decide(t, error, mount) ==
  CASE ~error /\ ~ready -> ready' = TRUE /\ CallApply(t, base_path, "cycle")
    [] error /\ ready -> ready' = FALSE /\ StopAll(t)
    [] OTHER -> GoOn(t, applies, error) /\ UNCHANGED <<ready, recording>>

(* The next cycle *)
Update ==
  /\ task[Cycle] = Idle
  /\ task' = [task EXCEPT ![Cycle] = Probing(base_path, FALSE)]
  /\ UNCHANGED <<base_path, storageVars, recorderVars, worldVars, calls>>

(* _async_probe_storage: prepare_storage succeeds, *)
ProbeOk(t) ==
  /\ task[t].pc = "probing" /\ Usable(task[t].loc)
  /\ storage_error' = FALSE
  /\ reconnect_mount' = NoMount /\ skip' = 0 /\ backoff' = 0
  /\ Decide(t, FALSE, NoMount)
  /\ UNCHANGED <<base_path, worldVars, calls>>

(* or raises, and the mount of what is configured by now is looked up. *)
ProbeFails(t) ==
  /\ task[t].pc = "probing" /\ ~Usable(task[t].loc)
  /\ storage_error' = TRUE
  /\ task' = [task EXCEPT ![t] =
       [pc |-> "looking", loc |-> base_path, again |-> task[t].again]]
  /\ UNCHANGED <<base_path, ready, reconnect_mount, skip, backoff,
                 recorderVars, worldVars, calls>>

Smaller(a, b) == IF a < b THEN a ELSE b
Larger(a, b) == IF a < b THEN b ELSE a

Longer(b) == Smaller(Larger(1, 2 * b), AUTO_RECONNECT_MAX_SKIP_CYCLES)

(* Faulty variant: a cycle that sits out is not counted. *)
SitOutForever == UNCHANGED skip

SitOut == skip' = skip - 1

(* _async_auto_reconnect, up to the Supervisor's answer *)
AutoReconnect(t, mount) ==
  \/ /\ mount = NoMount
     /\ Decide(t, TRUE, mount)
     /\ UNCHANGED <<skip, backoff>>
  \/ /\ mount # NoMount /\ skip > 0
     /\ SitOut
     /\ Decide(t, TRUE, mount)
     /\ UNCHANGED backoff
  \/ /\ mount # NoMount /\ skip = 0
     /\ skip' = backoff
     /\ backoff' = Longer(backoff)
     /\ task' = [task EXCEPT ![t] = [pc |-> "reloading", auto |-> TRUE]]
     /\ UNCHANGED <<ready, recorderVars>>

MountFor(l) == IF l \in Shared THEN Mount ELSE NoMount

(* The Supervisor's list of mounts arrives, or it does not answer.  The    *)
(* error may have been cleared meanwhile, by a save or another refresh.    *)
LookedUp(t) ==
  /\ task[t].pc = "looking"
  /\ \/ reconnect_mount' = MountFor(task[t].loc) /\ UNCHANGED faults
     \/ /\ faults < MaxFaults /\ faults' = faults + 1
        /\ reconnect_mount' = NoMount
  /\ IF storage_error /\ ~task[t].again
     THEN AutoReconnect(t, reconnect_mount')
     ELSE Decide(t, storage_error, reconnect_mount') /\ UNCHANGED <<skip, backoff>>
  /\ UNCHANGED <<base_path, storage_error, server, mounted, calls>>

(* The reload of the mount went through: probe again. *)
Reloaded(t) ==
  /\ task[t].pc = "reloading" /\ server
  /\ mounted' = TRUE
  /\ task' = [task EXCEPT ![t] = Probing(base_path, task[t].auto)]
  /\ UNCHANGED <<base_path, storageVars, recorderVars, server, faults, calls>>

(* It failed. *)
ReloadFails(t) ==
  /\ task[t].pc = "reloading"
  /\ IF server THEN faults < MaxFaults /\ faults' = faults + 1 ELSE UNCHANGED faults
  /\ IF task[t].auto
     THEN Decide(t, storage_error, reconnect_mount)
     ELSE /\ task' = [task EXCEPT ![t] = Idle]
          /\ UNCHANGED <<ready, recorderVars>>
  /\ UNCHANGED <<base_path, storage_error, reconnect_mount, skip, backoff,
                 server, mounted, calls>>

-----------------------------------------------------------------------------
(* The panel *)

Call(t) == t \in Panel /\ task[t] = Idle /\ calls < MaxCalls /\ calls' = calls + 1

(* A save: of another location only after it was found usable.  Whether it *)
(* is another one is decided here.                                         *)
SaveCall(t, l) ==
  /\ Call(t)
  /\ l = base_path \/ Usable(l)
  /\ task' = [task EXCEPT ![t] = [pc |-> "saving", loc |-> l, moved |-> l # base_path]]
  /\ UNCHANGED <<base_path, storageVars, recorderVars, worldVars>>

(* async_set_config, once the store has the configuration; a refresh       *)
(* follows where the location changed.                                     *)
Saved(t) ==
  /\ task[t].pc = "saving"
  /\ base_path' = task[t].loc
  /\ storage_error' = FALSE /\ ready' = TRUE
  /\ CallApply(t, task[t].loc, IF task[t].moved THEN "refresh" ELSE "idle")
  /\ UNCHANGED <<reconnect_mount, skip, backoff, worldVars, calls>>

(* async_set_paused *)
SetPaused(t) ==
  /\ Call(t)
  /\ CallApply(t, base_path, "idle")
  /\ UNCHANGED <<base_path, storageVars, worldVars>>

(* ws_reconnect_storage *)
Reconnect(t) ==
  /\ Call(t) /\ reconnect_mount # NoMount
  /\ task' = [task EXCEPT ![t] = [pc |-> "reloading", auto |-> FALSE]]
  /\ UNCHANGED <<base_path, storageVars, recorderVars, worldVars>>

(* async_refresh on behalf of the panel *)
Refresh(t) ==
  /\ Call(t)
  /\ task' = [task EXCEPT ![t] = Probing(base_path, FALSE)]
  /\ UNCHANGED <<base_path, storageVars, recorderVars, worldVars>>

(* _on_source_event: a camera that could not be resolved has a state now. *)
SourceEvent(t) ==
  /\ Call(t)
  /\ Retry(t, applies)
  /\ UNCHANGED <<base_path, storageVars, recording, worldVars>>

(* The world: the server comes and goes, the mount is lost. *)
World ==
  /\ \/ ~server /\ server' = TRUE /\ UNCHANGED <<mounted, faults>>
     \/ /\ faults < MaxFaults /\ faults' = faults + 1
        /\ \/ server /\ server' = FALSE /\ UNCHANGED mounted
           \/ mounted /\ mounted' = FALSE /\ UNCHANGED server
  /\ UNCHANGED <<base_path, storageVars, recorderVars, task, calls>>

ReconcileStep(t) ==
  ProbeOk(t) \/ ProbeFails(t) \/ LookedUp(t) \/ Reloaded(t) \/ ReloadFails(t)

Next ==
  \/ Update \/ ApplyDone \/ World
  \/ \E t \in Tasks : ReconcileStep(t) \/ Saved(t)
  \/ \E t \in Panel :
       \/ \E l \in Locations : SaveCall(t, l)
       \/ SetPaused(t) \/ Reconnect(t) \/ Refresh(t) \/ SourceEvent(t)

Spec == Init /\ [][Next]_vars

(* Home Assistant calls the next cycle, and what was awaited answers. *)
Fairness ==
  /\ WF_vars(Update) /\ WF_vars(ApplyDone)
  /\ \A t \in Tasks : WF_vars(ReconcileStep(t)) /\ WF_vars(Saved(t))

FairSpec == Spec /\ Fairness

-----------------------------------------------------------------------------
(* Properties *)

(* Neither the spacing of the reconnects nor what is left of it exceeds    *)
(* the cap of sixteen cycles.                                              *)
TypeOK ==
  /\ base_path \in Locations /\ recording \in Locations \cup {Nowhere}
  /\ storage_error \in BOOLEAN /\ ready \in BOOLEAN
  /\ reconnect_mount \in {Mount, NoMount}
  /\ skip \in 0 .. AUTO_RECONNECT_MAX_SKIP_CYCLES
  /\ backoff \in 0 .. AUTO_RECONNECT_MAX_SKIP_CYCLES
  /\ applies \in Seq([task : Tasks, loc : Locations, cut : BOOLEAN, older : BOOLEAN])
  /\ latest \in Locations \cup {Nowhere} /\ overtaken \in BOOLEAN
  /\ DOMAIN task = Tasks
  /\ \A t \in Tasks : task[t].pc \in
       {"idle", "probing", "looking", "reloading", "applying", "saving"}
  /\ server \in BOOLEAN /\ mounted \in BOOLEAN

AllIdle == \A t \in Tasks : task[t] = Idle

(* Recording where the recorder was told last, which is the configured     *)
(* location unless a retry that had waited behind a save undid the save.   *)
RecordsWhatWasApplied ==
  /\ latest # Nowhere /\ recording = latest
  /\ latest = base_path \/ overtaken

(* A coordinator that takes its location for ready records there, once all *)
(* calls are over, whatever saves, pauses, refreshes and cycles overlapped *)
(* in the probes, in the lookup of the mount and in the recorder's lock;   *)
(* unless a retry that read the location before it waited for the lock     *)
(* took recording back to the previous one.  Everything has its type, the  *)
(* backoff within its cap.                                                 *)
ReadyRecords ==
  /\ TypeOK
  /\ AllIdle /\ ready => RecordsWhatWasApplied

(* "Starts on its own the moment it is back": if the server stays          *)
(* reachable, recording resumes for good without anyone at the panel,      *)
(* however long the backoff had grown; where, as in ReadyRecords.          *)
RecordsAgain ==
  <>[]server => <>[](ready /\ ~storage_error /\ RecordsWhatWasApplied)

(* A location that stays gone is reported for good, although every save    *)
(* clears the report.                                                      *)
GoneIsReported == <>[]~Usable(base_path) => <>[](storage_error /\ ~ready)
=============================================================================
