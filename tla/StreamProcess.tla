---------------------------- MODULE StreamProcess ----------------------------
(***************************************************************************)
(* One StreamProcess object of recorder.py: the supervisor task that keeps *)
(* an ffmpeg running, and the calls of async_stop that end it.  Everything *)
(* runs on one event loop, so a step reaches from one await to the next;   *)
(* what interleaves are the supervisor, any number of concurrent stops,    *)
(* and the operating system ending processes whenever it likes.            *)
(*                                                                         *)
(* The supervisor's run ends in two ways: ffmpeg has gone, or the reader   *)
(* of its messages raised while ffmpeg lives.  The second way forgets a    *)
(* living process, which nothing can end any more: those are the lost.     *)
(*                                                                         *)
(* Left out: the stderr lines kept for the panel, last_error and the       *)
(* restart counter, which nothing here reads back.                         *)
(***************************************************************************)
EXTENDS Naturals

CONSTANTS
  Pids,                  \* process identities; a dead one's may come back
  NoProc,                \* stands for None
  Stoppers,              \* callers of async_stop, which may overlap
  INITIAL_BACKOFF_SECONDS,
  MAX_BACKOFF_SECONDS

ASSUME NoProcAssumption == NoProc \notin Pids
ASSUME BackoffAssumption ==
  /\ INITIAL_BACKOFF_SECONDS \in Nat
  /\ MAX_BACKOFF_SECONDS \in Nat
  /\ INITIAL_BACKOFF_SECONDS <= MAX_BACKOFF_SECONDS

BACKOFF_FACTOR == 2

VARIABLES
  (* attributes of the object *)
  supervisor,   \* self._supervisor is not None
  stopping,     \* self._stopping
  process,      \* self._process
  running,      \* self.status.running
  (* the supervisor task *)
  pc,           \* the await it is suspended at
  cancelled,    \* cancel() was called and is raised at its next resumption
  child,        \* the local `process` of _async_run_once
  backoff,      \* the local `backoff` of _supervise
  (* the calls of async_stop *)
  stopPc,       \* the await each call is suspended at
  victim,       \* the local `process` of its _async_kill
  (* the operating system *)
  alive,        \* ffmpeg processes of this stream that have not been reaped
  killed,       \* those that were sent SIGKILL
  lost          \* those the object forgot when its reader raised

objectVars == <<supervisor, stopping, process, running>>
taskVars   == <<pc, cancelled, child, backoff>>
stopVars   == <<stopPc, victim>>
osVars     == <<alive, killed, lost>>
vars       == <<objectVars, taskVars, stopVars, osVars>>

PidOrNone == Pids \cup {NoProc}
Idle(s)   == stopPc[s] = "idle"
AllIdle   == \A s \in Stoppers : Idle(s)
Killing(s) == stopPc[s] \in {"kill1", "kill2"}
Tracked   == alive \ lost

(* An identity the system may hand out: nobody lives under it or holds it. *)
Free(p) ==
  /\ p \notin alive
  /\ p \notin {process, child}
  /\ \A s \in Stoppers : victim[s] # p

Init ==
  /\ supervisor = FALSE /\ stopping = FALSE
  /\ process = NoProc /\ running = FALSE
  /\ pc = "done" /\ cancelled = FALSE
  /\ child = NoProc /\ backoff = INITIAL_BACKOFF_SECONDS
  /\ stopPc = [s \in Stoppers |-> "idle"]
  /\ victim = [s \in Stoppers |-> NoProc]
  /\ alive = {} /\ killed = {} /\ lost = {}

-----------------------------------------------------------------------------
(* The supervisor *)

(* async_start: the background task starts eagerly, so the call itself     *)
(* takes the supervisor to its first await.  The manager makes an object   *)
(* and starts it, and never starts one a stop is still working on.         *)
Start ==
  /\ AllIdle
  /\ ~supervisor
  /\ supervisor' = TRUE
  /\ pc' = IF stopping THEN "done" ELSE "dirs"
  /\ cancelled' = FALSE
  /\ child' = NoProc
  /\ backoff' = INITIAL_BACKOFF_SECONDS
  /\ UNCHANGED <<stopping, process, running, stopVars, osVars>>

(* Faulty variant: a failed attempt ends the supervisor. *)
GivesUp == pc' = "done" /\ running' = FALSE /\ UNCHANGED backoff

(* The rest of _supervise's loop body after an attempt: an exit that was   *)
(* asked for ends the task, any other one waits and tries again; an        *)
(* attempt that lasted long enough starts over at the short interval.      *)
AttemptOver ==
  IF stopping
  THEN pc' = "done" /\ UNCHANGED <<running, backoff>>
  ELSE /\ pc' = "sleep"
       /\ running' = FALSE
       /\ backoff' \in {backoff, INITIAL_BACKOFF_SECONDS}

(* The day directories exist and the child is forked.  The loop gets to    *)
(* see it one await later, when create_subprocess_exec returns.            *)
Spawn ==
  /\ pc = "dirs" /\ ~cancelled
  /\ \E p \in Pids :
       /\ Free(p)
       /\ alive' = alive \cup {p}
       /\ child' = p
  /\ pc' = "spawn"
  /\ UNCHANGED <<objectVars, cancelled, backoff, stopVars, killed, lost>>

(* The directories cannot be made, or there is no ffmpeg to run. *)
SpawnFails ==
  /\ pc = "dirs" /\ ~cancelled
  /\ AttemptOver
  /\ UNCHANGED <<supervisor, stopping, process, cancelled, child, stopVars, osVars>>

Spawned ==
  /\ pc = "spawn" /\ ~cancelled
  /\ process' = child
  /\ running' = TRUE
  /\ pc' = "run"
  /\ UNCHANGED <<supervisor, stopping, cancelled, child, backoff, stopVars, osVars>>

(* The finally of _async_run_once *)
ForgetProcess == process' = IF process = child THEN NoProc ELSE process

(* Faulty variant: the end of the stderr pipe is taken for the end of the  *)
(* process.                                                                *)
StderrClosed == TRUE

(* The stderr drain ends and process.wait() returns. *)
ProcessEnded == child \notin alive

RunExit ==
  /\ pc = "run" /\ ~cancelled
  /\ ProcessEnded
  /\ ForgetProcess
  /\ child' = NoProc
  /\ AttemptOver
  /\ UNCHANGED <<supervisor, stopping, cancelled, stopVars, osVars>>

(* readline raises for a message longer than the reader's limit, while     *)
(* ffmpeg goes on.  The finally lets go of the process all the same, and   *)
(* _supervise swallows the exception as one more failed attempt.  A        *)
(* process that a stop has taken meanwhile is that stop's to end.          *)
DrainRaises ==
  /\ pc = "run" /\ ~cancelled
  /\ child \in alive
  /\ lost' = IF process = child THEN lost \cup {child} ELSE lost
  /\ ForgetProcess
  /\ child' = NoProc
  /\ AttemptOver
  /\ UNCHANGED <<supervisor, stopping, cancelled, stopVars, alive, killed>>

Longer(b) ==
  IF b * BACKOFF_FACTOR < MAX_BACKOFF_SECONDS
  THEN b * BACKOFF_FACTOR ELSE MAX_BACKOFF_SECONDS

(* The sleep is over: the interval doubles up to its maximum, and the loop *)
(* condition is looked at.                                                 *)
Wake ==
  /\ pc = "sleep" /\ ~cancelled
  /\ backoff' = Longer(backoff)
  /\ pc' = IF stopping THEN "done" ELSE "dirs"
  /\ UNCHANGED <<objectVars, cancelled, child, stopVars, osVars>>

(* CancelledError at an await of the supervisor's own. *)
CancelDelivered ==
  /\ cancelled /\ pc \in {"dirs", "run", "sleep"}
  /\ IF pc = "run" THEN ForgetProcess ELSE UNCHANGED process
  /\ pc' = "done"
  /\ child' = NoProc
  /\ UNCHANGED <<supervisor, stopping, running, cancelled, backoff, stopVars, osVars>>

(* CancelledError inside create_subprocess_exec: asyncio closes the        *)
(* transport, which kills the child, and waits for it before re-raising.   *)
CancelSpawn ==
  /\ cancelled /\ pc = "spawn"
  /\ killed' = killed \cup ({child} \cap alive)
  /\ pc' = "reap"
  /\ UNCHANGED <<objectVars, cancelled, child, backoff, stopVars, alive, lost>>

Reaped ==
  /\ pc = "reap"
  /\ child \notin alive
  /\ pc' = "done"
  /\ child' = NoProc
  /\ UNCHANGED <<objectVars, cancelled, backoff, stopVars, osVars>>

SupervisorStep ==
  Spawn \/ SpawnFails \/ Spawned \/ RunExit \/ Wake
    \/ CancelDelivered \/ CancelSpawn \/ Reaped

-----------------------------------------------------------------------------
(* async_stop *)

LiveSupervisor == supervisor /\ pc # "done"

(* _async_kill up to its first await: take the process, SIGTERM it. *)
Terminate(s, where) ==
  /\ process' = NoProc
  /\ victim' = [victim EXCEPT ![s] = process]
  /\ stopPc' = [stopPc EXCEPT ![s] = where]

(* supervisor.cancel() and the await of the cancelled task.  A task that   *)
(* has already ended is neither cancelled nor waited for.                  *)
CancelSupervisor(s) ==
  /\ LiveSupervisor
  /\ supervisor' = FALSE
  /\ cancelled' = TRUE
  /\ stopPc' = [stopPc EXCEPT ![s] = "await"]
  /\ victim' = [victim EXCEPT ![s] = NoProc]

(* The finally of async_stop and the status it leaves. *)
Return(s) ==
  /\ stopping' = FALSE
  /\ running' = FALSE
  /\ stopPc' = [stopPc EXCEPT ![s] = "idle"]
  /\ victim' = [victim EXCEPT ![s] = NoProc]

(* The second _async_kill, which returns at once if nothing is alive. *)
SecondKill(s) ==
  IF process \in alive
  THEN Terminate(s, "kill2") /\ UNCHANGED <<stopping, running>>
  ELSE process' = NoProc /\ Return(s)

(* Faulty variant: the supervisor is cancelled before the process is       *)
(* killed.                                                                 *)
CancelsFirst(s) ==
  /\ Idle(s)
  /\ process \in alive
  /\ stopping' = TRUE
  /\ CancelSupervisor(s)
  /\ UNCHANGED <<process, running, pc, child, backoff, osVars>>

(* A call finds ffmpeg running and waits for it to go. *)
StopKills(s) ==
  /\ Idle(s)
  /\ process \in alive
  /\ stopping' = TRUE
  /\ Terminate(s, "kill1")
  /\ UNCHANGED <<supervisor, running, taskVars, osVars>>

(* A call finds nothing alive and cancels the supervisor straight away. *)
StopCancels(s) ==
  /\ Idle(s)
  /\ process \notin alive
  /\ stopping' = TRUE
  /\ process' = NoProc
  /\ CancelSupervisor(s)
  /\ UNCHANGED <<running, pc, child, backoff, osVars>>

(* A call finds nothing alive and no task to wait for. *)
StopFindsNothing(s) ==
  /\ Idle(s)
  /\ process \notin alive
  /\ ~LiveSupervisor
  /\ process' = NoProc
  /\ supervisor' = FALSE
  /\ Return(s)
  /\ UNCHANGED <<taskVars, osVars>>

(* Faulty variant: nothing follows the SIGTERM. *)
NeverInsists(s) == FALSE

(* ffmpeg gets TERMINATE_TIMEOUT_SECONDS, then SIGKILL. *)
TerminateTimeout(s) ==
  /\ Killing(s)
  /\ victim[s] \in alive \ killed
  /\ killed' = killed \cup {victim[s]}
  /\ UNCHANGED <<objectVars, taskVars, stopVars, alive, lost>>

KillThenCancel(s) ==
  /\ stopPc[s] = "kill1"
  /\ victim[s] \notin alive
  /\ CancelSupervisor(s)
  /\ UNCHANGED <<stopping, process, running, pc, child, backoff, osVars>>

(* Nothing left to cancel, or the second kill is over. *)
KillThenReturn(s) ==
  /\ Killing(s)
  /\ victim[s] \notin alive
  /\ IF stopPc[s] = "kill1"
     THEN ~LiveSupervisor /\ supervisor' = FALSE /\ SecondKill(s)
     ELSE Return(s) /\ UNCHANGED <<supervisor, process>>
  /\ UNCHANGED <<taskVars, osVars>>

(* The cancelled supervisor has ended. *)
SupervisorGone(s) ==
  /\ stopPc[s] = "await"
  /\ pc = "done"
  /\ SecondKill(s)
  /\ UNCHANGED <<supervisor, taskVars, osVars>>

StopCall(s) == StopKills(s) \/ StopCancels(s) \/ StopFindsNothing(s)

StopStep(s) ==
  TerminateTimeout(s) \/ KillThenCancel(s) \/ KillThenReturn(s) \/ SupervisorGone(s)

-----------------------------------------------------------------------------
(* The operating system: a process ends by itself, because the camera went *)
(* away or because it took the SIGTERM.  Nothing forces it to, except a    *)
(* SIGKILL.                                                                *)
Die(p) ==
  /\ p \in alive
  /\ alive' = alive \ {p}
  /\ killed' = killed \ {p}
  /\ lost' = lost \ {p}
  /\ UNCHANGED <<objectVars, taskVars, stopVars>>

Next ==
  \/ Start
  \/ SupervisorStep
  \/ DrainRaises
  \/ \E s \in Stoppers : StopCall(s) \/ StopStep(s)
  \/ \E p \in Pids : Die(p)

Spec == Init /\ [][Next]_vars

(* The event loop resumes what is ready, the timeout fires, and a SIGKILL  *)
(* works.  Nobody has to call anything, ffmpeg does not have to exit, and  *)
(* the reader does not have to raise.                                      *)
Fairness ==
  /\ WF_vars(SupervisorStep)
  /\ \A s \in Stoppers : WF_vars(StopStep(s))
  /\ \A p \in Pids : WF_vars(p \in killed /\ Die(p))

FairSpec == Spec /\ Fairness

-----------------------------------------------------------------------------
(* Properties *)

TypeOK ==
  /\ supervisor \in BOOLEAN /\ stopping \in BOOLEAN /\ running \in BOOLEAN
  /\ process \in PidOrNone /\ child \in PidOrNone
  /\ pc \in {"dirs", "spawn", "reap", "run", "sleep", "done"}
  /\ cancelled \in BOOLEAN
  /\ backoff \in INITIAL_BACKOFF_SECONDS .. MAX_BACKOFF_SECONDS
  /\ stopPc \in [Stoppers -> {"idle", "kill1", "await", "kill2"}]
  /\ victim \in [Stoppers -> PidOrNone]
  /\ alive \in SUBSET Pids /\ killed \in SUBSET alive /\ lost \in SUBSET alive

(* Two ffmpeg processes of one stream would write into the same segment    *)
(* file names.  However starts, crashes, restarts and overlapping stops    *)
(* interleave, there is one way to a second one: a reader that raised and  *)
(* left the first behind.                                                  *)
OneWriter == \A p, q \in Tracked : p = q

(* When every async_stop that was called has returned, no ffmpeg is left   *)
(* running "and still writing into files that nothing tracks any more",    *)
(* as its docstring puts the failure it was written against, except those  *)
(* that nothing tracked when it was called.                                *)
StoppedIsDead == AllIdle /\ ~supervisor => Tracked = {}

(* A kill that was asked for is not taken for a crash: between the call    *)
(* of async_stop and its return no process is added.                       *)
NoLaunchWhileStopping == [][~AllIdle => alive' \subseteq alive]_vars

(* The panel's "running" is never shown for a stream nobody supervises:    *)
(* once stopped it is false, and it stays false until the next launch.     *)
RunningIsSupervised == running /\ AllIdle => supervisor

(* Every gap ends: a supervised stream without an ffmpeg of its own comes  *)
(* back to the point where it makes another attempt, whether the last one  *)
(* crashed or was lost, unless it is being stopped.                        *)
GapsEnd == (supervisor /\ Tracked = {}) ~> (pc = "dirs" \/ ~AllIdle)

(* A call of async_stop returns, even if ffmpeg ignores SIGTERM.           *)
StopsReturn == \A s \in Stoppers : ~Idle(s) ~> Idle(s)

(* Why the above hold: who may hold the running process at each moment.    *)
(* A kill only ever takes the process from a supervisor that sits in its   *)
(* run, so until that supervisor is cancelled or has ended the stopping    *)
(* flag is up; and a cancelled supervisor owns no self._process any more.  *)
(* In particular the second _async_kill never finds anything.              *)
Quiesced == cancelled \/ pc = "done"

Coordination ==
  /\ \A s \in Stoppers :
       /\ stopPc[s] # "kill2"
       /\ stopPc[s] = "kill1" => stopping \/ Quiesced
       /\ stopPc[s] = "kill1" /\ ~Quiesced =>
            pc = "run" /\ process = NoProc /\ victim[s] = child
       /\ stopPc[s] = "await" => cancelled
       /\ stopPc[s] = "kill1" => victim[s] \notin lost
  /\ ~Quiesced => supervisor
  /\ ~supervisor /\ pc # "done" => \E s \in Stoppers : stopPc[s] = "await"
  /\ cancelled => ~supervisor /\ process = NoProc
  /\ stopping => ~AllIdle
  /\ pc \in {"dirs", "sleep"} /\ ~cancelled => Tracked = {}
  /\ pc \in {"spawn", "reap", "run"} => child \notin lost /\ \A p \in Tracked : p = child
  /\ process # NoProc => pc = "run" /\ process = child
  /\ pc = "reap" => cancelled
  /\ child # NoProc <=> pc \in {"spawn", "reap", "run"}
  /\ \A p \in Tracked :
       \/ p = process
       \/ pc \in {"spawn", "reap"} /\ p = child
       \/ \E s \in Stoppers : stopPc[s] = "kill1" /\ victim[s] = p
  /\ OneWriter
  /\ RunningIsSupervised

(* The stream keeps the promise of RecordedStream. *)
Phase ==
  IF ~AllIdle THEN "closing" ELSE IF supervisor THEN "on" ELSE "off"

Abs == INSTANCE RecordedStream WITH
         phase <- Phase, writers <- Tracked, strays <- lost

ImplementsRecordedStream == Abs!FairSpec
=============================================================================
