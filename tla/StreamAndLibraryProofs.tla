------------------------ MODULE StreamAndLibraryProofs ------------------------
(***************************************************************************)
(* Theorems about StreamProcess, for any set of process identities, any    *)
(* number of overlapping stops and any backoff bounds; and about Library,  *)
(* for any cameras, people, pictures, requests and any grace period.  The  *)
(* two share nothing, and Library's specification has names of its own.    *)
(***************************************************************************)
EXTENDS StreamProcess, Library, TLAPS

-----------------------------------------------------------------------------
(* StreamProcess *)


(* The first interval of the backoff is one the range of intervals allows. *)
LEMMA InitialInRange ==
  INITIAL_BACKOFF_SECONDS \in INITIAL_BACKOFF_SECONDS .. MAX_BACKOFF_SECONDS
BY BackoffAssumption

(* The variables of the model keep their types; in particular the backoff  *)
(* of _supervise stays between INITIAL_ and MAX_BACKOFF_SECONDS.           *)
THEOREM TypeCorrect == Spec => []TypeOK
<1> USE NoProcAssumption, BackoffAssumption, InitialInRange
    DEF TypeOK, PidOrNone, objectVars, taskVars, stopVars, osVars, BACKOFF_FACTOR
<1>1. Init => TypeOK
  BY DEF Init
<1>2. TypeOK /\ [Next]_vars => TypeOK'
  <2> SUFFICES ASSUME TypeOK, [Next]_vars PROVE TypeOK'
    OBVIOUS
  <2>1. CASE Start
    BY <2>1 DEF Start
  <2>2. CASE Spawn
    BY <2>2 DEF Spawn
  <2>3. CASE SpawnFails
    BY <2>3 DEF SpawnFails, AttemptOver
  <2>4. CASE Spawned
    BY <2>4 DEF Spawned
  <2>5. CASE RunExit
    BY <2>5 DEF RunExit, AttemptOver, ForgetProcess, ProcessEnded
  <2>6. CASE Wake
    BY <2>6 DEF Wake, Longer
  <2>7. CASE CancelDelivered
    BY <2>7 DEF CancelDelivered, ForgetProcess
  <2>8. CASE CancelSpawn
    BY <2>8 DEF CancelSpawn
  <2>9. CASE Reaped
    BY <2>9 DEF Reaped
  <2>10. ASSUME NEW s \in Stoppers, StopCall(s) PROVE TypeOK'
    <3>1. CASE StopKills(s)
      BY <3>1 DEF StopKills, Terminate
    <3>2. CASE StopCancels(s)
      BY <3>2 DEF StopCancels, CancelSupervisor
    <3>3. CASE StopFindsNothing(s)
      BY <3>3 DEF StopFindsNothing, Return
    <3>4. QED
      BY <2>10, <3>1, <3>2, <3>3 DEF StopCall
  <2>11. ASSUME NEW s \in Stoppers, StopStep(s) PROVE TypeOK'
    <3>1. CASE TerminateTimeout(s)
      BY <3>1 DEF TerminateTimeout
    <3>2. CASE KillThenCancel(s)
      BY <3>2 DEF KillThenCancel, CancelSupervisor
    <3>3. CASE KillThenReturn(s)
      BY <3>3 DEF KillThenReturn, SecondKill, Terminate, Return
    <3>4. CASE SupervisorGone(s)
      BY <3>4 DEF SupervisorGone, SecondKill, Terminate, Return
    <3>5. QED
      BY <2>11, <3>1, <3>2, <3>3, <3>4 DEF StopStep
  <2>12. ASSUME NEW p \in Pids, Die(p) PROVE TypeOK'
    BY <2>12 DEF Die
  <2>13. CASE DrainRaises
    BY <2>13 DEF DrainRaises, AttemptOver, ForgetProcess
  <2>14. CASE UNCHANGED vars
    BY <2>14 DEF vars
  <2>15. QED
    BY <2>1, <2>2, <2>3, <2>4, <2>5, <2>6, <2>7, <2>8, <2>9, <2>10, <2>11, <2>12, <2>13, <2>14
    DEF Next, SupervisorStep
<1>3. QED
  BY <1>1, <1>2, PTL DEF Spec

(* Coordination is inductive. *)
LEMMA CoordinationInit == Init => Coordination
BY NoProcAssumption
DEF Init, Coordination, OneWriter, RunningIsSupervised, Quiesced, AllIdle, Idle, Tracked

LEMMA CoordinationStep == TypeOK /\ Coordination /\ [Next]_vars => Coordination'
<1> USE NoProcAssumption
    DEF TypeOK, PidOrNone, Coordination, OneWriter, RunningIsSupervised,
        Quiesced, AllIdle, Idle, Tracked, objectVars, taskVars, stopVars, osVars
<1> SUFFICES ASSUME TypeOK, Coordination, [Next]_vars PROVE Coordination'
  OBVIOUS
<1>1. CASE Start
  BY <1>1 DEF Start
<1>2. CASE Spawn
  BY <1>2 DEF Spawn, Free
<1>3. CASE SpawnFails
  BY <1>3 DEF SpawnFails, AttemptOver
<1>4. CASE Spawned
  BY <1>4 DEF Spawned
<1>5. CASE RunExit
  BY <1>5 DEF RunExit, AttemptOver, ForgetProcess, ProcessEnded
<1>6. CASE Wake
  BY <1>6 DEF Wake
<1>7. CASE CancelDelivered
  BY <1>7 DEF CancelDelivered, ForgetProcess
<1>8. CASE CancelSpawn
  BY <1>8 DEF CancelSpawn
<1>9. CASE Reaped
  BY <1>9 DEF Reaped
<1>10. ASSUME NEW s \in Stoppers, StopCall(s) PROVE Coordination'
  <2>1. CASE StopKills(s)
    BY <2>1 DEF StopKills, Terminate
  <2>2. CASE StopCancels(s)
    BY <2>2 DEF StopCancels, CancelSupervisor, LiveSupervisor
  <2>3. CASE StopFindsNothing(s)
    BY <2>3 DEF StopFindsNothing, Return, LiveSupervisor
  <2>4. QED
    BY <1>10, <2>1, <2>2, <2>3 DEF StopCall
<1>11. ASSUME NEW s \in Stoppers, StopStep(s) PROVE Coordination'
  <2>1. CASE TerminateTimeout(s)
    BY <2>1 DEF TerminateTimeout
  <2>2. CASE KillThenCancel(s)
    BY <2>2 DEF KillThenCancel, CancelSupervisor, LiveSupervisor
  <2>3. CASE KillThenReturn(s)
    <3>1. stopPc[s] = "kill1" /\ process = NoProc
      BY <2>3 DEF KillThenReturn, Killing
    <3>2. process' = NoProc /\ Return(s)
      BY <2>3, <3>1 DEF KillThenReturn, SecondKill
    <3>3. QED
      BY <2>3, <3>1, <3>2 DEF KillThenReturn, Return, LiveSupervisor
  <2>4. CASE SupervisorGone(s)
    BY <2>4 DEF SupervisorGone, SecondKill, Terminate, Return
  <2>5. QED
    BY <1>11, <2>1, <2>2, <2>3, <2>4 DEF StopStep
<1>12. ASSUME NEW p \in Pids, Die(p) PROVE Coordination'
  BY <1>12 DEF Die
<1>13. CASE DrainRaises
  BY <1>13 DEF DrainRaises, AttemptOver, ForgetProcess
<1>14. CASE UNCHANGED vars
  BY <1>14 DEF vars
<1>15. QED
  BY <1>1, <1>2, <1>3, <1>4, <1>5, <1>6, <1>7, <1>8, <1>9, <1>10, <1>11, <1>12, <1>13, <1>14
  DEF Next, SupervisorStep

LEMMA Coordinated == Spec => []Coordination
<1>1. QED
  BY CoordinationInit, CoordinationStep, TypeCorrect, PTL DEF Spec

(* At most one ffmpeg of a stream is ever running beside those that a      *)
(* raising reader made it lose.                                            *)
THEOREM NeverTwoWriters == Spec => []OneWriter
<1>1. Coordination => OneWriter
  BY DEF Coordination
<1>2. QED
  BY <1>1, Coordinated, PTL

(* The panel shows "running" only for a stream somebody supervises. *)
THEOREM StatusIsTrue == Spec => []RunningIsSupervised
<1>1. Coordination => RunningIsSupervised
  BY DEF Coordination
<1>2. QED
  BY <1>1, Coordinated, PTL

(* Once every call of async_stop has returned, no ffmpeg is left but those *)
(* lost before.                                                            *)
LEMMA DeadWhenStopped == TypeOK /\ Coordination => StoppedIsDead
<1> SUFFICES ASSUME TypeOK, Coordination, AllIdle, ~supervisor PROVE Tracked = {}
  BY DEF StoppedIsDead
<1>1. pc = "done" /\ process = NoProc
  BY DEF Coordination, AllIdle, Idle
<1>2. \A p \in Tracked : FALSE
  BY <1>1, NoProcAssumption DEF TypeOK, Coordination, AllIdle, Idle, Tracked
<1>3. QED
  BY <1>2

THEOREM StopLeavesNothing == Spec => []StoppedIsDead
BY DeadWhenStopped, TypeCorrect, Coordinated, PTL

(* Only a supervisor nobody is stopping forks a process. *)
LEMMA SpawnsOnlyWhenWanted ==
  ASSUME TypeOK, Coordination, Spawn
  PROVE  AllIdle /\ supervisor /\ Tracked = {}
<1>1. pc = "dirs" /\ ~cancelled
  BY DEF Spawn
<1>2. Tracked = {} /\ supervisor
  BY <1>1 DEF Coordination, Quiesced
<1>3. AllIdle
  BY <1>1 DEF TypeOK, Coordination, Quiesced, AllIdle, Idle
<1>4. QED
  BY <1>2, <1>3

(* Every other step leaves the set of processes as it is or shrinks it. *)
LEMMA OthersOnlyReap ==
  ASSUME [Next]_vars, ~Spawn
  PROVE  \/ alive' = alive
         \/ \E p \in Pids : Die(p)
<1> USE DEF taskVars, stopVars, osVars
<1>1. CASE Start
  BY <1>1 DEF Start
<1>2. CASE SupervisorStep
  BY <1>2 DEF SupervisorStep, SpawnFails, Spawned, RunExit, Wake,
              CancelDelivered, CancelSpawn, Reaped
<1>3. ASSUME NEW s \in Stoppers, StopCall(s) PROVE alive' = alive
  BY <1>3 DEF StopCall, StopKills, StopCancels, StopFindsNothing
<1>4. ASSUME NEW s \in Stoppers, StopStep(s) PROVE alive' = alive
  BY <1>4 DEF StopStep, TerminateTimeout, KillThenCancel, KillThenReturn, SupervisorGone
<1>5. CASE DrainRaises
  BY <1>5 DEF DrainRaises
<1>6. CASE UNCHANGED vars
  BY <1>6 DEF vars
<1>7. QED
  BY <1>1, <1>2, <1>3, <1>4, <1>5, <1>6 DEF Next

(* A kill that was asked for is never answered with a new process. *)
THEOREM StopIsNotACrash == Spec => NoLaunchWhileStopping
<1>1. TypeOK /\ Coordination /\ [Next]_vars => [~AllIdle => alive' \subseteq alive]_vars
  <2> SUFFICES ASSUME TypeOK, Coordination, [Next]_vars, ~AllIdle
               PROVE  alive' \subseteq alive
    OBVIOUS
  <2>1. ~Spawn
    BY SpawnsOnlyWhenWanted
  <2>2. QED
    BY <2>1, OthersOnlyReap DEF Die
<1>2. QED
  BY <1>1, TypeCorrect, Coordinated, PTL DEF Spec, NoLaunchWhileStopping

-----------------------------------------------------------------------------
(* The refinement *)

(* A call of async_stop turns "on" into "closing", or into "off" if it     *)
(* returns at once; on a stream that is off it changes nothing.            *)
LEMMA StopCallMoves ==
  ASSUME TypeOK, Coordination, NEW s \in Stoppers, StopCall(s)
  PROVE  \/ Phase = "on" /\ Phase' = "closing"
         \/ Phase \in {"on", "closing"} /\ Phase' = "off"
         \/ Phase' = Phase
<1> USE DEF TypeOK, Phase, AllIdle, Idle
<1>1. CASE StopKills(s)
  <2>1. ~AllIdle'
    BY <1>1 DEF StopKills, Terminate
  <2>2. Phase # "off"
    <3>1. process \in Tracked
      BY <1>1, NoProcAssumption DEF StopKills, Coordination, Tracked
    <3> QED
      BY <3>1, DeadWhenStopped DEF StopKills, StoppedIsDead
  <2>3. QED
    BY <2>1, <2>2
<1>2. CASE StopCancels(s)
  <2>1. ~AllIdle'
    BY <1>2 DEF StopCancels, CancelSupervisor
  <2>2. supervisor
    BY <1>2 DEF StopCancels, CancelSupervisor, LiveSupervisor
  <2>3. QED
    BY <2>1, <2>2
<1>3. CASE StopFindsNothing(s)
  <2>1. ~supervisor' /\ stopPc' = stopPc
    BY <1>3 DEF StopFindsNothing, Return
  <2>2. QED
    BY <2>1
<1>4. QED
  BY <1>1, <1>2, <1>3 DEF StopCall

(* A later step of a stop leaves "closing" alone or ends it. *)
LEMMA StopStepMoves ==
  ASSUME TypeOK, Coordination, NEW s \in Stoppers, StopStep(s)
  PROVE  Phase = "closing" /\ Phase' \in {"closing", "off"}
<1> USE DEF TypeOK, Phase, AllIdle, Idle
<1>1. Phase = "closing"
  BY DEF StopStep, TerminateTimeout, KillThenCancel, KillThenReturn, SupervisorGone, Killing
<1>2. AllIdle' => ~supervisor'
  <2>1. CASE TerminateTimeout(s)
    BY <2>1 DEF TerminateTimeout, Killing, stopVars
  <2>2. CASE KillThenCancel(s)
    BY <2>2 DEF KillThenCancel, CancelSupervisor
  <2>3. CASE KillThenReturn(s)
    BY <2>3 DEF KillThenReturn, Killing, Coordination
  <2>4. CASE SupervisorGone(s)
    BY <2>4 DEF SupervisorGone, Coordination
  <2>5. QED
    BY <2>1, <2>2, <2>3, <2>4 DEF StopStep
<1>3. QED
  BY <1>1, <1>2

(* Every step of the object and its tasks is a step of RecordedStream or   *)
(* changes nothing there.                                                  *)
LEMMA StepSimulation ==
  ASSUME TypeOK, Coordination, TypeOK', Coordination', [Next]_vars
  PROVE  [Abs!Next]_(Abs!vars)
<1> USE DEF Abs!Next, Abs!vars
<1>0. Phase' = "off" => Tracked' = {}
  <2>1. (TypeOK /\ Coordination => StoppedIsDead)'
    BY DeadWhenStopped, PTL
  <2>2. QED
    BY <2>1 DEF Phase, StoppedIsDead
<1>1. CASE Start
  <2>1. Phase = "off" /\ Phase' = "on" /\ Tracked' = Tracked /\ lost' = lost
    BY <1>1 DEF Start, Phase, AllIdle, Idle, stopVars, osVars, Tracked
  <2>2. QED
    BY <2>1 DEF Abs!Enable
<1>2. CASE Spawn
  <2>1. Phase = "on" /\ Phase' = Phase /\ Tracked = {} /\ lost' = lost
    BY <1>2, SpawnsOnlyWhenWanted DEF Spawn, Phase, AllIdle, Idle, objectVars, stopVars
  <2>2. PICK p \in Pids : p \notin alive /\ alive' = alive \cup {p}
    BY <1>2 DEF Spawn, Free
  <2>3. p \notin lost /\ Tracked' = {p}
    BY <2>1, <2>2 DEF Tracked, TypeOK
  <2>4. QED
    BY <2>1, <2>3 DEF Abs!Launch
<1>3. CASE SupervisorStep /\ ~Spawn
  <2>1. supervisor' = supervisor /\ stopPc' = stopPc /\ Tracked' = Tracked /\ lost' = lost
    BY <1>3 DEF SupervisorStep, SpawnFails, Spawned, RunExit, Wake, CancelDelivered,
                CancelSpawn, Reaped, objectVars, stopVars, osVars, Tracked
  <2>2. QED
    BY <2>1 DEF Phase, AllIdle, Idle
<1>4. ASSUME NEW s \in Stoppers, StopCall(s) \/ StopStep(s) PROVE [Abs!Next]_(Abs!vars)
  <2>1. Tracked' = Tracked /\ lost' = lost
    BY <1>4 DEF StopCall, StopKills, StopCancels, StopFindsNothing, StopStep,
                TerminateTimeout, KillThenCancel, KillThenReturn, SupervisorGone, osVars, Tracked
  <2>2. QED
    BY <1>0, <1>4, <2>1, StopCallMoves, StopStepMoves DEF Abs!Disable, Abs!Release
<1>5. ASSUME NEW p \in Pids, Die(p) PROVE [Abs!Next]_(Abs!vars)
  <2>1. Phase' = Phase
    BY <1>5 DEF Die, Phase, AllIdle, Idle, objectVars, stopVars
  <2>2. CASE p \in lost
    <3>1. lost' = lost \ {p} /\ Tracked' = Tracked
      BY <1>5, <2>2 DEF Die, Tracked
    <3> QED
      BY <2>1, <2>2, <3>1 DEF Abs!StrayExits
  <2>3. CASE p \notin lost
    <3>1. lost' = lost /\ p \in Tracked /\ Tracked' = Tracked \ {p}
      BY <1>5, <2>3 DEF Die, Tracked
    <3>2. Tracked' = {}
      BY <3>1 DEF Coordination, OneWriter
    <3> QED
      BY <2>1, <3>1, <3>2 DEF Abs!Exit
  <2> QED
    BY <2>2, <2>3
<1>6. CASE DrainRaises
  <2>1. Phase' = Phase /\ supervisor /\ child \in Tracked
    BY <1>6 DEF DrainRaises, Phase, AllIdle, Idle, stopVars, Coordination, Quiesced, Tracked
  <2>2. CASE process = child
    <3>1. AllIdle
      BY <1>6, <2>2 DEF DrainRaises, Coordination, Quiesced, AllIdle, Idle, TypeOK
    <3>2. Tracked = {child} /\ Tracked' = {} /\ lost' = lost \cup {child}
      BY <1>6, <2>1, <2>2 DEF DrainRaises, Coordination, OneWriter, Tracked
    <3> QED
      BY <2>1, <3>1, <3>2 DEF Phase, Abs!Stray
  <2>3. CASE process # child
    BY <1>6, <2>1, <2>3 DEF DrainRaises, Tracked
  <2> QED
    BY <2>2, <2>3
<1>7. CASE UNCHANGED vars
  BY <1>7 DEF vars, objectVars, stopVars, osVars, Phase, AllIdle, Idle, Tracked
<1>8. QED
  BY <1>1, <1>2, <1>3, <1>4, <1>5, <1>6, <1>7 DEF Next

(* StreamProcess implements the safety of RecordedStream. *)
THEOREM Implementation == Spec => Abs!Spec
<1>1. Init => Abs!Init
  BY DEF Init, Abs!Init, Phase, AllIdle, Idle, Tracked
<1>2. TypeOK /\ Coordination /\ (TypeOK /\ Coordination)' /\ [Next]_vars
        => [Abs!Next]_(Abs!vars)
  BY StepSimulation
<1>3. QED
  BY <1>1, <1>2, TypeCorrect, Coordinated, PTL DEF Spec, Abs!Spec

-----------------------------------------------------------------------------
(* Library: entities follow the questions, and no picture is swept that    *)
(* was saved in time.  The first is inductive once it says what the        *)
(* platforms know of questions that are no longer asked, too.  The second  *)
(* rests on what a sweep may have missed: a picture the configuration      *)
(* names and a scheduled sweep does not was named after that sweep was     *)
(* scheduled.                                                              *)

EntitiesInv ==
  /\ \A e \in registry : e[2] \in config.cameras => e \in ExpectedEntities(config)
  /\ \A e \in known : e \in dropped \/ e \in registry \cap ExpectedEntities(config)

(* Whatever changes the configuration prunes the registry with it, and     *)
(* what it prunes of the platforms' knowledge counts as dropped; what the  *)
(* platforms add is expected by the configuration in force, and what they  *)
(* do not add they know.                                                   *)
THEOREM EntitiesAlwaysFollow == LibrarySpec => []EntitiesFollow
<1>1. LibraryInit => EntitiesInv
  BY DEF LibraryInit, EntitiesInv
<1>2. EntitiesInv /\ [LibraryNext]_libraryVars => EntitiesInv'
  <2> SUFFICES ASSUME EntitiesInv, [LibraryNext]_libraryVars PROVE EntitiesInv'
    OBVIOUS
  <2>1. CASE Stored
    <3> DEFINE new == Head(saving).config
    <3>1. /\ config' = new /\ registry' = Pruned(new) /\ known' = known
          /\ dropped' = dropped \cup (known \ ExpectedEntities(new))
      BY <2>1 DEF Stored
    <3> HIDE DEF new
    <3> QED
      BY <3>1 DEF EntitiesInv, Pruned, ExpectedEntities
  <2>2. ASSUME Sync, UNCHANGED config PROVE EntitiesInv'
    BY <2>2 DEF EntitiesInv, Sync, ExpectedEntities
  <2>3. CASE Publish
    BY <2>2, <2>3 DEF Publish, configVars
  <2>4. ASSUME NEW t \in Tasks, Published(t) PROVE EntitiesInv'
    BY <2>2, <2>4 DEF Published, configVars
  <2>5. CASE Restart
    BY <2>5 DEF EntitiesInv, Restart, Pruned, ExpectedEntities
  <2>6. ASSUME UNCHANGED <<configVars, entityVars>> PROVE EntitiesInv'
    BY <2>6 DEF EntitiesInv, ExpectedEntities, configVars, entityVars
  <2> QED
    BY <2>1, <2>3, <2>4, <2>5, <2>6 DEF LibraryNext, libraryVars, Request, Applied, Upload,
       AskDelete, Delete, Sweep, Tick
<1>3. EntitiesInv => EntitiesFollow
  BY DEF EntitiesInv, EntitiesFollow
<1> QED
  BY <1>1, <1>2, <1>3, PTL DEF LibrarySpec

-----------------------------------------------------------------------------
TimesOK ==
  /\ now \in Nat
  /\ files \in [Pictures -> Nat \cup {Absent}]
  /\ since \in [Pictures -> Nat \cup {Absent}]
  /\ \A p \in Pictures : since[p] # Absent => since[p] <= now
  /\ \A s \in sweeps : s.now \in Nat /\ s.now <= now

NamedSince == \A p \in Pictures : since[p] # Absent <=> p \in Named(config)

SweepsMissTheNew ==
  \A s \in sweeps, p \in Pictures :
    p \notin s.referenced /\ since[p] # Absent => s.now <= since[p]

PicturesInv == TimesOK /\ NamedSince /\ SweepsMissTheNew

LEMMA PicturesInit == LibraryInit => PicturesInv
BY DEF LibraryInit, PicturesInv, TimesOK, NamedSince, SweepsMissTheNew, Named, Empty

(* A configuration that takes effect names its new pictures from now on,   *)
(* which is not before any sweep was scheduled.                            *)
LEMMA NotedKeepsInv ==
  ASSUME PicturesInv, NEW cfg, Noted(cfg), config' = cfg, UNCHANGED now
  PROVE  /\ NamedSince'
         /\ since' \in [Pictures -> Nat \cup {Absent}]
         /\ \A p \in Pictures : since'[p] # Absent => since'[p] <= now
         /\ \A s \in sweeps, p \in Pictures :
              p \notin s.referenced /\ since'[p] # Absent => s.now <= since'[p]
<1> USE AbsentAssumption DEF PicturesInv, TimesOK
<1>1. NamedSince'
  BY DEF Noted, NamedSince, Named
<1>2. since' \in [Pictures -> Nat \cup {Absent}]
  BY DEF Noted
<1>3. \A p \in Pictures : since'[p] # Absent => since'[p] <= now
  BY DEF Noted
<1>4. \A s \in sweeps, p \in Pictures :
        p \notin s.referenced /\ since'[p] # Absent => s.now <= since'[p]
  BY DEF Noted, SweepsMissTheNew
<1> QED
  BY <1>1, <1>2, <1>3, <1>4

(* A sweep scheduled now misses nothing the configuration names. *)
LEMMA SweepsKeepInv ==
  ASSUME PicturesInv, UNCHANGED <<config, since, files, now>>,
         NEW cfg, cfg = config, sweeps' \subseteq sweeps \cup {ScheduledSweep(cfg)}
  PROVE  PicturesInv'
BY DEF PicturesInv, TimesOK, NamedSince, SweepsMissTheNew, ScheduledSweep, Named

LEMMA PicturesStep == PicturesInv /\ [LibraryNext]_libraryVars => PicturesInv'
<1> SUFFICES ASSUME PicturesInv, [LibraryNext]_libraryVars PROVE PicturesInv'
  OBVIOUS
<1> USE DEF configVars, requestVars, entityVars, fileVars, boundVars
<1>1. CASE Stored
  <2>1. PicturesInv /\ Noted(config') /\ UNCHANGED <<files, sweeps, now>>
    BY <1>1 DEF Stored
  <2>2. QED
    BY <2>1, NotedKeepsInv DEF PicturesInv, TimesOK, SweepsMissTheNew
<1>2. CASE Applied
  BY <1>2, SweepsKeepInv DEF Applied
<1>3. CASE Restart
  <2>1. Noted(config') /\ UNCHANGED <<files, now>> /\ sweeps' = {ScheduledSweep(config')}
    BY <1>3 DEF Restart
  <2>2. NamedSince' /\ TimesOK'
    BY <2>1, NotedKeepsInv DEF PicturesInv, TimesOK, ScheduledSweep
  <2>3. SweepsMissTheNew'
    BY <2>1, <2>2 DEF SweepsMissTheNew, NamedSince, ScheduledSweep, Named
  <2> QED
    BY <2>2, <2>3 DEF PicturesInv
<1>4. ASSUME files' \in [Pictures -> Nat \cup {Absent}], sweeps' \subseteq sweeps,
             UNCHANGED <<config, since, now>>
      PROVE  PicturesInv'
  BY <1>4 DEF PicturesInv, TimesOK, NamedSince, SweepsMissTheNew, Named
<1>5. ASSUME NEW p \in Pictures, Upload(p) PROVE PicturesInv'
  BY <1>4, <1>5 DEF Upload, PicturesInv, TimesOK
<1>6. ASSUME NEW p \in Pictures, Delete(p) PROVE PicturesInv'
  BY <1>4, <1>6 DEF Delete, PicturesInv, TimesOK
<1>7. ASSUME NEW s \in sweeps, Sweep(s) PROVE PicturesInv'
  BY <1>4, <1>7 DEF Sweep, PicturesInv, TimesOK
<1>8. CASE Tick
  BY <1>8 DEF Tick, PicturesInv, TimesOK, NamedSince, SweepsMissTheNew, Named
<1>9. ASSUME UNCHANGED <<config, since, files, sweeps, now>> PROVE PicturesInv'
  BY <1>4, <1>9 DEF PicturesInv, TimesOK
<1>10. ASSUME NEW t \in Tasks, Request(t) \/ Published(t) PROVE PicturesInv'
  BY <1>9, <1>10 DEF Request, Published
<1>11. CASE Publish
  BY <1>9, <1>11 DEF Publish
<1>12. ASSUME NEW p \in Pictures, AskDelete(p) PROVE PicturesInv'
  BY <1>9, <1>12 DEF AskDelete
<1>13. CASE UNCHANGED libraryVars
  BY <1>9, <1>13 DEF libraryVars
<1> QED
  BY <1>1, <1>2, <1>3, <1>5, <1>6, <1>7, <1>8, <1>10, <1>11, <1>12, <1>13 DEF LibraryNext

LEMMA PicturesInvariant == LibrarySpec => []PicturesInv
<1> QED
  BY PicturesInit, PicturesStep, PTL DEF LibrarySpec

(* Only a sweep deletes a picture without a request, and it knew of every  *)
(* name but those given after it was scheduled, when the file was already  *)
(* older than the grace period.                                            *)
THEOREM PicturesSavedInTimeStay == LibrarySpec => PicturesKept
<1> DEFINE Late(t, p) == t > files[p] + REFERENCE_ORPHAN_GRACE_SECONDS
<1>1. ASSUME PicturesInv, [LibraryNext]_libraryVars, NEW p \in Pictures,
             files[p] # Absent, files'[p] = Absent, deletions' = deletions
      PROVE  Late(now, p) /\ (since[p] # Absent => Late(since[p], p))
  <2> USE <1>1 DEF configVars, requestVars, entityVars, fileVars, boundVars
  <2>1. PICK s \in sweeps : Sweep(s)
    <3>1. ~UNCHANGED files
      OBVIOUS
    <3>2. \A q \in Pictures : ~Delete(q)
      BY DEF Delete
    <3>3. \A q \in Pictures : ~Upload(q)
      BY AbsentAssumption DEF Upload, PicturesInv, TimesOK
    <3> QED
      BY <3>1, <3>2, <3>3 DEF LibraryNext, libraryVars, Request, Published, Stored, Applied,
         Publish, AskDelete, Restart, Tick
  <2>2. p \notin s.referenced /\ Late(s.now, p)
    BY <2>1 DEF Sweep, Fallen
  <2>3. files[p] \in Nat /\ s.now \in Nat /\ s.now <= now /\ now \in Nat
    BY DEF PicturesInv, TimesOK
  <2>4. since[p] # Absent => since[p] \in Nat /\ s.now <= since[p]
    BY <2>2 DEF PicturesInv, TimesOK, SweepsMissTheNew
  <2> QED
    BY <2>2, <2>3, <2>4, BoundsAssumption
<1>2. PicturesInv /\ [LibraryNext]_libraryVars =>
        [\A p \in Pictures :
           files[p] # Absent /\ files'[p] = Absent /\ deletions' = deletions =>
             /\ now > files[p] + REFERENCE_ORPHAN_GRACE_SECONDS
             /\ since[p] # Absent =>
                  since[p] > files[p] + REFERENCE_ORPHAN_GRACE_SECONDS]_libraryVars
  BY <1>1
<1> QED
  BY <1>2, PicturesInvariant, PTL DEF LibrarySpec, PicturesKept
=============================================================================
