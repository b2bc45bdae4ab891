--------------------------- MODULE RecorderManager ---------------------------
(***************************************************************************)
(* The RecorderManager of recorder.py: reconciling the running recordings  *)
(* against a configuration, with the callers the coordinator brings to it. *)
(* async_apply runs under a FIFO lock and suspends while it resolves each  *)
(* camera and while it stops processes; async_stop_all takes no lock.  A   *)
(* StreamProcess is what RecordedStream promises: "on", "closing", "off".  *)
(* A writer that has strayed from its stream is out of the manager's reach *)
(* as well, and of no consequence to it.                                   *)
(*                                                                         *)
(* Every camera has one recorded stream here, so a stream is also what is  *)
(* paused and what an entity resolves.  A spec stands for the arguments    *)
(* ffmpeg is given, the base for the location it writes to.                *)
(***************************************************************************)
EXTENDS Naturals, Sequences, FiniteSets

CONSTANTS
  StreamOrder,   \* the streams, in the order of the configuration
  Configs,       \* configurations: [base, spec: [StreamIds -> spec or NoSpec]]
  NoSpec,        \* a stream that is not configured or not recorded
  NoConfig,      \* None
  Tasks,         \* coroutines that can be in the manager at the same time
  Cycle,         \* the one of them that is the coordinator's update cycle
  Slots,         \* processes of one stream that can exist at the same time
  MaxCalls,      \* bound on configuration saves, pauses and stops
  MaxFlips,      \* bound on cameras coming and going
  AllowPause, AllowStopAll

StreamIds == {StreamOrder[i] : i \in DOMAIN StreamOrder}

ASSUME OrderAssumption ==
  /\ DOMAIN StreamOrder \subseteq Nat \ {0}
  /\ \A i, j \in DOMAIN StreamOrder : StreamOrder[i] = StreamOrder[j] => i = j
ASSUME ConfigsAssumption ==
  NoConfig \notin Configs /\ \A c \in Configs : DOMAIN c.spec = StreamIds
ASSUME TasksAssumption == IsFiniteSet(Tasks) /\ Cycle \in Tasks
ASSUME SlotsAssumption == Slots \in Nat /\ Cardinality(Tasks) <= Slots

VARIABLES
  streams,     \* _streams: the slot of each stream's process, 0 if it has none
  obj,         \* the StreamProcess objects, by stream and slot
  unresolved,  \* _unresolved
  watching,    \* the entities _unsub_sources listens to
  latest,      \* _latest
  paused,      \* _paused
  queue,       \* _apply_lock: the holder and then the waiters
  task,        \* the coroutines
  config,      \* the coordinator's config
  available,   \* the streams whose entity resolves right now
  stopped,     \* async_stop_all was called, and no apply has been since
  calls, flips \* what the bounds count

managerVars == <<streams, obj, unresolved, watching, latest>>
envVars == <<paused, config, available, stopped, calls, flips>>
vars == <<managerVars, queue, task, envVars>>

Callers == Tasks \ {Cycle}
Objs == StreamIds \X (1 .. Slots)
Pos(s) == CHOOSE i \in DOMAIN StreamOrder : StreamOrder[i] = s
Idle == [pc |-> "idle"]
Absent(o) == obj[o].phase = "off"

(* A new process takes no slot that a stop still holds on to. *)
Held(o) == \E t \in Tasks : task[t].pc = "stopall" /\ o \in task[t].todo
FreeSlot(s) == CHOOSE k \in 1 .. Slots : Absent(<<s, k>>) /\ ~Held(<<s, k>>)

Init ==
  /\ streams = [s \in StreamIds |-> 0]
  /\ obj = [o \in Objs |-> [phase |-> "off"]]
  /\ unresolved = {} /\ watching = {} /\ latest = NoConfig
  /\ paused = {}
  /\ queue = <<>>
  /\ task = [t \in Tasks |-> Idle]
  /\ config \in Configs
  /\ available \in SUBSET StreamIds
  /\ stopped = FALSE
  /\ calls = 0 /\ flips = 0

-----------------------------------------------------------------------------
(* async_apply, from one await to the next.  Each operator continues in    *)
(* the same step as the one that uses it, for the holder t of the lock.    *)

(* Faulty variant: a process is never recognised as the one wanted. *)
KeepsNothing(c, s) == FALSE

(* Faulty variant: the location is not compared. *)
KeepsAnywhere(c, s) ==
  LET o == obj[<<s, streams[s]>>] IN
  streams[s] # 0 /\ o.phase = "on" /\ o.spec = c.spec[s]

(* A listed process runs with these arguments, at this location. *)
Keeps(c, s) ==
  LET o == obj[<<s, streams[s]>>] IN
  streams[s] # 0 /\ o.phase = "on" /\ o.spec = c.spec[s] /\ o.base = c.base

(* Faulty variant: the listeners are not renewed. *)
FinishDeaf(t, u, q) ==
  /\ queue' = Tail(q)
  /\ task' = [task EXCEPT ![t] = Idle]
  /\ UNCHANGED watching

(* The end of the block: listen for what is unresolved, release the lock. *)
Finish(t, u, q) ==
  /\ watching' = u
  /\ queue' = Tail(q)
  /\ task' = [task EXCEPT ![t] = Idle]

(* The loop over the wanted streams still to do, those in `must` having    *)
(* just been stopped: all get their process until one has to be stopped    *)
(* first.  A StreamProcess is made and started without suspending.         *)
Launch(t, c, todo, must, u, q) ==
  LET clash == {s \in todo : streams[s] # 0 /\ ~Keeps(c, s)}
      first == CHOOSE s \in clash : \A r \in clash : Pos(s) <= Pos(r)
      ready == {s \in todo : clash = {} \/ Pos(s) < Pos(first)}
      new   == must \cup {s \in ready : streams[s] = 0}
      fresh == {<<s, FreeSlot(s)>> : s \in new}
  IN
  /\ streams' = [s \in StreamIds |-> IF s \in new THEN FreeSlot(s) ELSE streams[s]]
  /\ obj' = [o \in Objs |->
       CASE o \in fresh -> [phase |-> "on", spec |-> c.spec[o[1]], base |-> c.base]
         [] clash # {} /\ o = <<first, streams[first]>> -> [obj[o] EXCEPT !.phase = "closing"]
         [] OTHER -> obj[o]]
  /\ IF clash = {}
     THEN Finish(t, u, q)
     ELSE /\ task' = [task EXCEPT ![t] =
               [pc |-> "replacing", cfg |-> c, cur |-> <<first, streams[first]>>,
                todo |-> {s \in todo : Pos(s) > Pos(first)}]]
          /\ queue' = q
          /\ UNCHANGED watching

(* One stream of the first loop: popped and stopped. *)
PopAndStop(t, c, extras, s, wanted, q) ==
  /\ streams' = [streams EXCEPT ![s] = 0]
  /\ obj' = [obj EXCEPT ![<<s, streams[s]>>].phase = "closing"]
  /\ task' = [task EXCEPT ![t] =
       [pc |-> "stopping", cfg |-> c, cur |-> <<s, streams[s]>>,
        todo |-> extras \ {s}, wanted |-> wanted]]
  /\ queue' = q
  /\ UNCHANGED watching

(* The first loop: whatever runs and is not wanted. *)
StopExtras(t, c, wanted, u, q) ==
  LET extras == {s \in StreamIds : streams[s] # 0} \ wanted IN
  IF extras = {}
  THEN Launch(t, c, wanted, {}, u, q)
  ELSE \E s \in extras : PopAndStop(t, c, extras, s, wanted, q)

(* The configured, unpaused streams after position i *)
Candidates(c, i, p) ==
  {j \in DOMAIN StreamOrder :
     j > i /\ c.spec[StreamOrder[j]] # NoSpec /\ StreamOrder[j] \notin p}

(* On to the next stream to resolve, and after the last one to the loops. *)
Proceed(t, c, i, wanted, u, p, q) ==
  /\ unresolved' = u
  /\ IF Candidates(c, i, p) = {}
     THEN StopExtras(t, c, wanted, u, q)
     ELSE /\ task' = [task EXCEPT ![t] =
               [pc |-> "resolve", cfg |-> c, wanted |-> wanted,
                idx |-> CHOOSE j \in Candidates(c, i, p) :
                          \A k \in Candidates(c, i, p) : j <= k]]
          /\ queue' = q
          /\ UNCHANGED <<streams, obj, watching>>

(* Inside the lock *)
Enter(t, c, p, q) ==
  /\ latest' = c
  /\ Proceed(t, c, 0, {}, {}, p, q)

(* A call of async_apply: straight in if the lock is free. *)
Apply(t, c, p) ==
  IF queue = <<>>
  THEN Enter(t, c, p, <<t>>)
  ELSE /\ queue' = Append(queue, t)
       /\ task' = [task EXCEPT ![t] = [pc |-> "wait", cfg |-> c]]
       /\ UNCHANGED managerVars

(* Faulty variant: the stop is asked for and not waited for. *)
Signalled(o) == obj[o].phase # "on"

(* `await process.async_stop()` returns. *)
StopOver(o) == obj[o].phase = "off"

Acquire(t) ==
  /\ task[t].pc = "wait"
  /\ queue # <<>> /\ Head(queue) = t
  /\ Enter(t, task[t].cfg, paused, queue)
  /\ UNCHANGED envVars

(* async_get_stream_source answers for the stream in flight. *)
Resolve(t) ==
  /\ task[t].pc = "resolve"
  /\ LET s == StreamOrder[task[t].idx]
         found == s \in available
     IN Proceed(t, task[t].cfg, task[t].idx,
                IF found THEN task[t].wanted \cup {s} ELSE task[t].wanted,
                IF found THEN unresolved ELSE unresolved \cup {s},
                paused, queue)
  /\ UNCHANGED <<latest, envVars>>

(* A pop of the first loop has been stopped; the next one is no longer     *)
(* there if async_stop_all took it, and the KeyError ends the call.        *)
Stopped(t) ==
  /\ task[t].pc = "stopping"
  /\ StopOver(task[t].cur)
  /\ IF task[t].todo = {}
     THEN Launch(t, task[t].cfg, task[t].wanted, {}, unresolved, queue)
     ELSE \E s \in task[t].todo :
            IF streams[s] # 0
            THEN PopAndStop(t, task[t].cfg, task[t].todo, s, task[t].wanted, queue)
            ELSE /\ task' = [task EXCEPT ![t] = Idle]
                 /\ queue' = Tail(queue)
                 /\ UNCHANGED <<streams, obj, watching>>
  /\ UNCHANGED <<unresolved, latest, envVars>>

(* The process whose arguments changed is gone; its replacement starts. *)
Replaced(t) ==
  /\ task[t].pc = "replacing"
  /\ StopOver(task[t].cur)
  /\ Launch(t, task[t].cfg, task[t].todo, {task[t].cur[1]}, unresolved, queue)
  /\ UNCHANGED <<unresolved, latest, envVars>>

-----------------------------------------------------------------------------
(* Faulty variant: the streams are replaced before they are read. *)
TakenTooLate == {}

Taken == {o \in Objs : streams[o[1]] = o[2] /\ obj[o].phase = "on"}

(* async_stop_all, which neither waits for the lock nor takes it *)
StopAll(t) ==
  /\ AllowStopAll /\ calls < MaxCalls
  /\ task[t] = Idle
  /\ unresolved' = {} /\ latest' = NoConfig /\ watching' = {}
  /\ streams' = [s \in StreamIds |-> 0]
  /\ obj' = [o \in Objs |->
       IF o \in Taken THEN [obj[o] EXCEPT !.phase = "closing"] ELSE obj[o]]
  /\ task' = [task EXCEPT ![t] =
       IF Taken = {} THEN Idle ELSE [pc |-> "stopall", todo |-> Taken]]
  /\ stopped' = TRUE
  /\ calls' = calls + 1
  /\ UNCHANGED <<queue, paused, config, available, flips>>

StoppedAll(t) ==
  /\ task[t].pc = "stopall"
  /\ \A o \in task[t].todo : StopOver(o)
  /\ task' = [task EXCEPT ![t] = Idle]
  /\ UNCHANGED <<managerVars, queue, envVars>>

(* A stop gets its process down, sooner or later. *)
ProcessGone(o) ==
  /\ obj[o].phase = "closing"
  /\ obj' = [obj EXCEPT ![o] = [phase |-> "off"]]
  /\ UNCHANGED <<streams, unresolved, watching, latest, queue, task, envVars>>

-----------------------------------------------------------------------------
(* The callers *)

(* async_set_config: the configuration is saved and applied. *)
Configure(t, c) ==
  /\ calls < MaxCalls /\ task[t] = Idle
  /\ config' = c
  /\ Apply(t, c, paused)
  /\ stopped' = FALSE
  /\ calls' = calls + 1
  /\ UNCHANGED <<paused, available, flips>>

(* The coordinator's async_set_paused: the mark, and then an apply. *)
SetPaused(t, s) ==
  /\ AllowPause /\ calls < MaxCalls /\ task[t] = Idle
  /\ paused' = IF s \in paused THEN paused \ {s} ELSE paused \cup {s}
  /\ Apply(t, config, paused')
  /\ stopped' = FALSE
  /\ calls' = calls + 1
  /\ UNCHANGED <<config, available, flips>>

(* async_retry_unresolved in the update cycle, which is over before the    *)
(* next cycle begins: what is applied is read before the lock is waited    *)
(* for.                                                                    *)
Retry ==
  /\ task[Cycle] = Idle
  /\ unresolved # {} /\ latest # NoConfig
  /\ Apply(Cycle, latest, paused)
  /\ UNCHANGED envVars

(* A camera entity comes or goes, and the event reaches _on_source_event.  *)
SourceChanges(s) ==
  /\ flips < MaxFlips
  /\ flips' = flips + 1
  /\ available' = IF s \in available THEN available \ {s} ELSE available \cup {s}
  /\ IF s \in watching /\ unresolved # {} /\ latest # NoConfig
     THEN \E t \in Callers : task[t] = Idle /\ Apply(t, latest, paused)
     ELSE UNCHANGED <<managerVars, queue, task>>
  /\ UNCHANGED <<paused, config, stopped, calls>>

ApplyStep(t) == Acquire(t) \/ Resolve(t) \/ Stopped(t) \/ Replaced(t)

Next ==
  \/ \E t \in Tasks : ApplyStep(t) \/ StoppedAll(t)
  \/ \E t \in Callers :
       \/ \E c \in Configs : Configure(t, c)
       \/ \E s \in StreamIds : SetPaused(t, s)
       \/ StopAll(t)
  \/ Retry
  \/ \E o \in Objs : ProcessGone(o)
  \/ \E s \in StreamIds : SourceChanges(s)

Spec == Init /\ [][Next]_vars

(* The loop resumes what is ready, stops end, and the cycle retries.  No   *)
(* user and no camera has to do anything.                                  *)
Fairness ==
  /\ \A t \in Tasks : WF_vars(ApplyStep(t)) /\ WF_vars(StoppedAll(t))
  /\ \A o \in Objs : WF_vars(ProcessGone(o))
  /\ WF_vars(Retry)

FairSpec == Spec /\ Fairness

-----------------------------------------------------------------------------
(* Properties *)

AllIdle == \A t \in Tasks : task[t] = Idle
Wanted(c, s) == c.spec[s] # NoSpec /\ s \notin paused

TypeOK ==
  /\ streams \in [StreamIds -> 0 .. Slots]
  /\ DOMAIN obj = Objs
  /\ \A o \in Objs : obj[o].phase \in {"on", "closing", "off"}
  /\ unresolved \subseteq StreamIds /\ watching \subseteq StreamIds
  /\ latest \in Configs \cup {NoConfig} /\ config \in Configs
  /\ paused \subseteq StreamIds /\ available \subseteq StreamIds
  /\ queue \in Seq(Tasks)
  /\ DOMAIN task = Tasks
  /\ \A t \in Tasks : task[t].pc \in
       {"idle", "wait", "resolve", "stopping", "replacing", "stopall"}

(* A stream never has two processes, not even while one of them is still   *)
(* being stopped: the old one is gone before its replacement starts.  Only *)
(* async_stop_all, which takes no lock, may still be bringing one down     *)
(* when an apply that was under way starts another.                        *)
OneProcess ==
  \A o, r \in Objs :
    o[1] = r[1] /\ ~Absent(o) /\ ~Absent(r) =>
      \/ o = r
      \/ \E t \in Tasks : task[t].pc = "stopall" /\ {o, r} \cap task[t].todo # {}

(* No StreamProcess runs that the manager does not know: whichever is on   *)
(* is the one its stream is listed with, so a later apply can stop it.     *)
(* Everything also has its type.                                           *)
NothingUntracked ==
  /\ TypeOK
  /\ \A o \in Objs : obj[o].phase = "on" => streams[o[1]] = o[2]

(* An unresolved stream is never forgotten: when nothing is in flight, the *)
(* streams that could not start are those the next attempt is armed for,   *)
(* and they are exactly the ones wanted that have no process.              *)
NothingForgotten ==
  AllIdle /\ latest # NoConfig =>
    /\ watching = unresolved
    /\ \A s \in StreamIds : Wanted(latest, s) => streams[s] # 0 \/ s \in unresolved

(* "Reconfiguring one camera must not interrupt the recording of another": *)
(* an apply stops a process only if the arguments or the location of its   *)
(* stream changed, it is not to be recorded, or its camera just failed to  *)
(* resolve, which the code takes for the end of the stream.  A resume that *)
(* arrives while the stop is decided has its own apply waiting behind.     *)
NeighbourKeepsRecording ==
  [][\A o \in Objs, t \in Tasks :
       /\ obj[o].phase = "on" /\ obj'[o].phase = "closing"
       /\ task'[t].pc \in {"stopping", "replacing"} /\ task'[t].cur = o
       => LET c == task'[t].cfg IN
          \/ c.spec[o[1]] # obj[o].spec
          \/ c.base # obj[o].base
          \/ o[1] \in paused'
          \/ o[1] \in unresolved'
          \/ \E w \in Tasks : task'[w].pc = "wait"]_vars

(* Once users and cameras have settled, every stream that is wanted and    *)
(* whose camera answers ends up recording, with the arguments and at the   *)
(* location of the configuration applied last.  That need not be the one   *)
(* saved last: a retry applies what it read before it waited for the lock. *)
EventuallyRecording ==
  <>[](latest # NoConfig =>
         \A s \in available : Wanted(latest, s) =>
           \E k \in 1 .. Slots :
             /\ streams[s] = k
             /\ obj[<<s, k>>] = [phase |-> "on", spec |-> latest.spec[s],
                                base |-> latest.base])
=============================================================================
