----------------------------- MODULE VisionRunner -----------------------------
(***************************************************************************)
(* The VisionRunner of vision_runner.py for one camera: triggers and       *)
(* manual requests, the limits between them and the model (a lock, a daily *)
(* budget, a cooldown), the ring of frame files, the history that names    *)
(* them, and configuration saves that switch the profile off, delete it or *)
(* bring it back while an analysis is under way.                           *)
(*                                                                         *)
(* A VisionState and the lock of its camera appear and go together, so a   *)
(* generation number stands for both.  A run is numbered by its position   *)
(* in `runs`; a file is what it shows, the run that wrote it.  Left out:   *)
(* the answers themselves, last_error and `running`, which nothing here    *)
(* reads back; and the loading of reference pictures, which waits but      *)
(* touches none of this state.                                             *)
(***************************************************************************)
EXTENDS Integers, Sequences, FiniteSets

CONSTANTS
  Tasks,            \* coroutines that can be in async_analyse at a time
  HISTORY_LENGTH,   \* entries kept, and slots of the ring
  daily_budget, cooldown_seconds,
  DayLength,        \* ticks of the clock in a local day
  MaxTime,          \* bound on the clock
  MaxRuns,          \* bound on analyses
  MaxSaves,         \* bound on configuration saves
  MaxGens           \* bound on VisionState objects of the camera

ASSUME LimitsAssumption ==
  /\ {HISTORY_LENGTH, daily_budget, DayLength} \subseteq Nat \ {0}
  /\ {cooldown_seconds, MaxTime, MaxRuns, MaxSaves, MaxGens} \subseteq Nat

VARIABLES
  profile,    \* the profile in the configuration: "on", "off" or "none"
  applying,   \* saved profiles on their way to async_apply
  missed,     \* the newest profile that was due never arrived
  watching,   \* the triggers are subscribed to
  gen, gens,  \* the generation in _states, 0 if none; and how many there were
  st,         \* the VisionState of each generation, without its history
  history,    \* the history of the state in _states; nobody reads another
  task,       \* the coroutines
  runs,       \* the analyses begun: under which state, on which day
  broken,     \* analyses of each state that took a frame and left without an entry
  frames,     \* the frame file in each slot of the ring
  marks,      \* the marked copy in each slot
  prunes,     \* jobs of _async_prune_frame_dirs that will find no profile
  now, saves

configVars == <<profile, applying, missed, watching, saves>>
fileVars == <<frames, marks>>
vars == <<configVars, gen, gens, st, history, task, runs, broken, fileVars, prunes, now>>

Idle == [pc |-> "idle"]
Slots == 0 .. HISTORY_LENGTH - 1
Never == MaxTime + DayLength   \* a time, or a day, that has not been
NoSlot == HISTORY_LENGTH
NoRun == 0
Gone == MaxRuns + 1            \* what a file holds that was swept away

(* `values` is the run whose answers the sensors show. *)
FreshState == [last |-> Never, day |-> Never, count |-> 0, counter |-> 0, values |-> NoRun]

Init ==
  /\ profile = "on" /\ applying = <<>> /\ missed = FALSE /\ watching = TRUE
  /\ gen = 0 /\ gens = 0
  /\ st = [g \in 1 .. MaxGens |-> FreshState]
  /\ history = <<>>
  /\ task = [t \in Tasks |-> Idle]
  /\ runs = <<>>
  /\ broken = [g \in 1 .. MaxGens |-> 0]
  /\ frames = [k \in Slots |-> NoRun] /\ marks = [k \in Slots |-> NoRun]
  /\ prunes = 0 /\ now = 0 /\ saves = 0

-----------------------------------------------------------------------------
(* The limits *)

Today == now \div DayLength

CountFor(g, today) == IF st[g].day = today THEN st[g].count ELSE 0

(* state_for: the state in place, or a new one *)
StateFor == IF gen = 0 THEN gens + 1 ELSE gen
UseState(g) == g \in 1 .. MaxGens /\ gen' = g /\ gens' = IF gen = 0 THEN g ELSE gens

(* Faulty variant: an analysis under way keeps no other out. *)
NeverLocked(g) == FALSE

Locked(g) == \E t \in Tasks : task[t] # Idle /\ task[t].gen = g

CooledDown(g) == st[g].last = Never \/ now - st[g].last >= cooldown_seconds

(* Faulty variant: a deliberate request skips the budget, too. *)
ForceSkipsAll(g, force) ==
  force \/ (CountFor(g, Today) < daily_budget /\ profile = "on" /\ CooledDown(g))

MayRun(g, force) ==
  /\ CountFor(g, Today) < daily_budget
  /\ force \/ (profile = "on" /\ CooledDown(g))

-----------------------------------------------------------------------------
(* The history *)

Truncated(h) == SubSeq(h, 1, IF Len(h) < HISTORY_LENGTH THEN Len(h) ELSE HISTORY_LENGTH)

(* _record: the newest entry first.  `broken` is how many analyses of the  *)
(* state had broken off by then.                                           *)
WithEntry(g, run, slot, marked) ==
  Truncated(<<[run |-> run, slot |-> slot, marked |-> marked, broken |-> broken[g]]>>
            \o history)

Record(g, run, slot, marked) ==
  history' = IF g = gen THEN WithEntry(g, run, slot, marked) ELSE history

-----------------------------------------------------------------------------
(* async_analyse, from one await to the next *)

(* Up to the capture: the limits are checked and the run is counted, the   *)
(* day being set before the count of that day is taken.                    *)
Begin(t, force) ==
  /\ task[t] = Idle /\ Len(runs) < MaxRuns
  /\ profile # "none"
  /\ force \/ watching
  /\ LET g == StateFor IN
       /\ UseState(g)
       /\ ~Locked(g) /\ MayRun(g, force)
       /\ st' = [st EXCEPT ![g].day = Today, ![g].count = @ + 1]
       /\ runs' = Append(runs, [gen |-> g, day |-> Today])
       /\ task' = [task EXCEPT ![t] = [pc |-> "capture", gen |-> g,
                                      run |-> Len(runs) + 1, slot |-> NoSlot]]
  /\ UNCHANGED <<configVars, history, broken, fileVars, prunes, now>>

(* A trigger of a profile that is gone already, or whose endpoint or       *)
(* camera is: recorded, even beside a run that is under way.               *)
TriggerRefused ==
  /\ watching
  /\ UseState(StateFor)
  /\ history' = WithEntry(StateFor, NoRun, NoSlot, FALSE)
  /\ UNCHANGED <<configVars, st, task, runs, broken, fileVars, prunes, now>>

Slot(g) == st[g].counter % HISTORY_LENGTH

(* VisionError: the failure is recorded, with the frame if there is one,   *)
(* and counts for the cooldown.                                            *)
Fail(t, slot) ==
  /\ st' = [st EXCEPT ![task[t].gen].last = now]
  /\ Record(task[t].gen, task[t].run, slot, FALSE)
  /\ task' = [task EXCEPT ![t] = Idle]
  /\ UNCHANGED <<runs, broken>>

(* Any other exception ends the run where it is, without an entry. *)
BreakOff(t) ==
  /\ broken' = [broken EXCEPT ![task[t].gen] = @ + 1]
  /\ task' = [task EXCEPT ![t] = Idle]
  /\ UNCHANGED <<st, history, runs>>

(* After the model answered, or was not needed: stamped at once, and the   *)
(* answers go to the sensors unless somebody asked a question of his own;  *)
(* recorded after the marked copy has been drawn or a stale one removed.   *)
Finish(t, marked) ==
  /\ Record(task[t].gen, task[t].run, task[t].slot, marked)
  /\ task' = [task EXCEPT ![t] = Idle]

Succeed(t) ==
  /\ \E shown \in {st[task[t].gen].values, task[t].run} :
       st' = [st EXCEPT ![task[t].gen].last = now, ![task[t].gen].values = shown]
  /\ \/ Finish(t, FALSE)
     \/ task' = [task EXCEPT ![t].pc = "draw"] /\ UNCHANGED history
  /\ UNCHANGED <<runs, broken>>

(* The frame is in its slot.  Without a model to ask, what follows comes   *)
(* at once.                                                                *)
Capture(t) ==
  /\ task[t].pc = "capture"
  /\ LET g == task[t].gen IN
       /\ frames' = [frames EXCEPT ![Slot(g)] = task[t].run]
       /\ st' = [st EXCEPT ![g].counter = @ + 1]
       /\ task' = [task EXCEPT ![t].pc = "ask", ![t].slot = Slot(g)]
  /\ UNCHANGED <<configVars, gen, gens, history, runs, broken, marks, prunes, now>>

(* ffmpeg may have written into the slot before it failed. *)
Scribble(t) ==
  \/ UNCHANGED frames
  \/ frames' = [frames EXCEPT ![Slot(task[t].gen)] = task[t].run]

CaptureFails(t) ==
  /\ task[t].pc = "capture"
  /\ Scribble(t)
  /\ Fail(t, NoSlot)
  /\ UNCHANGED <<configVars, gen, gens, marks, prunes, now>>

(* The frame cannot be written: an OSError, which nothing here catches,    *)
(* ends the run with neither a stamp nor an entry.                         *)
CaptureBreaks(t) ==
  /\ task[t].pc = "capture"
  /\ Scribble(t)
  /\ task' = [task EXCEPT ![t] = Idle]
  /\ UNCHANGED <<configVars, gen, gens, st, history, runs, broken, marks, prunes, now>>

Answer(t) ==
  /\ task[t].pc = "ask"
  /\ Succeed(t)
  /\ UNCHANGED <<configVars, gen, gens, fileVars, prunes, now>>

AnswerFails(t) ==
  /\ task[t].pc = "ask"
  /\ Fail(t, task[t].slot)
  /\ UNCHANGED <<configVars, gen, gens, fileVars, prunes, now>>

(* An infinite number among the answers or the corners of a box: an        *)
(* OverflowError nothing catches.                                          *)
AnswerBreaks(t) ==
  /\ task[t].pc = "ask"
  /\ BreakOff(t)
  /\ UNCHANGED <<configVars, gen, gens, fileVars, prunes, now>>

(* Faulty variant: the entry names the marked copy without looking whether *)
(* one was drawn.                                                          *)
DrawUnchecked(t) ==
  /\ task[t].pc = "draw"
  /\ \/ marks' = [marks EXCEPT ![task[t].slot] = task[t].run]
     \/ marks' = [marks EXCEPT ![task[t].slot] = NoRun]
  /\ Finish(t, TRUE)
  /\ UNCHANGED <<configVars, gen, gens, st, runs, broken, frames, prunes, now>>

(* _async_render_marks: drawn, or the copy of an earlier lap removed *)
Draw(t) ==
  /\ task[t].pc = "draw"
  /\ \/ /\ marks' = [marks EXCEPT ![task[t].slot] = task[t].run]
        /\ Finish(t, TRUE)
     \/ /\ marks' = [marks EXCEPT ![task[t].slot] = NoRun]
        /\ Finish(t, FALSE)
  /\ UNCHANGED <<configVars, gen, gens, st, runs, broken, frames, prunes, now>>

(* The copy that was not drawn, or of an earlier lap, cannot be removed. *)
DrawBreaks(t) ==
  /\ task[t].pc = "draw"
  /\ marks' \in {marks, [marks EXCEPT ![task[t].slot] = task[t].run]}
  /\ BreakOff(t)
  /\ UNCHANGED <<configVars, gen, gens, frames, prunes, now>>

AnalysisStep(t) ==
  \/ Capture(t) \/ CaptureFails(t) \/ CaptureBreaks(t)
  \/ Answer(t) \/ AnswerFails(t) \/ AnswerBreaks(t) \/ Draw(t) \/ DrawBreaks(t)

-----------------------------------------------------------------------------
(* Configuration changes, and whatever else reads the state *)

(* The coordinator saves, and is on its way to the runner's async_apply. *)
Save(p) ==
  /\ saves < MaxSaves /\ p # profile
  /\ profile' = p
  /\ applying' = Append(applying, p)
  /\ saves' = saves + 1
  /\ UNCHANGED <<missed, watching, gen, gens, st, history, task, runs, broken, fileVars, prunes, now>>

(* Faulty variant: a subscription is only ever added. *)
StaysSubscribed(p) == watching \/ p = "on"

Subscribed(p) == p = "on"

(* The state of a profile that is gone goes, and its frames will. *)
Apply ==
  /\ applying # <<>>
  /\ LET p == Head(applying) IN
       /\ watching' = Subscribed(p)
       /\ gen' = IF p = "none" THEN 0 ELSE gen
       /\ history' = IF p = "none" THEN <<>> ELSE history
       /\ prunes' = IF p = "none" THEN prunes + 1 ELSE prunes
  /\ applying' = Tail(applying)
  /\ missed' = FALSE
  /\ UNCHANGED <<profile, saves, gens, st, task, runs, broken, fileVars, now>>

(* The recorder's async_apply raises, and async_set_config ends with it. *)
RecorderFails ==
  /\ applying # <<>>
  /\ applying' = Tail(applying)
  /\ missed' = TRUE
  /\ UNCHANGED <<profile, watching, saves, gen, gens, st, history, task, runs, broken,
                 fileVars, prunes, now>>

Prune ==
  /\ prunes > 0
  /\ prunes' = prunes - 1
  /\ frames' = [k \in Slots |-> Gone] /\ marks' = [k \in Slots |-> Gone]
  /\ UNCHANGED <<configVars, gen, gens, st, history, task, runs, broken, now>>

(* An entity or the panel asks for the state, which makes one. *)
Look ==
  /\ gen = 0
  /\ UseState(StateFor)
  /\ UNCHANGED <<configVars, st, history, task, runs, broken, fileVars, prunes, now>>

Tick ==
  /\ now < MaxTime
  /\ now' = now + 1
  /\ UNCHANGED <<configVars, gen, gens, st, history, task, runs, broken, fileVars, prunes>>

Next ==
  \/ \E t \in Tasks : AnalysisStep(t) \/ \E force \in BOOLEAN : Begin(t, force)
  \/ TriggerRefused
  \/ \E p \in {"on", "off", "none"} : Save(p)
  \/ Apply \/ RecorderFails \/ Prune \/ Look \/ Tick

Spec == Init /\ [][Next]_vars

-----------------------------------------------------------------------------
(* Properties *)

Entry == [run : 0 .. MaxRuns, slot : 0 .. NoSlot, marked : BOOLEAN, broken : Nat]

TypeOK ==
  /\ profile \in {"on", "off", "none"} /\ watching \in BOOLEAN /\ missed \in BOOLEAN
  /\ gen \in 0 .. gens /\ gens \in 0 .. MaxGens
  /\ \A g \in 1 .. MaxGens :
       /\ st[g].count \in 0 .. MaxRuns /\ st[g].counter \in 0 .. MaxRuns
  /\ history \in Seq(Entry) /\ Len(history) <= HISTORY_LENGTH
  /\ \A t \in Tasks : task[t].pc \in {"idle", "capture", "ask", "draw"}
  /\ frames \in [Slots -> 0 .. Gone] /\ marks \in [Slots -> 0 .. Gone]

(* "A daily budget, so a misconfigured trigger cannot run away overnight": *)
(* no day sees more analyses of a profile than its budget, asked for by    *)
(* hand or not, failed or not.                                             *)
WithinBudget ==
  \A g \in 1 .. MaxGens, d \in 0 .. MaxTime :
    Cardinality({r \in DOMAIN runs : runs[r].gen = g /\ runs[r].day = d}) <= daily_budget

(* What the sensors show never goes back to the answers of an earlier      *)
(* analysis, however long the model took over those, and whoever asked for *)
(* a new one meanwhile.                                                    *)
NewestAnswerStays ==
  [][\A g \in 1 .. MaxGens : st'[g].values >= st[g].values]_vars

(* A picture of the history is the one its analysis was answered from, and *)
(* never that of another analysis of the profile; deleting the profile in  *)
(* between may take it away, or have it replaced by those of the next one. *)
(* The ring turns with every frame and the history only with every entry:  *)
(* an entry loses its picture as many places before the end of a full      *)
(* history as analyses have broken off since it was made, and one more,    *)
(* its slot being overwritten before it is dropped.                        *)
(* Everything also has its type, and the history its length.               *)
PicturesMatch ==
  /\ TypeOK
  /\ gen # 0 => \A i \in DOMAIN history :
      LET e == history[i]
          Own(file) ==
            \/ file \in {e.run, Gone}
            \/ file # NoRun /\ runs[file].gen # gen
      IN i + (broken[gen] - e.broken) < HISTORY_LENGTH /\ e.slot # NoSlot =>
           /\ Own(frames[e.slot])
           /\ e.marked /\ gens = 1 => Own(marks[e.slot])

(* The triggers that are listened for are those of the configuration saved *)
(* last, once every save has arrived, however they overlap, unless the     *)
(* recorder failed and kept the newest from arriving.                      *)
TriggersFollow == applying = <<>> /\ ~missed => (watching <=> profile = "on")

(* VisionState.count_for: "Analyses used today, resetting when the local   *)
(* day rolls over."  The panel's count is the number of analyses begun     *)
(* today, and a new day has its whole budget.                              *)
CountsTheDay ==
  gen # 0 =>
    CountFor(gen, Today) =
      Cardinality({r \in DOMAIN runs : runs[r].gen = gen /\ runs[r].day = Today})
=============================================================================
