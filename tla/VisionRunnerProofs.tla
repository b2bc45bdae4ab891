-------------------------- MODULE VisionRunnerProofs --------------------------
(***************************************************************************)
(* Proofs about VisionRunner, for any number of tasks, any ring, budget,   *)
(* cooldown and day length, and any bounds.  The inductive invariant has a *)
(* part for each property: what ties the count of a state to the analyses  *)
(* begun under it, and what ties the slots of the history to the counter   *)
(* the ring is written with.                                               *)
(***************************************************************************)
EXTENDS VisionRunner, FiniteSetTheorems, TLAPS

Gens == 1 .. MaxGens
Profiles == {"on", "off", "none"}

RunAt(g, d) == {r \in DOMAIN runs : runs[r].gen = g /\ runs[r].day = d}

(* What a file may hold: nothing, an analysis that has begun, or nothing   *)
(* any more.                                                               *)
File == DOMAIN runs \cup {NoRun, Gone}

Working(t) == task[t].pc # "idle"
Answering(t) == task[t].pc \in {"ask", "draw"}

VState == [last : Nat, day : Nat, count : Nat, counter : Nat, values : 0 .. MaxRuns]
Run == [gen : Gens, day : Nat]
Busy == [pc : {"capture", "ask", "draw"}, gen : Gens,
         run : 1 .. MaxRuns, slot : 0 .. NoSlot]

Typed ==
  /\ now \in 0 .. MaxTime
  /\ profile \in Profiles /\ watching \in BOOLEAN /\ missed \in BOOLEAN
  /\ applying \in Seq(Profiles)
  /\ gens \in 0 .. MaxGens /\ gen \in 0 .. gens
  /\ st \in [Gens -> VState]
  /\ broken \in [Gens -> Nat]
  /\ runs \in Seq(Run) /\ Len(runs) <= MaxRuns
  /\ task \in [Tasks -> {Idle} \cup Busy]
  /\ history \in Seq(Entry) /\ Len(history) <= HISTORY_LENGTH
  /\ frames \in [Slots -> File] /\ marks \in [Slots -> File]

(* The lock: a state has one analysis at a time, which is one of its own.  *)
(* A state nobody has asked for yet is as it was made.                     *)
OneAtATime ==
  /\ \A t, u \in Tasks :
       Working(t) /\ Working(u) /\ task[t].gen = task[u].gen => t = u
  /\ \A t \in Tasks : Working(t) =>
       /\ task[t].gen <= gens
       /\ task[t].run \in DOMAIN runs /\ runs[task[t].run].gen = task[t].gen
  /\ \A r \in DOMAIN runs : runs[r].gen <= gens
  /\ \A g \in Gens : g > gens => st[g] = FreshState

(* A state has counted every analysis begun under it since its day began,  *)
(* and no analysis is of a later day than that.                            *)
Counted ==
  /\ \A r \in DOMAIN runs :
       runs[r].day <= st[runs[r].gen].day /\ st[runs[r].gen].day <= Today
  /\ \A g \in Gens : Cardinality(RunAt(g, st[g].day)) <= st[g].count

(* Frames are only counted for analyses: the one in capture is still due.  *)
FramesCounted ==
  \A g \in Gens :
    /\ st[g].count <= Len(runs)
    /\ st[g].counter <= st[g].count
    /\ \A t \in Tasks : task[t].pc = "capture" /\ task[t].gen = g =>
         st[g].counter < st[g].count

(* What the sensors show is of an analysis that has begun, and of none     *)
(* later than the one under way.                                           *)
AnswersInOrder ==
  /\ \A g \in Gens : st[g].values <= Len(runs)
  /\ \A t \in Tasks : Working(t) => st[task[t].gen].values <= task[t].run

(* The save that arrives last is the one made last. *)
Arriving ==
  /\ applying # <<>> => applying[Len(applying)] = profile
  /\ TriggersFollow

Shows(file, run, g) ==
  \/ file \in {run, Gone}
  \/ file # NoRun /\ runs[file].gen # g

(* A slot as it was a captures ago *)
SlotBefore(g, a) == (st[g].counter - 1 - a) % HISTORY_LENGTH

Pending == IF \E t \in Tasks : Answering(t) /\ task[t].gen = gen THEN 1 ELSE 0

(* The analysis that waits for its answer has the slot written last. *)
LastSlotIsItsOwn ==
  \A t \in Tasks : Answering(t) =>
    /\ st[task[t].gen].counter > 0
    /\ task[t].slot = SlotBefore(task[t].gen, 0)
    /\ Shows(frames[task[t].slot], task[t].run, task[t].gen)

(* An entry at place i was written at most as many captures ago as there   *)
(* are places before it, and nothing has overwritten it.                   *)
Ago(i, slot) ==
  \E a \in 0 .. st[gen].counter - 1 :
    Pending <= a /\ a <= i - 1 + Pending /\ slot = SlotBefore(gen, a)

InPlace(i, e) ==
  /\ e.run # NoRun
  /\ Ago(i, e.slot)
  /\ Shows(frames[e.slot], e.run, gen)
  /\ e.marked /\ gens = 1 => Shows(marks[e.slot], e.run, gen)

(* The place of an entry in the history, were there one for every analysis *)
(* that broke off                                                          *)
Place(i, e) == i + (broken[gen] - e.broken)

Kept(i, e) ==
  /\ e.broken <= broken[gen]
  /\ \A p \in 1 .. HISTORY_LENGTH - 1 :
       p = Place(i, e) /\ e.slot # NoSlot => InPlace(p, e)

Ring ==
  /\ gen = 0 => history = <<>>
  /\ \A i \in DOMAIN history : Kept(i, history[i])

IInv ==
  /\ Typed /\ OneAtATime
  /\ Counted /\ WithinBudget
  /\ FramesCounted
  /\ AnswersInOrder
  /\ Arriving
  /\ LastSlotIsItsOwn /\ Ring

LEMMA Limits ==
  /\ HISTORY_LENGTH \in Nat \ {0} /\ daily_budget \in Nat \ {0} /\ DayLength \in Nat \ {0}
  /\ cooldown_seconds \in Nat /\ MaxTime \in Nat /\ MaxRuns \in Nat /\ MaxGens \in Nat
BY LimitsAssumption

USE Limits DEF NoSlot, NoRun, Never, Gone, Idle

-----------------------------------------------------------------------------
(* Arithmetic: the day of a time, and slots of the ring less than a lap apart *)

LEMMA Days ==
  \A t \in Nat : /\ t \div DayLength \in Nat /\ t \div DayLength <= t
                 /\ t \div DayLength <= (t + 1) \div DayLength
BY SMT

LEMMA Division ==
  \A n \in Nat, d \in Nat \ {0} :
    n = d * (n \div d) + (n % d) /\ n % d \in 0 .. d - 1 /\ n \div d \in Nat
BY SMT

LEMMA SlotsApart ==
  ASSUME NEW n \in Nat, NEW k \in 1 .. HISTORY_LENGTH - 1
  PROVE  n % HISTORY_LENGTH # (n + k) % HISTORY_LENGTH
<1> DEFINE H == HISTORY_LENGTH
           p == n \div H
           q == (n + k) \div H
<1>0. H \in Nat \ {0} /\ n + k \in Nat
  OBVIOUS
<1>1. /\ n = H * p + (n % H) /\ n + k = H * q + ((n + k) % H)
      /\ p \in Nat /\ q \in Nat
      /\ n % H \in 0 .. H - 1 /\ (n + k) % H \in 0 .. H - 1
  <2> HIDE DEF H
  <2> QED
    BY <1>0, Division
<1> HIDE DEF p, q
<1>2. ASSUME n % H = (n + k) % H PROVE k = H * (q - p)
  <2>1. H * (q - p) = H * q - H * p
    BY <1>0, <1>1
  <2> QED
    BY <1>0, <1>1, <1>2, <2>1
<1>3. q - p <= 0 => H * (q - p) <= 0
  BY <1>0, <1>1
<1>4. q - p >= 1 => H * (q - p) >= H
  BY <1>0, <1>1
<1> QED
  BY <1>0, <1>1, <1>2, <1>3, <1>4

-----------------------------------------------------------------------------
(* The history stays within its length, and gets its newest entry first.   *)

LEMMA Recorded ==
  ASSUME Typed, NEW g \in Gens, NEW run \in 0 .. MaxRuns, NEW slot \in 0 .. NoSlot,
         NEW marked \in BOOLEAN
  PROVE  LET h == WithEntry(g, run, slot, marked) IN
         /\ h \in Seq(Entry) /\ Len(h) <= HISTORY_LENGTH
         /\ h[1] = [run |-> run, slot |-> slot, marked |-> marked, broken |-> broken[g]]
         /\ \A i \in DOMAIN h : i # 1 => i - 1 \in DOMAIN history /\ h[i] = history[i - 1]
<1> DEFINE e == [run |-> run, slot |-> slot, marked |-> marked, broken |-> broken[g]]
           all == <<e>> \o history
           n == IF Len(all) < HISTORY_LENGTH THEN Len(all) ELSE HISTORY_LENGTH
<1>0. broken[g] \in Nat /\ history \in Seq(Entry)
  BY DEF Typed
<1>1. e \in Entry
  BY <1>0 DEF Entry
<1>2. /\ all \in Seq(Entry) /\ Len(all) = Len(history) + 1 /\ all[1] = e
      /\ \A i \in 2 .. Len(history) + 1 : all[i] = history[i - 1]
      /\ Len(history) \in Nat /\ DOMAIN history = 1 .. Len(history)
  BY <1>0, <1>1
<1>3. n \in 1 .. Len(all) /\ n <= HISTORY_LENGTH
  BY <1>2
<1> HIDE DEF e, all, n
<1>4. /\ SubSeq(all, 1, n) \in Seq(Entry) /\ Len(SubSeq(all, 1, n)) = n
      /\ \A i \in 1 .. n : SubSeq(all, 1, n)[i] = all[i]
  BY <1>2, <1>3
<1>5. WithEntry(g, run, slot, marked) = SubSeq(all, 1, n)
  BY DEF WithEntry, Truncated, all, n, e
<1>6. DOMAIN SubSeq(all, 1, n) = 1 .. n
  BY <1>4
<1>7. ASSUME NEW i \in 1 .. n, i # 1
      PROVE  i - 1 \in DOMAIN history /\ SubSeq(all, 1, n)[i] = history[i - 1]
  <2>1. i \in 2 .. Len(history) + 1 /\ i \in 1 .. n
    BY <1>2, <1>3, <1>7
  <2>2. SubSeq(all, 1, n)[i] = all[i]
    BY <1>4, <2>1
  <2>3. all[i] = history[i - 1] /\ i - 1 \in 1 .. Len(history)
    BY <1>2, <2>1
  <2> QED
    BY <1>2, <2>2, <2>3
<1>8. 1 \in 1 .. n
  BY <1>2, <1>3
<1> HIDE DEF WithEntry
<1> QED
  BY <1>2, <1>3, <1>4, <1>5, <1>6, <1>7, <1>8 DEF e

LEMMA InvInit == Init => IInv
<1> SUFFICES ASSUME Init PROVE IInv
  OBVIOUS
<1> USE DEF Init
<1>1. runs = <<>> /\ DOMAIN runs = {} /\ Len(runs) = 0
  OBVIOUS
<1>2. Typed
  <2>1. FreshState \in VState
    BY DEF FreshState, VState
  <2>6. broken \in [Gens -> Nat]
    BY DEF Gens
  <2>2. history \in Seq(Entry) /\ Len(history) <= HISTORY_LENGTH /\ applying \in Seq(Profiles)
    OBVIOUS
  <2>3. frames \in [Slots -> File] /\ marks \in [Slots -> File]
    BY DEF File
  <2>4. task \in [Tasks -> {Idle} \cup Busy]
    OBVIOUS
  <2>5. runs \in Seq(Run) /\ Len(runs) <= MaxRuns
    OBVIOUS
  <2>7. profile \in Profiles /\ watching \in BOOLEAN /\ missed \in BOOLEAN
    BY Zenon DEF Profiles
  <2> QED
    BY <2>1, <2>2, <2>3, <2>4, <2>5, <2>6, <2>7 DEF Typed, Gens
<1>3. OneAtATime /\ FramesCounted /\ AnswersInOrder /\ LastSlotIsItsOwn
  BY <1>1 DEF OneAtATime, FramesCounted, AnswersInOrder, LastSlotIsItsOwn, Working, Answering,
     FreshState, Gens
<1>4. \A g, d : RunAt(g, d) = {} /\ Cardinality(RunAt(g, d)) = 0
  BY <1>1, FS_EmptySet DEF RunAt
<1>5. Counted /\ WithinBudget
  BY <1>1, <1>4 DEF Counted, WithinBudget, RunAt, FreshState, Gens
<1>6. Arriving /\ Ring
  BY DEF Arriving, TriggersFollow, Ring
<1> QED
  BY <1>2, <1>3, <1>5, <1>6 DEF IInv

(* The state that is asked for, and made if there is none *)
LEMMA UsedState ==
  ASSUME Typed, UseState(StateFor)
  PROVE  /\ StateFor \in Gens /\ gens' \in 0 .. MaxGens /\ gen' = StateFor
         /\ gen' \in 1 .. gens' /\ gens <= gens'
         /\ gen # 0 => gen' = gen /\ gens' = gens
         /\ gen = 0 => gen' = gens + 1 /\ gens' = gens + 1
BY DEF Typed, UseState, StateFor, Gens

LEMMA TypedStep == IInv /\ [Next]_vars => Typed'
<1> SUFFICES ASSUME Typed, OneAtATime, [Next]_vars PROVE Typed'
  BY DEF IInv
<1> USE DEF configVars, fileVars
<1>s. st \in [Gens -> VState]
  BY DEF Typed
<1>r. runs \in Seq(Run) /\ Len(runs) <= MaxRuns
  BY DEF Typed
<1>t. task \in [Tasks -> {Idle} \cup Busy]
  BY DEF Typed
<1>f. frames \in [Slots -> File] /\ marks \in [Slots -> File]
  BY DEF Typed
<1>h. history \in Seq(Entry) /\ Len(history) <= HISTORY_LENGTH
      /\ 0 \in 0 .. MaxRuns /\ NoSlot \in 0 .. NoSlot
  BY DEF Typed
<1>n. now \in 0 .. MaxTime /\ now \in Nat /\ Today \in Nat
  <2>1. now \in 0 .. MaxTime
    BY DEF Typed
  <2> QED
    BY <2>1, Days DEF Today
<1>1. ASSUME NEW t \in Tasks, NEW force \in BOOLEAN, Begin(t, force) PROVE Typed'
  <2>0. UseState(StateFor)
    BY <1>1 DEF Begin
  <2>1. StateFor \in Gens /\ gens' \in 0 .. MaxGens /\ gen' \in 0 .. gens'
    BY <2>0, UsedState
  <2>2. Len(runs) < MaxRuns /\ runs' = Append(runs, [gen |-> StateFor, day |-> Today])
    BY <1>1 DEF Begin
  <2>3. st' = [st EXCEPT ![StateFor].day = Today, ![StateFor].count = @ + 1]
    BY <1>1 DEF Begin
  <2>4. task' = [task EXCEPT ![t] = [pc |-> "capture", gen |-> StateFor,
                                    run |-> Len(runs) + 1, slot |-> NoSlot]]
    BY <1>1 DEF Begin
  <2>5. st' \in [Gens -> VState]
    <3> DEFINE n == st[StateFor].count + 1
               s == [st[StateFor] EXCEPT !.day = Today, !.count = n]
    <3>1. st[StateFor] \in VState /\ n \in Nat
      BY <1>s, <2>1 DEF VState
    <3>2. st' = [st EXCEPT ![StateFor] = s]
      BY <1>s, <2>1, <2>3, <3>1
    <3> HIDE DEF n
    <3>3. s \in VState
      BY <1>n, <3>1 DEF VState
    <3> QED
      BY <1>s, <3>2, <3>3
  <2>6. /\ runs' \in Seq(Run) /\ Len(runs') = Len(runs) + 1
        /\ Len(runs') <= MaxRuns /\ DOMAIN runs \subseteq DOMAIN runs'
    <3>1. [gen |-> StateFor, day |-> Today] \in Run
      BY <1>n, <2>1 DEF Run
    <3>2. DOMAIN runs = 1 .. Len(runs) /\ Len(runs) \in Nat
      BY <1>r
    <3> QED
      BY <1>r, <2>2, <3>1, <3>2
  <2>7. task' \in [Tasks -> {Idle} \cup Busy]
    BY <1>t, <1>r, <2>1, <2>2, <2>4 DEF Busy
  <2>8. frames' \in [Slots -> File'] /\ marks' \in [Slots -> File']
    BY <1>f, <1>1, <2>6 DEF Begin, File
  <2> QED
    BY <1>1, <2>1, <2>5, <2>6, <2>7, <2>8 DEF Begin, Typed
<1>2. CASE TriggerRefused
  <2>0. UseState(StateFor) /\ history' = WithEntry(StateFor, NoRun, NoSlot, FALSE)
    BY <1>2 DEF TriggerRefused
  <2>1. StateFor \in Gens /\ gens' \in 0 .. MaxGens /\ gen' \in 0 .. gens'
    BY <2>0, UsedState
  <2>2. history' \in Seq(Entry) /\ Len(history') <= HISTORY_LENGTH
    BY <1>h, <2>0, <2>1, Recorded, Zenon
  <2> QED
    BY <1>2, <2>1, <2>2 DEF TriggerRefused, Typed, File
<1>3. ASSUME NEW t \in Tasks, AnalysisStep(t) PROVE Typed'
  <2> USE DEF AnalysisStep, Capture, CaptureFails, CaptureBreaks, Answer, AnswerFails,
              AnswerBreaks, Draw, DrawBreaks, Fail, BreakOff, Succeed, Finish
  <2>0. task[t].pc # "idle"
    BY <1>3
  <2>1. /\ task[t] \in Busy
    BY <1>t, <2>0
  <2>2. /\ task[t].gen \in Gens /\ task[t].run \in DOMAIN runs
        /\ task[t].run \in 0 .. MaxRuns /\ task[t].slot \in 0 .. NoSlot
    BY <2>0, <2>1 DEF OneAtATime, Working, Busy
  <2>3. st[task[t].gen].counter \in Nat /\ Slot(task[t].gen) \in Slots
    BY <1>s, <2>2, Division DEF Slot, Slots, VState
  <2>4. ASSUME NEW slot \in 0 .. NoSlot, NEW marked \in BOOLEAN,
               Record(task[t].gen, task[t].run, slot, marked)
        PROVE  history' \in Seq(Entry) /\ Len(history') <= HISTORY_LENGTH
    <3>1. LET h == WithEntry(task[t].gen, task[t].run, slot, marked) IN
          h \in Seq(Entry) /\ Len(h) <= HISTORY_LENGTH
      BY <1>h, <2>2, Recorded, Zenon
    <3> QED
      BY <1>h, <2>4, <3>1, Zenon DEF Record
  <2>5. /\ history' \in Seq(Entry) /\ Len(history') <= HISTORY_LENGTH
    <3>1. \/ UNCHANGED history
          \/ Record(task[t].gen, task[t].run, NoSlot, FALSE)
          \/ \E marked \in BOOLEAN : Record(task[t].gen, task[t].run, task[t].slot, marked)
      BY <1>3, Zenon
    <3> QED
      BY <1>h, <2>2, <2>4, <3>1, Zenon
  <2>6. frames' \in [Slots -> File] /\ marks' \in [Slots -> File]
    BY <1>f, <1>3, <2>2, <2>3 DEF Scribble, File
  <2>7. task' \in [Tasks -> {Idle} \cup Busy]
    <3> DEFINE asking == [task[t] EXCEPT !.pc = "ask", !.slot = Slot(task[t].gen)]
               drawing == [task[t] EXCEPT !.pc = "draw"]
    <3>1. asking \in Busy /\ drawing \in Busy
      <4>1. Slot(task[t].gen) \in 0 .. NoSlot
        BY <2>3 DEF Slots
      <4> QED
        BY <2>1, <4>1 DEF Busy
    <3>2. \/ UNCHANGED task
          \/ \E x \in {Idle, asking, drawing} : task' = [task EXCEPT ![t] = x]
      BY <1>t, <1>3
    <3> QED
      BY <1>t, <3>1, <3>2
  <2>8. /\ st' \in [Gens -> VState]
        /\ broken' \in [Gens -> Nat]
    <3> DEFINE g == task[t].gen
               stamped == [st[g] EXCEPT !.last = now]
               answered == [st[g] EXCEPT !.last = now, !.values = task[t].run]
               n == st[g].counter + 1
               captured == [st[g] EXCEPT !.counter = n]
    <3>0. st[g] \in VState
      BY <1>s, <2>2
    <3>1. st[g] \in VState /\ n \in Nat
      BY <3>0 DEF VState
    <3>2. /\ stamped \in VState /\ answered \in VState
          /\ captured \in VState
      <4> HIDE DEF n
      <4> QED
        BY <1>n, <2>2, <3>1 DEF VState
    <3>3. UNCHANGED st \/ \E x \in {stamped, answered, captured} : st' = [st EXCEPT ![g] = x]
      <4>1. ASSUME Succeed(t) PROVE \E x \in {stamped, answered} : st' = [st EXCEPT ![g] = x]
        <5>1. PICK shown \in {st[g].values, task[t].run} :
                st' = [st EXCEPT ![g].last = now, ![g].values = shown]
          BY <4>1
        <5>2. st' = [st EXCEPT ![g] = [st[g] EXCEPT !.last = now, !.values = shown]]
          BY <1>s, <2>2, <5>1
        <5>3. [st[g] EXCEPT !.last = now, !.values = st[g].values] = stamped
          BY <3>0 DEF VState
        <5> QED
          BY <5>1, <5>2, <5>3
      <4>2. Answer(t) => Succeed(t)
        OBVIOUS
      <4>3. ~Answer(t) => UNCHANGED st \/ \E x \in {stamped, captured} : st' = [st EXCEPT ![g] = x]
        <5> HIDE DEF Succeed, Answer
        <5> QED
          BY <1>s, <1>3, <2>2
      <4> QED
        BY <4>1, <4>2, <4>3
    <3>4. broken' \in {broken, [broken EXCEPT ![g] = @ + 1]}
      BY <1>3
    <3>5. broken \in [Gens -> Nat]
      BY DEF Typed
    <3> HIDE DEF stamped, answered, captured
    <3>6. broken' \in [Gens -> Nat]
      BY <2>2, <3>4, <3>5
    <3> QED
      BY <1>s, <2>2, <3>2, <3>3, <3>6
  <2>9. UNCHANGED <<configVars, gen, gens, runs, now>>
    BY <1>3
  <2> QED
    BY <2>5, <2>6, <2>7, <2>8, <2>9 DEF File, Typed
<1>4. ASSUME NEW p \in Profiles, Save(p) PROVE Typed'
  <2>1. applying' \in Seq(Profiles)
    BY <1>4 DEF Save, Typed
  <2> QED
    BY <1>4, <2>1 DEF Save, File, Typed
<1>5. CASE Apply
  <2>1. /\ applying' \in Seq(Profiles) /\ watching' \in BOOLEAN
        /\ gen' \in 0 .. gens /\ history' \in {history, <<>>}
    BY <1>5 DEF Apply, Subscribed, Typed
  <2>2. history' \in Seq(Entry) /\ Len(history') <= HISTORY_LENGTH
    <3>1. CASE history' = history
      BY <1>h, <3>1
    <3>2. CASE history' = <<>>
      BY <3>2
    <3> QED
      BY <2>1, <3>1, <3>2
  <2> QED
    BY <1>5, <2>1, <2>2 DEF Apply, Typed, File
<1>10. CASE RecorderFails
  BY <1>10 DEF RecorderFails, File, Typed
<1>6. CASE Prune
  BY <1>6 DEF Prune, File, Typed
<1>7. CASE Look
  <2>1. gens' \in 0 .. MaxGens /\ gen' \in 0 .. gens'
    BY <1>7, UsedState DEF Look
  <2> QED
    BY <1>7, <2>1 DEF Look, File, Typed
<1>8. CASE Tick
  <2>1. now' \in 0 .. MaxTime
    BY <1>n, <1>8 DEF Tick
  <2> QED
    BY <1>8, <2>1 DEF Tick, File, Typed
<1>9. CASE UNCHANGED vars
  BY <1>9 DEF vars, File, Typed
<1> QED
  BY <1>1, <1>2, <1>3, <1>4, <1>5, <1>6, <1>7, <1>8, <1>9, <1>10 DEF Next, Profiles

(* What the types say of single values *)
LEMMA Types ==
  ASSUME Typed
  PROVE  /\ now \in Nat /\ now <= MaxTime
         /\ Today \in Nat /\ Today <= MaxTime
         /\ gens \in Nat /\ gens <= MaxGens /\ gen \in Nat /\ gen <= gens
         /\ Len(runs) \in Nat /\ DOMAIN runs = 1 .. Len(runs)
         /\ \A r \in DOMAIN runs : runs[r].gen \in Gens /\ runs[r].day \in Nat
         /\ \A g \in Gens : st[g] \in VState /\ broken[g] \in Nat
         /\ \A t \in Tasks : Working(t) =>
              /\ task[t] \in Busy /\ task[t].gen \in Gens
              /\ task[t].run \in 1 .. MaxRuns /\ task[t].slot \in 0 .. NoSlot
<1>1. now \in 0 .. MaxTime /\ gens \in 0 .. MaxGens /\ gen \in 0 .. gens
  BY DEF Typed
<1>2. now \in Nat /\ now <= MaxTime
      /\ gens \in Nat /\ gens <= MaxGens /\ gen \in Nat /\ gen <= gens
  BY <1>1
<1>3. Today \in Nat /\ Today <= MaxTime
  BY <1>2, Days DEF Today
<1>4. runs \in Seq(Run)
  BY DEF Typed
<1>5. /\ Len(runs) \in Nat /\ DOMAIN runs = 1 .. Len(runs)
      /\ \A r \in DOMAIN runs : runs[r] \in Run
  BY <1>4
<1>9. \A r \in DOMAIN runs : runs[r].gen \in Gens /\ runs[r].day \in Nat
  BY <1>5 DEF Run
<1>6. \A g \in Gens : st[g] \in VState /\ broken[g] \in Nat
  BY DEF Typed
<1>7. task \in [Tasks -> {Idle} \cup Busy]
  BY DEF Typed
<1>8. \A t \in Tasks : Working(t) =>
        /\ task[t] \in Busy /\ task[t].gen \in Gens
        /\ task[t].run \in 1 .. MaxRuns /\ task[t].slot \in 0 .. NoSlot
  BY <1>7 DEF Working, Busy
<1> QED
  BY <1>2, <1>3, <1>5, <1>6, <1>8, <1>9

-----------------------------------------------------------------------------
(* What the steps of an analysis do to the states, the tasks and the runs  *)

(* A beginning adds one run, under the state it uses and for today, and    *)
(* finds no other analysis there.                                          *)
LEMMA Beginning ==
  ASSUME Typed, OneAtATime, NEW t \in Tasks, NEW force \in BOOLEAN, Begin(t, force)
  PROVE  LET g == StateFor IN
         /\ g \in Gens /\ g <= gens'
         /\ task[t] = Idle
         /\ \A u \in Tasks : Working(u) => task[u].gen # g
         /\ task'[t] = [pc |-> "capture", gen |-> g,
                        run |-> Len(runs) + 1, slot |-> NoSlot]
         /\ \A u \in Tasks \ {t} : task'[u] = task[u]
         /\ \A h \in Gens \ {g} : st'[h] = st[h]
         /\ st'[g].values = st[g].values /\ st'[g].counter = st[g].counter
         /\ st'[g].day = Today /\ st'[g].count = st[g].count + 1
         /\ DOMAIN runs' = DOMAIN runs \cup {Len(runs) + 1}
         /\ Len(runs) + 1 \notin DOMAIN runs
         /\ runs'[Len(runs) + 1] = [gen |-> g, day |-> Today]
         /\ \A r \in DOMAIN runs : runs'[r] = runs[r]
<1> DEFINE g == StateFor
<1>1. g \in Gens /\ g <= gens'
  BY UsedState DEF Begin
<1>2. task \in [Tasks -> {Idle} \cup Busy] /\ task[t] = Idle
  BY DEF Begin, Typed
<1>3. \A u \in Tasks : Working(u) => task[u].gen # g
  BY DEF Begin, Locked, Working
<1>4. /\ task'[t] = [pc |-> "capture", gen |-> g,
                     run |-> Len(runs) + 1, slot |-> NoSlot]
      /\ \A u \in Tasks \ {t} : task'[u] = task[u]
  BY <1>2 DEF Begin
<1>5. st \in [Gens -> VState]
  BY DEF Typed
<1>6. st' = [st EXCEPT ![g].day = Today, ![g].count = @ + 1]
  BY DEF Begin
<1>7. /\ \A h \in Gens \ {g} : st'[h] = st[h]
      /\ st'[g].values = st[g].values /\ st'[g].counter = st[g].counter
      /\ st'[g].day = Today /\ st'[g].count = st[g].count + 1
  BY <1>1, <1>5, <1>6 DEF VState
<1>8. runs \in Seq(Run) /\ Today \in Nat
  BY Types DEF Typed
<1>9. runs' = Append(runs, [gen |-> g, day |-> Today])
  BY DEF Begin
<1>10. /\ DOMAIN runs' = DOMAIN runs \cup {Len(runs) + 1}
       /\ Len(runs) + 1 \notin DOMAIN runs
       /\ runs'[Len(runs) + 1] = [gen |-> g, day |-> Today]
       /\ \A r \in DOMAIN runs : runs'[r] = runs[r]
  BY <1>1, <1>8, <1>9
<1> QED
  BY <1>1, <1>2, <1>3, <1>4, <1>7, <1>10

(* The rest of an analysis touches its own task and its own state: the     *)
(* counter when the frame is there, the answers when they have come.       *)
LEMMA Analysing ==
  ASSUME Typed, OneAtATime, NEW t \in Tasks, AnalysisStep(t)
  PROVE  LET g == task[t].gen IN
         /\ Working(t) /\ task[t] \in Busy /\ g \in Gens
         /\ UNCHANGED <<configVars, gen, gens, runs, prunes, now>>
         /\ \A u \in Tasks \ {t} : task'[u] = task[u]
         /\ task'[t] = Idle \/ /\ task'[t].gen = g /\ task'[t].run = task[t].run
                               /\ task'[t].pc \in {"ask", "draw"}
         /\ \A h \in Gens \ {g} : st'[h] = st[h] /\ broken'[h] = broken[h]
         /\ st'[g].day = st[g].day /\ st'[g].count = st[g].count
         /\ \/ st'[g].counter = st[g].counter
            \/ task[t].pc = "capture" /\ st'[g].counter = st[g].counter + 1
         /\ st'[g].values \in {st[g].values, task[t].run}
<1> DEFINE g == task[t].gen
<1> USE DEF AnalysisStep, Capture, CaptureFails, CaptureBreaks, Answer, AnswerFails,
            AnswerBreaks, Draw, DrawBreaks, Fail, BreakOff, Succeed, Finish
<1>1. task \in [Tasks -> {Idle} \cup Busy] /\ task[t].pc # "idle"
  BY DEF Typed
<1>2. Working(t) /\ task[t] \in Busy /\ g \in Gens
  BY <1>1 DEF Working, Busy
<1>3. /\ UNCHANGED <<configVars, gen, gens, runs, prunes, now>>
      /\ \A u \in Tasks \ {t} : task'[u] = task[u]
  BY <1>1
<1>4. task'[t] = Idle \/ /\ task'[t].gen = g /\ task'[t].run = task[t].run
                         /\ task'[t].pc \in {"ask", "draw"}
  <2>1. \/ task' = [task EXCEPT ![t] = Idle]
        \/ task' = [task EXCEPT ![t] = [task[t] EXCEPT !.pc = "draw"]]
        \/ task' = [task EXCEPT ![t] = [task[t] EXCEPT !.pc = "ask", !.slot = Slot(g)]]
    BY <1>1
  <2>2. CASE task' = [task EXCEPT ![t] = Idle]
    BY <1>1, <2>2
  <2>3. CASE task' = [task EXCEPT ![t] = [task[t] EXCEPT !.pc = "draw"]]
    BY <1>1, <1>2, <2>3 DEF Busy
  <2>4. CASE task' = [task EXCEPT ![t] = [task[t] EXCEPT !.pc = "ask", !.slot = Slot(g)]]
    BY <1>1, <1>2, <2>4 DEF Busy
  <2> QED
    BY <2>1, <2>2, <2>3, <2>4
<1>5. st \in [Gens -> VState] /\ broken \in [Gens -> Nat]
  BY DEF Typed
<1>6. \/ st' = st
      \/ st' = [st EXCEPT ![g].last = now]
      \/ \E shown \in {st[g].values, task[t].run} :
           st' = [st EXCEPT ![g].last = now, ![g].values = shown]
      \/ task[t].pc = "capture" /\ st' = [st EXCEPT ![g].counter = @ + 1]
  OBVIOUS
<1>8. broken' \in {broken, [broken EXCEPT ![g] = @ + 1]}
  OBVIOUS
<1> HIDE DEF g
<1>7. /\ \A h \in Gens \ {g} : st'[h] = st[h]
      /\ st'[g].day = st[g].day /\ st'[g].count = st[g].count
      /\ \/ st'[g].counter = st[g].counter
         \/ task[t].pc = "capture" /\ st'[g].counter = st[g].counter + 1
      /\ st'[g].values \in {st[g].values, task[t].run}
  <2>0. st[g] \in VState
    BY <1>2, <1>5
  <2>1. CASE st' = st
    BY <1>2, <2>1
  <2>2. CASE st' = [st EXCEPT ![g].last = now]
    BY <1>2, <1>5, <2>0, <2>2 DEF VState
  <2>3. CASE task[t].pc = "capture" /\ st' = [st EXCEPT ![g].counter = @ + 1]
    BY <1>2, <1>5, <2>0, <2>3 DEF VState
  <2>4. ASSUME NEW shown \in {st[g].values, task[t].run},
               st' = [st EXCEPT ![g].last = now, ![g].values = shown]
        PROVE  /\ \A h \in Gens \ {g} : st'[h] = st[h]
               /\ st'[g].day = st[g].day /\ st'[g].count = st[g].count
               /\ st'[g].counter = st[g].counter /\ st'[g].values = shown
    BY <1>2, <1>5, <2>0, <2>4 DEF VState
  <2> QED
    BY <1>6, <2>1, <2>2, <2>3, <2>4
<1>9. \A h \in Gens \ {g} : broken'[h] = broken[h]
  BY <1>2, <1>5, <1>8
<1> QED
  BY <1>2, <1>3, <1>4, <1>7, <1>9 DEF g

-----------------------------------------------------------------------------
(* One analysis at a time *)

LEMMA OneAtATimeStep == Typed /\ OneAtATime /\ [Next]_vars => OneAtATime'
<1> SUFFICES ASSUME Typed, OneAtATime, [Next]_vars PROVE OneAtATime'
  OBVIOUS
<1>1. ASSUME NEW t \in Tasks, NEW force \in BOOLEAN, Begin(t, force) PROVE OneAtATime'
  <2> DEFINE g == StateFor
  <2>1. UseState(g)
    BY <1>1 DEF Begin
  <2>2. gens' \in Nat /\ gens <= gens'
    BY <2>1, UsedState
  <2> HIDE DEF g
  <2>3. /\ g \in Gens /\ g <= gens'
        /\ \A u \in Tasks : Working(u) => task[u].gen # g
        /\ task'[t].gen = g /\ task'[t].run = Len(runs) + 1
        /\ \A u \in Tasks \ {t} : task'[u] = task[u]
        /\ \A h \in Gens \ {g} : st'[h] = st[h]
        /\ DOMAIN runs' = DOMAIN runs \cup {Len(runs) + 1}
        /\ runs'[Len(runs) + 1].gen = g
        /\ \A r \in DOMAIN runs : runs'[r] = runs[r]
    <3>1. /\ task'[t] = [pc |-> "capture", gen |-> g,
                         run |-> Len(runs) + 1, slot |-> NoSlot]
          /\ runs'[Len(runs) + 1] = [gen |-> g, day |-> Today]
      BY <1>1, Beginning DEF g
    <3>2. task'[t].gen = g /\ task'[t].run = Len(runs) + 1 /\ runs'[Len(runs) + 1].gen = g
      BY <3>1
    <3>3. /\ g \in Gens /\ g <= gens'
          /\ \A u \in Tasks : Working(u) => task[u].gen # g
          /\ \A u \in Tasks \ {t} : task'[u] = task[u]
          /\ \A h \in Gens \ {g} : st'[h] = st[h]
          /\ DOMAIN runs' = DOMAIN runs \cup {Len(runs) + 1}
          /\ \A r \in DOMAIN runs : runs'[r] = runs[r]
      BY <1>1, Beginning DEF g
    <3> QED
      BY <3>2, <3>3
  <2>4. \A h \in Gens : h > gens' => st'[h] = FreshState
    BY <2>1, <2>2, <2>3, Types DEF OneAtATime, Gens
  <2>5. \A r \in DOMAIN runs' : runs'[r].gen <= gens'
    BY <2>2, <2>3, Types DEF OneAtATime, Gens
  <2>6. \A u \in Tasks : Working(u)' =>
          /\ task'[u].gen <= gens'
          /\ task'[u].run \in DOMAIN runs' /\ runs'[task'[u].run].gen = task'[u].gen
    <3> TAKE u \in Tasks
    <3>1. CASE u = t
      BY <2>3, <3>1
    <3>2. CASE u # t
      <4>1. task'[u] = task[u] /\ (Working(u)' <=> Working(u))
        BY <2>3, <3>2 DEF Working
      <4>2. Working(u) => /\ task[u].gen \in Nat /\ task[u].gen <= gens
                          /\ task[u].run \in DOMAIN runs
                          /\ runs[task[u].run].gen = task[u].gen
        BY Types DEF OneAtATime, Gens
      <4> QED
        BY <2>2, <2>3, <4>1, <4>2, Types
    <3> QED
      BY <3>1, <3>2
  <2>7. \A u, v \in Tasks :
          Working(u)' /\ Working(v)' /\ task'[u].gen = task'[v].gen => u = v
    BY <2>3 DEF OneAtATime, Working
  <2> QED
    BY <2>4, <2>5, <2>6, <2>7 DEF OneAtATime
<1>2. ASSUME UseState(StateFor), UNCHANGED <<st, task, runs>> PROVE OneAtATime'
  <2>1. gens' \in Nat /\ gens <= gens'
    BY <1>2, UsedState
  <2> QED
    BY SMTT(30), <1>2, <2>1, Types DEF OneAtATime, Working, Gens
<1>3. CASE TriggerRefused \/ Look
  BY <1>2, <1>3 DEF TriggerRefused, Look
<1>4. ASSUME NEW t \in Tasks, AnalysisStep(t) PROVE OneAtATime'
  <2>1. /\ Working(t) /\ UNCHANGED <<gens, runs>>
        /\ \A u \in Tasks \ {t} : task'[u] = task[u]
        /\ task'[t] = Idle \/ (task'[t].gen = task[t].gen /\ task'[t].run = task[t].run)
        /\ \A h \in Gens \ {task[t].gen} : st'[h] = st[h]
    BY <1>4, Analysing
  <2>2. \A u \in Tasks : /\ Working(u)' => Working(u)
                         /\ Working(u)' => task'[u].gen = task[u].gen
                                           /\ task'[u].run = task[u].run
    BY <2>1 DEF Working
  <2>3. \A h \in Gens : h > gens => h # task[t].gen
    BY <2>1, Types DEF OneAtATime, Gens
  <2> QED
    BY <2>1, <2>2, <2>3 DEF OneAtATime
<1>5. ASSUME UNCHANGED <<gens, st, task, runs>> PROVE OneAtATime'
  BY <1>5 DEF OneAtATime, Working
<1> QED
  BY <1>1, <1>3, <1>4, <1>5 DEF Next, Save, Apply, RecorderFails, Prune, Tick, vars, configVars, fileVars

-----------------------------------------------------------------------------
(* The budget *)

LEMMA Counts ==
  ASSUME Typed, NEW g, NEW d
  PROVE  IsFiniteSet(RunAt(g, d)) /\ Cardinality(RunAt(g, d)) \in Nat
<1>1. IsFiniteSet(DOMAIN runs)
  BY Types, FS_Interval
<1>2. RunAt(g, d) \in SUBSET DOMAIN runs
  BY DEF RunAt
<1> QED
  BY <1>1, <1>2, FS_Subset, FS_CardinalityType

(* What a state counts for today covers all that was begun today.  A state *)
(* whose day is over counts nothing, and has begun nothing since.          *)
LEMMA CountCoversToday ==
  ASSUME Typed, Counted, NEW g \in Gens
  PROVE  Cardinality(RunAt(g, Today)) <= CountFor(g, Today)
<1>1. CASE st[g].day = Today
  BY <1>1 DEF Counted, CountFor
<1>2. CASE st[g].day # Today
  <2>1. ASSUME NEW r \in RunAt(g, Today) PROVE FALSE
    <3>1. r \in DOMAIN runs /\ runs[r].gen = g /\ runs[r].day = Today
      BY <2>1 DEF RunAt
    <3>2. runs[r].day <= st[g].day /\ st[g].day <= Today /\ st[g].day \in Nat
      BY <3>1, Types DEF Counted, VState
    <3> QED
      BY <1>2, <3>1, <3>2, Types
  <2>2. Cardinality(RunAt(g, Today)) = 0
    BY <2>1, FS_EmptySet
  <2> QED
    BY <1>2, <2>2 DEF CountFor
<1> QED
  BY <1>1, <1>2

LEMMA BudgetStep ==
  Typed /\ OneAtATime /\ Counted /\ WithinBudget /\ [Next]_vars => Counted' /\ WithinBudget'
<1> SUFFICES ASSUME Typed, OneAtATime, Counted, WithinBudget, [Next]_vars
             PROVE  Counted' /\ WithinBudget'
  OBVIOUS
<1>1. ASSUME NEW t \in Tasks, NEW force \in BOOLEAN, Begin(t, force)
      PROVE  Counted' /\ WithinBudget'
  <2> PICK g \in Gens, new \in Nat, today \in Nat :
        g = StateFor /\ new = Len(runs) + 1 /\ today = Today
    <3>1. StateFor \in Gens
      BY <1>1, Beginning
    <3>2. Len(runs) + 1 \in Nat /\ Today \in Nat
      BY Types
    <3> QED
      BY <3>1, <3>2
  <2>1. /\ \A h \in Gens \ {g} : st'[h] = st[h]
        /\ st'[g].day = today /\ st'[g].count = st[g].count + 1
        /\ DOMAIN runs' = DOMAIN runs \cup {new} /\ new \notin DOMAIN runs
        /\ runs'[new] = [gen |-> g, day |-> today]
        /\ \A r \in DOMAIN runs : runs'[r] = runs[r]
    BY <1>1, Beginning
  <2>2. CountFor(g, today) < daily_budget /\ UNCHANGED now
    BY <1>1 DEF Begin, MayRun
  <2>3. Today' = today
    BY <2>2 DEF Today
  <2>4. runs'[new].gen = g /\ runs'[new].day = today
    BY <2>1
  <2>5. \A h, d : (h # g \/ d # today) => RunAt(h, d)' = RunAt(h, d)
    BY <2>1, <2>4 DEF RunAt
  <2>6. RunAt(g, today)' = RunAt(g, today) \cup {new} /\ new \notin RunAt(g, today)
    BY <2>1, <2>4 DEF RunAt
  <2>7. Cardinality(RunAt(g, today)') = Cardinality(RunAt(g, today)) + 1
    BY <2>6, Counts, FS_AddElement
  <2>8. /\ CountFor(g, today) \in Nat /\ st[g].count \in Nat
        /\ CountFor(g, today) <= st[g].count
    BY Types DEF CountFor, VState
  <2>9. /\ Cardinality(RunAt(g, today)') <= CountFor(g, today) + 1
        /\ Cardinality(RunAt(g, today)') <= daily_budget
        /\ Cardinality(RunAt(g, today)') <= st'[g].count
    BY <2>1, <2>2, <2>7, <2>8, CountCoversToday, Counts
  <2>10. ASSUME NEW h \in Gens PROVE Cardinality(RunAt(h, st[h].day)') <= st'[h].count
    <3> PICK d : d = st'[h].day
      OBVIOUS
    <3>0. RunAt(h, st[h].day)' = RunAt(h, d)'
      BY DEF RunAt
    <3>1. CASE h = g
      BY <2>1, <2>9, <3>0, <3>1
    <3>2. CASE h # g
      <4>1. st'[h] = st[h] /\ Cardinality(RunAt(h, d)) <= st[h].count
        BY <2>1, <3>2 DEF Counted
      <4> QED
        BY <2>5, <3>0, <3>2, <4>1
    <3> QED
      BY <3>1, <3>2
  <2>11. ASSUME NEW r \in DOMAIN runs'
         PROVE  runs'[r].day <= st'[runs'[r].gen].day /\ st'[runs'[r].gen].day <= Today'
    <3>1. CASE r = new
      BY <2>1, <2>3, <2>4, <3>1
    <3>2. CASE r # new
      <4>1. /\ r \in DOMAIN runs /\ runs'[r] = runs[r]
            /\ runs[r].gen \in Gens /\ runs[r].day \in Nat /\ st[runs[r].gen].day \in Nat
            /\ runs[r].day <= st[runs[r].gen].day /\ st[runs[r].gen].day <= today
        BY <2>1, <3>2, Types DEF Counted, VState
      <4> QED
        BY SMTT(30), <2>1, <2>3, <4>1, Types
    <3> QED
      BY <3>1, <3>2
  <2>12. ASSUME NEW h \in Gens, NEW d \in 0 .. MaxTime
         PROVE  Cardinality(RunAt(h, d)') <= daily_budget
    <3>1. CASE h = g /\ d = today
      BY <2>9, <3>1
    <3>2. CASE h # g \/ d # today
      <4>1. Cardinality(RunAt(h, d)) <= daily_budget
        BY DEF WithinBudget, RunAt, Gens
      <4> QED
        BY <2>5, <3>2, <4>1
    <3> QED
      BY <3>1, <3>2
  <2> QED
    BY <2>10, <2>11, <2>12 DEF Counted, WithinBudget, RunAt, Gens
<1>2. ASSUME UNCHANGED runs, Today <= Today', Today' \in Nat,
             \A g \in Gens : st'[g].day = st[g].day /\ st'[g].count = st[g].count
      PROVE  Counted' /\ WithinBudget'
  <2>1. \A g, d : RunAt(g, d)' = RunAt(g, d)
    BY <1>2 DEF RunAt
  <2>2. \A r \in DOMAIN runs : runs[r].gen \in Gens /\ st[runs[r].gen].day \in Nat
    BY Types DEF VState
  <2>3. \A r \in DOMAIN runs' :
          runs'[r].day <= st'[runs'[r].gen].day /\ st'[runs'[r].gen].day <= Today'
    BY SMTT(30), <1>2, <2>2, Types DEF Counted
  <2>4. \A g \in Gens : Cardinality(RunAt(g, st[g].day)') <= st'[g].count
    BY <1>2, <2>1 DEF Counted, RunAt
  <2> QED
    BY <1>2, <2>1, <2>3, <2>4 DEF Counted, WithinBudget, RunAt, Gens
<1>3. ASSUME NEW t \in Tasks, AnalysisStep(t) PROVE Counted' /\ WithinBudget'
  <2>1. UNCHANGED <<runs, now>>
        /\ \A g \in Gens : st'[g].day = st[g].day /\ st'[g].count = st[g].count
    BY <1>3, Analysing
  <2> QED
    BY <1>2, <2>1, Types DEF Today
<1>4. CASE Tick
  <2>1. Today <= Today' /\ Today' \in Nat
    <3>1. now \in Nat /\ now' = now + 1 /\ now' \in Nat
      BY <1>4, Types DEF Tick
    <3>2. /\ now \div DayLength <= now' \div DayLength
          /\ now' \div DayLength \in Nat
      BY <3>1, Days
    <3> QED
      BY <3>2 DEF Today
  <2> QED
    BY <1>2, <1>4, <2>1 DEF Tick
<1>5. ASSUME UNCHANGED <<runs, now, st>> PROVE Counted' /\ WithinBudget'
  BY <1>2, <1>5, Types DEF Today
<1> QED
  BY <1>1, <1>3, <1>4, <1>5 DEF Next, Save, Apply, RecorderFails, Prune, Look, TriggerRefused, vars

-----------------------------------------------------------------------------
(* The frames, the answers and the saves *)

LEMMA FramesCountedStep ==
  Typed /\ OneAtATime /\ FramesCounted /\ [Next]_vars => FramesCounted'
<1> SUFFICES ASSUME Typed, OneAtATime, FramesCounted, [Next]_vars PROVE FramesCounted'
  OBVIOUS
<1>0. \A g \in Gens : st[g].count \in Nat /\ st[g].counter \in Nat
  BY Types DEF VState
<1>1. ASSUME NEW t \in Tasks, NEW force \in BOOLEAN, Begin(t, force) PROVE FramesCounted'
  <2> PICK g \in Gens : g = StateFor
    BY <1>1, Beginning
  <2>1. /\ \A u \in Tasks \ {t} : task'[u] = task[u]
        /\ \A u \in Tasks : Working(u) => task[u].gen # g
        /\ \A h \in Gens \ {g} : st'[h] = st[h]
        /\ st'[g].counter = st[g].counter /\ st'[g].count = st[g].count + 1
    BY <1>1, Beginning
  <2>2. task'[t] = [pc |-> "capture", gen |-> g,
                    run |-> Len(runs) + 1, slot |-> NoSlot]
    BY <1>1, Beginning
  <2>3. Len(runs') = Len(runs) + 1
    BY <1>1 DEF Begin, Typed
  <2>4. ASSUME NEW h \in Gens
        PROVE  /\ st'[h].count <= Len(runs') /\ st'[h].counter <= st'[h].count
               /\ \A u \in Tasks : task'[u].pc = "capture" /\ task'[u].gen = h =>
                    st'[h].counter < st'[h].count
    <3>1. CASE h = g
      BY <1>0, <2>1, <2>3, <3>1, Types DEF FramesCounted
    <3>2. CASE h # g
      <4>1. st'[h] = st[h] /\ st[h].count <= Len(runs) /\ st[h].counter <= st[h].count
        BY <2>1, <3>2 DEF FramesCounted
      <4>2. \A u \in Tasks : task'[u].pc = "capture" /\ task'[u].gen = h =>
              st[h].counter < st[h].count
        BY <2>1, <2>2, <3>2 DEF FramesCounted
      <4> QED
        BY <1>0, <2>3, <4>1, <4>2, Types
    <3> QED
      BY <3>1, <3>2
  <2> QED
    BY <2>4 DEF FramesCounted
<1>2. ASSUME NEW t \in Tasks, AnalysisStep(t) PROVE FramesCounted'
  <2>1. /\ Working(t) /\ task[t].gen \in Gens /\ UNCHANGED runs
        /\ \A u \in Tasks \ {t} : task'[u] = task[u]
        /\ task'[t].pc # "capture"
        /\ \A h \in Gens \ {task[t].gen} : st'[h] = st[h]
        /\ st'[task[t].gen].count = st[task[t].gen].count
        /\ \/ st'[task[t].gen].counter = st[task[t].gen].counter
           \/ /\ task[t].pc = "capture"
              /\ st'[task[t].gen].counter = st[task[t].gen].counter + 1
    BY <1>2, Analysing
  <2>2. \A u \in Tasks : task'[u].pc = "capture" =>
          task'[u] = task[u] /\ u # t /\ task[u].gen # task[t].gen
    BY <2>1 DEF OneAtATime, Working
  <2>3. ASSUME NEW h \in Gens
        PROVE  /\ st'[h].count <= Len(runs') /\ st'[h].counter <= st'[h].count
               /\ \A u \in Tasks : task'[u].pc = "capture" /\ task'[u].gen = h =>
                    st'[h].counter < st'[h].count
    <3>1. CASE h = task[t].gen
      <4>1. \A u \in Tasks : task'[u].pc = "capture" => task'[u].gen # h
        BY <2>2, <3>1
      <4>2. /\ st[h].count <= Len(runs) /\ st[h].counter <= st[h].count
            /\ task[t].pc = "capture" => st[h].counter < st[h].count
        BY <3>1 DEF FramesCounted
      <4> QED
        BY <1>0, <2>1, <3>1, <4>1, <4>2
    <3>2. CASE h # task[t].gen
      BY <2>1, <2>2, <3>2 DEF FramesCounted
    <3> QED
      BY <3>1, <3>2
  <2> QED
    BY <2>3 DEF FramesCounted
<1>3. ASSUME UNCHANGED <<st, task, runs>> PROVE FramesCounted'
  BY <1>3 DEF FramesCounted
<1> QED
  BY <1>1, <1>2, <1>3 DEF Next, Save, Apply, RecorderFails, Prune, Look, Tick, TriggerRefused, vars

LEMMA AnswersInOrderStep ==
  Typed /\ OneAtATime /\ AnswersInOrder /\ [Next]_vars => AnswersInOrder'
<1> SUFFICES ASSUME Typed, OneAtATime, AnswersInOrder, [Next]_vars PROVE AnswersInOrder'
  OBVIOUS
<1>0. /\ \A g \in Gens : st[g].values \in Nat
      /\ \A t \in Tasks : Working(t) =>
           task[t].gen \in Gens /\ task[t].run \in Nat /\ task[t].run <= Len(runs)
      /\ Len(runs) \in Nat
  BY Types DEF VState, OneAtATime
<1>1. ASSUME NEW t \in Tasks, NEW force \in BOOLEAN, Begin(t, force) PROVE AnswersInOrder'
  <2> PICK g \in Gens : g = StateFor
    BY <1>1, Beginning
  <2>1. /\ \A u \in Tasks \ {t} : task'[u] = task[u]
        /\ \A h \in Gens : st'[h].values = st[h].values
    BY <1>1, Beginning
  <2>2. task'[t].gen = g /\ task'[t].run = Len(runs) + 1
    <3>1. task'[t] = [pc |-> "capture", gen |-> g, run |-> Len(runs) + 1, slot |-> NoSlot]
      BY <1>1, Beginning
    <3> QED
      BY <3>1
  <2>3. Len(runs') = Len(runs) + 1
    BY <1>1 DEF Begin, Typed
  <2>4. ASSUME NEW u \in Tasks, Working(u)' PROVE st'[task'[u].gen].values <= task'[u].run
    <3>1. CASE u = t
      BY <1>0, <2>1, <2>2, <3>1 DEF AnswersInOrder
    <3>2. CASE u # t
      BY <1>0, <2>1, <2>4, <3>2 DEF AnswersInOrder, Working
    <3> QED
      BY <3>1, <3>2
  <2>5. \A h \in Gens : st'[h].values <= Len(runs')
    BY <1>0, <2>1, <2>3 DEF AnswersInOrder
  <2> QED
    BY <2>4, <2>5 DEF AnswersInOrder
<1>2. ASSUME NEW t \in Tasks, AnalysisStep(t) PROVE AnswersInOrder'
  <2> PICK g \in Gens : g = task[t].gen
    BY <1>2, Analysing
  <2>1. /\ Working(t) /\ UNCHANGED runs
        /\ \A u \in Tasks \ {t} : task'[u] = task[u]
        /\ task'[t] = Idle \/ (task'[t].gen = g /\ task'[t].run = task[t].run)
        /\ \A h \in Gens \ {g} : st'[h] = st[h]
        /\ st'[g].values \in {st[g].values, task[t].run}
    BY <1>2, Analysing
  <2>2. \A h \in Gens : st'[h].values <= Len(runs')
    BY <1>0, <2>1 DEF AnswersInOrder
  <2>3. ASSUME NEW u \in Tasks, Working(u)' PROVE st'[task'[u].gen].values <= task'[u].run
    <3>1. CASE u = t
      BY <1>0, <2>1, <2>3, <3>1 DEF AnswersInOrder, Working
    <3>2. CASE u # t
      <4>1. Working(u) /\ task'[u] = task[u]
        BY <2>1, <2>3, <3>2 DEF Working
      <4>2. task[u].gen # g
        BY <2>1, <3>2, <4>1 DEF OneAtATime
      <4> QED
        BY <1>0, <2>1, <4>1, <4>2 DEF AnswersInOrder
    <3> QED
      BY <3>1, <3>2
  <2> QED
    BY <2>2, <2>3 DEF AnswersInOrder
<1>3. ASSUME UNCHANGED <<st, task, runs>> PROVE AnswersInOrder'
  BY <1>3 DEF AnswersInOrder, Working
<1> QED
  BY <1>1, <1>2, <1>3 DEF Next, Save, Apply, RecorderFails, Prune, Look, Tick, TriggerRefused, vars

LEMMA Lengthless ==
  ASSUME NEW S, NEW q \in Seq(S), Len(q) = 0
  PROVE  q = <<>>
OBVIOUS

LEMMA Tails ==
  ASSUME NEW S, NEW q \in Seq(S), q # <<>>
  PROVE  /\ Len(q) \in Nat \ {0} /\ Head(q) = q[1]
         /\ Tail(q) \in Seq(S) /\ Len(Tail(q)) = Len(q) - 1
         /\ Len(q) = 1 => Tail(q) = <<>>
         /\ Len(q) # 1 => Tail(q) # <<>> /\ Tail(q)[Len(Tail(q))] = q[Len(q)]
<1>1. Len(q) \in Nat \ {0} /\ Head(q) = q[1]
  OBVIOUS
<1>2. Tail(q) \in Seq(S) /\ Len(Tail(q)) = Len(q) - 1
  OBVIOUS
<1>3. \A i \in 1 .. Len(q) - 1 : Tail(q)[i] = q[i + 1]
  OBVIOUS
<1> PICK n \in Nat \ {0} : n = Len(q)
  BY <1>1
<1>4. ASSUME n = 1 PROVE Tail(q) = <<>>
  <2>1. Len(Tail(q)) = 0
    BY <1>2, <1>4
  <2> QED
    BY <1>2, <2>1, Lengthless
<1>5. ASSUME n # 1 PROVE Tail(q) # <<>> /\ Tail(q)[Len(Tail(q))] = q[Len(q)]
  <2>1. n - 1 \in 1 .. n - 1 /\ n - 1 + 1 = n
    BY <1>5
  <2>2. Tail(q)[n - 1] = q[n]
    BY <1>3, <2>1
  <2>3. Len(Tail(q)) # 0
    BY <1>2, <2>1
  <2> QED
    BY SMTT(30), <1>2, <2>1, <2>2, <2>3
<1> QED
  BY <1>1, <1>2, <1>4, <1>5

LEMMA ArrivingStep == Typed /\ OneAtATime /\ Arriving /\ [Next]_vars => Arriving'
<1> SUFFICES ASSUME Typed, OneAtATime, Arriving, [Next]_vars PROVE Arriving'
  OBVIOUS
<1>0. applying \in Seq(Profiles)
  BY DEF Typed
<1>1. ASSUME NEW p \in Profiles, Save(p) PROVE Arriving'
  <2>1. applying' = Append(applying, p) /\ profile' = p
    BY <1>1 DEF Save
  <2>2. applying' # <<>> /\ applying'[Len(applying')] = p
    BY <1>0, <2>1
  <2> QED
    BY <2>1, <2>2 DEF Arriving, TriggersFollow
<1>2. CASE Apply
  <2>1. /\ applying # <<>> /\ applying' = Tail(applying) /\ UNCHANGED profile
        /\ watching' = Subscribed(Head(applying))
    BY <1>2 DEF Apply
  <2>2. applying[Len(applying)] = profile
    BY <2>1 DEF Arriving
  <2>3. CASE Len(applying) = 1
    <3>1. Head(applying) = profile /\ Tail(applying) = <<>>
      BY <1>0, <2>1, <2>2, <2>3
    <3> QED
      BY <2>1, <3>1 DEF Arriving, TriggersFollow, Subscribed
  <2>4. CASE Len(applying) # 1
    <3>1. Tail(applying) # <<>> /\ Tail(applying)[Len(Tail(applying))] = applying[Len(applying)]
      BY <1>0, <2>1, <2>4, Tails
    <3> QED
      BY <2>1, <2>2, <3>1 DEF Arriving, TriggersFollow
  <2> QED
    BY <2>3, <2>4
<1>5. CASE RecorderFails
  <2>1. /\ applying # <<>> /\ applying' = Tail(applying) /\ UNCHANGED profile
        /\ missed' = TRUE
    BY <1>5 DEF RecorderFails
  <2>2. applying[Len(applying)] = profile
    BY <2>1 DEF Arriving
  <2>3. applying' # <<>> => applying'[Len(applying')] = profile
    BY <1>0, <2>1, <2>2, Tails
  <2> QED
    BY <2>1, <2>3 DEF Arriving, TriggersFollow
<1>3. ASSUME UNCHANGED <<profile, applying, missed, watching>> PROVE Arriving'
  BY <1>3 DEF Arriving, TriggersFollow
<1>4. ASSUME NEW t \in Tasks, AnalysisStep(t)
      PROVE  UNCHANGED <<profile, applying, missed, watching>>
  BY <1>4, Analysing DEF configVars
<1> QED
  BY <1>1, <1>2, <1>3, <1>4, <1>5 DEF Next, Begin, Prune, Look, Tick, TriggerRefused, vars,
     configVars, Profiles

-----------------------------------------------------------------------------
(* The pictures *)

(* What a file shows stays so while analyses are only added. *)
LEMMA ShowsStays ==
  ASSUME NEW file \in File, NEW run, run # NoRun, NEW g, Shows(file, run, g),
         \A r \in DOMAIN runs : runs'[r] = runs[r]
  PROVE  Shows(file, run, g)'
BY DEF Shows, File

(* A frame or a marked copy that an analysis writes is one of another state *)
(* to everybody else.                                                       *)
LEMMA OtherGenShows ==
  ASSUME Typed, OneAtATime, NEW t \in Tasks, Working(t), NEW g, g # task[t].gen, NEW run
  PROVE  Shows(task[t].run, run, g)
BY Types DEF Shows, OneAtATime

LEMMA SlotsTyped ==
  ASSUME Typed, NEW g \in Gens
  PROVE  /\ st[g].counter \in Nat /\ Slot(g) \in Slots
         /\ \A a \in 0 .. st[g].counter - 1 : SlotBefore(g, a) \in Slots
<1>1. st[g].counter \in Nat
  BY Types DEF VState
<1>2. Slot(g) \in Slots
  BY <1>1, Division DEF Slot, Slots
<1>3. ASSUME NEW a \in 0 .. st[g].counter - 1 PROVE SlotBefore(g, a) \in Slots
  <2>1. st[g].counter - 1 - a \in Nat
    BY <1>1
  <2> QED
    BY <2>1, Division DEF SlotBefore, Slots
<1> QED
  BY <1>1, <1>2, <1>3

LEMMA LastSlotStep ==
  Typed /\ OneAtATime /\ LastSlotIsItsOwn /\ [Next]_vars => LastSlotIsItsOwn'
<1> SUFFICES ASSUME Typed, OneAtATime, LastSlotIsItsOwn, [Next]_vars PROVE LastSlotIsItsOwn'
  OBVIOUS
<1>f. frames \in [Slots -> File]
  BY DEF Typed
<1>0. ASSUME NEW u \in Tasks, Answering(u)
      PROVE  /\ Working(u) /\ task[u].gen \in Gens /\ task[u].run # NoRun
             /\ task[u].slot \in Slots /\ frames[task[u].slot] \in File
             /\ st[task[u].gen].counter > 0
             /\ task[u].slot = SlotBefore(task[u].gen, 0)
             /\ Shows(frames[task[u].slot], task[u].run, task[u].gen)
  <2>1. Working(u) /\ task[u].gen \in Gens /\ task[u].run # NoRun
    BY <1>0, Types DEF Answering, Working
  <2>2. /\ st[task[u].gen].counter > 0
        /\ task[u].slot = SlotBefore(task[u].gen, 0)
        /\ Shows(frames[task[u].slot], task[u].run, task[u].gen)
    BY <1>0 DEF LastSlotIsItsOwn
  <2>3. 0 \in 0 .. st[task[u].gen].counter - 1
    BY <2>1, <2>2, SlotsTyped
  <2> QED
    BY <1>f, <2>1, <2>2, <2>3, SlotsTyped
<1>1. ASSUME NEW u \in Tasks, Answering(u)', task'[u] = task[u],
             \A r \in DOMAIN runs : runs'[r] = runs[r],
             st'[task[u].gen].counter = st[task[u].gen].counter,
             \/ frames'[task[u].slot] = frames[task[u].slot]
             \/ frames'[task[u].slot] = Gone
             \/ \E t \in Tasks : /\ Working(t) /\ task[t].gen # task[u].gen
                                 /\ frames'[task[u].slot] = task[t].run
      PROVE  /\ st'[task'[u].gen].counter > 0
             /\ task'[u].slot = SlotBefore(task[u].gen, 0)'
             /\ Shows(frames[task[u].slot], task[u].run, task[u].gen)'
  <2>1. Answering(u)
    BY <1>1 DEF Answering
  <2>2. PICK slot : slot = task[u].slot
    OBVIOUS
  <2>3. PICK run : run = task[u].run
    OBVIOUS
  <2>4. PICK g : g = task[u].gen
    OBVIOUS
  <2>5. /\ slot \in Slots /\ run # NoRun /\ frames[slot] \in File /\ st[g].counter > 0
        /\ slot = SlotBefore(g, 0) /\ Shows(frames[slot], run, g)
    BY <1>0, <2>1, <2>2, <2>3, <2>4
  <2>6. PICK file \in File : /\ file = frames'[slot] \/ frames'[slot] = Gone
                             /\ Shows(file, run, g)
    <3>1. CASE frames'[slot] \in {frames[slot], Gone}
      BY <2>5, <3>1
    <3>2. ASSUME NEW t \in Tasks, Working(t), task[t].gen # g, frames'[slot] = task[t].run
          PROVE  task[t].run \in File /\ Shows(task[t].run, run, g)
      BY <3>2, OtherGenShows DEF OneAtATime, File
    <3> QED
      BY <1>1, <2>2, <2>4, <3>1, <3>2
  <2>7. Shows(file, run, g)'
    BY <1>1, <2>5, <2>6, ShowsStays
  <2>8. Shows(frames[slot], run, g)'
    BY <2>6, <2>7 DEF Shows
  <2> QED
    BY <1>1, <2>2, <2>3, <2>4, <2>5, <2>8 DEF SlotBefore, Shows
<1>2. ASSUME NEW t \in Tasks, NEW force \in BOOLEAN, Begin(t, force) PROVE LastSlotIsItsOwn'
  <2>1. /\ \A u \in Tasks \ {t} : task'[u] = task[u]
        /\ \A r \in DOMAIN runs : runs'[r] = runs[r]
        /\ \A g \in Gens : st'[g].counter = st[g].counter
    BY <1>2, Beginning
  <2>2. task'[t].pc = "capture"
    <3>1. task'[t] = [pc |-> "capture", gen |-> StateFor,
                      run |-> Len(runs) + 1, slot |-> NoSlot]
      BY <1>2, Beginning
    <3> QED
      BY <3>1
  <2>3. UNCHANGED frames
    BY <1>2 DEF Begin, fileVars
  <2>4. \A u \in Tasks : Answering(u)' => u # t /\ task'[u] = task[u] /\ Answering(u)
    BY <2>1, <2>2 DEF Answering
  <2> QED
    BY <1>0, <1>1, <2>1, <2>3, <2>4 DEF LastSlotIsItsOwn
<1>3. ASSUME NEW t \in Tasks, AnalysisStep(t) PROVE LastSlotIsItsOwn'
  <2>1. /\ Working(t) /\ task[t].gen \in Gens /\ UNCHANGED runs
        /\ \A u \in Tasks \ {t} : task'[u] = task[u]
        /\ \A g \in Gens \ {task[t].gen} : st'[g] = st[g]
    BY <1>3, Analysing
  <2>2. ASSUME NEW u \in Tasks, u # t, Answering(u)'
        PROVE  /\ st'[task'[u].gen].counter > 0
               /\ task'[u].slot = SlotBefore(task[u].gen, 0)'
               /\ Shows(frames[task[u].slot], task[u].run, task[u].gen)'
    <3>1. task'[u] = task[u] /\ Answering(u)
      BY <2>1, <2>2 DEF Answering
    <3>2. task[u].gen # task[t].gen /\ task[u].gen \in Gens /\ task[u].slot \in Slots
      BY <1>0, <2>1, <2>2, <3>1 DEF OneAtATime
    <3>3. frames' = frames \/ frames' = [frames EXCEPT ![Slot(task[t].gen)] = task[t].run]
      BY <1>3 DEF AnalysisStep, Capture, CaptureFails, CaptureBreaks, Answer, AnswerFails,
         AnswerBreaks, Draw, DrawBreaks, Scribble, fileVars
    <3> QED
      BY <1>1, <1>f, <2>1, <2>2, <3>1, <3>2, <3>3
  <2>3. ASSUME Answering(t)'
        PROVE  /\ st'[task'[t].gen].counter > 0
               /\ task'[t].slot = SlotBefore(task[t].gen, 0)'
               /\ Shows(frames[task[t].slot], task[t].run, task[t].gen)'
    <3> PICK g \in Gens : g = task[t].gen
      BY <2>1
    <3>0. task' # [task EXCEPT ![t] = Idle]
      BY <2>3 DEF Typed, Answering
    <3>1. CASE Capture(t)
      <4>1. task[t] \in Busy /\ task \in [Tasks -> {Idle} \cup Busy] /\ st \in [Gens -> VState]
        BY <2>1, Types DEF Typed
      <4>2. /\ frames' = [frames EXCEPT ![Slot(g)] = task[t].run]
            /\ st' = [st EXCEPT ![g].counter = @ + 1]
            /\ task' = [task EXCEPT ![t].pc = "ask", ![t].slot = Slot(g)]
        BY <3>1 DEF Capture
      <4>3. /\ task'[t].slot = Slot(g) /\ task'[t].run = task[t].run /\ task'[t].gen = g
            /\ st'[g].counter = st[g].counter + 1
        BY <4>1, <4>2 DEF Busy, VState
      <4>4. SlotBefore(g, 0)' = Slot(g) /\ st'[g].counter > 0
        BY <4>3, SlotsTyped DEF SlotBefore, Slot
      <4>5. frames'[Slot(g)] = task[t].run
        BY <1>f, <4>2, SlotsTyped
      <4> QED
        BY <4>3, <4>4, <4>5 DEF SlotBefore, Shows
    <3>2. CASE Answer(t)
      <4>1. task[t] \in Busy /\ task \in [Tasks -> {Idle} \cup Busy] /\ st \in [Gens -> VState]
        BY <2>1, Types DEF Typed
      <4>2. /\ UNCHANGED frames /\ Answering(t)
            /\ task' = [task EXCEPT ![t].pc = "draw"]
        BY <3>0, <3>2 DEF Answer, Succeed, Finish, fileVars, Answering
      <4>3. /\ task'[t].slot = task[t].slot /\ task'[t].run = task[t].run /\ task'[t].gen = g
            /\ st'[g].counter = st[g].counter
        BY <2>1, <3>2, <4>1, <4>2, Analysing DEF Busy, Answer, AnalysisStep
      <4> QED
        BY <1>0, <2>1, <4>2, <4>3 DEF SlotBefore, Shows
    <3>3. Capture(t) \/ Answer(t)
      BY <1>3, <3>0 DEF AnalysisStep, CaptureFails, CaptureBreaks, AnswerFails, AnswerBreaks,
         Draw, DrawBreaks, Fail, BreakOff, Finish
    <3> QED
      BY <3>1, <3>2, <3>3
  <2> QED
    BY <2>2, <2>3 DEF LastSlotIsItsOwn
<1>4. CASE Prune
  BY <1>0, <1>1, <1>4 DEF Prune, LastSlotIsItsOwn, Answering
<1>5. ASSUME UNCHANGED <<st, task, runs, frames>> PROVE LastSlotIsItsOwn'
  BY <1>5 DEF LastSlotIsItsOwn, Answering, SlotBefore, Shows
<1> QED
  BY <1>2, <1>3, <1>4, <1>5 DEF Next, Save, Apply, RecorderFails, Look, Tick, TriggerRefused, vars, fileVars

(* The analysis under way in the state in place is the only one that can   *)
(* be waiting there.                                                       *)
LEMMA PendingIs ==
  ASSUME Typed, OneAtATime, NEW t \in Tasks, Working(t), task[t].gen = gen
  PROVE  Pending = IF Answering(t) THEN 1 ELSE 0
<1>1. \A u \in Tasks : Answering(u) /\ task[u].gen = gen => u = t
  BY DEF OneAtATime, Answering, Working
<1> QED
  BY <1>1 DEF Pending

(* What is less than a lap old is neither the slot written next nor, while *)
(* an analysis waits for its answer, the one that analysis has.            *)
LEMMA SlotsElsewhere ==
  ASSUME Typed, gen # 0, NEW i \in 1 .. HISTORY_LENGTH - 1, NEW slot, Ago(i, slot)
  PROVE  /\ slot \in Slots
         /\ Pending = 0 => slot # Slot(gen)
         /\ Pending = 1 => slot # SlotBefore(gen, 0)
<1>1. gen \in Gens /\ st[gen].counter \in Nat
  BY Types, SlotsTyped DEF Gens
<1> PICK c \in Nat : c = st[gen].counter
  BY <1>1
<1> PICK a \in 0 .. c - 1 : Pending <= a /\ a <= i - 1 + Pending /\ slot = SlotBefore(gen, a)
  BY DEF Ago
<1>2. slot \in Slots
  BY <1>1, SlotsTyped
<1>3. slot = (c - 1 - a) % HISTORY_LENGTH /\ c - 1 - a \in Nat
  BY DEF SlotBefore
<1>4. ASSUME Pending = 0 PROVE slot # Slot(gen)
  <2>1. a + 1 \in 1 .. HISTORY_LENGTH - 1 /\ c - 1 - a + (a + 1) = c
    BY <1>4
  <2> QED
    BY <1>3, <2>1, SlotsApart DEF Slot
<1>5. ASSUME Pending = 1 PROVE slot # SlotBefore(gen, 0)
  <2>1. a \in 1 .. HISTORY_LENGTH - 1 /\ c - 1 - a + a = c - 1 - 0
    BY <1>5
  <2> QED
    BY <1>3, <2>1, SlotsApart DEF SlotBefore
<1> QED
  BY <1>2, <1>4, <1>5

(* An entry that is in place stays so when it moves on by as much as an    *)
(* analysis that was waiting is over, or a frame has come for one.         *)
LEMMA PlaceKept ==
  ASSUME Typed, gen # 0, UNCHANGED <<gen, gens>>,
         NEW i \in 1 .. HISTORY_LENGTH - 1, NEW e \in Entry, InPlace(i, e),
         NEW j \in {i, i + 1},
         \/ st'[gen].counter = st[gen].counter /\ Pending' <= Pending
            /\ i + Pending <= j + Pending'
         \/ st'[gen].counter = st[gen].counter + 1 /\ Pending = 0 /\ Pending' = 1,
         Shows(frames[e.slot], e.run, gen)',
         e.marked /\ gens = 1 => Shows(marks[e.slot], e.run, gen)'
  PROVE  InPlace(j, e)'
<1>1. gen \in Gens /\ st[gen].counter \in Nat
  BY Types, SlotsTyped DEF Gens
<1> PICK c \in Nat : c = st[gen].counter
  BY <1>1
<1> PICK g : g = gen
  OBVIOUS
<1> PICK slot : slot = e.slot
  OBVIOUS
<1>2. Pending \in {0, 1} /\ Pending' \in {0, 1}
  BY DEF Pending
<1>3. PICK a \in 0 .. c - 1 : /\ Pending <= a /\ a <= i - 1 + Pending
                              /\ slot = (c - 1 - a) % HISTORY_LENGTH
  BY DEF InPlace, Ago, SlotBefore
<1>4. Ago(j, slot)'
  <2>1. CASE /\ st'[gen].counter = c /\ Pending' <= Pending /\ i + Pending <= j + Pending'
    <3>1. Pending' <= a /\ a <= j - 1 + Pending'
      <4>1. \A p, q \in {0, 1} : q <= p /\ i + p <= j + q /\ p <= a /\ a <= i - 1 + p =>
              q <= a /\ a <= j - 1 + q
        OBVIOUS
      <4> QED
        BY <1>2, <1>3, <2>1, <4>1
    <3> QED
      BY <1>3, <2>1, <3>1 DEF Ago, SlotBefore
  <2>2. CASE st'[gen].counter = c + 1 /\ Pending = 0 /\ Pending' = 1
    <3>1. /\ a + 1 \in 0 .. c /\ Pending' <= a + 1 /\ a + 1 <= j - 1 + Pending'
          /\ c + 1 - 1 - (a + 1) = c - 1 - a
      BY <1>3, <2>2
    <3> QED
      BY <1>3, <2>2, <3>1 DEF Ago, SlotBefore
  <2> QED
    BY <2>1, <2>2
<1> QED
  BY <1>4 DEF InPlace, Shows

GetsEntry(h, g, run, slot, marked) ==
  /\ h \in Seq(Entry)
  /\ h[1] = [run |-> run, slot |-> slot, marked |-> marked, broken |-> broken[g]]
  /\ \A i \in DOMAIN h : i # 1 => i - 1 \in DOMAIN history /\ h[i] = history[i - 1]

LEMMA RecordedAs ==
  Typed => \A g \in Gens, run \in 0 .. MaxRuns, slot \in 0 .. NoSlot, marked \in BOOLEAN :
             GetsEntry(WithEntry(g, run, slot, marked), g, run, slot, marked)
<1> SUFFICES ASSUME Typed, NEW g \in Gens, NEW run \in 0 .. MaxRuns, NEW slot \in 0 .. NoSlot,
                    NEW marked \in BOOLEAN
             PROVE  GetsEntry(WithEntry(g, run, slot, marked), g, run, slot, marked)
  OBVIOUS
<1> QED
  BY Recorded, SMT DEF GetsEntry

(* Places begin at one, and move with the entries and with the analyses    *)
(* that break off.                                                         *)
LEMMA Places ==
  ASSUME Typed, gen # 0, NEW i \in Nat \ {0}, NEW e \in Entry, NEW d \in Nat,
         UNCHANGED gen, broken'[gen] = broken[gen] + d
  PROVE  /\ Place(i, e) \in Int /\ Place(i + 1, e) = Place(i, e) + 1
         /\ e.broken <= broken[gen] => Place(i, e) \in Nat \ {0} /\ e.broken <= broken'[gen]
         /\ Place(i, e)' = Place(i, e) + d
<1>1. broken[gen] \in Nat /\ e.broken \in Nat
  BY Types DEF Gens, Entry
<1> QED
  BY <1>1 DEF Place

(* An analysis that breaks off moves every entry on by a place, and other  *)
(* steps that leave the history alone move none.                           *)
LEMMA RingMoves ==
  ASSUME Typed, Ring, gen # 0, UNCHANGED <<gen, history>>,
         NEW d \in {0, 1}, broken'[gen] = broken[gen] + d,
         \A p \in 1 .. HISTORY_LENGTH - 1 - d, e \in Entry :
           InPlace(p, e) => InPlace(p + d, e)'
  PROVE  Ring'
<1>1. history \in Seq(Entry) /\ DOMAIN history \subseteq Nat \ {0}
  BY DEF Typed
<1>2. ASSUME NEW i \in DOMAIN history, NEW e \in Entry, e = history[i] PROVE Kept(i, e)'
  <2>0. i \in Nat \ {0} /\ d \in Nat
    BY <1>1
  <2>1. e.broken <= broken[gen]
    BY <1>2 DEF Ring, Kept
  <2>6. Place(i, e) \in Nat \ {0} /\ Place(i, e)' = Place(i, e) + d /\ e.broken <= broken'[gen]
    BY <2>0, <2>1, Places
  <2> PICK p \in Nat \ {0} : p = Place(i, e)
    BY <2>6
  <2>2. Place(i, e)' = p + d /\ e.broken <= broken'[gen]
    BY <2>6
  <2>3. p < HISTORY_LENGTH /\ e.slot # NoSlot => InPlace(p, e)
    BY <1>2 DEF Ring, Kept
  <2>4. ASSUME p + d < HISTORY_LENGTH, e.slot # NoSlot PROVE InPlace(p + d, e)'
    <3>1. p < HISTORY_LENGTH /\ p \in 1 .. HISTORY_LENGTH - 1 - d
      BY <2>4
    <3> QED
      BY <2>3, <2>4, <3>1
  <2>5. ASSUME NEW q \in 1 .. HISTORY_LENGTH - 1, q = Place(i, e)', e.slot # NoSlot
        PROVE  InPlace(q, e)'
    <3>1. q = p + d /\ p + d < HISTORY_LENGTH
      BY <2>2, <2>5
    <3> QED
      BY <2>4, <2>5, <3>1
  <2> QED
    BY <2>2, <2>5 DEF Kept
<1> QED
  BY <1>1, <1>2 DEF Ring

LEMMA RingStays ==
  ASSUME Typed, Ring, gen # 0, UNCHANGED <<gen, history>>, broken'[gen] = broken[gen],
         \A p \in 1 .. HISTORY_LENGTH - 1, e \in Entry : InPlace(p, e) => InPlace(p, e)'
  PROVE  Ring'
<1>1. broken'[gen] = broken[gen] + 0
  BY Types DEF Gens
<1>2. ASSUME NEW p \in 1 .. HISTORY_LENGTH - 1 - 0, NEW e \in Entry, InPlace(p, e)
      PROVE  InPlace(p + 0, e)'
  <2>1. p \in 1 .. HISTORY_LENGTH - 1 /\ p + 0 = p
    OBVIOUS
  <2> QED
    BY <1>2, <2>1
<1> QED
  BY <1>1, <1>2, RingMoves

(* A run that is over moves the entries of its state on by one, and may    *)
(* put one of its own before them.                                         *)
LEMMA NewEntry ==
  ASSUME Typed, Ring, gen # 0, UNCHANGED <<gen, broken>>,
         NEW run \in 0 .. MaxRuns, NEW slot \in 0 .. NoSlot, NEW marked \in BOOLEAN,
         history' = WithEntry(gen, run, slot, marked),
         \A e \in Entry :
           e.run = run /\ e.slot = slot /\ e.marked = marked
             /\ slot # NoSlot /\ 1 < HISTORY_LENGTH => InPlace(1, e)',
         \A p \in 1 .. HISTORY_LENGTH - 2, e \in Entry :
           e.slot # NoSlot /\ InPlace(p, e) => InPlace(p + 1, e)'
  PROVE  Ring'
<1> PICK h : h = WithEntry(gen, run, slot, marked)
  OBVIOUS
<1>0. history \in Seq(Entry) /\ gen \in Gens /\ broken[gen] \in Nat
      /\ broken'[gen] = broken[gen] + 0
  BY Types DEF Typed, Gens
<1>1. /\ h \in Seq(Entry)
      /\ h[1] = [run |-> run, slot |-> slot, marked |-> marked, broken |-> broken[gen]]
      /\ \A i \in DOMAIN h : i # 1 => i - 1 \in DOMAIN history /\ h[i] = history[i - 1]
  <2>1. gen \in Gens
    BY <1>0
  <2>2. GetsEntry(h, gen, run, slot, marked)
    BY <2>1, RecordedAs, Zenon
  <2> QED
    BY <2>2 DEF GetsEntry
<1>2. /\ DOMAIN h \subseteq Nat \ {0} /\ DOMAIN history \subseteq Nat \ {0}
      /\ \A i \in DOMAIN h : h[i] \in Entry
      /\ \A i \in DOMAIN history : history[i] \in Entry
  BY <1>0, <1>1
<1>3. ASSUME NEW i \in DOMAIN h, NEW e \in Entry, e = h[i] PROVE Kept(i, e)'
  <2>0. Place(i, e)' = Place(i, e)
    BY DEF Place
  <2>1. CASE i = 1
    <3>1. e.run = run /\ e.slot = slot /\ e.marked = marked /\ e.broken = broken[gen]
      BY <1>1, <1>3, <2>1
    <3> PICK n \in Nat : n = broken[gen]
      BY <1>0
    <3>4. 1 + (n - n) = 1 /\ n <= n
      OBVIOUS
    <3>2. Place(i, e) = 1 /\ e.broken <= broken[gen]
      BY <2>1, <3>1, <3>4 DEF Place
    <3>3. e.slot # NoSlot /\ 1 < HISTORY_LENGTH => InPlace(1, e)'
      BY <3>1
    <3> QED
      BY <2>0, <3>2, <3>3 DEF Kept
  <2>2. CASE i # 1
    <3> PICK k \in Nat \ {0} : i = k + 1 /\ k \in DOMAIN history /\ e = history[k]
      <4>1. i - 1 \in DOMAIN history /\ e = history[i - 1] /\ i - 1 + 1 = i
        BY <1>1, <1>2, <1>3, <2>2
      <4> QED
        BY <1>2, <4>1
    <3>0. Kept(k, e)
      BY DEF Ring
    <3>1. e.broken <= broken[gen]
      BY <3>0 DEF Kept
    <3> PICK p \in Nat \ {0} : p = Place(k, e)
      BY <1>0, <3>1, Places
    <3>2. Place(i, e) = p + 1
      BY <1>0, Places
    <3>3. p < HISTORY_LENGTH /\ e.slot # NoSlot => InPlace(p, e)
      BY <3>0 DEF Kept
    <3>4. p + 1 < HISTORY_LENGTH /\ e.slot # NoSlot => InPlace(p + 1, e)'
      BY <3>3
    <3>5. ASSUME NEW q \in 1 .. HISTORY_LENGTH - 1, q = Place(i, e)', e.slot # NoSlot
          PROVE  InPlace(q, e)'
      <4>1. q = p + 1 /\ p + 1 < HISTORY_LENGTH
        BY <2>0, <3>2, <3>5
      <4> QED
        BY <3>4, <3>5, <4>1
    <3> QED
      BY <3>1, <3>5 DEF Kept
  <2> QED
    BY <2>1, <2>2
<1> QED
  BY <1>2, <1>3 DEF Ring

(* Whether an analysis is waiting in the state in place, after a step of one *)
LEMMA PendingNext ==
  ASSUME Typed, OneAtATime, NEW t \in Tasks, AnalysisStep(t)
  PROVE  /\ task[t].gen # gen => Pending' = Pending
         /\ task[t].gen = gen => Pending' = IF Answering(t)' THEN 1 ELSE 0
<1>1. /\ Working(t) /\ UNCHANGED gen
      /\ \A u \in Tasks \ {t} : task'[u] = task[u]
      /\ Answering(t)' => task'[t].gen = task[t].gen
  BY Analysing DEF Answering
<1>2. ASSUME task[t].gen # gen PROVE Pending' = Pending
  <2>1. \A u \in Tasks : (Answering(u)' /\ task'[u].gen = gen) <=> (Answering(u) /\ task[u].gen = gen)
    BY <1>1, <1>2 DEF Answering
  <2> QED
    BY <1>1, <2>1 DEF Pending
<1>3. ASSUME task[t].gen = gen PROVE Pending' = IF Answering(t)' THEN 1 ELSE 0
  <2>1. \A u \in Tasks : Answering(u)' /\ task'[u].gen = gen => u = t
    BY <1>1, <1>3 DEF Answering, OneAtATime, Working
  <2> QED
    BY <1>1, <1>3, <2>1 DEF Pending
<1> QED
  BY <1>2, <1>3

(* No step of an analysis overwrites a picture of the history, except that *)
(* of an entry about to leave it.                                          *)
LEMMA FilesKept ==
  ASSUME Typed, OneAtATime, LastSlotIsItsOwn, NEW t \in Tasks, AnalysisStep(t), gen # 0,
         NEW i \in 1 .. HISTORY_LENGTH - 1, NEW e \in Entry, InPlace(i, e)
  PROVE  /\ Shows(frames[e.slot], e.run, gen)'
         /\ e.marked /\ gens = 1 => Shows(marks[e.slot], e.run, gen)'
<1>1. /\ Working(t) /\ task[t].gen \in Gens /\ UNCHANGED <<gen, gens, runs>>
  BY Analysing
<1>2. frames \in [Slots -> File] /\ marks \in [Slots -> File]
  BY DEF Typed
<1>3. /\ e.slot \in Slots
      /\ Pending = 0 => e.slot # Slot(gen)
      /\ Pending = 1 => e.slot # SlotBefore(gen, 0)
  BY SlotsElsewhere DEF InPlace
<1>4. frames'[e.slot] = frames[e.slot] \/ (task[t].gen # gen /\ frames'[e.slot] = task[t].run)
  <2>1. CASE UNCHANGED frames
    BY <2>1
  <2>2. CASE task[t].pc = "capture"
             /\ frames' = [frames EXCEPT ![Slot(task[t].gen)] = task[t].run]
    BY <1>1, <1>2, <1>3, <2>2, PendingIs DEF Answering
  <2> QED
    BY <2>1, <2>2 DEF AnalysisStep, Capture, CaptureFails, CaptureBreaks, Answer, AnswerFails,
       AnswerBreaks, Draw, DrawBreaks, Scribble, fileVars
<1>5. gens = 1 => marks'[e.slot] = marks[e.slot]
  <2>1. CASE UNCHANGED marks
    BY <2>1
  <2>2. CASE (Draw(t) \/ DrawBreaks(t)) /\ gens = 1
    <3>0. Answering(t)
      BY <2>2 DEF Draw, DrawBreaks, Answering
    <3>1. task[t].gen = gen /\ Answering(t)
      BY <1>1, <2>2, <3>0, Types DEF OneAtATime, Gens
    <3>2. Pending = 1 /\ task[t].slot = SlotBefore(gen, 0)
      BY <1>1, <3>1, PendingIs DEF LastSlotIsItsOwn
    <3> QED
      BY <1>2, <1>3, <2>2, <3>2 DEF Draw, DrawBreaks
  <2> QED
    BY <2>1, <2>2 DEF AnalysisStep, Capture, CaptureFails, CaptureBreaks, Answer, AnswerFails,
       AnswerBreaks, fileVars
<1>6. Shows(frames'[e.slot], e.run, gen)
  BY <1>1, <1>4, OtherGenShows DEF InPlace
<1> QED
  BY <1>1, <1>5, <1>6 DEF InPlace, Shows

(* An analysis that is over leaves its picture in place. *)
LEMMA OwnInPlace ==
  ASSUME Typed, OneAtATime, LastSlotIsItsOwn, NEW t \in Tasks, AnalysisStep(t),
         gen # 0, task[t].gen = gen, Answering(t), ~Answering(t)',
         NEW e \in Entry, e.run = task[t].run, e.slot = task[t].slot,
         e.marked => marks'[e.slot] = e.run
  PROVE  InPlace(1, e)'
<1>1. /\ gen \in Gens /\ UNCHANGED <<gen, gens, runs>>
      /\ st'[gen].counter = st[gen].counter
  BY Analysing DEF Answering
<1>2. /\ st[gen].counter > 0 /\ e.slot = SlotBefore(gen, 0)
      /\ Shows(frames[e.slot], e.run, gen)
  BY DEF LastSlotIsItsOwn
<1>3. Pending' = 0 /\ e.run # NoRun
  BY PendingNext, Types DEF Answering, Working
<1>4. UNCHANGED frames
  BY DEF AnalysisStep, Capture, CaptureFails, CaptureBreaks, Answer, AnswerFails, AnswerBreaks,
     Draw, DrawBreaks, fileVars, Answering
<1>5. st[gen].counter \in Nat
  BY <1>1, SlotsTyped
<1>6. Ago(1, e.slot)'
  <2>1. 0 \in 0 .. st[gen].counter - 1 /\ 0 <= 1 - 1 + 0
    BY <1>2, <1>5
  <2> QED
    BY <1>1, <1>2, <1>3, <2>1 DEF Ago, SlotBefore
<1> QED
  BY <1>1, <1>2, <1>3, <1>4, <1>6 DEF InPlace, Shows

LEMMA RingStep ==
  Typed /\ OneAtATime /\ LastSlotIsItsOwn /\ Ring /\ [Next]_vars => Ring'
<1> SUFFICES ASSUME Typed, OneAtATime, LastSlotIsItsOwn, Ring, [Next]_vars PROVE Ring'
  OBVIOUS
<1>0. /\ history \in Seq(Entry) /\ DOMAIN history \subseteq Nat \ {0}
      /\ \A i \in DOMAIN history : history[i] \in Entry
      /\ gen = 0 => history = <<>>
      /\ frames \in [Slots -> File] /\ marks \in [Slots -> File]
  BY DEF Typed, Ring
<1>1. ASSUME NEW t \in Tasks, AnalysisStep(t) PROVE Ring'
  <2>1. /\ Working(t) /\ task[t].gen \in Gens /\ UNCHANGED <<gen, gens, runs>>
        /\ task[t].run \in 0 .. MaxRuns /\ task[t].slot \in 0 .. NoSlot
    BY <1>1, Analysing, Types
  <2>2. ASSUME task[t].gen # gen PROVE Ring'
    <3>1. UNCHANGED history
      BY <1>1, <2>2 DEF AnalysisStep, Capture, CaptureFails, CaptureBreaks, Answer, AnswerFails,
         AnswerBreaks, Draw, DrawBreaks, Fail, BreakOff, Succeed, Finish, Record
    <3>2. ASSUME gen # 0, NEW i \in 1 .. HISTORY_LENGTH - 1, NEW e \in Entry, InPlace(i, e)
          PROVE  InPlace(i, e)'
      <4>1. gen \in Gens /\ st'[gen].counter = st[gen].counter /\ Pending' = Pending
        BY <1>1, <2>2, <3>2, Analysing, PendingNext, Types DEF Gens
      <4>2. Pending' <= Pending /\ i + Pending <= i + Pending'
        BY <4>1 DEF Pending
      <4> QED
        BY <1>1, <2>1, <3>2, <4>1, <4>2, FilesKept, PlaceKept
    <3>3. CASE gen = 0
      BY <1>0, <2>1, <3>1, <3>3 DEF Ring
    <3>4. CASE gen # 0
      <4>1. gen \in Gens
        BY <3>4, Types DEF Gens
      <4>2. broken'[gen] = broken[gen]
        BY <1>1, <2>2, <4>1, Analysing
      <4> QED
        BY <2>1, <3>1, <3>2, <3>4, <4>2, RingStays
    <3> QED
      BY <3>3, <3>4
  <2> SUFFICES ASSUME task[t].gen = gen PROVE Ring'
    BY <2>2
  <2>3. gen # 0 /\ gen \in Gens
    BY <2>1 DEF Gens
  <2>4. /\ Pending = IF Answering(t) THEN 1 ELSE 0
        /\ Pending' = IF Answering(t)' THEN 1 ELSE 0
    BY <1>1, <2>1, PendingIs, PendingNext
  <2>5. ASSUME UNCHANGED <<history, broken>>,
               \/ st'[gen].counter = st[gen].counter /\ Pending' = Pending
               \/ st'[gen].counter = st[gen].counter + 1 /\ Pending = 0 /\ Pending' = 1
        PROVE  Ring'
    <3>1. ASSUME NEW i \in 1 .. HISTORY_LENGTH - 1, NEW e \in Entry, InPlace(i, e)
          PROVE  InPlace(i, e)'
      <4>1. Pending' = Pending => Pending' <= Pending /\ i + Pending <= i + Pending'
        BY <2>4
      <4> QED
        BY <1>1, <2>1, <2>3, <2>5, <3>1, <4>1, FilesKept, PlaceKept
    <3> QED
      BY <2>1, <2>3, <2>5, <3>1, RingStays
  <2>6. ASSUME NEW slot \in {task[t].slot, NoSlot}, NEW marked \in BOOLEAN,
               history' = WithEntry(gen, task[t].run, slot, marked), ~Answering(t)',
               UNCHANGED broken,
               st'[gen].counter = st[gen].counter,
               slot # NoSlot => Answering(t),
               marked => marks'[slot] = task[t].run
        PROVE  Ring'
    <3> PICK run \in 0 .. MaxRuns : run = task[t].run
      BY <2>1
    <3>1. slot \in 0 .. NoSlot /\ history' = WithEntry(gen, run, slot, marked)
      BY <2>1, <2>6
    <3>2. ASSUME NEW e \in Entry, e.run = run, e.slot = slot, e.marked = marked, slot # NoSlot
          PROVE  InPlace(1, e)'
      BY <1>1, <2>3, <2>6, <3>2, OwnInPlace
    <3>3. ASSUME NEW i \in 1 .. HISTORY_LENGTH - 2, NEW e \in Entry, InPlace(i, e)
          PROVE  InPlace(i + 1, e)'
      <4>1. i \in 1 .. HISTORY_LENGTH - 1
        OBVIOUS
      <4>2. st'[gen].counter = st[gen].counter
        BY <2>6
      <4>3. Pending' <= Pending /\ i + Pending <= i + 1 + Pending'
        BY <2>4, <2>6
      <4>4. /\ Shows(frames[e.slot], e.run, gen)'
            /\ e.marked /\ gens = 1 => Shows(marks[e.slot], e.run, gen)'
        BY <1>1, <2>3, <3>3, <4>1, FilesKept
      <4> QED
        BY <2>1, <2>3, <3>3, <4>1, <4>2, <4>3, <4>4, PlaceKept
    <3> QED
      BY <2>1, <2>3, <2>6, <3>1, <3>2, <3>3, NewEntry
  <2>16. ASSUME BreakOff(t), Answering(t) PROVE Ring'
    <3>1. task' = [task EXCEPT ![t] = Idle] /\ UNCHANGED <<st, history>>
          /\ broken'[gen] = broken[gen] + 1
      BY <2>3, <2>16 DEF BreakOff, Typed
    <3>2. ~Answering(t)'
      BY <3>1 DEF Typed, Answering
    <3>3. ASSUME NEW i \in 1 .. HISTORY_LENGTH - 2, NEW e \in Entry, InPlace(i, e)
          PROVE  InPlace(i + 1, e)'
      <4>1. i \in 1 .. HISTORY_LENGTH - 1
        OBVIOUS
      <4>3. Pending' <= Pending /\ i + Pending <= i + 1 + Pending'
        BY <2>4, <2>16, <3>2
      <4>4. /\ Shows(frames[e.slot], e.run, gen)'
            /\ e.marked /\ gens = 1 => Shows(marks[e.slot], e.run, gen)'
        BY <1>1, <2>3, <3>3, <4>1, FilesKept
      <4> QED
        BY <2>1, <2>3, <3>1, <3>3, <4>1, <4>3, <4>4, PlaceKept
    <3> QED
      BY <2>1, <2>3, <3>1, <3>3, RingMoves
  <2> USE DEF Fail, Succeed, Finish, Record, Answering, fileVars
  <2>7. task \in [Tasks -> {Idle} \cup Busy] /\ st \in [Gens -> VState]
        /\ marks \in [Slots -> File] /\ task[t] \in Busy
    BY <2>1, Types DEF Typed
  <2>8. task' = [task EXCEPT ![t] = Idle] => ~Answering(t)'
    BY <2>7
  <2>9. st' = [st EXCEPT ![gen].last = now] => st'[gen].counter = st[gen].counter
    BY <2>3, <2>7
  <2>10. CASE Capture(t)
    <3>1. /\ st' = [st EXCEPT ![gen].counter = @ + 1]
          /\ task' = [task EXCEPT ![t] = [task[t] EXCEPT !.pc = "ask", !.slot = Slot(gen)]]
          /\ task[t].pc = "capture" /\ UNCHANGED <<history, broken>>
      BY <2>10, <2>7 DEF Capture
    <3>2. st'[gen].counter = st[gen].counter + 1 /\ Answering(t)' /\ ~Answering(t)
      BY <2>3, <2>7, <3>1 DEF Busy
    <3> QED
      BY <2>4, <2>5, <3>1, <3>2
  <2>11. CASE CaptureFails(t)
    <3>1. /\ history' = WithEntry(gen, task[t].run, NoSlot, FALSE)
          /\ task' = [task EXCEPT ![t] = Idle] /\ st' = [st EXCEPT ![gen].last = now]
          /\ UNCHANGED broken
      BY <2>11 DEF CaptureFails
    <3> QED
      BY <2>6, <2>8, <2>9, <3>1
  <2>12. CASE CaptureBreaks(t)
    <3>1. UNCHANGED <<st, history, broken>> /\ ~Answering(t) /\ task' = [task EXCEPT ![t] = Idle]
      BY <2>12 DEF CaptureBreaks
    <3> QED
      BY <2>4, <2>5, <2>8, <3>1
  <2>13. CASE Answer(t)
    <3>1. Answering(t) /\ st'[gen].counter = st[gen].counter /\ UNCHANGED broken
      BY <1>1, <2>13, Analysing DEF Answer
    <3>2. CASE Finish(t, FALSE)
      <4>1. /\ history' = WithEntry(gen, task[t].run, task[t].slot, FALSE)
            /\ task' = [task EXCEPT ![t] = Idle]
        BY <3>2
      <4> QED
        BY <2>6, <2>8, <3>1, <4>1
    <3>3. CASE task' = [task EXCEPT ![t].pc = "draw"] /\ UNCHANGED history
      <4>1. Answering(t)'
        BY <2>7, <3>3 DEF Busy
      <4> QED
        BY <2>4, <2>5, <3>1, <3>3, <4>1
    <3> QED
      BY <2>13, <3>2, <3>3 DEF Answer
  <2>14. CASE AnswerFails(t)
    <3>1. /\ history' = WithEntry(gen, task[t].run, task[t].slot, FALSE) /\ Answering(t)
          /\ task' = [task EXCEPT ![t] = Idle] /\ st' = [st EXCEPT ![gen].last = now]
          /\ UNCHANGED broken
      BY <2>14 DEF AnswerFails
    <3> QED
      BY <2>6, <2>8, <2>9, <3>1
  <2>15. CASE Draw(t)
    <3>1. /\ Answering(t) /\ task' = [task EXCEPT ![t] = Idle]
          /\ st'[gen].counter = st[gen].counter /\ UNCHANGED broken
      BY <2>15 DEF Draw
    <3>2. task[t].slot \in Slots
      <4>1. 0 \in 0 .. st[gen].counter - 1 /\ task[t].slot = SlotBefore(gen, 0)
        BY <2>3, <3>1, SlotsTyped DEF LastSlotIsItsOwn
      <4> QED
        BY <2>3, <4>1, SlotsTyped
    <3>3. CASE /\ marks' = [marks EXCEPT ![task[t].slot] = task[t].run]
               /\ history' = WithEntry(gen, task[t].run, task[t].slot, TRUE)
      BY <2>6, <2>7, <2>8, <3>1, <3>2, <3>3
    <3>4. CASE history' = WithEntry(gen, task[t].run, task[t].slot, FALSE)
      BY <2>6, <2>8, <3>1, <3>4
    <3> QED
      BY <2>15, <3>3, <3>4 DEF Draw
  <2>17. CASE AnswerBreaks(t)
    BY <2>16, <2>17 DEF AnswerBreaks
  <2>18. CASE DrawBreaks(t)
    BY <2>16, <2>18 DEF DrawBreaks
  <2> QED
    BY <1>1, <2>10, <2>11, <2>12, <2>13, <2>14, <2>15, <2>17, <2>18 DEF AnalysisStep
<1>2. ASSUME gen # 0, UNCHANGED <<gen, gens>>, UNCHANGED Pending,
             st'[gen].counter = st[gen].counter, UNCHANGED <<frames, marks>>,
             \A r \in DOMAIN runs : runs'[r] = runs[r],
             NEW i \in 1 .. HISTORY_LENGTH - 1, NEW j \in {i, i + 1}, NEW e \in Entry, InPlace(i, e)
      PROVE  InPlace(j, e)'
  <2>1. e.slot \in Slots /\ frames[e.slot] \in File /\ marks[e.slot] \in File /\ e.run # NoRun
    BY <1>0, <1>2, SlotsElsewhere DEF InPlace
  <2>2. /\ Shows(frames[e.slot], e.run, gen)
        /\ e.marked /\ gens = 1 => Shows(marks[e.slot], e.run, gen)
    BY <1>2 DEF InPlace
  <2>3. /\ Shows(frames[e.slot], e.run, gen)'
        /\ e.marked /\ gens = 1 => Shows(marks[e.slot], e.run, gen)'
    <3> PICK f \in File, m \in File : f = frames[e.slot] /\ m = marks[e.slot]
      BY <2>1
    <3>1. Shows(f, e.run, gen)' /\ (e.marked /\ gens = 1 => Shows(m, e.run, gen)')
      BY <1>2, <2>1, <2>2, ShowsStays
    <3> QED
      BY <1>2, <3>1 DEF Shows
  <2>4. Pending' <= Pending /\ i + Pending <= j + Pending'
    BY <1>2 DEF Pending
  <2> QED
    BY <1>2, <2>3, <2>4, PlaceKept
<1>3. ASSUME NEW t \in Tasks, NEW force \in BOOLEAN, Begin(t, force) PROVE Ring'
  <2>1. UseState(StateFor) /\ UNCHANGED <<history, broken, frames, marks>>
    BY <1>3 DEF Begin, fileVars
  <2>2. CASE gen = 0
    <3>1. gen' # 0 /\ history' = <<>>
      BY <1>0, <2>1, <2>2, UsedState
    <3> QED
      BY <3>1 DEF Ring
  <2>3. CASE gen # 0
    <3>1. UNCHANGED <<gen, gens>> /\ gen \in Gens
      BY <2>1, <2>3, UsedState
    <3>2. /\ \A r \in DOMAIN runs : runs'[r] = runs[r]
          /\ task[t] = Idle /\ \A u \in Tasks \ {t} : task'[u] = task[u]
          /\ \A g \in Gens : st'[g].counter = st[g].counter
      BY <1>3, Beginning
    <3>3. task'[t].pc = "capture"
      <4>1. task'[t] = [pc |-> "capture", gen |-> StateFor,
                        run |-> Len(runs) + 1, slot |-> NoSlot]
        BY <1>3, Beginning
      <4> QED
        BY <4>1
    <3>4. \A u \in Tasks : (Answering(u)' /\ task'[u].gen = gen) <=> (Answering(u) /\ task[u].gen = gen)
      BY <3>2, <3>3 DEF Answering
    <3>5. Pending' = Pending
      BY <3>1, <3>4 DEF Pending
    <3>6. \A i \in 1 .. HISTORY_LENGTH - 1, e \in Entry : InPlace(i, e) => InPlace(i, e)'
      BY <1>2, <2>1, <2>3, <3>1, <3>2, <3>5
    <3> QED
      BY <2>1, <2>3, <3>1, <3>6, RingStays
  <2> QED
    BY <2>2, <2>3
<1>4. CASE TriggerRefused
  <2>1. /\ UseState(StateFor) /\ history' = WithEntry(StateFor, NoRun, NoSlot, FALSE)
        /\ UNCHANGED <<st, task, runs, broken, frames, marks>> /\ StateFor \in Gens
        /\ broken[StateFor] \in Nat
    BY <1>4, UsedState, Types DEF TriggerRefused, fileVars
  <2>2. NoRun \in 0 .. MaxRuns /\ NoSlot \in 0 .. NoSlot
    OBVIOUS
  <2>3. CASE gen = 0
    <3> PICK h : h = WithEntry(StateFor, NoRun, NoSlot, FALSE)
      OBVIOUS
    <3>1. /\ h[1] = [run |-> NoRun, slot |-> NoSlot, marked |-> FALSE, broken |-> broken[StateFor]]
          /\ \A i \in DOMAIN h : i # 1 => i - 1 \in DOMAIN history
      BY <2>1, <2>2, Recorded, Zenon
    <3>2. DOMAIN history = {} /\ gen' # 0
      BY <1>0, <2>1, <2>3, UsedState
    <3>3. h[1].slot = NoSlot /\ h[1].broken = broken[StateFor]
      <4>1. \A b : LET e == [run |-> NoRun, slot |-> NoSlot, marked |-> FALSE, broken |-> b]
                   IN  e.slot = NoSlot /\ e.broken = b
        OBVIOUS
      <4>2. h[1] = [run |-> NoRun, slot |-> NoSlot, marked |-> FALSE, broken |-> broken[StateFor]]
        BY <3>1
      <4> QED
        BY <4>1, <4>2, Zenon
    <3>4. gen' = StateFor
      BY <2>1, UsedState
    <3>5. \A i \in DOMAIN h : i = 1
      BY <3>1, <3>2
    <3>6. history' = h /\ broken'[gen'] = broken[StateFor] /\ broken[StateFor] <= broken[StateFor]
      BY <2>1, <3>4
    <3>7. Kept(1, h[1])'
      BY <3>3, <3>6 DEF Kept
    <3> QED
      BY <3>2, <3>5, <3>6, <3>7 DEF Ring
  <2>4. CASE gen # 0
    <3>1. UNCHANGED <<gen, gens>> /\ StateFor = gen
      BY <2>1, <2>4, UsedState
    <3>2. UNCHANGED Pending
      BY <2>1, <3>1 DEF Pending, Answering
    <3>3. \A i \in 1 .. HISTORY_LENGTH - 2, e \in Entry :
            e.slot # NoSlot /\ InPlace(i, e) => InPlace(i + 1, e)'
      <4>1. 1 .. HISTORY_LENGTH - 2 \subseteq 1 .. HISTORY_LENGTH - 1
        OBVIOUS
      <4> QED
        BY <1>2, <2>1, <2>4, <3>1, <3>2, <4>1
    <3> QED
      BY <2>1, <2>2, <2>4, <3>1, <3>3, NewEntry
  <2> QED
    BY <2>3, <2>4
<1>5. CASE Prune
  <2>1. /\ UNCHANGED <<gen, gens, st, history, task, runs, broken>>
        /\ frames' = [k \in Slots |-> Gone] /\ marks' = [k \in Slots |-> Gone]
    BY <1>5 DEF Prune
  <2>2. UNCHANGED Pending /\ (Pending' <= Pending)
    BY <2>1 DEF Pending, Answering
  <2>3. ASSUME gen # 0, NEW i \in 1 .. HISTORY_LENGTH - 1, NEW e \in Entry, InPlace(i, e)
        PROVE  InPlace(i, e)'
    <3>1. e.slot \in Slots
      BY <2>3, SlotsElsewhere DEF InPlace
    <3>2. Shows(frames[e.slot], e.run, gen)' /\ Shows(marks[e.slot], e.run, gen)'
      BY <2>1, <3>1 DEF Shows
    <3>3. i + Pending <= i + Pending'
      BY <2>2 DEF Pending
    <3> QED
      BY <2>1, <2>2, <2>3, <3>2, <3>3, PlaceKept
  <2>4. CASE gen = 0
    BY <1>0, <2>1, <2>4 DEF Ring
  <2>5. CASE gen # 0
    BY <2>1, <2>3, <2>5, RingStays
  <2> QED
    BY <2>4, <2>5
<1>6. ASSUME UNCHANGED <<gen, gens, st, history, task, runs, broken, frames, marks>> PROVE Ring'
  BY <1>6 DEF Ring, Kept, Place, InPlace, Ago, Pending, Answering, SlotBefore, Shows
<1>7. CASE Look
  <2>1. gen' # 0 /\ history' = <<>>
    BY <1>0, <1>7, UsedState DEF Look
  <2> QED
    BY <2>1 DEF Ring
<1>8. CASE Apply
  <2>1. CASE Head(applying) = "none"
    BY <1>8, <2>1 DEF Apply, Ring
  <2>2. CASE Head(applying) # "none"
    BY <1>6, <1>8, <2>2 DEF Apply, fileVars
  <2> QED
    BY <2>1, <2>2
<1> QED
  BY <1>1, <1>3, <1>4, <1>5, <1>6, <1>7, <1>8 DEF Next, Save, RecorderFails, Tick, vars, configVars,
     fileVars

LEMMA InvStep == IInv /\ [Next]_vars => IInv'
BY TypedStep, OneAtATimeStep, BudgetStep, FramesCountedStep, AnswersInOrderStep, ArrivingStep,
   LastSlotStep, RingStep DEF IInv

-----------------------------------------------------------------------------
(* The properties of the runs *)

LEMMA InvTypeOK == IInv => TypeOK
<1> SUFFICES ASSUME Typed, FramesCounted PROVE TypeOK
  BY DEF IInv
<1>1. \A g \in 1 .. MaxGens :
        st[g].count \in 0 .. MaxRuns /\ st[g].counter \in 0 .. MaxRuns
  <2> TAKE g \in 1 .. MaxGens
  <2>1. st[g].count \in Nat /\ st[g].counter \in Nat
    BY Types DEF VState, Gens
  <2>2. Len(runs) \in Nat /\ Len(runs) <= MaxRuns
    BY Types DEF Typed
  <2>3. st[g].count <= Len(runs) /\ st[g].counter <= st[g].count
    BY DEF FramesCounted, Gens
  <2> QED
    BY <2>1, <2>2, <2>3
<1>2. \A t \in Tasks : task[t].pc \in {"idle", "capture", "ask", "draw"}
  BY Types DEF Working, Busy
<1>3. File \subseteq 0 .. Gone
  <2>1. DOMAIN runs = 1 .. Len(runs) /\ Len(runs) \in Nat /\ Len(runs) <= MaxRuns
    BY Types DEF Typed
  <2> QED
    BY <2>1 DEF File
<1>4. frames \in [Slots -> 0 .. Gone] /\ marks \in [Slots -> 0 .. Gone]
  BY <1>3 DEF Typed
<1>5. /\ profile \in Profiles /\ watching \in BOOLEAN /\ missed \in BOOLEAN
      /\ gens \in 0 .. MaxGens /\ gen \in 0 .. gens
      /\ history \in Seq(Entry) /\ Len(history) <= HISTORY_LENGTH
  BY DEF Typed
<1> QED
  BY <1>1, <1>2, <1>4, <1>5 DEF TypeOK, Profiles

(* Everything keeps its type in every reachable state; in particular the   *)
(* history never outgrows its length, whatever steps have been taken.      *)
THEOREM TypeCorrect == Spec => []TypeOK
<1>1. Init => IInv
  BY InvInit
<1>2. IInv /\ [Next]_vars => IInv'
  BY InvStep
<1> QED
  BY <1>1, <1>2, InvTypeOK, PTL DEF Spec

(* No day sees more analyses of a profile than its budget, whatever the    *)
(* triggers, the requests by hand, the failures and the saves in between:  *)
(* the count is taken before the first wait of async_analyse.              *)
THEOREM BudgetKept == Spec => []WithinBudget
<1>1. Init => IInv
  BY InvInit
<1>2. IInv /\ [Next]_vars => IInv'
  BY InvStep
<1>3. IInv => WithinBudget
  BY DEF IInv
<1> QED
  BY <1>1, <1>2, <1>3, PTL DEF Spec

(* A picture of the history is that of the analysis it stands beside, for  *)
(* a ring of any length: whatever the ring has been written with since is  *)
(* less than a lap ahead of every entry but the oldest, and but as many    *)
(* more as analyses have broken off.                                       *)
THEOREM PicturesAreTheirOwn == Spec => []PicturesMatch
<1>1. Init => IInv
  BY InvInit
<1>2. IInv /\ [Next]_vars => IInv'
  BY InvStep
<1>3. IInv => PicturesMatch
  <2> SUFFICES ASSUME IInv PROVE PicturesMatch
    OBVIOUS
  <2>1. TypeOK
    BY InvTypeOK
  <2>2. Ring
    BY DEF IInv
  <2>3. ASSUME gen # 0, NEW i \in DOMAIN history, NEW e \in Entry, e = history[i],
               i + (broken[gen] - e.broken) < HISTORY_LENGTH, e.slot # NoSlot
        PROVE  /\ Shows(frames[e.slot], e.run, gen)
               /\ e.marked /\ gens = 1 => Shows(marks[e.slot], e.run, gen)
    <3>1. /\ broken[gen] \in Nat /\ e.broken \in Nat /\ i \in Nat \ {0}
          /\ Kept(i, e) /\ e.broken <= broken[gen]
      <4>1. Typed
        BY DEF IInv
      <4>2. history \in Seq(Entry) /\ gen \in Gens
        BY <2>3, <4>1, Types DEF Typed, Gens
      <4>5. broken[gen] \in Nat
        BY <4>1, <4>2, Types
      <4>3. broken[gen] \in Nat /\ e.broken \in Nat /\ i \in Nat \ {0}
        BY <2>3, <4>2, <4>5 DEF Entry
      <4>4. Kept(i, e)
        BY <2>2, <2>3 DEF Ring
      <4> QED
        BY <4>3, <4>4 DEF Kept
    <3>2. Place(i, e) \in 1 .. HISTORY_LENGTH - 1
      BY <2>3, <3>1 DEF Place
    <3>3. InPlace(Place(i, e), e)
      BY <2>3, <3>1, <3>2 DEF Kept
    <3> QED
      BY <3>3 DEF InPlace
  <2>4. \A i \in DOMAIN history : history[i] \in Entry
    BY DEF IInv, Typed
  <2> QED
    BY <2>1, <2>3, <2>4 DEF PicturesMatch, Shows
<1> QED
  BY <1>1, <1>2, <1>3, PTL DEF Spec

(* Once every save has arrived, the triggers that are listened for are     *)
(* those of the profile saved last, in whichever order saves overlap, if   *)
(* the recorder let the newest arrive.                                     *)
THEOREM TriggersAreThoseSaved == Spec => []TriggersFollow
<1>1. Init => IInv
  BY InvInit
<1>2. IInv /\ [Next]_vars => IInv'
  BY InvStep
<1>3. IInv => TriggersFollow
  BY DEF IInv, Arriving
<1> QED
  BY <1>1, <1>2, <1>3, PTL DEF Spec

(* The sensors never go back to the answers of an earlier analysis: what   *)
(* they show is no later than the analysis under way, which is the only    *)
(* one its profile has.                                                    *)
THEOREM NewestAnswersStand == Spec => NewestAnswerStays
<1>1. Init => IInv
  BY InvInit
<1>2. IInv /\ [Next]_vars => IInv'
  BY InvStep
<1>3. IInv /\ [Next]_vars => [\A g \in 1 .. MaxGens : st'[g].values >= st[g].values]_vars
  <2> SUFFICES ASSUME IInv, [Next]_vars, NEW g \in Gens PROVE st'[g].values >= st[g].values
    BY DEF Gens
  <2>0. Typed /\ OneAtATime /\ AnswersInOrder /\ st[g].values \in Nat
    BY Types DEF IInv, VState
  <2>1. ASSUME NEW t \in Tasks, NEW force \in BOOLEAN, Begin(t, force)
        PROVE  st'[g].values >= st[g].values
    <3>1. st'[g].values = st[g].values
      BY <2>0, <2>1, Beginning
    <3> QED
      BY <2>0, <3>1
  <2>2. ASSUME NEW t \in Tasks, AnalysisStep(t) PROVE st'[g].values >= st[g].values
    <3> PICK h \in Gens : h = task[t].gen
      BY <2>0, <2>2, Analysing
    <3> PICK run : run = task[t].run
      OBVIOUS
    <3>3. /\ Working(t) /\ \A k \in Gens \ {h} : st'[k] = st[k]
          /\ st'[h].values \in {st[h].values, run}
      BY <2>0, <2>2, Analysing
    <3>4. run \in Nat
      BY <2>0, <3>3, Types
    <3>1. /\ Working(t) /\ task[t].run \in Nat
          /\ g # task[t].gen => st'[g] = st[g]
          /\ g = task[t].gen => st'[g].values \in {st[g].values, task[t].run}
      BY <3>3, <3>4
    <3>2. st[task[t].gen].values <= task[t].run
      BY <2>0, <3>1 DEF AnswersInOrder
    <3> QED
      BY <2>0, <3>1, <3>2
  <2>3. ASSUME UNCHANGED st PROVE st'[g].values >= st[g].values
    BY <2>0, <2>3
  <2> QED
    BY <2>1, <2>2, <2>3 DEF Next, Save, Apply, RecorderFails, Prune, Look, Tick,
       TriggerRefused, vars
<1> QED
  BY <1>1, <1>2, <1>3, PTL DEF Spec, NewestAnswerStays
=============================================================================
