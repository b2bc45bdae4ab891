------------------------ MODULE StorageReconcileProofs ------------------------
(***************************************************************************)
(* Proofs about StorageReconcile, for any locations, any number of panel   *)
(* requests and any cap of the backoff.  The inductive invariant says who  *)
(* waits for the recorder's lock, that _latest is what entered it last     *)
(* unless everything was stopped since, and that whatever is in line is of *)
(* the configured location, or a retry of an older one, or followed by an  *)
(* apply of another location.                                              *)
(***************************************************************************)
EXTENDS StorageReconcile, TLAPS

Apply == [task : Tasks, loc : Locations, cut : BOOLEAN, older : BOOLEAN]

Coroutine ==
  {Idle} \cup [pc : {"probing", "looking"}, loc : Locations, again : BOOLEAN]
         \cup [pc : {"saving"}, loc : Locations, moved : BOOLEAN]
         \cup [pc : {"reloading"}, auto : BOOLEAN]
         \cup [pc : {"applying"}, then : {"idle", "refresh", "cycle"}]

Backoff ==
  /\ storage_error \in BOOLEAN
  /\ reconnect_mount \in {Mount, NoMount}
  /\ skip \in 0 .. AUTO_RECONNECT_MAX_SKIP_CYCLES
  /\ backoff \in 0 .. AUTO_RECONNECT_MAX_SKIP_CYCLES
  /\ server \in BOOLEAN /\ mounted \in BOOLEAN

Coroutines ==
  /\ base_path \in Locations
  /\ task \in [Tasks -> Coroutine]

(* Every apply in line has a coroutine of its own that waits for it, and   *)
(* only the one under way can have been cut into.                          *)
InOrder(line, tasks) ==
  /\ line \in Seq(Apply)
  /\ \A i \in DOMAIN line : tasks[line[i].task].pc = "applying"
  /\ \A i, j \in DOMAIN line : line[i].task = line[j].task => i = j
  /\ \A i \in DOMAIN line : line[i].cut => i = 1

Queue == InOrder(applies, task)

(* What is in line is of the configured location, or is known to be older, *)
(* or another location is applied after it.                                *)
Meant(line, path) ==
  \A i \in DOMAIN line :
    \/ line[i].loc = path \/ line[i].older
    \/ \E j \in DOMAIN line : j > i /\ line[j].loc # line[i].loc

Known ==
  /\ recording \in Locations \cup {Nowhere} /\ ready \in BOOLEAN
  /\ latest \in Locations \cup {Nowhere} /\ overtaken \in BOOLEAN

(* What records, or will once the last apply in line is over *)
Latest ==
  /\ Known
  /\ Meant(applies, base_path)
  /\ applies = <<>> => /\ latest = Nowhere \/ latest = base_path \/ overtaken
                       /\ ready => latest # Nowhere /\ recording = latest
  /\ applies # <<>> => /\ applies[1].cut => latest = Nowhere
                       /\ ~applies[1].cut => /\ latest = applies[1].loc
                                             /\ overtaken = applies[1].older
                       /\ ready => ~applies[Len(applies)].cut

IInv == Backoff /\ Coroutines /\ Queue /\ Latest

-----------------------------------------------------------------------------
LEMMA CoroutineFields ==
  ASSUME NEW c \in Coroutine
  PROVE  /\ c.pc \in {"idle", "probing", "looking", "reloading", "applying", "saving"}
         /\ c.pc \in {"probing", "looking"} => c.loc \in Locations /\ c.again \in BOOLEAN
         /\ c.pc = "saving" => c.loc \in Locations /\ c.moved \in BOOLEAN
         /\ c.pc = "reloading" => c.auto \in BOOLEAN
         /\ c.pc = "applying" => c.then \in {"idle", "refresh", "cycle"}
  BY DEF Coroutine, Idle

LEMMA InLine ==
  ASSUME Queue, NEW i \in DOMAIN applies
  PROVE  applies[i] \in Apply /\ applies[i].task \in Tasks /\ applies[i].loc \in Locations
<1>1. applies[i] \in Apply
  BY DEF Queue, InOrder
<1> QED
  BY <1>1 DEF Apply

LEMMA NotInLine ==
  ASSUME Queue, NEW t, task[t].pc # "applying"
  PROVE  \A i \in DOMAIN applies : applies[i].task \in Tasks /\ applies[i].task # t
  BY InLine DEF Queue, InOrder

LEMMA Types ==
  ASSUME IInv
  PROVE  TypeOK
<1>1. DOMAIN task = Tasks /\ \A t \in Tasks : task[t] \in Coroutine
  BY DEF IInv, Coroutines
<1>2. \A t \in Tasks : task[t].pc \in
        {"idle", "probing", "looking", "reloading", "applying", "saving"}
  BY <1>1, CoroutineFields
<1> QED
  BY <1>1, <1>2 DEF TypeOK, IInv, Backoff, Coroutines, Queue, InOrder, Latest, Known, Apply

(* A coroutine goes on to something else than an apply; nothing starts to  *)
(* be ready that was not.                                                  *)
LEMMA GoesOn ==
  ASSUME Coroutines, Queue, Latest, NEW t \in Tasks, task[t].pc # "applying",
         NEW c \in Coroutine, c.pc # "applying",
         task' = [task EXCEPT ![t] = c],
         UNCHANGED <<base_path, ready, recorderVars>>
  PROVE  Coroutines' /\ Queue' /\ Latest'
<1>1. Coroutines'
  BY DEF Coroutines
<1>2. \A i \in DOMAIN applies : applies[i].task \in Tasks /\ applies[i].task # t
  BY NotInLine
<1>3. Queue'
  BY <1>2 DEF Queue, InOrder, Coroutines, recorderVars
<1>4. Latest'
  BY DEF Latest, Known, recorderVars
<1> QED
  BY <1>1, <1>3, <1>4

(* Looking at the line again changes nothing. *)
LEMMA SameLine ==
  ASSUME Queue, Latest, Line(applies)
  PROVE  UNCHANGED <<applies, latest, overtaken>>
<1>1. applies # <<>> => Head(applies) = applies[1]
  BY DEF Queue, InOrder
<1> QED
  BY <1>1 DEF Line, Latest

(* A coroutine joins the line. *)
LEMMA Joins ==
  ASSUME Coroutines, Known, NEW line, InOrder(line, task), NEW t \in Tasks,
         \A i \in DOMAIN line : line[i].task # t,
         line # <<>> => (line[1].cut => latest = Nowhere),
         NEW e \in Apply, e.task = t, ~e.cut,
         NEW then \in {"idle", "refresh", "cycle"},
         Line(Append(line, e)), task' = [task EXCEPT ![t] = [pc |-> "applying", then |-> then]],
         base_path' \in Locations, Meant(Append(line, e), base_path'),
         recording' \in Locations \cup {Nowhere}, ready' \in BOOLEAN
  PROVE  Coroutines' /\ Queue' /\ Latest'
<1> DEFINE c == [pc |-> "applying", then |-> then]
<1>1. c \in Coroutine /\ c.pc = "applying" /\ task' = [task EXCEPT ![t] = c]
  BY DEF Coroutine
<1> HIDE DEF c
<1>2. Coroutines'
  BY <1>1 DEF Coroutines
<1>3. line \in Seq(Apply) /\ \A i \in DOMAIN line : line[i].task \in Tasks
  <2>1. line \in Seq(Apply) /\ \A i \in DOMAIN line : line[i] \in Apply
    BY DEF InOrder
  <2> QED
    BY <2>1 DEF Apply
<1>4. PICK new : new = Append(line, e)
  OBVIOUS
<1>5. /\ new \in Seq(Apply) /\ Len(new) = Len(line) + 1 /\ Len(line) \in Nat
      /\ new # <<>> /\ new[Len(new)] = e /\ Head(new) = new[1]
      /\ \A i \in DOMAIN new : \/ i \in DOMAIN line /\ new[i] = line[i]
                               \/ i = Len(new) /\ new[i] = e
      /\ Len(new) \notin DOMAIN line
  <2>1. /\ new \in Seq(Apply) /\ Len(new) = Len(line) + 1 /\ Len(line) \in Nat
        /\ DOMAIN line = 1 .. Len(line) /\ DOMAIN new = 1 .. Len(line) + 1
        /\ new[Len(line) + 1] = e /\ \A i \in 1 .. Len(line) : new[i] = line[i]
    BY <1>3, <1>4
  <2>2. new # <<>> /\ Head(new) = new[1]
    BY <2>1
  <2> QED
    BY <2>1, <2>2
<1>6. applies' = new
  BY <1>4 DEF Line
<1>7. task'[t].pc = "applying" /\ \A u \in Tasks : u # t => task'[u] = task[u]
  BY <1>1 DEF Coroutines
<1>8. Queue'
  <2>1. \A i \in DOMAIN new : task'[new[i].task].pc = "applying"
    BY <1>3, <1>5, <1>7 DEF InOrder
  <2>2. \A i, j \in DOMAIN new : new[i].task = new[j].task => i = j
    BY <1>5 DEF InOrder
  <2>3. \A i \in DOMAIN new : new[i].cut => i = 1
    BY <1>5 DEF InOrder
  <2> QED
    BY <1>5, <1>6, <2>1, <2>2, <2>3 DEF Queue, InOrder
<1>9. new[1].cut => latest = Nowhere
  <2>1. CASE line = <<>>
    <3>1. new[1] = e
      BY <1>4, <2>1
    <3> QED
      BY <3>1
  <2>2. CASE line # <<>>
    <3>1. new[1] = line[1]
      BY <1>3, <1>4, <2>2
    <3> QED
      BY <2>2, <3>1
  <2> QED
    BY <2>1, <2>2
<1>10. /\ new[1].cut => latest' = Nowhere /\ overtaken' = overtaken
       /\ ~new[1].cut => latest' = new[1].loc /\ overtaken' = new[1].older
  BY <1>4, <1>5, <1>9 DEF Line
<1>11. Known'
  <2>1. new[1] \in Apply
    BY <1>5
  <2>2. new[1].loc \in Locations /\ new[1].older \in BOOLEAN /\ new[1].cut \in BOOLEAN
    BY <2>1 DEF Apply
  <2> QED
    BY <1>10, <2>2 DEF Known
<1>12. Meant(new, base_path')
  BY <1>4
<1>13. ~new[Len(new)].cut
  BY <1>5
<1>14. Latest'
  BY <1>5, <1>6, <1>10, <1>11, <1>12, <1>13 DEF Latest
<1> QED
  BY <1>2, <1>8, <1>14

(* An apply of what is configured is put into the line. *)
LEMMA Called ==
  ASSUME Coroutines, Queue, Latest, NEW t \in Tasks, task[t].pc # "applying",
         NEW l \in Locations, NEW then \in {"idle", "refresh", "cycle"}, CallApply(t, l, then),
         base_path' = l, ready' \in BOOLEAN
  PROVE  Coroutines' /\ Queue' /\ Latest'
<1>1. PICK e : e = Waiting(t, l, FALSE)
  OBVIOUS
<1>2. e \in Apply /\ e.task = t /\ e.loc = l /\ e.cut = FALSE
  BY <1>1 DEF Waiting, Apply
<1>3. \A i \in DOMAIN applies : applies[i].task # t
  BY NotInLine
<1>4. Meant(Append(applies, e), l)
  <2>1. /\ Len(Append(applies, e)) = Len(applies) + 1 /\ Len(applies) \in Nat
        /\ DOMAIN applies = 1 .. Len(applies)
        /\ DOMAIN Append(applies, e) = 1 .. Len(applies) + 1
        /\ Append(applies, e)[Len(applies) + 1] = e
    BY DEF Queue, InOrder
  <2> QED
    BY <1>2, <2>1 DEF Meant
<1>5. applies # <<>> => (applies[1].cut => latest = Nowhere)
  BY DEF Latest
<1>6. /\ Line(Append(applies, e)) /\ recording' = recording
      /\ task' = [task EXCEPT ![t] = [pc |-> "applying", then |-> then]]
  BY <1>1 DEF CallApply
<1>7. Known /\ InOrder(applies, task) /\ recording \in Locations \cup {Nowhere}
  BY DEF Latest, Known, Queue
<1> QED
  BY <1>2, <1>3, <1>4, <1>5, <1>6, <1>7, Joins

(* So is a retry, which knows when it is older than what is configured. *)
LEMMA Retried ==
  ASSUME Coroutines, Known, NEW line, InOrder(line, task), NEW t \in Tasks,
         \A i \in DOMAIN line : line[i].task # t,
         line # <<>> => ~line[1].cut \/ latest = Nowhere,
         Meant(line, base_path),
         latest = base_path \/ overtaken \/ \E i \in DOMAIN line : line[i].loc # latest,
         Retry(t, line), UNCHANGED <<base_path, ready>>,
         recording' \in Locations \cup {Nowhere}
  PROVE  Coroutines' /\ Queue' /\ Latest'
<1>1. PICK older \in BOOLEAN :
        older = (overtaken \/ \E i \in DOMAIN line : line[i].loc # latest)
  BY DEF Known
<1>2. PICK e : e = Waiting(t, latest, older)
  OBVIOUS
<1>3. latest \in Locations /\ base_path \in Locations
  BY DEF Retry, Known, Coroutines
<1>4. e \in Apply /\ e.task = t /\ e.loc = latest /\ e.cut = FALSE /\ e.older = older
  BY <1>2, <1>3 DEF Waiting, Apply
<1>5. e.loc = base_path \/ e.older
  BY <1>1, <1>4
<1>6. Meant(Append(line, e), base_path)
  <2>1. /\ Len(Append(line, e)) = Len(line) + 1 /\ Len(line) \in Nat
        /\ DOMAIN line = 1 .. Len(line)
        /\ DOMAIN Append(line, e) = 1 .. Len(line) + 1
        /\ Append(line, e)[Len(line) + 1] = e
        /\ \A i \in DOMAIN line : Append(line, e)[i] = line[i]
    BY DEF InOrder
  <2>2. PICK new : new = Append(line, e)
    OBVIOUS
  <2>3. ASSUME NEW i \in DOMAIN new
        PROVE  \/ new[i].loc = base_path \/ new[i].older
               \/ \E j \in DOMAIN new : j > i /\ new[j].loc # new[i].loc
    <3>1. CASE i = Len(line) + 1
      BY <1>5, <2>1, <2>2, <3>1
    <3>2. CASE i \in DOMAIN line
      <4>1. \/ line[i].loc = base_path \/ line[i].older
            \/ \E j \in DOMAIN line : j > i /\ line[j].loc # line[i].loc
        BY <3>2 DEF Meant
      <4>2. DOMAIN line \subseteq DOMAIN new /\ \A j \in DOMAIN line : new[j] = line[j]
        BY <2>1, <2>2
      <4> QED
        BY <3>2, <4>1, <4>2
    <3> QED
      BY <2>1, <2>2, <2>3, <3>1, <3>2
  <2> QED
    BY <2>2, <2>3 DEF Meant
<1>7. /\ Line(Append(line, e))
      /\ task' = [task EXCEPT ![t] = [pc |-> "applying", then |-> "idle"]]
  <2>1. Line(Append(line, Waiting(t, latest,
               overtaken \/ \E i \in DOMAIN line : line[i].loc # latest)))
    BY DEF Retry
  <2>2. e = Waiting(t, latest, overtaken \/ \E i \in DOMAIN line : line[i].loc # latest)
    BY <1>1, <1>2
  <2>3. Line(Append(line, e))
    BY <2>1, <2>2
  <2> QED
    BY <2>3 DEF Retry
<1>8. base_path' \in Locations /\ Meant(Append(line, e), base_path') /\ ready' \in BOOLEAN
  BY <1>3, <1>6 DEF Known
<1>9. line # <<>> => (line[1].cut => latest = Nowhere)
  OBVIOUS
<1> QED
  BY <1>4, <1>7, <1>8, <1>9, Joins

LEMMA RetriedNow ==
  ASSUME Coroutines, Queue, Latest, NEW t \in Tasks, task[t].pc # "applying",
         Retry(t, applies), UNCHANGED <<base_path, ready, recording>>
  PROVE  Coroutines' /\ Queue' /\ Latest'
<1>1. \A i \in DOMAIN applies : applies[i].task # t
  BY NotInLine
<1>2. applies # <<>> => ~applies[1].cut \/ latest = Nowhere
  BY DEF Latest
<1>3. latest = base_path \/ overtaken \/ \E i \in DOMAIN applies : applies[i].loc # latest
  <2>1. latest # Nowhere
    BY DEF Retry
  <2>2. CASE applies = <<>>
    BY <2>1, <2>2 DEF Latest
  <2>3. CASE applies # <<>>
    <3>1. ~applies[1].cut /\ latest = applies[1].loc /\ overtaken = applies[1].older
      BY <2>1, <2>3 DEF Latest
    <3>2. 1 \in DOMAIN applies
      BY <2>3 DEF Queue, InOrder
    <3>3. \/ applies[1].loc = base_path \/ applies[1].older
          \/ \E j \in DOMAIN applies : j > 1 /\ applies[j].loc # applies[1].loc
      BY <3>2 DEF Latest, Meant
    <3> QED
      BY <3>1, <3>3
  <2> QED
    BY <2>2, <2>3
<1>4. Known /\ InOrder(applies, task) /\ Meant(applies, base_path)
  BY DEF Latest, Queue
<1>5. recording' \in Locations \cup {Nowhere}
  BY DEF Latest, Known
<1> QED
  BY <1>1, <1>2, <1>3, <1>4, <1>5, Retried

(* A stop of everything cuts into the apply under way.                     *)
LEMMA Stopped ==
  ASSUME Coroutines, Queue, Latest, NEW t \in Tasks, task[t].pc # "applying",
         StopAll(t), base_path' = base_path, ready' = FALSE
  PROVE  Coroutines' /\ Queue' /\ Latest'
<1>1. recording' = Nowhere /\ task' = [task EXCEPT ![t] = Idle]
  BY DEF StopAll
<1>2. Idle \in Coroutine /\ Idle.pc = "idle"
  BY DEF Coroutine, Idle
<1>3. Coroutines'
  BY <1>1, <1>2 DEF Coroutines
<1>4. /\ applies' \in Seq(Apply) /\ Len(applies') = Len(applies) /\ Len(applies) \in Nat
      /\ DOMAIN applies' = DOMAIN applies
      /\ \A i \in DOMAIN applies : /\ applies'[i].task = applies[i].task
                                   /\ applies'[i].loc = applies[i].loc
                                   /\ applies'[i].older = applies[i].older
                                   /\ i = 1 => applies'[i].cut = TRUE
                                   /\ i # 1 => applies'[i] = applies[i]
  <2>1. \A i \in DOMAIN applies : applies[i] \in Apply
    BY DEF Queue, InOrder
  <2>2. applies' = [i \in DOMAIN applies |->
                      IF i = 1 THEN [applies[i] EXCEPT !.cut = TRUE] ELSE applies[i]]
    BY DEF StopAll
  <2>3. \A i \in DOMAIN applies : /\ applies'[i] \in Apply
                                  /\ applies'[i].task = applies[i].task
                                  /\ applies'[i].loc = applies[i].loc
                                  /\ applies'[i].older = applies[i].older
                                  /\ i = 1 => applies'[i].cut = TRUE
                                  /\ i # 1 => applies'[i] = applies[i]
    BY <2>1, <2>2 DEF Apply
  <2>4. DOMAIN applies = 1 .. Len(applies) /\ Len(applies) \in Nat
    BY DEF Queue, InOrder
  <2>5. applies' \in Seq(Apply) /\ DOMAIN applies' = DOMAIN applies
    BY <2>2, <2>3, <2>4
  <2> QED
    BY <2>3, <2>4, <2>5
<1>5. \A i \in DOMAIN applies : applies[i].task \in Tasks /\ applies[i].task # t
  BY NotInLine
<1>6. Queue'
  BY <1>1, <1>4, <1>5 DEF Queue, InOrder, Coroutines
<1>7. Latest'
  <2>1. Known' /\ latest' = Nowhere /\ ready' = FALSE
    BY <1>1 DEF StopAll, Latest, Known
  <2>2. Meant(applies', base_path')
    BY <1>4 DEF Latest, Meant
  <2>3. applies' # <<>> => applies'[1].cut = TRUE
    <3>1. applies' # <<>> => 1 \in DOMAIN applies
      BY <1>4
    <3> QED
      BY <1>4, <3>1
  <2> QED
    BY <2>1, <2>2, <2>3 DEF Latest
<1> QED
  BY <1>3, <1>6, <1>7

(* However a reconcile ends: recording starts, stops, or goes on.          *)
LEMMA Decided ==
  ASSUME Coroutines, Queue, Latest, NEW t \in Tasks, task[t].pc # "applying",
         NEW error \in BOOLEAN, NEW mount, Decide(t, error, mount),
         base_path' = base_path
  PROVE  Coroutines' /\ Queue' /\ Latest'
<1> ready \in BOOLEAN /\ base_path \in Locations
  BY DEF Latest, Known, Coroutines
<1>1. CASE ~error /\ ~ready
  <2>1. ready' = TRUE /\ CallApply(t, base_path, "cycle")
    BY <1>1 DEF Decide
  <2> QED
    BY <2>1, Called
<1>2. CASE error /\ ready
  <2>1. ready' = FALSE /\ StopAll(t)
    BY <1>2 DEF Decide
  <2> QED
    BY <2>1, Stopped
<1>3. CASE ~(~error /\ ~ready) /\ ~(error /\ ready)
  <2>1. GoOn(t, applies, error) /\ UNCHANGED <<ready, recording>>
    BY <1>3 DEF Decide
  <2>2. CASE Line(applies) /\ task' = [task EXCEPT ![t] = Idle]
    <3>1. Idle \in Coroutine /\ Idle.pc # "applying"
      BY DEF Coroutine, Idle
    <3>2. UNCHANGED <<base_path, ready, recorderVars>>
      BY <2>1, <2>2, SameLine DEF recorderVars
    <3> QED
      BY <2>2, <3>1, <3>2, GoesOn
  <2>3. CASE Retry(t, applies)
    BY <2>1, <2>3, RetriedNow
  <2> QED
    BY <2>1, <2>2, <2>3 DEF GoOn
<1> QED
  BY <1>1, <1>2, <1>3

-----------------------------------------------------------------------------
LEMMA AtStart ==
  ASSUME Init
  PROVE  IInv
<1>1. Idle \in Coroutine
  BY DEF Coroutine
<1>2. Backoff
  <2>1. 0 \in 0 .. AUTO_RECONNECT_MAX_SKIP_CYCLES
    BY CapAssumption
  <2> QED
    BY <2>1 DEF Init, Backoff
<1>3. Coroutines
  BY <1>1 DEF Init, Coroutines
<1>4. Queue /\ Latest
  <2>1. applies = <<>> /\ recording = Nowhere /\ ready = FALSE
    BY DEF Init
  <2>2. applies \in Seq(Apply) /\ DOMAIN applies = {}
    BY <2>1
  <2> QED
    BY <2>1, <2>2 DEF Init, Queue, InOrder, Latest, Known, Meant
<1> QED
  BY <1>2, <1>3, <1>4 DEF IInv

LEMMA OneApplyLess ==
  ASSUME IInv, ApplyDone
  PROVE  IInv'
<1> USE DEF IInv
<1>1. PICK a, line : a = Head(applies) /\ line = Tail(applies)
  OBVIOUS
<1>2. /\ applies # <<>>
      /\ UNCHANGED <<base_path, storageVars, worldVars, calls>>
  BY DEF ApplyDone
<1>3. \/ /\ recording' = a.loc
         /\ GoOn(a.task, line, storage_error)
      \/ /\ recording' = a.loc \/ (a.cut /\ recording' = recording)
         /\ Line(line)
         /\ \E c : /\ task' = [task EXCEPT ![a.task] = c]
                   /\ c = Probing(base_path, FALSE) \/ c = Idle
  <2>1. \/ /\ recording' = a.loc
           /\ IF task[a.task].then = "cycle" THEN GoOn(a.task, line, storage_error)
              ELSE /\ Line(line)
                   /\ task' = [task EXCEPT ![a.task] =
                        IF task[a.task].then = "refresh" THEN Probing(base_path, FALSE) ELSE Idle]
        \/ a.cut /\ Line(line) /\ task' = [task EXCEPT ![a.task] = Idle] /\ recording' = recording
    BY <1>1 DEF ApplyDone
  <2>2. CASE task[a.task].then = "refresh"
    BY <2>1, <2>2
  <2>3. CASE task[a.task].then # "refresh"
    BY <2>1, <2>3
  <2> QED
    BY <2>2, <2>3
<1>4. /\ 1 \in DOMAIN applies /\ a = applies[1] /\ Len(applies) \in Nat \ {0}
      /\ DOMAIN applies = 1 .. Len(applies)
  BY <1>1, <1>2 DEF Queue, InOrder
<1>5. /\ line \in Seq(Apply) /\ Len(line) = Len(applies) - 1
      /\ DOMAIN line = 1 .. Len(line)
      /\ \A i \in DOMAIN line : i + 1 \in DOMAIN applies /\ line[i] = applies[i + 1]
  BY <1>1, <1>2 DEF Queue, InOrder
<1>6. a.task \in Tasks /\ a.loc \in Locations
  BY <1>4, InLine
<1>7. \A i \in DOMAIN line : /\ line[i].task \in Tasks /\ line[i].task # a.task
                             /\ ~line[i].cut
  <2> SUFFICES ASSUME NEW i \in DOMAIN line
               PROVE  line[i].task \in Tasks /\ line[i].task # a.task /\ ~line[i].cut
    OBVIOUS
  <2>1. i + 1 # 1
    BY <1>5
  <2> QED
    BY <1>4, <1>5, <2>1, InLine DEF Queue, InOrder
<1>8. InOrder(line, task)
  <2>1. \A i \in DOMAIN line : task[line[i].task].pc = "applying"
    BY <1>5 DEF Queue, InOrder
  <2>2. \A i, j \in DOMAIN line : line[i].task = line[j].task => i = j
    BY <1>5 DEF Queue, InOrder
  <2> QED
    BY <1>5, <1>7, <2>1, <2>2 DEF InOrder
<1>9. Meant(line, base_path)
  <2> SUFFICES ASSUME NEW i \in DOMAIN line
               PROVE  \/ line[i].loc = base_path \/ line[i].older
                      \/ \E j \in DOMAIN line : j > i /\ line[j].loc # line[i].loc
    BY DEF Meant
  <2>1. \/ applies[i + 1].loc = base_path \/ applies[i + 1].older
        \/ \E j \in DOMAIN applies : j > i + 1 /\ applies[j].loc # applies[i + 1].loc
    BY <1>5 DEF Latest, Meant
  <2>2. ASSUME NEW j \in DOMAIN applies, j > i + 1, applies[j].loc # applies[i + 1].loc
        PROVE  \E k \in DOMAIN line : k > i /\ line[k].loc # line[i].loc
    <3>1. j - 1 \in DOMAIN line /\ (j - 1) + 1 = j /\ j - 1 > i
      BY <1>4, <1>5, <2>2
    <3>2. line[j - 1] = applies[j]
      BY <1>5, <3>1
    <3>3. line[i] = applies[i + 1]
      BY <1>5
    <3> QED
      BY <2>2, <3>1, <3>2, <3>3
  <2> QED
    BY <1>5, <2>1, <2>2
<1>10. /\ a.cut => latest = Nowhere
       /\ ~a.cut => latest = a.loc /\ overtaken = a.older
       /\ ready => ~applies[Len(applies)].cut
  BY <1>2, <1>4 DEF Latest
<1>11. \/ a.loc = base_path \/ a.older
       \/ \E i \in DOMAIN line : line[i].loc # a.loc
  <2>1. \/ a.loc = base_path \/ a.older
        \/ \E j \in DOMAIN applies : j > 1 /\ applies[j].loc # a.loc
    BY <1>4 DEF Latest, Meant
  <2>2. ASSUME NEW j \in DOMAIN applies, j > 1, applies[j].loc # a.loc
        PROVE  \E i \in DOMAIN line : line[i].loc # a.loc
    <3>1. j - 1 \in DOMAIN line /\ (j - 1) + 1 = j
      BY <1>4, <1>5, <2>2
    <3>2. line[j - 1] = applies[j]
      BY <1>5, <3>1
    <3> QED
      BY <2>2, <3>1, <3>2
  <2> QED
    BY <2>1, <2>2
<1>12. Backoff'
  BY <1>2 DEF Backoff, storageVars, worldVars
<1>13. ready' = ready /\ base_path' = base_path
  BY <1>2 DEF storageVars
<1>14. recording' \in Locations \cup {Nowhere}
  <2>1. recording' = a.loc \/ recording' = recording
    BY <1>3
  <2> QED
    BY <1>6, <2>1 DEF Latest, Known
<1>15. CASE Retry(a.task, line)
  <2>1. latest = a.loc /\ overtaken = a.older
    BY <1>10, <1>15 DEF Retry
  <2>2. line # <<>> => ~line[1].cut \/ latest = Nowhere
    BY <1>5, <1>7
  <2>3. latest = base_path \/ overtaken \/ \E i \in DOMAIN line : line[i].loc # latest
    BY <1>11, <2>1
  <2>4. Coroutines /\ Known /\ \A i \in DOMAIN line : line[i].task # a.task
    BY <1>7 DEF Latest
  <2>5. Coroutines' /\ Queue' /\ Latest'
    BY <1>6, <1>8, <1>9, <1>13, <1>14, <1>15, <2>2, <2>3, <2>4, Retried
  <2> QED
    BY <1>12, <2>5
<1>16. ASSUME NEW c, c = Probing(base_path, FALSE) \/ c = Idle,
              task' = [task EXCEPT ![a.task] = c], Line(line),
              recording' = a.loc \/ (a.cut /\ recording' = recording)
       PROVE  IInv'
  <2>1. c \in Coroutine
    <3>1. base_path \in Locations
      BY DEF Coroutines
    <3>2. Probing(base_path, FALSE) \in Coroutine
      BY <3>1 DEF Coroutine, Probing
    <3>3. Idle \in Coroutine
      BY DEF Coroutine
    <3> QED
      BY <1>16, <3>2, <3>3
  <2>2. Coroutines'
    BY <1>6, <1>13, <1>16, <2>1 DEF Coroutines
  <2>3. applies' = line /\ \A i \in DOMAIN line : task'[line[i].task] = task[line[i].task]
    BY <1>6, <1>7, <1>16 DEF Line, Coroutines
  <2>4. Queue'
    BY <1>8, <2>3 DEF Queue, InOrder
  <2>5. CASE line = <<>>
    <3>1. /\ latest' = latest /\ overtaken' = overtaken /\ a = applies[Len(applies)]
          /\ DOMAIN line = {}
      BY <1>4, <1>5, <1>16, <2>5 DEF Line
    <3>2. latest = Nowhere \/ latest = base_path \/ overtaken
      BY <1>10, <1>11, <3>1
    <3>3. ready => latest = a.loc /\ recording' = a.loc /\ a.loc # Nowhere
      BY <1>6, <1>10, <1>16, <3>1, LocationsAssumption
    <3>4. Known'
      BY <1>13, <1>14, <3>1 DEF Latest, Known
    <3> QED
      BY <1>9, <1>12, <1>13, <2>2, <2>3, <2>4, <2>5, <3>1, <3>2, <3>3, <3>4 DEF Latest
  <2>6. CASE line # <<>>
    <3>1. 1 \in DOMAIN line /\ Len(line) \in DOMAIN line /\ Head(line) = line[1]
      BY <1>5, <2>6
    <3>2. ~line[1].cut /\ ~line[Len(line)].cut /\ line[1] \in Apply
      BY <1>5, <1>7, <3>1
    <3>3. latest' = line[1].loc /\ overtaken' = line[1].older
      BY <1>16, <2>6, <3>1, <3>2 DEF Line
    <3>4. Known'
      BY <1>13, <1>14, <3>2, <3>3 DEF Latest, Known, Apply
    <3> QED
      BY <1>9, <1>12, <1>13, <2>2, <2>3, <2>4, <2>6, <3>2, <3>3, <3>4 DEF Latest
  <2> QED
    BY <2>5, <2>6
<1>17. CASE GoOn(a.task, line, storage_error) /\ recording' = a.loc
  BY <1>15, <1>16, <1>17 DEF GoOn
<1>18. CASE /\ recording' = a.loc \/ (a.cut /\ recording' = recording)
            /\ Line(line)
            /\ \E c : /\ task' = [task EXCEPT ![a.task] = c]
                      /\ c = Probing(base_path, FALSE) \/ c = Idle
  <2>1. PICK c : /\ task' = [task EXCEPT ![a.task] = c]
                 /\ c = Probing(base_path, FALSE) \/ c = Idle
    BY <1>18, Zenon
  <2> QED
    BY <1>16, <1>18, <2>1
<1> QED
  BY <1>3, <1>17, <1>18

-----------------------------------------------------------------------------
(* The reconcile: what the probe, the lookup and the reload lead to        *)

LEMMA BackoffGrows ==
  ASSUME Backoff
  PROVE  Longer(backoff) \in 0 .. AUTO_RECONNECT_MAX_SKIP_CYCLES
<1>1. AUTO_RECONNECT_MAX_SKIP_CYCLES \in Nat \ {0} /\ backoff \in Nat
  BY CapAssumption DEF Backoff
<1> QED
  BY <1>1 DEF Longer, Smaller, Larger

LEMMA ReconnectTried ==
  ASSUME IInv, NEW t \in Tasks, task[t].pc # "applying", NEW mount,
         AutoReconnect(t, mount), base_path' = base_path
  PROVE  /\ Coroutines' /\ Queue' /\ Latest'
         /\ skip' \in 0 .. AUTO_RECONNECT_MAX_SKIP_CYCLES
         /\ backoff' \in 0 .. AUTO_RECONNECT_MAX_SKIP_CYCLES
<1> USE DEF IInv
<1>1. AUTO_RECONNECT_MAX_SKIP_CYCLES \in Nat
  BY CapAssumption
<1>2. CASE mount = NoMount /\ Decide(t, TRUE, mount) /\ UNCHANGED <<skip, backoff>>
  BY <1>2, Decided DEF Backoff
<1>3. CASE mount # NoMount /\ skip > 0 /\ SitOut /\ Decide(t, TRUE, mount) /\ UNCHANGED backoff
  <2>1. skip' \in 0 .. AUTO_RECONNECT_MAX_SKIP_CYCLES
    BY <1>1, <1>3 DEF Backoff, SitOut
  <2> QED
    BY <1>3, <2>1, Decided DEF Backoff
<1>4. CASE /\ mount # NoMount /\ skip = 0
           /\ skip' = backoff
           /\ backoff' = Longer(backoff)
           /\ task' = [task EXCEPT ![t] = [pc |-> "reloading", auto |-> TRUE]]
           /\ UNCHANGED <<ready, recorderVars>>
  <2> DEFINE c == [pc |-> "reloading", auto |-> TRUE]
  <2>1. c \in Coroutine /\ c.pc # "applying"
    BY DEF Coroutine
  <2>2. Coroutines' /\ Queue' /\ Latest'
    BY <1>4, <2>1, GoesOn
  <2> QED
    BY <1>4, <2>2, BackoffGrows DEF Backoff
<1> QED
  BY <1>2, <1>3, <1>4 DEF AutoReconnect

LEMMA Reconciles ==
  ASSUME IInv, NEW t \in Tasks, ReconcileStep(t)
  PROVE  IInv'
<1> USE DEF IInv
<1>1. AUTO_RECONNECT_MAX_SKIP_CYCLES \in Nat
  BY CapAssumption
<1>2. task[t] \in Coroutine
  BY DEF Coroutines
<1>3. CASE ProbeOk(t)
  <2>1. /\ storage_error' = FALSE /\ reconnect_mount' = NoMount /\ skip' = 0 /\ backoff' = 0
        /\ UNCHANGED <<server, mounted>>
    BY <1>3 DEF ProbeOk, worldVars
  <2>3. Backoff'
    <3>1. 0 \in 0 .. AUTO_RECONNECT_MAX_SKIP_CYCLES
      BY <1>1
    <3> QED
      BY <2>1, <3>1 DEF Backoff
  <2>2. Coroutines' /\ Queue' /\ Latest'
    BY <1>3, Decided DEF ProbeOk
  <2> QED
    BY <2>2, <2>3
<1>4. CASE ProbeFails(t)
  <2> DEFINE c == [pc |-> "looking", loc |-> base_path, again |-> task[t].again]
  <2>1. c \in Coroutine /\ c.pc # "applying"
    BY <1>2, <1>4, CoroutineFields DEF ProbeFails, Coroutine, Coroutines
  <2>2. Coroutines' /\ Queue' /\ Latest'
    BY <1>4, <2>1, GoesOn DEF ProbeFails
  <2>3. Backoff'
    BY <1>4 DEF ProbeFails, Backoff, worldVars
  <2> QED
    BY <2>2, <2>3
<1>5. CASE LookedUp(t)
  <2>1. PICK mount : mount = reconnect_mount'
    OBVIOUS
  <2>2. mount \in {Mount, NoMount}
    BY <1>5, <2>1 DEF LookedUp, MountFor
  <2>3. /\ task[t].pc # "applying"
        /\ UNCHANGED <<base_path, storage_error, server, mounted, calls>>
    BY <1>5 DEF LookedUp
  <2>4. \/ AutoReconnect(t, mount)
        \/ Decide(t, storage_error, mount) /\ UNCHANGED <<skip, backoff>>
    BY <1>5, <2>1 DEF LookedUp
  <2>5. CASE AutoReconnect(t, mount)
    BY <2>1, <2>2, <2>3, <2>5, ReconnectTried DEF Backoff
  <2>6. CASE Decide(t, storage_error, mount) /\ UNCHANGED <<skip, backoff>>
    <3>1. storage_error \in BOOLEAN
      BY DEF Backoff
    <3>2. Coroutines' /\ Queue' /\ Latest'
      BY <2>3, <2>6, <3>1, Decided
    <3> QED
      BY <2>1, <2>2, <2>3, <2>6, <3>2 DEF Backoff
  <2> QED
    BY <2>4, <2>5, <2>6
<1>6. CASE Reloaded(t)
  <2> DEFINE c == Probing(base_path, task[t].auto)
  <2>1. c \in Coroutine /\ c.pc # "applying"
    BY <1>2, <1>6, CoroutineFields DEF Reloaded, Coroutine, Coroutines, Probing
  <2>2. Coroutines' /\ Queue' /\ Latest'
    BY <1>6, <2>1, GoesOn DEF Reloaded, storageVars
  <2>3. Backoff'
    BY <1>6 DEF Reloaded, Backoff, storageVars
  <2> QED
    BY <2>2, <2>3
<1>7. CASE ReloadFails(t)
  <2>1. /\ task[t].pc # "applying"
        /\ UNCHANGED <<base_path, storage_error, reconnect_mount, skip, backoff, server, mounted>>
        /\ \/ Decide(t, storage_error, reconnect_mount)
           \/ /\ task' = [task EXCEPT ![t] = Idle]
              /\ UNCHANGED <<ready, recorderVars>>
    BY <1>7 DEF ReloadFails
  <2>2. Idle \in Coroutine /\ Idle.pc # "applying" /\ storage_error \in BOOLEAN
    BY DEF Coroutine, Idle, Backoff
  <2>3. Coroutines' /\ Queue' /\ Latest'
    BY <2>1, <2>2, GoesOn, Decided
  <2> QED
    BY <2>1, <2>3 DEF Backoff
<1> QED
  BY <1>3, <1>4, <1>5, <1>6, <1>7 DEF ReconcileStep

-----------------------------------------------------------------------------
(* The panel                                                               *)

LEMMA PanelCalls ==
  ASSUME IInv, NEW t \in Panel,
         \/ \E l \in Locations : SaveCall(t, l)
         \/ SetPaused(t) \/ Reconnect(t) \/ Refresh(t) \/ SourceEvent(t)
  PROVE  IInv'
<1> USE DEF IInv
<1> t \in Tasks
  BY DEF Tasks
<1>1. task[t].pc # "applying"
  <2>1. Call(t)
    BY DEF SaveCall, SetPaused, Reconnect, Refresh, SourceEvent
  <2> QED
    BY <2>1 DEF Call, Idle
<1>2. base_path \in Locations
  BY DEF Coroutines
<1>3. ASSUME NEW l \in Locations, SaveCall(t, l)
      PROVE  IInv'
  <2> DEFINE c == [pc |-> "saving", loc |-> l, moved |-> l # base_path]
  <2>1. c \in Coroutine /\ c.pc # "applying"
    BY DEF Coroutine
  <2>2. Coroutines' /\ Queue' /\ Latest'
    BY <1>1, <1>3, <2>1, GoesOn DEF SaveCall, storageVars
  <2> QED
    BY <1>3, <2>2 DEF SaveCall, Backoff, storageVars, worldVars
<1>4. CASE SetPaused(t)
  <2>1. Coroutines' /\ Queue' /\ Latest'
    BY <1>1, <1>2, <1>4, Called DEF SetPaused, storageVars, Latest, Known
  <2> QED
    BY <1>4, <2>1 DEF SetPaused, Backoff, storageVars, worldVars
<1>5. CASE Reconnect(t)
  <2> DEFINE c == [pc |-> "reloading", auto |-> FALSE]
  <2>1. c \in Coroutine /\ c.pc # "applying"
    BY DEF Coroutine
  <2>2. Coroutines' /\ Queue' /\ Latest'
    BY <1>1, <1>5, <2>1, GoesOn DEF Reconnect, storageVars
  <2> QED
    BY <1>5, <2>2 DEF Reconnect, Backoff, storageVars, worldVars
<1>6. CASE Refresh(t)
  <2> DEFINE c == Probing(base_path, FALSE)
  <2>1. c \in Coroutine /\ c.pc # "applying"
    BY <1>2 DEF Coroutine, Probing
  <2>2. Coroutines' /\ Queue' /\ Latest'
    BY <1>1, <1>6, <2>1, GoesOn DEF Refresh, storageVars
  <2> QED
    BY <1>6, <2>2 DEF Refresh, Backoff, storageVars, worldVars
<1>7. CASE SourceEvent(t)
  <2>1. Retry(t, applies) /\ UNCHANGED <<base_path, storageVars, recording, worldVars>>
    BY <1>7 DEF SourceEvent
  <2>2. Coroutines' /\ Queue' /\ Latest'
    BY <1>1, <2>1, RetriedNow DEF storageVars
  <2> QED
    BY <2>1, <2>2 DEF Backoff, storageVars, worldVars
<1> QED
  BY <1>3, <1>4, <1>5, <1>6, <1>7

(* The configuration is stored: from here on its location is meant.        *)
LEMMA ConfigSaved ==
  ASSUME IInv, NEW t \in Tasks, Saved(t)
  PROVE  IInv'
<1> USE DEF IInv
<1>1. task[t].pc = "saving" /\ task[t].loc \in Locations
  BY CoroutineFields DEF Saved, Coroutines
<1>2. PICK l \in Locations : l = task[t].loc
  BY <1>1
<1>3. PICK then \in {"idle", "refresh", "cycle"} :
        then = IF task[t].moved THEN "refresh" ELSE "idle"
  OBVIOUS
<1>4. base_path' = l /\ ready' = TRUE /\ CallApply(t, l, then)
  BY <1>2, <1>3 DEF Saved
<1>5. Coroutines' /\ Queue' /\ Latest'
  BY <1>1, <1>4, Called
<1> QED
  BY <1>5 DEF Saved, Backoff, worldVars

LEMMA EveryStep ==
  ASSUME IInv, [Next]_vars
  PROVE  IInv'
<1>1. CASE Update
  <2> USE DEF IInv
  <2> DEFINE c == Probing(base_path, FALSE)
  <2>1. Cycle \in Tasks /\ task[Cycle].pc # "applying"
    BY <1>1 DEF Update, Tasks, Idle
  <2>2. c \in Coroutine /\ c.pc # "applying"
    BY DEF Coroutine, Probing, Coroutines
  <2>3. Coroutines' /\ Queue' /\ Latest'
    BY <1>1, <2>1, <2>2, GoesOn DEF Update, storageVars
  <2> QED
    BY <1>1, <2>3 DEF Update, Backoff, storageVars, worldVars
<1>2. CASE World
  BY <1>2 DEF IInv, World, Backoff, Coroutines, Queue, Latest, Known, storageVars, recorderVars
<1>3. CASE UNCHANGED vars
  BY <1>3 DEF vars, IInv, Backoff, Coroutines, Queue, Latest, Known, storageVars, worldVars,
              recorderVars
<1> QED
  BY <1>1, <1>2, <1>3, OneApplyLess, Reconciles, ConfigSaved, PanelCalls DEF Next

-----------------------------------------------------------------------------
(* Nobody waits for the recorder any more, so no apply is in line.         *)
LEMMA Delivers ==
  ASSUME IInv
  PROVE  ReadyRecords
<1>1. ASSUME AllIdle
      PROVE  applies = <<>>
  <2> SUFFICES ASSUME applies # <<>>
               PROVE  FALSE
    OBVIOUS
  <2>1. 1 \in DOMAIN applies
    BY DEF IInv, Queue, InOrder
  <2>2. applies[1].task \in Tasks /\ task[applies[1].task].pc = "applying"
    BY <2>1, InLine DEF IInv, Queue, InOrder
  <2> QED
    BY <1>1, <2>2 DEF AllIdle, Idle
<1> QED
  BY <1>1, Types DEF ReadyRecords, RecordsWhatWasApplied, IInv, Latest

LEMMA Invariance == Spec => []IInv
<1>1. Init => IInv
  BY AtStart
<1>2. IInv /\ [Next]_vars => IInv'
  BY EveryStep
<1> QED
  BY <1>1, <1>2, PTL DEF Spec

(* Everything of the coordinator has its type, for any locations and any   *)
(* number of requests; neither the spacing of the reconnects nor what is   *)
(* left of it exceeds the cap.                                             *)
THEOREM TypeCorrect == Spec => []TypeOK
  BY Invariance, Types, PTL

(* However saves, pauses, refreshes, reconnects, retries and cycles        *)
(* overlap, once all are over a coordinator that takes its location for    *)
(* ready records where the recorder was told last, which is the configured *)
(* location unless a retry that had waited behind a save undid the save.   *)
THEOREM ReadyMeansRecording == Spec => []ReadyRecords
  BY Invariance, Delivers, PTL
=============================================================================
