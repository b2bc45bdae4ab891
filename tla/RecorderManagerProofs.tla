------------------------- MODULE RecorderManagerProofs -------------------------
(***************************************************************************)
(* Proofs about RecorderManager, for any streams, configurations, callers  *)
(* and bounds.  The inductive invariant says who may be inside the lock    *)
(* and what it still has to do, where every process is known, and why no   *)
(* stream that should be recorded is forgotten on the way.                 *)
(***************************************************************************)
EXTENDS RecorderManager, FiniteSetTheorems, WellFoundedInduction, TLAPS

Inside(t) == task[t].pc \in {"resolve", "stopping", "replacing"}
Stopping(t) == task[t].pc \in {"stopping", "replacing"}
Waiting(t) == task[t].pc = "wait"

On(o) == obj[o].phase = "on"
Closing(o) == obj[o].phase = "closing"
Listed(s) == <<s, streams[s]>>

Specs == {c.spec[s] : c \in Configs, s \in StreamIds} \ {NoSpec}
Bases == {c.base : c \in Configs}
Gone == [phase |-> "off"]
Process == [phase : {"on", "closing"}, spec : Specs, base : Bases]

Waiter == [pc : {"wait"}, cfg : Configs]
Resolver == [pc : {"resolve"}, cfg : Configs, wanted : SUBSET StreamIds,
             idx : DOMAIN StreamOrder]
Popper == [pc : {"stopping"}, cfg : Configs, cur : Objs,
           todo : SUBSET StreamIds, wanted : SUBSET StreamIds]
Replacer == [pc : {"replacing"}, cfg : Configs, cur : Objs, todo : SUBSET StreamIds]
Stopper == [pc : {"stopall"}, todo : SUBSET Objs]
Coroutine == {Idle} \cup Waiter \cup Resolver \cup Popper \cup Replacer \cup Stopper

Typed ==
  /\ streams \in [StreamIds -> 0 .. Slots]
  /\ obj \in [Objs -> {Gone} \cup Process]
  /\ unresolved \subseteq StreamIds /\ watching \subseteq StreamIds
  /\ latest \in Configs \cup {NoConfig} /\ config \in Configs
  /\ paused \subseteq StreamIds /\ available \subseteq StreamIds
  /\ queue \in Seq(Tasks)
  /\ task \in [Tasks -> Coroutine]

(* Only the holder of the lock is inside, and the others come behind it. *)
OneHolder == \A t \in Tasks : Inside(t) => queue # <<>> /\ Head(queue) = t

(* What the holder goes by is the configuration applied last, unless a     *)
(* stop of everything came since.                                          *)
Plans ==
  \A t \in Tasks :
    LET c == task[t].cfg IN
    /\ Inside(t) => latest \in {c, NoConfig}
    /\ task[t].pc = "resolve" =>
         /\ c.spec[StreamOrder[task[t].idx]] # NoSpec
         /\ \A s \in task[t].wanted : c.spec[s] # NoSpec
    /\ task[t].pc = "stopping" =>
         /\ \A s \in task[t].wanted : c.spec[s] # NoSpec
         /\ task[t].wanted \cap task[t].todo = {}
         /\ streams[task[t].cur[1]] = 0
    /\ task[t].pc = "replacing" =>
         /\ \A s \in task[t].todo \cup {task[t].cur[1]} : c.spec[s] # NoSpec
         /\ task[t].cur[1] \notin task[t].todo
         /\ streams[task[t].cur[1]] \in {0, task[t].cur[2]}

(* Every process is listed, or being stopped by somebody; a stop holds on  *)
(* to one process of a stream at most, and none that records.              *)
Processes ==
  /\ \A o \in Objs : On(o) => Listed(o[1]) = o
  /\ \A s \in StreamIds :
       streams[s] # 0 /\ ~On(Listed(s)) =>
         \E t \in Tasks : task[t].pc = "replacing" /\ task[t].cur = Listed(s)
  /\ \A o \in Objs : Closing(o) =>
       Held(o) \/ \E t \in Tasks : Stopping(t) /\ task[t].cur = o
  /\ \A t \in Tasks : Stopping(t) => ~On(task[t].cur)
  /\ \A t \in Tasks : task[t].pc = "stopall" =>
       /\ \A o \in task[t].todo : ~On(o)
       /\ \A o, r \in task[t].todo : o[1] = r[1] => o = r

(* The stream has its process, or somebody will see to it. *)
Due(t, s) ==
  CASE task[t].pc = "resolve"   -> s \in task[t].wanted \cup unresolved \/ Pos(s) >= task[t].idx
    [] task[t].pc = "stopping"  -> s \in task[t].wanted \cup unresolved
    [] task[t].pc = "replacing" -> s \in task[t].todo \cup unresolved \/ streams[s] # 0
    [] OTHER -> TRUE

Covered ==
  /\ (\A t \in Tasks : ~Inside(t)) /\ latest # NoConfig => watching = unresolved
  /\ \A t \in Tasks : task[t].pc \in {"resolve", "stopping"} /\ latest = NoConfig =>
       \A s \in StreamIds : streams[s] = 0
  /\ \A t \in Tasks : task[t].pc = "stopping" /\ latest # NoConfig =>
       \A s \in task[t].todo : streams[s] # 0
  /\ latest # NoConfig /\ (\A w \in Tasks : ~Waiting(w)) =>
       \A s \in StreamIds : Wanted(latest, s) =>
         /\ (\A t \in Tasks : ~Inside(t)) => streams[s] # 0 \/ s \in unresolved
         /\ \A t \in Tasks : Due(t, s)

IInv == Typed /\ OneHolder /\ Plans /\ Processes /\ Covered

-----------------------------------------------------------------------------
(* Places in the configuration, and free slots                             *)

LEMMA Positions ==
  /\ \A s \in StreamIds : Pos(s) \in DOMAIN StreamOrder /\ StreamOrder[Pos(s)] = s
  /\ \A i \in DOMAIN StreamOrder : StreamOrder[i] \in StreamIds /\ Pos(StreamOrder[i]) = i
  /\ \A s \in StreamIds : Pos(s) \in Nat \ {0}
<1>1. \A s \in StreamIds : Pos(s) \in DOMAIN StreamOrder /\ StreamOrder[Pos(s)] = s
  BY DEF Pos, StreamIds
<1> QED
  BY <1>1, OrderAssumption DEF StreamIds

LEMMA Least ==
  ASSUME NEW S \in SUBSET Nat, S # {}
  PROVE  \E m \in S : \A k \in S : m <= k
<1>1. PICK m \in S : \A k \in S : ~ (<<k, m>> \in OpToRel(<, Nat))
  BY NatLessThanWellFounded, WFMin, Zenon
<1>2. \A k \in S : ~ (k < m)
  BY <1>1 DEF OpToRel
<1> QED
  BY <1>2

(* Whoever stops everything holds on to one process of a stream at most,   *)
(* and the one that launches is not among them.                            *)
LEMMA FreeSlots ==
  ASSUME Typed, NEW t \in Tasks, task[t].pc # "stopall", NEW s \in StreamIds,
         \A w \in Tasks : task[w].pc = "stopall" =>
           \A o, r \in task[w].todo : o[1] = r[1] => o = r,
         \A k \in 1 .. Slots : ~Absent(<<s, k>>) => Held(<<s, k>>)
  PROVE  /\ FreeSlot(s) \in 1 .. Slots
         /\ Absent(<<s, FreeSlot(s)>>) /\ ~Held(<<s, FreeSlot(s)>>)
<1> SUFFICES ASSUME \A k \in 1 .. Slots : Held(<<s, k>>) PROVE FALSE
  BY DEF FreeSlot
<1> DEFINE f == [k \in 1 .. Slots |->
                   CHOOSE w \in Tasks : task[w].pc = "stopall" /\ <<s, k>> \in task[w].todo]
<1>1. \A k \in 1 .. Slots : /\ f[k] \in Tasks \ {t}
                            /\ task[f[k]].pc = "stopall" /\ <<s, k>> \in task[f[k]].todo
  <2> TAKE k \in 1 .. Slots
  <2>1. \E w \in Tasks : task[w].pc = "stopall" /\ <<s, k>> \in task[w].todo
    BY DEF Held
  <2> QED
    BY <2>1
<1>2. f \in [1 .. Slots -> Tasks \ {t}]
  BY <1>1
<1> HIDE DEF f
<1>3. /\ IsFiniteSet(Tasks \ {t})
      /\ Cardinality(Tasks \ {t}) = Cardinality(Tasks) - 1 /\ Cardinality(Tasks) \in Nat
  BY FS_RemoveElement, FS_CardinalityType, TasksAssumption
<1>4. IsFiniteSet(1 .. Slots) /\ Cardinality(1 .. Slots) = Slots
  BY FS_Interval, SlotsAssumption
<1>5. Cardinality(Tasks \ {t}) < Cardinality(1 .. Slots)
  BY <1>3, <1>4, SlotsAssumption
<1>6. \E j, k \in 1 .. Slots : j # k /\ f[j] = f[k]
  <2> DEFINE S == 1 .. Slots
             T == Tasks \ {t}
  <2>1. IsFiniteSet(S) /\ IsFiniteSet(T) /\ Cardinality(T) < Cardinality(S) /\ f \in [S -> T]
    BY <1>2, <1>3, <1>4, <1>5
  <2> HIDE DEF S, T
  <2>2. \E j, k \in S : j # k /\ f[j] = f[k]
    BY <2>1, FS_PigeonHole
  <2> QED
    BY <2>2 DEF S
<1> PICK j \in 1 .. Slots, k \in 1 .. Slots : j # k /\ f[j] = f[k]
  BY <1>6
<1>7. PICK w \in Tasks : w = f[j]
  BY <1>1
<1> QED
  BY <1>1, <1>7

-----------------------------------------------------------------------------
(* Before the second half of an apply: the lock is t's, and what it was    *)
(* waiting for has been stopped, which is why the streams in `must` have   *)
(* no process.                                                             *)
Ready(t, must) ==
  /\ \A w \in Tasks \ {t} : ~Inside(w)
  /\ task[t].pc # "stopall"
  /\ \A o \in Objs : On(o) => Listed(o[1]) = o
  /\ \A s \in StreamIds : streams[s] # 0 => (On(Listed(s)) <=> s \notin must)
  /\ \A o \in Objs : Closing(o) => Held(o)
  /\ \A w \in Tasks : task[w].pc = "stopall" =>
       /\ \A o \in task[w].todo : ~On(o)
       /\ \A o, r \in task[w].todo : o[1] = r[1] => o = r

LEMMA ReadyToGo ==
  ASSUME Typed, OneHolder, Plans, Processes, NEW t \in Tasks
  PROVE  /\ queue = <<>> /\ task[t] = Idle => Ready(t, {})
         /\ task[t].pc = "wait" /\ Head(queue) = t => Ready(t, {})
         /\ task[t].pc = "resolve" => Ready(t, {})
         /\ task[t].pc = "stopping" /\ StopOver(task[t].cur) => Ready(t, {})
         /\ task[t].pc = "replacing" /\ StopOver(task[t].cur) => Ready(t, {task[t].cur[1]})
<1>1. Inside(t) \/ Head(queue) = t \/ queue = <<>> => \A w \in Tasks \ {t} : ~Inside(w)
  BY DEF OneHolder
<1>2. ASSUME \A w \in Tasks \ {t} : ~Inside(w), task[t].pc \in {"idle", "wait", "resolve"}
      PROVE  Ready(t, {})
  BY <1>2 DEF Ready, Processes, Inside, Stopping
<1>3. ASSUME \A w \in Tasks \ {t} : ~Inside(w), task[t].pc = "stopping", StopOver(task[t].cur)
      PROVE  Ready(t, {})
  BY <1>3 DEF Ready, Processes, Inside, Stopping, StopOver, On, Closing
<1>4. ASSUME \A w \in Tasks \ {t} : ~Inside(w), task[t].pc = "replacing", StopOver(task[t].cur)
      PROVE  Ready(t, {task[t].cur[1]})
  <2> PICK cur \in Objs : cur = task[t].cur
    BY <1>4 DEF Typed, Coroutine, Idle, Waiter, Resolver, Popper, Replacer, Stopper
  <2>1. ~On(cur) /\ ~Closing(cur) /\ streams[cur[1]] \in {0, cur[2]} /\ cur = <<cur[1], cur[2]>>
    BY <1>4 DEF StopOver, On, Closing, Plans, Objs
  <2>2. \A s \in StreamIds : streams[s] # 0 => (On(Listed(s)) <=> s # cur[1])
    BY <1>4, <2>1 DEF Processes, Inside, Listed
  <2> QED
    BY <1>4, <2>1, <2>2 DEF Ready, Processes, Inside, Stopping
<1> QED
  BY <1>1, <1>2, <1>3, <1>4 DEF Idle, Inside

-----------------------------------------------------------------------------
(* The second loop.  What it does, with the streams that get a process as  *)
(* `new`, their slots, and the one that has to be stopped first, if any.   *)
Launched(t, c, todo, must, u, q, new, slot) ==
  /\ must \subseteq new
  /\ \A s \in new : /\ s \in must \/ streams[s] = 0
                    /\ Absent(<<s, slot[s]>>) /\ ~Held(<<s, slot[s]>>)
  /\ streams' = [s \in StreamIds |-> IF s \in new THEN slot[s] ELSE streams[s]]
  /\ \/ /\ \A s \in todo : s \in new \/ streams[s] # 0
        /\ obj' = [o \in Objs |->
             IF o[1] \in new /\ o[2] = slot[o[1]]
             THEN [phase |-> "on", spec |-> c.spec[o[1]], base |-> c.base]
             ELSE obj[o]]
        /\ Finish(t, u, q)
     \/ \E f \in todo \ new :
          /\ streams[f] # 0 /\ ~Keeps(c, f)
          /\ obj' = [o \in Objs |->
               IF o[1] \in new /\ o[2] = slot[o[1]]
               THEN [phase |-> "on", spec |-> c.spec[o[1]], base |-> c.base]
               ELSE IF o = Listed(f) THEN [obj[o] EXCEPT !.phase = "closing"]
               ELSE obj[o]]
          /\ \A s \in todo : s \in new \/ streams[s] # 0 \/ Pos(s) > Pos(f)
          /\ task' = [task EXCEPT ![t] =
               [pc |-> "replacing", cfg |-> c, cur |-> Listed(f),
                todo |-> {s \in todo : Pos(s) > Pos(f)}]]
          /\ queue' = q /\ UNCHANGED watching

LEMMA Launching ==
  ASSUME Typed, NEW t \in Tasks, NEW must \in SUBSET StreamIds, Ready(t, must),
         NEW c \in Configs, NEW todo \in SUBSET StreamIds, todo \cap must = {},
         NEW u, NEW q, Launch(t, c, todo, must, u, q)
  PROVE  \E new \in SUBSET (todo \cup must), slot \in [StreamIds -> 1 .. Slots] :
           Launched(t, c, todo, must, u, q, new, slot)
<1> DEFINE clash == {s \in todo : streams[s] # 0 /\ ~Keeps(c, s)}
           first == CHOOSE s \in clash : \A r \in clash : Pos(s) <= Pos(r)
           ready == {s \in todo : clash = {} \/ Pos(s) < Pos(first)}
           new   == must \cup {s \in ready : streams[s] = 0}
           fresh == {<<s, FreeSlot(s)>> : s \in new}
           slot  == [s \in StreamIds |-> IF s \in new THEN FreeSlot(s) ELSE CHOOSE k \in 1 .. Slots : TRUE]
<1>1. /\ streams' = [s \in StreamIds |-> IF s \in new THEN FreeSlot(s) ELSE streams[s]]
      /\ obj' = [o \in Objs |->
           CASE o \in fresh -> [phase |-> "on", spec |-> c.spec[o[1]], base |-> c.base]
             [] clash # {} /\ o = <<first, streams[first]>> -> [obj[o] EXCEPT !.phase = "closing"]
             [] OTHER -> obj[o]]
      /\ clash = {} => Finish(t, u, q)
      /\ clash # {} =>
           /\ task' = [task EXCEPT ![t] =
                [pc |-> "replacing", cfg |-> c, cur |-> <<first, streams[first]>>,
                 todo |-> {s \in todo : Pos(s) > Pos(first)}]]
           /\ queue' = q /\ UNCHANGED watching
  BY DEF Launch
<1>2. clash # {} => first \in clash
  <2> HAVE clash # {}
  <2>1. {Pos(s) : s \in clash} \in SUBSET Nat /\ {Pos(s) : s \in clash} # {}
    BY Positions
  <2>2. PICK m \in {Pos(s) : s \in clash} : \A k \in {Pos(s) : s \in clash} : m <= k
    BY <2>1, Least
  <2>3. \E s \in clash : \A r \in clash : Pos(s) <= Pos(r)
    BY <2>2
  <2> HIDE DEF clash
  <2> QED
    BY <2>3
<1>3. /\ \A s \in new : s \in must \/ streams[s] = 0
      /\ \A s \in todo : clash = {} => s \in new \/ streams[s] # 0
      /\ \A s \in clash : s \notin new /\ streams[s] # 0 /\ ~Keeps(c, s) /\ s \in todo
      /\ new \in SUBSET (todo \cup must) /\ must \subseteq new
  OBVIOUS
<1>4. clash # {} => \A s \in todo : s \in new \/ streams[s] # 0 \/ Pos(s) > Pos(first)
  <2> HAVE clash # {}
  <2> TAKE s \in todo
  <2>1. s \in StreamIds /\ first \in StreamIds
    BY <1>2
  <2>2. Pos(s) < Pos(first) \/ Pos(s) = Pos(first) \/ Pos(s) > Pos(first)
    BY <2>1, Positions
  <2>3. Pos(s) = Pos(first) => s = first
    BY <2>1, Positions
  <2>4. streams[first] # 0
    BY <1>2
  <2> HIDE DEF first, clash
  <2> QED
    BY <2>2, <2>3, <2>4
<1> HIDE DEF clash, first, new
<1>5. \A s \in new : /\ FreeSlot(s) \in 1 .. Slots
                     /\ Absent(<<s, FreeSlot(s)>>) /\ ~Held(<<s, FreeSlot(s)>>)
  <2> TAKE s \in new
  <2>1. s \in StreamIds
    BY <1>3
  <2>2. ASSUME NEW k \in 1 .. Slots, ~Absent(<<s, k>>) PROVE Held(<<s, k>>)
    <3>1. <<s, k>> \in Objs /\ (On(<<s, k>>) \/ Closing(<<s, k>>))
      <4>1. <<s, k>> \in Objs
        BY <2>1 DEF Objs
      <4>2. obj[<<s, k>>] \in {Gone} \cup Process
        BY <4>1 DEF Typed
      <4> QED
        BY <2>2, <4>1, <4>2 DEF Gone, Process, On, Closing, Absent
    <3>2. CASE On(<<s, k>>)
      <4>1. streams[s] = k /\ streams[s] # 0 /\ Listed(s) = <<s, k>>
        BY <3>1, <3>2 DEF Ready, Listed
      <4> QED
        BY <1>3, <2>1, <3>2, <4>1 DEF Ready
    <3> QED
      BY <3>1, <3>2 DEF Ready
  <2> QED
    BY <2>1, <2>2, FreeSlots DEF Ready
<1>6. slot \in [StreamIds -> 1 .. Slots] /\ \A s \in new : slot[s] = FreeSlot(s)
  <2>1. 1 \in 1 .. Slots
    <3>1. Cardinality(Tasks) # 0 /\ Cardinality(Tasks) \in Nat
      BY FS_EmptySet, FS_CardinalityType, TasksAssumption
    <3> QED
      BY <3>1, SlotsAssumption
  <2> QED
    BY <1>3, <1>5, <2>1
<1>7. \A o \in Objs : o \in fresh <=> o[1] \in new /\ o[2] = slot[o[1]]
  BY <1>6 DEF Objs
<1> HIDE DEF slot, fresh
<1>8. CASE clash = {}
  <2>1. obj' = [o \in Objs |->
          IF o[1] \in new /\ o[2] = slot[o[1]]
          THEN [phase |-> "on", spec |-> c.spec[o[1]], base |-> c.base]
          ELSE obj[o]]
    BY <1>1, <1>7, <1>8
  <2>2. streams' = [s \in StreamIds |-> IF s \in new THEN slot[s] ELSE streams[s]]
    BY <1>1, <1>6
  <2> USE <1>3, <1>6
  <2> WITNESS new \in SUBSET (todo \cup must), slot \in [StreamIds -> 1 .. Slots]
  <2> QED
    BY <1>1, <1>3, <1>5, <1>6, <1>8, <2>1, <2>2 DEF Launched
<1>9. CASE clash # {}
  <2>1. obj' = [o \in Objs |->
          IF o[1] \in new /\ o[2] = slot[o[1]]
          THEN [phase |-> "on", spec |-> c.spec[o[1]], base |-> c.base]
          ELSE IF o = Listed(first) THEN [obj[o] EXCEPT !.phase = "closing"]
          ELSE obj[o]]
    <3> DEFINE on(o) == [phase |-> "on", spec |-> c.spec[o[1]], base |-> c.base]
               off(o) == [obj[o] EXCEPT !.phase = "closing"]
               is(o) == o[1] \in new /\ o[2] = slot[o[1]]
    <3> HIDE DEF on, off, is
    <3>1. obj' = [o \in Objs |-> CASE o \in fresh -> on(o)
                                 [] clash # {} /\ o = Listed(first) -> off(o)
                                 [] OTHER -> obj[o]]
      BY <1>1, Zenon DEF Listed, on, off
    <3>2. obj' = [o \in Objs |-> IF is(o) THEN on(o) ELSE IF o = Listed(first) THEN off(o) ELSE obj[o]]
      <4>1. \A o \in Objs : o \in fresh <=> is(o)
        BY <1>7 DEF is
      <4>2. \A o \in Objs :
              (CASE o \in fresh -> on(o)
                 [] clash # {} /\ o = Listed(first) -> off(o)
                 [] OTHER -> obj[o])
              = IF is(o) THEN on(o) ELSE IF o = Listed(first) THEN off(o) ELSE obj[o]
        <5> TAKE o \in Objs
        <5>1. is(o) => o # Listed(first)
          BY <1>2, <1>3, <1>9 DEF is, Listed
        <5> QED
          BY <1>9, <4>1, <5>1
      <4> QED
        BY <3>1, <4>2
    <3> QED
      BY <3>2, Zenon DEF on, off, is
  <2>2. streams' = [s \in StreamIds |-> IF s \in new THEN slot[s] ELSE streams[s]]
    BY <1>1, <1>6
  <2>3. first \in todo \ new /\ streams[first] # 0 /\ ~Keeps(c, first)
    BY <1>2, <1>3, <1>9
  <2>4. /\ task' = [task EXCEPT ![t] =
                [pc |-> "replacing", cfg |-> c, cur |-> Listed(first),
                 todo |-> {s \in todo : Pos(s) > Pos(first)}]]
        /\ queue' = q /\ UNCHANGED watching
    BY <1>1, <1>9 DEF Listed
  <2> USE <1>3, <1>6
  <2> WITNESS new \in SUBSET (todo \cup must), slot \in [StreamIds -> 1 .. Slots]
  <2> QED
    BY <1>3, <1>4, <1>5, <1>6, <1>9, <2>1, <2>2, <2>3, <2>4 DEF Launched
<1> QED
  BY <1>8, <1>9

-----------------------------------------------------------------------------
(* What an apply finds and leaves around its loops: it goes by c, and u is *)
(* what it could not resolve.                                              *)
Around(c, u) ==
  /\ unresolved' = u /\ u \subseteq StreamIds
  /\ latest' \in {c, NoConfig}
  /\ config' \in Configs /\ paused' \subseteq StreamIds /\ available' \subseteq StreamIds

Lock(t, q) == q \in Seq(Tasks) /\ q # <<>> /\ Head(q) = t

NoOther(t) == \A w \in Tasks \ {t} : ~Waiting(w)
Wants(c, s) == c.spec[s] # NoSpec /\ s \notin paused'

Excused(o, t) ==
  /\ On(o) /\ obj'[o].phase = "closing"
  /\ task'[t].pc \in {"stopping", "replacing"} /\ task'[t].cur = o
  => LET c == task'[t].cfg IN
     \/ c.spec[o[1]] # obj[o].spec
     \/ c.base # obj[o].base
     \/ o[1] \in paused'
     \/ o[1] \in unresolved'
     \/ \E w \in Tasks : task'[w].pc = "wait"

(* The lists of an apply that is under way say which streams they are of.  *)
LEMMA TaskTypes ==
  ASSUME Typed, NEW t \in Tasks
  PROVE  /\ task[t].pc = "idle" => task[t] = Idle
         /\ task[t].pc \in {"wait", "resolve", "stopping", "replacing"} => task[t].cfg \in Configs
         /\ task[t].pc \in {"resolve", "stopping"} => task[t].wanted \subseteq StreamIds
         /\ task[t].pc \in {"stopping", "replacing"} =>
              task[t].cur \in Objs /\ task[t].todo \subseteq StreamIds
         /\ task[t].pc = "resolve" => task[t].idx \in DOMAIN StreamOrder
         /\ task[t].pc = "stopall" => task[t].todo \subseteq Objs
<1>1. task[t] \in Coroutine
  BY DEF Typed
<1> QED
  BY <1>1 DEF Coroutine, Idle, Waiter, Resolver, Popper, Replacer, Stopper

(* Whoever launches leaves everything known and nothing forgotten.         *)
LEMMA LaunchKeeps ==
  ASSUME Typed, NEW t \in Tasks, NEW must \in SUBSET StreamIds, Ready(t, must),
         NEW c \in Configs, NEW todo \in SUBSET StreamIds, todo \cap must = {},
         NEW u, NEW q, Launch(t, c, todo, must, u, q), Around(c, u), Lock(t, q),
         \A s \in todo \cup must : c.spec[s] # NoSpec,
         latest' # NoConfig /\ NoOther(t) =>
           \A s \in StreamIds : Wants(c, s) => s \in u \cup todo \cup must \/ streams[s] # 0
  PROVE  IInv' /\ \A o \in Objs, w \in Tasks : Excused(o, w)
<1> PICK new \in SUBSET (todo \cup must), slot \in [StreamIds -> 1 .. Slots] :
      Launched(t, c, todo, must, u, q, new, slot)
  BY Launching
<1> DEFINE Fresh(o) == o[1] \in new /\ o[2] = slot[o[1]]
           on(o) == [phase |-> "on", spec |-> c.spec[o[1]], base |-> c.base]
<1>1. /\ streams' \in [StreamIds -> 0 .. Slots]
      /\ \A s \in StreamIds : streams'[s] = IF s \in new THEN slot[s] ELSE streams[s]
      /\ \A s \in new : streams'[s] # 0
  BY SlotsAssumption DEF Typed, Launched
<1>2. \A o \in Objs : o[1] \in StreamIds /\ o[2] \in 1 .. Slots /\ o = <<o[1], o[2]>>
  BY DEF Objs
<1>3. \A o \in Objs : Fresh(o) => Absent(o) /\ ~Held(o)
  BY <1>2 DEF Launched
<1>4. \A o \in Objs : Fresh(o) => on(o) \in Process /\ on(o).phase = "on"
  BY <1>2 DEF Process, Specs, Bases
<1>5. \A o \in Objs : obj[o] \in {Gone} \cup Process
  BY DEF Typed
<1>6. \A s \in StreamIds : streams[s] # 0 => Listed(s) \in Objs
  BY DEF Typed, Listed, Objs
(* streams without a process are those of `must` *)
<1>7. \A o \in Objs : On(o) => o[1] \notin new
  <2> SUFFICES ASSUME NEW o \in Objs, On(o), o[1] \in new PROVE FALSE
    OBVIOUS
  <2>1. Listed(o[1]) = o /\ o[1] \in StreamIds
    BY <1>2 DEF Ready
  <2>2. streams[o[1]] = o[2]
    BY <1>2, <2>1 DEF Listed
  <2>3. streams[o[1]] # 0 /\ o[1] \notin must
    BY <1>2, <2>1, <2>2 DEF Ready
  <2> QED
    BY <2>3 DEF Launched
<1>8. /\ \A w \in Tasks \ {t} : ~Inside(w)
      /\ \A o \in Objs : Closing(o) => Held(o)
      /\ task[t].pc # "stopall" /\ task \in [Tasks -> Coroutine]
  BY DEF Ready, Typed
<1> HIDE DEF Fresh, on
<1>9. /\ latest' \in Configs \cup {NoConfig} /\ config' \in Configs
      /\ unresolved' = u /\ u \subseteq StreamIds /\ paused' \subseteq StreamIds
      /\ available' \subseteq StreamIds
  BY DEF Around
<1>10. ASSUME \A s \in todo : s \in new \/ streams[s] # 0,
              obj' = [o \in Objs |-> IF Fresh(o) THEN on(o) ELSE obj[o]],
              Finish(t, u, q)
       PROVE  IInv' /\ \A o \in Objs, w \in Tasks : Excused(o, w)
  <2>1. /\ watching' = u /\ queue' = Tail(q)
        /\ task' \in [Tasks -> Coroutine]
        /\ task'[t] = Idle /\ \A w \in Tasks \ {t} : task'[w] = task[w]
    BY <1>8, <1>10 DEF Finish, Coroutine
  <2>2. \A w \in Tasks : ~Inside(w)'
    BY <1>8, <2>1 DEF Inside, Idle
  <2>3. /\ obj' \in [Objs -> {Gone} \cup Process]
        /\ \A o \in Objs : obj'[o] = IF Fresh(o) THEN on(o) ELSE obj[o]
    BY <1>4, <1>5, <1>10
  <2>4. \A o \in Objs : On(o)' <=> Fresh(o) \/ On(o)
    BY <1>4, <2>3 DEF On
  <2>5. \A o \in Objs : Closing(o)' => Closing(o)
    BY <1>4, <2>3 DEF Closing
  <2>6. Typed'
    <3>1. queue' \in Seq(Tasks)
      BY <2>1 DEF Lock
    <3> QED
      BY <1>1, <1>9, <2>1, <2>3, <3>1 DEF Typed
  <2>7. OneHolder' /\ Plans'
    BY <2>2 DEF OneHolder, Plans, Inside
  <2>8. Processes'
    <3>1. ASSUME NEW o \in Objs, On(o)' PROVE (Listed(o[1]) = o)'
      <4>1. CASE Fresh(o)
        BY <1>1, <1>2, <4>1 DEF Fresh, Listed
      <4>2. CASE On(o)
        <5>1. o[1] \notin new /\ Listed(o[1]) = o /\ o[1] \in StreamIds
          BY <1>2, <1>7, <4>2 DEF Ready
        <5> QED
          BY <1>1, <5>1 DEF Listed
      <4> QED
        BY <2>4, <3>1, <4>1, <4>2
    <3>2. ASSUME NEW s \in StreamIds, streams'[s] # 0 PROVE On(Listed(s))'
      <4>1. CASE s \in new
        <5>1. <<s, slot[s]>> \in Objs /\ Fresh(<<s, slot[s]>>)
          BY <4>1 DEF Objs, Fresh
        <5> QED
          BY <1>1, <2>4, <4>1, <5>1 DEF Listed, On
      <4>2. CASE s \notin new
        <5>1. streams[s] # 0 /\ streams'[s] = streams[s] /\ s \notin must
          BY <1>1, <3>2, <4>2 DEF Launched
        <5>2. On(Listed(s)) /\ Listed(s) \in Objs
          BY <1>6, <5>1 DEF Ready
        <5> QED
          BY <2>4, <5>1, <5>2 DEF Listed, On
      <4> QED
        BY <4>1, <4>2
    <3>3. ASSUME NEW o \in Objs, Closing(o)' PROVE Held(o)'
      BY <1>8, <2>1, <2>5, <3>3 DEF Held
    <3>4. ASSUME NEW w \in Tasks, task'[w].pc = "stopall"
          PROVE  /\ \A o \in task'[w].todo : ~On(o)'
                 /\ \A o, r \in task'[w].todo : o[1] = r[1] => o = r
      <4>1. w # t /\ task'[w] = task[w]
        BY <2>1, <3>4 DEF Idle
      <4>2. \A o \in task[w].todo : o \in Objs /\ ~On(o) /\ Held(o)
        BY <3>4, <4>1, TaskTypes DEF Ready, Held
      <4> QED
        BY <1>3, <2>4, <3>4, <4>1, <4>2 DEF Ready
    <3> QED
      BY <2>2, <3>1, <3>2, <3>3, <3>4 DEF Processes, Stopping, Inside
  <2>9. Covered'
    <3>1. ASSUME \A w \in Tasks : ~Waiting(w)', latest' # NoConfig,
                 NEW s \in StreamIds, Wants(c, s)
          PROVE  streams'[s] # 0 \/ s \in unresolved'
      <4>1. NoOther(t)
        BY <2>1, <3>1 DEF NoOther, Waiting
      <4>2. s \in u \cup todo \cup must \/ streams[s] # 0
        BY <3>1, <4>1
      <4> QED
        BY <1>1, <1>9, <1>10, <4>2 DEF Launched
    <3>2. latest' # NoConfig => latest' = c
      BY DEF Around
    <3>3. \A w \in Tasks : task'[w].pc \notin {"resolve", "stopping", "replacing"}
      BY <2>2 DEF Inside
    <3>4. \A w \in Tasks, s \in StreamIds : Due(w, s)'
      BY <3>3 DEF Due
    <3> QED
      BY <1>9, <2>1, <2>2, <3>1, <3>2, <3>3, <3>4 DEF Covered, Wanted, Wants
  <2> QED
    BY <2>4, <2>5, <2>6, <2>7, <2>8, <2>9 DEF IInv, Excused, On, Closing
<1>11. ASSUME NEW f \in todo \ new, streams[f] # 0, ~Keeps(c, f),
              obj' = [o \in Objs |-> IF Fresh(o) THEN on(o)
                        ELSE IF o = Listed(f) THEN [obj[o] EXCEPT !.phase = "closing"]
                        ELSE obj[o]],
              \A s \in todo : s \in new \/ streams[s] # 0 \/ Pos(s) > Pos(f),
              task' = [task EXCEPT ![t] =
                [pc |-> "replacing", cfg |-> c, cur |-> Listed(f),
                 todo |-> {s \in todo : Pos(s) > Pos(f)}]],
              queue' = q, UNCHANGED watching
       PROVE  IInv' /\ \A o \in Objs, w \in Tasks : Excused(o, w)
  <2> DEFINE TD == {s \in todo : Pos(s) > Pos(f)}
             rest == [pc |-> "replacing", cfg |-> c, cur |-> Listed(f), todo |-> TD]
  <2>1. /\ f \in StreamIds /\ f \in todo /\ f \notin must /\ Listed(f) \in Objs /\ On(Listed(f))
        /\ Listed(f) = <<f, streams[f]>>
    BY <1>6, <1>11 DEF Ready, Launched, Listed
  <2>2. ~Fresh(Listed(f)) /\ f \notin TD /\ TD \subseteq todo /\ streams'[f] = streams[f]
        /\ Pos(f) \in Nat
    BY <1>1, <1>11, <2>1, Positions DEF Fresh
  <2>3. /\ rest \in Replacer
        /\ rest.pc = "replacing" /\ rest.cfg = c /\ rest.cur = Listed(f) /\ rest.todo = TD
    BY <2>1, <2>2 DEF Replacer
  <2>4. /\ task' \in [Tasks -> Coroutine]
        /\ task'[t] = rest /\ \A w \in Tasks \ {t} : task'[w] = task[w]
    BY <1>8, <1>11, <2>3 DEF Coroutine
  <2> HIDE DEF TD, rest
  <2>5. \A w \in Tasks : Inside(w)' => w = t
    BY <1>8, <2>4 DEF Inside
  <2>6. \A o \in Objs : obj'[o] = IF Fresh(o) THEN on(o)
                          ELSE IF o = Listed(f) THEN [obj[o] EXCEPT !.phase = "closing"]
                          ELSE obj[o]
    BY <1>11
  <2>7. obj[Listed(f)] \in Process
    BY <1>5, <2>1 DEF On, Gone
  <2>8. /\ [obj[Listed(f)] EXCEPT !.phase = "closing"] \in Process
        /\ [obj[Listed(f)] EXCEPT !.phase = "closing"].phase = "closing"
    BY <2>7 DEF Process
  <2>9. obj' \in [Objs -> {Gone} \cup Process]
    BY <1>4, <1>5, <1>11, <2>8
  <2>10. \A o \in Objs : On(o)' <=> Fresh(o) \/ (On(o) /\ o # Listed(f))
    BY <1>4, <2>1, <2>2, <2>6, <2>8 DEF On
  <2>11. \A o \in Objs : Closing(o)' => Closing(o) \/ o = Listed(f)
    BY <1>4, <2>6 DEF Closing
  <2>12. Typed'
    BY <1>1, <1>9, <1>11, <2>4, <2>9 DEF Typed, Lock
  <2>13. OneHolder' /\ Plans'
    <3>1. OneHolder'
      BY <1>11, <2>5 DEF OneHolder, Lock
    <3>2. \A s \in TD \cup {f} : c.spec[s] # NoSpec
      BY <2>1, <2>2
    <3>3. latest' \in {c, NoConfig}
      BY DEF Around
    <3>4. Listed(f)[1] = f /\ Listed(f)[2] = streams[f]
      BY <2>1
    <3> QED
      BY <2>2, <2>3, <2>4, <2>5, <3>1, <3>2, <3>3, <3>4 DEF Plans, Inside
  <2>14. Processes'
    <3>1. ASSUME NEW o \in Objs, On(o)' PROVE (Listed(o[1]) = o)'
      <4>1. CASE Fresh(o)
        BY <1>1, <1>2, <4>1 DEF Fresh, Listed
      <4>2. CASE On(o)
        <5>1. o[1] \notin new /\ Listed(o[1]) = o /\ o[1] \in StreamIds
          BY <1>2, <1>7, <4>2 DEF Ready
        <5> QED
          BY <1>1, <5>1 DEF Listed
      <4> QED
        BY <2>10, <3>1, <4>1, <4>2
    <3>2. ASSUME NEW s \in StreamIds, streams'[s] # 0, s # f PROVE On(Listed(s))'
      <4>1. CASE s \in new
        <5>1. <<s, slot[s]>> \in Objs /\ Fresh(<<s, slot[s]>>)
          BY <4>1 DEF Objs, Fresh
        <5> QED
          BY <1>1, <2>10, <4>1, <5>1 DEF Listed, On
      <4>2. CASE s \notin new
        <5>1. streams[s] # 0 /\ streams'[s] = streams[s] /\ s \notin must
          BY <1>1, <3>2, <4>2 DEF Launched
        <5>2. On(Listed(s)) /\ Listed(s) \in Objs /\ Listed(s) # Listed(f)
          BY <1>6, <3>2, <5>1 DEF Ready, Listed
        <5> QED
          BY <2>10, <5>1, <5>2 DEF Listed, On
      <4> QED
        BY <4>1, <4>2
    <3>3. task'[t].pc = "replacing" /\ task'[t].cur = Listed(f) /\ Listed(f)' = Listed(f)
      BY <2>2, <2>3, <2>4 DEF Listed
    <3>4. ASSUME NEW o \in Objs, Closing(o)', o # Listed(f) PROVE Held(o)'
      BY <1>8, <2>4, <2>11, <3>4 DEF Held
    <3>5. ASSUME NEW w \in Tasks, task'[w].pc = "stopall"
          PROVE  /\ \A o \in task'[w].todo : ~On(o)'
                 /\ \A o, r \in task'[w].todo : o[1] = r[1] => o = r
      <4>1. w # t /\ task'[w] = task[w]
        BY <2>4, <3>3, <3>5
      <4>2. \A o \in task[w].todo : o \in Objs /\ ~On(o) /\ Held(o)
        BY <3>5, <4>1, TaskTypes DEF Ready, Held
      <4> QED
        BY <1>3, <2>10, <3>5, <4>1, <4>2 DEF Ready
    <3>6. \A w \in Tasks : Stopping(w)' => ~On(task[w].cur)'
      <4> PICK l \in Objs : l = Listed(f)
        BY <2>1
      <4>1. ~On(l)'
        BY <2>2, <2>10
      <4> QED
        BY <2>5, <3>3, <4>1 DEF Stopping, Inside, On
    <3>7. \A s \in StreamIds : streams'[s] # 0 /\ ~On(Listed(s))' => task'[t].cur = Listed(s)'
      BY <3>2, <3>3
    <3>8. \A o \in Objs : Closing(o)' => Held(o)' \/ (Stopping(t)' /\ task'[t].cur = o)
      BY <3>3, <3>4 DEF Stopping
    <3> QED
      BY <3>1, <3>3, <3>5, <3>6, <3>7, <3>8 DEF Processes
  <2>15. Covered'
    <3>1. ASSUME \A w \in Tasks : ~Waiting(w)', latest' # NoConfig,
                 NEW s \in StreamIds, Wants(c, s)
          PROVE  s \in TD \cup unresolved' \/ streams'[s] # 0
      <4>1. NoOther(t)
        BY <2>4, <3>1 DEF NoOther, Waiting
      <4>2. s \in u \cup todo \cup must \/ streams[s] # 0
        BY <3>1, <4>1
      <4> QED
        BY <1>1, <1>9, <1>11, <4>2 DEF Launched, TD
    <3>2. latest' # NoConfig => latest' = c
      BY DEF Around
    <3>3. /\ task'[t].pc = "replacing" /\ task'[t].todo = TD
          /\ \A w \in Tasks \ {t} : task'[w].pc \notin {"resolve", "stopping", "replacing"}
      BY <2>3, <2>4, <2>5 DEF Inside
    <3>4. \A w \in Tasks \ {t}, s \in StreamIds : Due(w, s)'
      BY <3>3 DEF Due
    <3>5. \A s \in StreamIds : s \in TD \cup unresolved' \/ streams'[s] # 0 => Due(t, s)'
      BY <3>3 DEF Due
    <3> QED
      BY <3>1, <3>2, <3>3, <3>4, <3>5 DEF Covered, Wanted, Wants, Inside
  <2>16. ASSUME NEW o \in Objs, NEW w \in Tasks PROVE Excused(o, w)
    <3> SUFFICES ASSUME On(o), obj'[o].phase = "closing", Inside(w)', task'[w].cur = o
                 PROVE  c.spec[o[1]] # obj[o].spec \/ c.base # obj[o].base
      BY <2>3, <2>4, <2>5 DEF Excused, Inside
    <3>1. w = t /\ o = <<f, streams[f]>> /\ o[1] = f
      BY <2>1, <2>3, <2>4, <2>5
    <3> QED
      BY <1>11, <3>1 DEF Keeps, On
  <2> QED
    BY <2>12, <2>13, <2>14, <2>15, <2>16 DEF IInv
<1> QED
  BY <1>10, <1>11 DEF Launched, Fresh, on

(* The first loop takes a stream off the list, for a reason of its own,    *)
(* and waits for its process to stop.                                      *)
LEMMA PopKeeps ==
  ASSUME Typed, NEW t \in Tasks, Ready(t, {}),
         NEW c \in Configs, NEW extras \in SUBSET StreamIds, NEW f \in extras,
         NEW wanted \in SUBSET StreamIds, wanted \cap extras = {},
         NEW u, NEW q, PopAndStop(t, c, extras, f, wanted, q), Around(c, u), Lock(t, q),
         latest' # NoConfig, \A s \in extras : streams[s] # 0,
         \A s \in wanted : c.spec[s] # NoSpec,
         NoOther(t) => \A s \in StreamIds : Wants(c, s) => s \in u \cup wanted
  PROVE  IInv' /\ \A o \in Objs, w \in Tasks : Excused(o, w)
<1> DEFINE rest == [pc |-> "stopping", cfg |-> c, cur |-> Listed(f), todo |-> extras \ {f},
                    wanted |-> wanted]
<1> PICK l : l = Listed(f)
  OBVIOUS
<1>0. \A o \in Objs : o[1] \in StreamIds /\ o[2] \in 1 .. Slots /\ o = <<o[1], o[2]>>
  BY DEF Objs
<1>1. /\ l \in Objs /\ l[1] = f /\ l = <<f, streams[f]>> /\ On(l) /\ f \in StreamIds
  BY DEF Typed, Listed, Objs, Ready
<1>2. rest \in Popper /\ rest.pc = "stopping" /\ rest.cfg = c /\ rest.cur = l
      /\ rest.todo = extras \ {f} /\ rest.wanted = wanted
  BY <1>1 DEF Popper
<1>3. task' = [task EXCEPT ![t] = rest] /\ queue' = q /\ UNCHANGED watching
      /\ streams' = [streams EXCEPT ![f] = 0] /\ obj' = [obj EXCEPT ![l].phase = "closing"]
  BY <1>1 DEF PopAndStop, Listed
<1> HIDE DEF rest
<1>4. /\ task' \in [Tasks -> Coroutine]
      /\ task'[t] = rest /\ \A w \in Tasks \ {t} : task'[w] = task[w]
  BY <1>2, <1>3 DEF Typed, Coroutine
<1>5. \A w \in Tasks : Inside(w)' => w = t
  BY <1>4 DEF Inside, Ready
<1>6. /\ streams' \in [StreamIds -> 0 .. Slots] /\ streams'[f] = 0
      /\ \A s \in StreamIds \ {f} : streams'[s] = streams[s]
  BY <1>1, <1>3, SlotsAssumption DEF Typed
<1>7. obj[l] \in Process /\ obj \in [Objs -> {Gone} \cup Process]
  BY <1>1 DEF Typed, On, Gone
<1>8. /\ [obj[l] EXCEPT !.phase = "closing"] \in Process
      /\ [obj[l] EXCEPT !.phase = "closing"].phase = "closing"
  BY <1>7 DEF Process
<1>9. /\ obj' \in [Objs -> {Gone} \cup Process]
      /\ obj'[l].phase = "closing" /\ \A o \in Objs \ {l} : obj'[o] = obj[o]
  BY <1>1, <1>3, <1>7, <1>8
<1>10. /\ \A o \in Objs : On(o)' <=> On(o) /\ o # l
       /\ \A o \in Objs : Closing(o)' <=> Closing(o) \/ o = l
  BY <1>9 DEF On, Closing
<1>11. latest' = c /\ unresolved' = u
  BY DEF Around
<1>12. Typed'
  BY <1>3, <1>4, <1>6, <1>9 DEF Typed, Around, Lock
<1>13. OneHolder' /\ Plans'
  <2>1. OneHolder'
    BY <1>3, <1>5 DEF OneHolder, Lock
  <2> QED
    BY <1>1, <1>2, <1>4, <1>5, <1>6, <1>11, <2>1 DEF Plans, Inside
<1>14. Processes'
  <2>1. ASSUME NEW o \in Objs, On(o)' PROVE (Listed(o[1]) = o)'
    <3>1. On(o) /\ o # l /\ o[1] \in StreamIds /\ Listed(o[1]) = o
      BY <1>0, <1>10, <2>1 DEF Ready
    <3> QED
      BY <1>1, <1>6, <3>1 DEF Listed
  <2>2. ASSUME NEW s \in StreamIds, streams'[s] # 0 PROVE On(Listed(s))'
    <3>1. s # f /\ streams[s] # 0 /\ streams'[s] = streams[s] /\ On(Listed(s))
      BY <1>6, <2>2 DEF Ready
    <3>2. Listed(s) \in Objs /\ Listed(s) # l
      BY <1>1, <3>1 DEF Listed, Objs, Typed
    <3> QED
      BY <1>10, <3>1, <3>2 DEF Listed, On
  <2>3. ASSUME NEW o \in Objs, Closing(o)' PROVE Held(o)' \/ (Stopping(t)' /\ task'[t].cur = o)
    <3>1. CASE o = l
      BY <1>2, <1>4, <3>1 DEF Stopping
    <3>2. CASE Closing(o)
      BY <1>4, <3>2 DEF Held, Ready
    <3> QED
      BY <1>10, <2>3, <3>1, <3>2
  <2>4. ASSUME NEW w \in Tasks, task'[w].pc = "stopall"
        PROVE  /\ \A o \in task'[w].todo : ~On(o)'
               /\ \A o, r \in task'[w].todo : o[1] = r[1] => o = r
    <3>1. w # t /\ task'[w] = task[w] /\ task[w].todo \subseteq Objs
      BY <1>2, <1>4, <2>4, TaskTypes
    <3> QED
      BY <1>10, <2>4, <3>1 DEF Ready
  <2>5. \A w \in Tasks : Stopping(w)' => ~On(task[w].cur)'
    <3>1. ~On(l)'
      BY <1>1, <1>10
    <3> QED
      BY <1>2, <1>4, <1>5, <3>1 DEF Stopping, Inside, On
  <2> QED
    BY <2>1, <2>2, <2>3, <2>4, <2>5 DEF Processes
<1>15. Covered'
  <2>1. ASSUME \A w \in Tasks : ~Waiting(w)', NEW s \in StreamIds, Wants(c, s)
        PROVE  s \in wanted \cup unresolved'
    BY <1>4, <1>11, <2>1 DEF NoOther, Waiting
  <2>2. /\ task'[t].pc = "stopping" /\ task'[t].wanted = wanted /\ task'[t].todo = extras \ {f}
        /\ \A w \in Tasks \ {t} : task'[w].pc \notin {"resolve", "stopping", "replacing"}
    BY <1>2, <1>4, <1>5 DEF Inside
  <2>3. \A w \in Tasks \ {t}, s \in StreamIds : Due(w, s)'
    BY <2>2 DEF Due
  <2>4. \A s \in StreamIds : s \in wanted \cup unresolved' => Due(t, s)'
    BY <2>2 DEF Due
  <2> QED
    BY <1>6, <1>11, <2>1, <2>2, <2>3, <2>4 DEF Covered, Wanted, Wants, Inside
<1>16. ASSUME NEW o \in Objs, NEW w \in Tasks PROVE Excused(o, w)
  <2> SUFFICES ASSUME On(o), obj'[o].phase = "closing", Inside(w)', task'[w].cur = o
               PROVE  \/ c.spec[o[1]] # obj[o].spec
                      \/ o[1] \in paused' \/ o[1] \in unresolved'
                      \/ \E v \in Tasks : task'[v].pc = "wait"
    BY <1>2, <1>4, <1>5 DEF Excused, Inside
  <2>1. o = l /\ o[1] = f
    BY <1>1, <1>2, <1>4, <1>5
  <2>2. CASE c.spec[f] = NoSpec
    BY <1>7, <2>1, <2>2 DEF Process, Specs
  <2>3. CASE Wants(c, f) /\ NoOther(t)
    BY <1>1, <1>11, <2>1, <2>3
  <2>4. CASE ~NoOther(t)
    BY <1>4, <2>4 DEF NoOther, Waiting
  <2> QED
    BY <2>1, <2>2, <2>3, <2>4 DEF Wants
<1> QED
  BY <1>12, <1>13, <1>14, <1>15, <1>16 DEF IInv

LEMMA ExtrasKeep ==
  ASSUME Typed, NEW t \in Tasks, Ready(t, {}),
         NEW c \in Configs, NEW wanted \in SUBSET StreamIds,
         NEW u, NEW q, StopExtras(t, c, wanted, u, q), Around(c, u), Lock(t, q),
         latest' = NoConfig => \A s \in StreamIds : streams[s] = 0,
         \A s \in wanted : c.spec[s] # NoSpec,
         latest' # NoConfig /\ NoOther(t) =>
           \A s \in StreamIds : Wants(c, s) => s \in u \cup wanted
  PROVE  IInv' /\ \A o \in Objs, w \in Tasks : Excused(o, w)
<1> DEFINE extras == {s \in StreamIds : streams[s] # 0} \ wanted
<1>1. CASE extras = {}
  <2>1. Launch(t, c, wanted, {}, u, q)
    BY <1>1 DEF StopExtras
  <2>2. /\ {} \in SUBSET StreamIds /\ wanted \cap {} = {}
        /\ \A s \in wanted \cup {} : c.spec[s] # NoSpec
        /\ latest' # NoConfig /\ NoOther(t) =>
             \A s \in StreamIds : Wants(c, s) => s \in u \cup wanted \cup {} \/ streams[s] # 0
    OBVIOUS
  <2> QED
    BY <2>1, <2>2, LaunchKeeps
<1>2. CASE extras # {}
  <2>1. \E s \in extras : PopAndStop(t, c, extras, s, wanted, q)
    BY <1>2 DEF StopExtras
  <2>2. extras \in SUBSET StreamIds /\ wanted \cap extras = {} /\ latest' # NoConfig
        /\ \A s \in extras : streams[s] # 0
    BY <1>2
  <2> HIDE DEF extras
  <2> QED
    BY <2>1, <2>2, PopKeeps
<1> QED
  BY <1>1, <1>2

(* On to the next stream that is to be recorded, or to the loops           *)
LEMMA ProceedKeeps ==
  ASSUME Typed, NEW t \in Tasks, Ready(t, {}),
         NEW c \in Configs, NEW i \in Nat, NEW wanted \in SUBSET StreamIds,
         NEW u, NEW q, Proceed(t, c, i, wanted, u, paused', q), Around(c, u), Lock(t, q),
         latest' = NoConfig => \A s \in StreamIds : streams[s] = 0,
         \A s \in wanted : c.spec[s] # NoSpec,
         latest' # NoConfig /\ NoOther(t) =>
           \A s \in StreamIds : Wants(c, s) => s \in u \cup wanted \/ Pos(s) > i
  PROVE  IInv' /\ \A o \in Objs, w \in Tasks : Excused(o, w)
<1> DEFINE cand == Candidates(c, i, paused')
           idx  == CHOOSE j \in cand : \A k \in cand : j <= k
           rest == [pc |-> "resolve", cfg |-> c, wanted |-> wanted, idx |-> idx]
<1>1. \A s \in StreamIds : Wants(c, s) /\ Pos(s) > i => Pos(s) \in cand
  BY Positions DEF Candidates, Wants
<1>2. \A j \in cand : j \in DOMAIN StreamOrder /\ c.spec[StreamOrder[j]] # NoSpec
  BY DEF Candidates
<1>3. cand = {} => StopExtras(t, c, wanted, u, q)
  BY DEF Proceed
<1>4. cand # {} => /\ task' = [task EXCEPT ![t] = rest] /\ queue' = q
                   /\ UNCHANGED <<streams, obj, watching>>
  BY DEF Proceed
<1> HIDE DEF cand
<1>5. cand # {} => idx \in cand /\ \A k \in cand : idx <= k
  <2>1. cand \in SUBSET Nat
    BY <1>2, OrderAssumption
  <2>2. cand # {} => \E j \in cand : \A k \in cand : j <= k
    BY <2>1, Least
  <2> QED
    BY <2>2
<1> HIDE DEF idx
<1>6. CASE cand = {}
  <2>1. latest' # NoConfig /\ NoOther(t) =>
           \A s \in StreamIds : Wants(c, s) => s \in u \cup wanted
    BY <1>1, <1>6
  <2> QED
    BY <1>3, <1>6, <2>1, ExtrasKeep
<1>7. CASE cand # {}
  <2>1. rest \in Resolver /\ rest.pc = "resolve" /\ rest.cfg = c /\ rest.wanted = wanted
        /\ rest.idx = idx /\ c.spec[StreamOrder[idx]] # NoSpec
    BY <1>2, <1>5, <1>7 DEF Resolver
  <2> HIDE DEF rest
  <2>2. /\ queue' = q /\ UNCHANGED <<streams, obj, watching>>
        /\ task' \in [Tasks -> Coroutine]
        /\ task'[t] = rest /\ \A w \in Tasks \ {t} : task'[w] = task[w]
    BY <1>4, <1>7, <2>1 DEF Typed, Coroutine
  <2>3. \A w \in Tasks : Inside(w)' => w = t
    BY <2>2 DEF Inside, Ready
  <2>4. Typed'
    BY <2>2 DEF Typed, Around, Lock
  <2>5. OneHolder' /\ Plans'
    <3>1. OneHolder'
      BY <2>2, <2>3 DEF OneHolder, Lock
    <3> QED
      BY <2>1, <2>2, <2>3, <3>1 DEF Plans, Inside, Around
  <2>6. Processes'
    <3>1. /\ \A w \in Tasks : ~Stopping(w)'
          /\ \A w \in Tasks : task'[w].pc = "stopall" => task'[w] = task[w]
      BY <2>1, <2>2, <2>3 DEF Stopping, Inside
    <3>2. /\ \A o \in Objs : On(o)' <=> On(o)
          /\ \A o : On(o)' <=> On(o)
          /\ \A o \in Objs : Closing(o)' <=> Closing(o)
          /\ \A s \in StreamIds : Listed(s)' = Listed(s)
      BY <2>2 DEF On, Closing, Listed
    <3>3. \A o \in Objs : Held(o) => Held(o)'
      BY <2>2 DEF Held, Ready
    <3>4. \A s \in StreamIds : streams'[s] # 0 => On(Listed(s))'
      BY <2>2 DEF On, Listed, Ready
    <3>5. \A o \in Objs : On(o)' => (Listed(o[1]) = o)'
      BY <2>2 DEF On, Listed, Ready
    <3>6. \A w \in Tasks : task'[w].pc = "stopall" =>
            /\ \A o \in task'[w].todo : ~On(o)'
            /\ \A o, r \in task'[w].todo : o[1] = r[1] => o = r
      BY <3>1, <3>2 DEF Ready
    <3> QED
      BY <3>1, <3>2, <3>3, <3>4, <3>5, <3>6 DEF Processes, Ready
  <2>7. Covered'
    <3>0. unresolved' = u /\ (latest' # NoConfig => latest' = c)
      BY DEF Around
    <3>1. ASSUME \A w \in Tasks : ~Waiting(w)', latest' # NoConfig,
                 NEW s \in StreamIds, Wants(c, s)
          PROVE  s \in wanted \cup unresolved' \/ Pos(s) >= idx
      <4>1. s \in u \cup wanted \/ Pos(s) > i
        BY <2>2, <3>1 DEF NoOther, Waiting
      <4>2. Pos(s) > i => idx <= Pos(s)
        BY <1>1, <1>5, <1>7, <3>1
      <4>3. Pos(s) \in Nat /\ idx \in Nat
        BY <1>2, <1>5, <1>7, Positions, OrderAssumption
      <4> QED
        BY <3>0, <4>1, <4>2, <4>3
    <3>2. /\ task'[t].pc = "resolve" /\ task'[t].wanted = wanted /\ task'[t].idx = idx
          /\ \A w \in Tasks \ {t} : task'[w].pc \notin {"resolve", "stopping", "replacing"}
      BY <2>1, <2>2, <2>3 DEF Inside
    <3>3. \A w \in Tasks \ {t}, s \in StreamIds : Due(w, s)'
      BY <3>2 DEF Due
    <3>4. \A s \in StreamIds : s \in wanted \cup unresolved' \/ Pos(s) >= idx => Due(t, s)'
      BY <3>2 DEF Due, Pos
    <3> QED
      BY <2>2, <3>0, <3>1, <3>2, <3>3, <3>4 DEF Covered, Wanted, Wants, Inside
  <2>8. \A o \in Objs, w \in Tasks : Excused(o, w)
    BY <2>2 DEF Excused, On
  <2> QED
    BY <2>4, <2>5, <2>6, <2>7, <2>8 DEF IInv
<1> QED
  BY <1>6, <1>7

LEMMA EnterKeeps ==
  ASSUME Typed, NEW t \in Tasks, Ready(t, {}), NEW c \in Configs,
         NEW q, Enter(t, c, paused', q), Lock(t, q),
         config' \in Configs, paused' \subseteq StreamIds, available' \subseteq StreamIds
  PROVE  IInv' /\ \A o \in Objs, w \in Tasks : Excused(o, w)
<1>1. Proceed(t, c, 0, {}, {}, paused', q) /\ latest' = c
  BY DEF Enter
<1>2. Around(c, {})
  BY <1>1 DEF Around, Proceed
<1>3. \A s \in StreamIds : Pos(s) > 0
  BY Positions
<1>4. {} \in SUBSET StreamIds /\ 0 \in Nat /\ latest' # NoConfig
  BY <1>1, ConfigsAssumption
<1> QED
  BY <1>1, <1>2, <1>3, <1>4, ProceedKeeps

(* A call of async_apply enters, or gets in line. *)
LEMMA ApplyKeeps ==
  ASSUME IInv, NEW t \in Tasks, task[t] = Idle, NEW c \in Configs, Apply(t, c, paused'),
         config' \in Configs, paused' \subseteq StreamIds, available' \subseteq StreamIds
  PROVE  IInv' /\ \A o \in Objs, w \in Tasks : Excused(o, w)
<1>1. Typed /\ OneHolder /\ Plans /\ Processes /\ Covered
  BY DEF IInv
<1>2. CASE queue = <<>>
  <2>1. Enter(t, c, paused', <<t>>) /\ Ready(t, {}) /\ Lock(t, <<t>>)
    <3>1. Enter(t, c, paused', <<t>>)
      BY <1>2 DEF Apply
    <3>2. Ready(t, {})
      BY <1>1, <1>2, ReadyToGo
    <3>3. Lock(t, <<t>>)
      BY DEF Lock
    <3> QED
      BY <3>1, <3>2, <3>3
  <2> QED
    BY <1>1, <2>1, EnterKeeps
<1>3. CASE queue # <<>>
  <2> DEFINE rest == [pc |-> "wait", cfg |-> c]
  <2>1. rest \in Waiter /\ rest.pc = "wait"
    BY DEF Waiter
  <2>2. /\ queue' = Append(queue, t) /\ task' = [task EXCEPT ![t] = rest]
        /\ UNCHANGED managerVars
    BY <1>3 DEF Apply
  <2> HIDE DEF rest
  <2>3. /\ UNCHANGED <<streams, obj, unresolved, watching, latest>>
        /\ task' \in [Tasks -> Coroutine]
        /\ task'[t] = rest /\ \A w \in Tasks \ {t} : task'[w] = task[w]
    BY <1>1, <2>1, <2>2 DEF Typed, Coroutine, managerVars
  <2>4. queue' \in Seq(Tasks) /\ queue' # <<>> /\ Head(queue') = Head(queue)
    BY <1>1, <1>3, <2>2 DEF Typed
  <2>5. \A w \in Tasks : /\ Inside(w)' <=> Inside(w)
                         /\ Stopping(w)' <=> Stopping(w)
                         /\ task'[w].pc = "stopall" <=> task[w].pc = "stopall"
                         /\ Inside(w) \/ task[w].pc = "stopall" => task'[w] = task[w]
    BY <2>1, <2>3 DEF Inside, Stopping, Idle
  <2>6. Typed'
    BY <1>1, <2>3, <2>4 DEF Typed
  <2>7. OneHolder'
    BY <1>1, <2>4, <2>5 DEF OneHolder
  <2>8. Plans'
    BY <1>1, <2>3, <2>5 DEF Plans, Inside
  <2>9. Processes'
    <3>1. /\ \A o : (On(o)' <=> On(o)) /\ (Closing(o)' <=> Closing(o)) /\ (Held(o)' <=> Held(o))
          /\ \A s \in StreamIds : Listed(s)' = Listed(s)
      BY <2>3, <2>5 DEF On, Closing, Held, Listed
    <3>2. \A w \in Tasks : /\ Stopping(w) => task'[w] = task[w]
                           /\ task[w].pc = "replacing" => Stopping(w) /\ task'[w] = task[w]
      BY <2>5 DEF Stopping, Inside
    <3>3. \A s \in StreamIds : streams'[s] # 0 /\ ~On(Listed(s))' =>
            \E w \in Tasks : task'[w].pc = "replacing" /\ task'[w].cur = Listed(s)'
      <4> SUFFICES ASSUME NEW s \in StreamIds, streams'[s] # 0, ~On(Listed(s))'
                   PROVE  \E w \in Tasks : task'[w].pc = "replacing" /\ task'[w].cur = Listed(s)'
        OBVIOUS
      <4>1. streams[s] # 0 /\ ~On(Listed(s)) /\ Listed(s)' = Listed(s)
        BY <2>3 DEF On, Listed
      <4>2. PICK w \in Tasks : task[w].pc = "replacing" /\ task[w].cur = Listed(s)
        BY <1>1, <4>1 DEF Processes
      <4>3. task'[w] = task[w]
        BY <3>2, <4>2
      <4> QED
        BY <4>1, <4>2, <4>3
    <3>4. \A o \in Objs : On(o)' => (Listed(o[1]) = o)'
      BY <1>1, <2>3, <3>1 DEF Processes, Listed
    <3>5. \A w \in Tasks : Stopping(w)' => ~On(task[w].cur)'
      BY <1>1, <2>3, <2>5, <3>2 DEF Processes, On
    <3>6. \A w \in Tasks : task'[w].pc = "stopall" =>
            /\ \A o \in task'[w].todo : ~On(o)'
            /\ \A o, r \in task'[w].todo : o[1] = r[1] => o = r
      BY <1>1, <2>5, <3>1 DEF Processes
    <3>7. \A o \in Objs : Closing(o)' =>
            Held(o)' \/ \E w \in Tasks : Stopping(w)' /\ task'[w].cur = o
      BY <1>1, <2>5, <3>1, <3>2 DEF Processes
    <3> QED
      BY <3>3, <3>4, <3>5, <3>6, <3>7 DEF Processes
  <2>10. Covered'
    BY <1>1, <2>1, <2>3, <2>5 DEF Covered, Waiting, Inside
  <2>11. \A o \in Objs, w \in Tasks : Excused(o, w)
    BY <2>3 DEF Excused, On
  <2> QED
    BY <2>6, <2>7, <2>8, <2>9, <2>10, <2>11 DEF IInv
<1> QED
  BY <1>2, <1>3

-----------------------------------------------------------------------------
(* The invariant, action by action                                         *)

LEMMA InvInit == Init => IInv
<1> SUFFICES ASSUME Init PROVE IInv
  OBVIOUS
<1>1. \A t \in Tasks : task[t] = Idle /\ task[t].pc = "idle"
  BY DEF Init, Idle
<1>2. \A o \in Objs : obj[o].phase = "off"
  BY DEF Init
<1>3. Typed
  <2>1. task \in [Tasks -> Coroutine]
    BY DEF Init, Coroutine
  <2>2. obj \in [Objs -> {Gone} \cup Process]
    BY DEF Init, Gone
  <2>3. streams \in [StreamIds -> 0 .. Slots]
    BY SlotsAssumption DEF Init
  <2> QED
    BY <2>1, <2>2, <2>3 DEF Init, Typed
<1>4. OneHolder /\ Plans /\ Covered
  BY <1>1 DEF Init, OneHolder, Plans, Covered, Inside
<1>5. Processes
  BY <1>1, <1>2 DEF Init, Processes, On, Closing, Held, Stopping
<1> QED
  BY <1>3, <1>4, <1>5 DEF IInv

LEMMA AcquireKeeps ==
  ASSUME IInv, NEW t \in Tasks, Acquire(t)
  PROVE  IInv' /\ \A o \in Objs, w \in Tasks : Excused(o, w)
<1>1. Typed /\ OneHolder /\ Plans /\ Processes
  BY DEF IInv
<1>2. /\ task[t].pc = "wait" /\ Head(queue) = t /\ task[t].cfg \in Configs
      /\ Enter(t, task[t].cfg, paused', queue) /\ UNCHANGED envVars
  BY <1>1, TaskTypes DEF Acquire, envVars
<1>3. queue # <<>>
  BY <1>2 DEF Acquire
<1>4. Ready(t, {}) /\ Lock(t, queue)
  BY <1>1, <1>2, <1>3, ReadyToGo DEF Lock, Typed
<1> QED
  BY <1>1, <1>2, <1>4, EnterKeeps DEF envVars, Typed

LEMMA ResolveKeeps ==
  ASSUME IInv, NEW t \in Tasks, Resolve(t)
  PROVE  IInv' /\ \A o \in Objs, w \in Tasks : Excused(o, w)
<1>1. Typed /\ OneHolder /\ Plans /\ Processes /\ Covered
  BY DEF IInv
<1> PICK c, i, s : c = task[t].cfg /\ i = task[t].idx /\ s = StreamOrder[i]
  OBVIOUS
<1> PICK wanted : wanted = IF s \in available THEN task[t].wanted \cup {s} ELSE task[t].wanted
  OBVIOUS
<1> PICK u : u = IF s \in available THEN unresolved ELSE unresolved \cup {s}
  OBVIOUS
<1>2. /\ task[t].pc = "resolve" /\ Proceed(t, c, i, wanted, u, paused', queue)
      /\ UNCHANGED <<latest, envVars>>
  BY DEF Resolve, envVars
<1>3. /\ c \in Configs /\ i \in DOMAIN StreamOrder /\ i \in Nat /\ s \in StreamIds
      /\ task[t].wanted \subseteq StreamIds /\ wanted \in SUBSET StreamIds
  BY <1>1, <1>2, TaskTypes, Positions, OrderAssumption
<1>4. /\ latest \in {c, NoConfig} /\ c.spec[s] # NoSpec
      /\ \A r \in wanted : c.spec[r] # NoSpec
  BY <1>1, <1>2 DEF Plans, Inside
<1>5. Ready(t, {}) /\ Lock(t, queue)
  BY <1>1, <1>2, ReadyToGo DEF OneHolder, Inside, Lock, Typed
<1>6. Around(c, u)
  BY <1>1, <1>2, <1>3, <1>4 DEF Around, Proceed, Typed, envVars
<1>7. latest' = NoConfig => \A r \in StreamIds : streams[r] = 0
  BY <1>1, <1>2 DEF Covered
<1>8. ASSUME latest' # NoConfig, NoOther(t), NEW r \in StreamIds, Wants(c, r)
      PROVE  r \in u \cup wanted \/ Pos(r) > i
  <2>1. latest = c /\ Wanted(latest, r) /\ \A w \in Tasks : ~Waiting(w)
    BY <1>2, <1>4, <1>8 DEF Wanted, Wants, NoOther, Waiting, envVars
  <2>2. Due(t, r)
    BY <1>1, <1>2, <1>8, <2>1 DEF Covered
  <2>3. r \in task[t].wanted \cup unresolved \/ Pos(r) >= i
    BY <1>2, <2>2 DEF Due
  <2>4. Pos(r) = i => r = s
    BY Positions
  <2>5. Pos(r) \in Nat
    BY Positions
  <2> QED
    BY <1>3, <2>3, <2>4, <2>5
<1> QED
  BY <1>1, <1>2, <1>3, <1>4, <1>5, <1>6, <1>7, <1>8, ProceedKeeps

LEMMA StoppedKeeps ==
  ASSUME IInv, NEW t \in Tasks, Stopped(t)
  PROVE  IInv' /\ \A o \in Objs, w \in Tasks : Excused(o, w)
<1>1. Typed /\ OneHolder /\ Plans /\ Processes /\ Covered
  BY DEF IInv
<1> PICK c, todo, wanted : c = task[t].cfg /\ todo = task[t].todo /\ wanted = task[t].wanted
  OBVIOUS
<1>2. /\ task[t].pc = "stopping" /\ StopOver(task[t].cur)
      /\ UNCHANGED <<unresolved, latest, envVars>>
  BY DEF Stopped
<1>3. c \in Configs /\ todo \in SUBSET StreamIds /\ wanted \in SUBSET StreamIds
  BY <1>1, <1>2, TaskTypes
<1>4. /\ latest \in {c, NoConfig} /\ wanted \cap todo = {}
      /\ \A r \in wanted : c.spec[r] # NoSpec
  BY <1>1, <1>2 DEF Plans, Inside
<1>5. Ready(t, {}) /\ Lock(t, queue)
  BY <1>1, <1>2, ReadyToGo DEF OneHolder, Inside, Lock, Typed
<1>6. Around(c, unresolved)
  BY <1>1, <1>2, <1>4 DEF Around, Typed, envVars
<1>7. ASSUME latest' # NoConfig, NoOther(t), NEW r \in StreamIds, Wants(c, r)
      PROVE  r \in unresolved \cup wanted
  <2>1. latest = c /\ Wanted(latest, r) /\ \A w \in Tasks : ~Waiting(w)
    BY <1>2, <1>4, <1>7 DEF Wanted, Wants, NoOther, Waiting, envVars
  <2>2. Due(t, r)
    BY <1>1, <1>2, <1>7, <2>1 DEF Covered
  <2> QED
    BY <1>2, <2>2 DEF Due
<1>8. CASE todo = {}
  <2>1. Launch(t, c, wanted, {}, unresolved, queue)
    BY <1>8 DEF Stopped
  <2>2. /\ {} \in SUBSET StreamIds /\ wanted \cap {} = {}
        /\ \A r \in wanted \cup {} : c.spec[r] # NoSpec
        /\ latest' # NoConfig /\ NoOther(t) =>
             \A r \in StreamIds : Wants(c, r) =>
               r \in unresolved \cup wanted \cup {} \/ streams[r] # 0
    BY <1>4, <1>7
  <2> QED
    BY <1>1, <1>3, <1>5, <1>6, <2>1, <2>2, LaunchKeeps
<1>9. ASSUME NEW f \in todo, streams[f] # 0,
             PopAndStop(t, c, todo, f, wanted, queue)
      PROVE  IInv' /\ \A o \in Objs, w \in Tasks : Excused(o, w)
  <2>1. latest # NoConfig /\ \A r \in todo : streams[r] # 0
    BY <1>1, <1>2, <1>3, <1>9 DEF Covered
  <2> QED
    BY <1>1, <1>2, <1>3, <1>4, <1>5, <1>6, <1>7, <1>9, <2>1, PopKeeps
<1>10. ASSUME NEW f \in todo, streams[f] = 0, task' = [task EXCEPT ![t] = Idle],
              queue' = Tail(queue), UNCHANGED <<streams, obj, watching>>
       PROVE  IInv' /\ \A o \in Objs, w \in Tasks : Excused(o, w)
  <2>1. latest = NoConfig
    BY <1>1, <1>2, <1>3, <1>10 DEF Covered
  <2>2. /\ task' \in [Tasks -> Coroutine]
        /\ task'[t] = Idle /\ \A w \in Tasks \ {t} : task'[w] = task[w]
    BY <1>1, <1>10 DEF Typed, Coroutine
  <2>3. \A w \in Tasks : ~Inside(w)'
    BY <1>5, <2>2 DEF Ready, Inside, Idle
  <2>4. Typed'
    <3>1. queue' \in Seq(Tasks)
      BY <1>5, <1>10 DEF Lock
    <3> QED
      BY <1>1, <1>2, <1>10, <2>2, <3>1 DEF Typed, envVars
  <2>5. OneHolder' /\ Plans'
    BY <2>3 DEF OneHolder, Plans, Inside
  <2>6. Processes'
    <3>1. \A w \in Tasks : ~Stopping(w)'
      BY <2>3 DEF Stopping, Inside
    <3>2. \A w \in Tasks : task'[w].pc = "stopall" => task'[w] = task[w]
      BY <2>2 DEF Idle
    <3>3. \A o : (On(o)' <=> On(o)) /\ (Closing(o)' <=> Closing(o))
      BY <1>10 DEF On, Closing
    <3>4. \A o \in Objs : Held(o) => Held(o)'
      BY <1>2, <2>2 DEF Held
    <3>5. \A s \in StreamIds : streams'[s] # 0 => On(Listed(s))'
      BY <1>5, <1>10 DEF On, Listed, Ready
    <3>6. \A o \in Objs : On(o)' => (Listed(o[1]) = o)'
      BY <1>5, <1>10 DEF On, Listed, Ready
    <3>7. \A w \in Tasks : task'[w].pc = "stopall" =>
            /\ \A o \in task'[w].todo : ~On(o)'
            /\ \A o, r \in task'[w].todo : o[1] = r[1] => o = r
      BY <1>5, <3>2, <3>3 DEF Ready
    <3>8. \A o \in Objs : Closing(o)' => Held(o)'
      BY <1>5, <3>3, <3>4 DEF Ready
    <3> QED
      BY <3>1, <3>5, <3>6, <3>7, <3>8 DEF Processes
  <2>7. Covered'
    BY <1>2, <2>1, <2>3 DEF Covered, Inside
  <2>8. \A o \in Objs, w \in Tasks : Excused(o, w)
    BY <1>10 DEF Excused, On
  <2> QED
    BY <2>4, <2>5, <2>6, <2>7, <2>8 DEF IInv
<1> QED
  BY <1>8, <1>9, <1>10 DEF Stopped

LEMMA ReplacedKeeps ==
  ASSUME IInv, NEW t \in Tasks, Replaced(t)
  PROVE  IInv' /\ \A o \in Objs, w \in Tasks : Excused(o, w)
<1>1. Typed /\ OneHolder /\ Plans /\ Processes /\ Covered
  BY DEF IInv
<1> PICK c, todo, must : c = task[t].cfg /\ todo = task[t].todo /\ must = {task[t].cur[1]}
  OBVIOUS
<1>2. /\ task[t].pc = "replacing" /\ StopOver(task[t].cur)
      /\ Launch(t, c, todo, must, unresolved, queue)
      /\ UNCHANGED <<unresolved, latest, envVars>>
  BY DEF Replaced
<1>3. c \in Configs /\ todo \in SUBSET StreamIds /\ must \in SUBSET StreamIds
  BY <1>1, <1>2, TaskTypes DEF Objs
<1>4. /\ latest \in {c, NoConfig} /\ todo \cap must = {}
      /\ \A r \in todo \cup must : c.spec[r] # NoSpec
  BY <1>1, <1>2 DEF Plans, Inside
<1>5. Ready(t, must) /\ Lock(t, queue)
  BY <1>1, <1>2, ReadyToGo DEF OneHolder, Inside, Lock, Typed
<1>6. Around(c, unresolved)
  BY <1>1, <1>2, <1>4 DEF Around, Typed, envVars
<1>7. ASSUME latest' # NoConfig, NoOther(t), NEW r \in StreamIds, Wants(c, r)
      PROVE  r \in unresolved \cup todo \cup must \/ streams[r] # 0
  <2>1. latest = c /\ Wanted(latest, r) /\ \A w \in Tasks : ~Waiting(w)
    BY <1>2, <1>4, <1>7 DEF Wanted, Wants, NoOther, Waiting, envVars
  <2>2. Due(t, r)
    BY <1>1, <1>2, <1>7, <2>1 DEF Covered
  <2> QED
    BY <1>2, <2>2 DEF Due
<1> QED
  BY <1>1, <1>2, <1>3, <1>4, <1>5, <1>6, <1>7, LaunchKeeps

(* Who stops everything takes over every process that records.             *)
LEMMA StopAllKeeps ==
  ASSUME IInv, NEW t \in Tasks, StopAll(t)
  PROVE  IInv' /\ \A o \in Objs, w \in Tasks : Excused(o, w)
<1>1. Typed /\ OneHolder /\ Plans /\ Processes /\ Covered
  BY DEF IInv
<1>2. /\ task[t] = Idle /\ latest' = NoConfig
      /\ unresolved' = {} /\ watching' = {}
      /\ streams' = [s \in StreamIds |-> 0]
      /\ obj' = [o \in Objs |->
           IF o \in Taken THEN [obj[o] EXCEPT !.phase = "closing"] ELSE obj[o]]
      /\ task' = [task EXCEPT ![t] =
           IF Taken = {} THEN Idle ELSE [pc |-> "stopall", todo |-> Taken]]
      /\ UNCHANGED <<queue, paused, config, available>>
  BY DEF StopAll
<1>3. /\ Taken \subseteq Objs
      /\ \A o \in Objs : On(o) <=> o \in Taken
      /\ \A o, r \in Taken : o[1] = r[1] => o = r
  <2>1. \A o \in Objs : o[1] \in StreamIds /\ o = <<o[1], o[2]>>
    BY DEF Objs
  <2>2. \A o \in Objs : On(o) => streams[o[1]] = o[2]
    <3> SUFFICES ASSUME NEW o \in Objs, On(o) PROVE streams[o[1]] = o[2]
      OBVIOUS
    <3>1. Listed(o[1]) = o
      BY <1>1 DEF Processes
    <3> QED
      BY <2>1, <3>1 DEF Listed
  <2> QED
    BY <2>1, <2>2 DEF Taken, On
<1>4. \A o \in Objs : /\ obj[o] \in {Gone} \cup Process
                      /\ obj'[o] = IF o \in Taken THEN [obj[o] EXCEPT !.phase = "closing"]
                                   ELSE obj[o]
  BY <1>1, <1>2 DEF Typed
<1>5. \A o \in Objs : On(o) => obj[o] \in Process
  <2> TAKE o \in Objs
  <2>1. obj[o] \in {Gone} \cup Process
    BY <1>4
  <2> QED
    BY <2>1 DEF On, Gone
<1>6. \A o \in Objs : /\ ~On(o)'
                      /\ Closing(o)' <=> Closing(o) \/ o \in Taken
  <2> TAKE o \in Objs
  <2>1. CASE o \in Taken
    <3>1. obj[o] \in Process /\ obj'[o] = [obj[o] EXCEPT !.phase = "closing"]
      BY <1>3, <1>4, <1>5, <2>1
    <3>2. obj'[o].phase = "closing"
      BY <3>1 DEF Process
    <3> QED
      BY <2>1, <3>2 DEF On, Closing
  <2>2. CASE o \notin Taken
    <3>1. obj'[o] = obj[o] /\ ~On(o)
      BY <1>3, <1>4, <2>2
    <3> QED
      BY <2>2, <3>1 DEF On, Closing
  <2> QED
    BY <2>1, <2>2
<1> DEFINE after == IF Taken = {} THEN Idle ELSE [pc |-> "stopall", todo |-> Taken]
<1>7. after \in Coroutine /\ after.pc \in {"idle", "stopall"}
  BY <1>3 DEF Coroutine, Idle, Stopper
<1>8. \A o \in Taken : after.pc = "stopall" /\ after.todo = Taken
  OBVIOUS
<1>9. after.pc = "stopall" => after.todo = Taken
  BY DEF Idle
<1>10. /\ task' \in [Tasks -> Coroutine] /\ task'[t] = after
       /\ \A w \in Tasks \ {t} : task'[w] = task[w]
  BY <1>1, <1>2, <1>7 DEF Typed
<1> HIDE DEF after
<1>11. \A w \in Tasks : Inside(w)' \/ Waiting(w)' => w # t /\ task'[w] = task[w]
  BY <1>7, <1>10 DEF Inside, Waiting
<1>12. Typed'
  <2>1. obj' \in [Objs -> {Gone} \cup Process]
    <3>1. \A o \in Objs : obj'[o] \in {Gone} \cup Process
      BY <1>3, <1>4, <1>5 DEF Process
    <3> QED
      BY <1>2, <3>1
  <2>2. streams' \in [StreamIds -> 0 .. Slots]
    BY <1>2, SlotsAssumption
  <2> QED
    BY <1>1, <1>2, <1>10, <2>1, <2>2 DEF Typed
<1>13. OneHolder'
  BY <1>1, <1>2, <1>11 DEF OneHolder, Inside
<1>14. Plans'
  <2>1. \A w \in Tasks : Inside(w)' => Inside(w) /\ task'[w] = task[w]
    BY <1>11 DEF Inside
  <2>2. \A w \in Tasks : task[w].pc \in {"stopping", "replacing"} =>
          streams'[task[w].cur[1]] = 0
    BY <1>1, <1>2, TaskTypes DEF Objs
  <2> QED
    BY <1>1, <1>2, <2>1, <2>2 DEF Plans, Inside
<1>15. Processes'
  <2>1. \A o \in Objs : Closing(o)' =>
          Held(o)' \/ \E w \in Tasks : Stopping(w)' /\ task'[w].cur = o
    <3> SUFFICES ASSUME NEW o \in Objs, Closing(o)'
                 PROVE  Held(o)' \/ \E w \in Tasks : Stopping(w)' /\ task'[w].cur = o
      OBVIOUS
    <3>1. CASE o \in Taken
      <4>1. task'[t].pc = "stopall" /\ o \in task'[t].todo
        BY <1>8, <1>10, <3>1
      <4> QED
        BY <4>1 DEF Held
    <3>2. CASE Closing(o) /\ Held(o)
      <4> PICK w \in Tasks : task[w].pc = "stopall" /\ o \in task[w].todo
        BY <3>2 DEF Held
      <4>1. w # t /\ task'[w] = task[w]
        BY <1>2, <1>10 DEF Idle
      <4> QED
        BY <4>1 DEF Held
    <3>3. CASE Closing(o) /\ \E w \in Tasks : Stopping(w) /\ task[w].cur = o
      <4> PICK w \in Tasks : Stopping(w) /\ task[w].cur = o
        BY <3>3
      <4>1. w # t /\ task'[w] = task[w]
        BY <1>2, <1>10 DEF Idle, Stopping
      <4> QED
        BY <4>1 DEF Stopping
    <3> QED
      BY <1>1, <1>6, <3>1, <3>2, <3>3 DEF Processes
  <2>2. \A w \in Tasks : task'[w].pc = "stopall" =>
          /\ task'[w].todo \subseteq Objs
          /\ \A o, r \in task'[w].todo : o[1] = r[1] => o = r
    <3> SUFFICES ASSUME NEW w \in Tasks, task'[w].pc = "stopall"
                 PROVE  /\ task'[w].todo \subseteq Objs
                        /\ \A o, r \in task'[w].todo : o[1] = r[1] => o = r
      OBVIOUS
    <3>1. CASE w = t
      BY <1>3, <1>9, <1>10, <3>1
    <3>2. CASE w # t
      BY <1>1, <1>10, <3>2, TaskTypes DEF Processes
    <3> QED
      BY <3>1, <3>2
  <2>3. \A w \in Tasks : Stopping(w)' => task'[w].cur \in Objs
    BY <1>1, <1>11, TaskTypes DEF Stopping, Inside
  <2>4. \A w \in Tasks : task'[w].pc = "stopall" => \A o \in task'[w].todo : ~On(o)'
    BY <1>6, <2>2
  <2>5. \A w \in Tasks : Stopping(w)' => ~On(task[w].cur)'
    BY <1>6, <1>11, <2>3 DEF Stopping, Inside
  <2>6. \A s \in StreamIds : streams'[s] = 0
    BY <1>2
  <2>7. \A w \in Tasks : Stopping(w)' => task'[w].cur = task[w].cur
    BY <1>11 DEF Stopping, Inside
  <2> QED
    BY <1>6, <2>1, <2>2, <2>4, <2>5, <2>6, <2>7 DEF Processes
<1>16. Covered'
  BY <1>2 DEF Covered
<1>17. \A o \in Objs, w \in Tasks : Excused(o, w)
  <2>1. \A w \in Tasks : Stopping(w)' => ~On(task'[w].cur)
    BY <1>1, <1>11 DEF Stopping, Inside, Processes
  <2> QED
    BY <2>1 DEF Excused, Stopping
<1> QED
  BY <1>12, <1>13, <1>14, <1>15, <1>16, <1>17 DEF IInv

LEMMA StoppedAllKeeps ==
  ASSUME IInv, NEW t \in Tasks, StoppedAll(t)
  PROVE  IInv' /\ \A o \in Objs, w \in Tasks : Excused(o, w)
<1>1. Typed /\ OneHolder /\ Plans /\ Processes /\ Covered
  BY DEF IInv
<1>2. /\ task[t].pc = "stopall" /\ \A o \in task[t].todo : StopOver(o)
      /\ task' = [task EXCEPT ![t] = Idle]
      /\ UNCHANGED <<streams, obj, unresolved, watching, latest, queue, paused,
                     config, available>>
  BY DEF StoppedAll, managerVars, envVars
<1>3. /\ task' \in [Tasks -> Coroutine] /\ task'[t] = Idle
      /\ \A w \in Tasks \ {t} : task'[w] = task[w]
  BY <1>1, <1>2 DEF Typed, Coroutine
<1>4. \A w \in Tasks : task'[w].pc # "idle" => w # t /\ task'[w] = task[w]
  BY <1>3 DEF Idle
<1>5. \A w \in Tasks : /\ Inside(w) <=> Inside(w)'
                       /\ Stopping(w) <=> Stopping(w)'
                       /\ Waiting(w) <=> Waiting(w)'
  BY <1>2, <1>3 DEF Inside, Stopping, Waiting, Idle
<1>6. Typed'
  BY <1>1, <1>2, <1>3 DEF Typed
<1>7. OneHolder'
  BY <1>1, <1>2, <1>5 DEF OneHolder
<1>8. Plans'
  BY <1>1, <1>2, <1>4 DEF Plans, Inside
<1>9. \A o : (On(o)' <=> On(o)) /\ (Closing(o)' <=> Closing(o)) /\ Listed(o)' = Listed(o)
  BY <1>2 DEF On, Closing, Listed
<1>10. Processes'
  <2>1. \A o \in Objs : Closing(o)' =>
          Held(o)' \/ \E w \in Tasks : Stopping(w)' /\ task'[w].cur = o
    <3> SUFFICES ASSUME NEW o \in Objs, Closing(o)
                 PROVE  Held(o)' \/ \E w \in Tasks : Stopping(w)' /\ task'[w].cur = o
      BY <1>9
    <3>1. CASE Held(o)
      <4> PICK w \in Tasks : task[w].pc = "stopall" /\ o \in task[w].todo
        BY <3>1 DEF Held
      <4>1. w # t /\ task'[w] = task[w]
        BY <1>2, <1>3 DEF StopOver, Closing
      <4> QED
        BY <4>1 DEF Held
    <3>2. CASE \E w \in Tasks : Stopping(w) /\ task[w].cur = o
      BY <1>2, <1>3, <3>2 DEF Stopping
    <3> QED
      BY <1>1, <3>1, <3>2 DEF Processes
  <2>2. \A s \in StreamIds : streams'[s] # 0 /\ ~On(Listed(s))' =>
          \E w \in Tasks : task'[w].pc = "replacing" /\ task'[w].cur = Listed(s)'
    <3> SUFFICES ASSUME NEW s \in StreamIds, streams[s] # 0, ~On(Listed(s))
                 PROVE  \E w \in Tasks : task'[w].pc = "replacing" /\ task'[w].cur = Listed(s)
      BY <1>2 DEF On, Listed
    <3> PICK w \in Tasks : task[w].pc = "replacing" /\ task[w].cur = Listed(s)
      BY <1>1 DEF Processes
    <3>1. w # t /\ task'[w] = task[w]
      BY <1>2, <1>3
    <3> QED
      BY <3>1
  <2>3. \A o \in Objs : On(o)' => (Listed(o[1]) = o)'
    BY <1>1, <1>2 DEF Processes, On, Listed
  <2>4. \A w \in Tasks : Stopping(w)' => ~On(task[w].cur)' /\ task'[w].cur = task[w].cur
    BY <1>1, <1>2, <1>4, <1>5 DEF Processes, Stopping, On
  <2>5. \A w \in Tasks : task'[w].pc = "stopall" =>
          /\ \A o \in task'[w].todo : ~On(o)'
          /\ \A o, r \in task'[w].todo : o[1] = r[1] => o = r
    BY <1>1, <1>4, <1>9 DEF Processes
  <2> QED
    BY <2>1, <2>2, <2>3, <2>4, <2>5 DEF Processes
<1>11. Covered'
  <2>1. \A w \in Tasks, s \in StreamIds : Due(w, s) => Due(w, s)'
    BY <1>2, <1>3 DEF Due, Idle
  <2> QED
    BY <1>1, <1>2, <1>4, <1>5, <2>1 DEF Covered, Wanted
<1>12. \A o \in Objs, w \in Tasks : Excused(o, w)
  BY <1>2 DEF Excused, On
<1> QED
  BY <1>6, <1>7, <1>8, <1>10, <1>11, <1>12 DEF IInv

LEMMA GoneKeeps ==
  ASSUME IInv, NEW p \in Objs, ProcessGone(p)
  PROVE  IInv' /\ \A o \in Objs, w \in Tasks : Excused(o, w)
<1>1. Typed /\ OneHolder /\ Plans /\ Processes /\ Covered
  BY DEF IInv
<1>2. /\ obj[p].phase = "closing" /\ obj' = [obj EXCEPT ![p] = [phase |-> "off"]]
      /\ UNCHANGED <<streams, unresolved, watching, latest, queue, task, paused,
                     config, available>>
  BY DEF ProcessGone, envVars
<1>3. /\ obj' \in [Objs -> {Gone} \cup Process]
      /\ obj'[p] = Gone /\ \A o \in Objs \ {p} : obj'[o] = obj[o]
  BY <1>1, <1>2 DEF Typed, Gone
<1>4. \A o \in Objs : (On(o)' <=> On(o)) /\ (Closing(o)' => Closing(o))
  BY <1>2, <1>3 DEF On, Closing, Gone
<1>5. Typed'
  BY <1>1, <1>2, <1>3 DEF Typed
<1>6. OneHolder' /\ Plans'
  BY <1>1, <1>2 DEF OneHolder, Plans, Inside
<1>7. Processes'
  <2>1. \A s \in StreamIds : streams'[s] # 0 /\ ~On(Listed(s))' =>
          \E w \in Tasks : task'[w].pc = "replacing" /\ task'[w].cur = Listed(s)'
    <3> SUFFICES ASSUME NEW s \in StreamIds, streams[s] # 0, ~On(Listed(s))'
                 PROVE  \E w \in Tasks : task[w].pc = "replacing" /\ task[w].cur = Listed(s)
      BY <1>2 DEF Listed
    <3>1. Listed(s) \in Objs /\ Listed(s)' = Listed(s)
      BY <1>1, <1>2 DEF Typed, Listed, Objs
    <3>2. ~On(Listed(s))
      BY <1>4, <3>1 DEF On
    <3> QED
      BY <1>1, <3>2 DEF Processes
  <2>2. \A o \in Objs : On(o)' => (Listed(o[1]) = o)'
    BY <1>1, <1>2, <1>4 DEF Processes, Listed
  <2>3. \A o \in Objs : Closing(o)' =>
          Held(o)' \/ \E w \in Tasks : Stopping(w)' /\ task'[w].cur = o
    BY <1>1, <1>2, <1>4 DEF Processes, Held, Stopping
  <2>4. \A w \in Tasks : Stopping(w) => task[w].cur \in Objs
    BY <1>1, TaskTypes DEF Stopping
  <2>5. \A w \in Tasks : Stopping(w)' => ~On(task[w].cur)' /\ task'[w].cur = task[w].cur
    BY <1>1, <1>2, <1>4, <2>4 DEF Processes, Stopping
  <2>6. \A w \in Tasks : task'[w].pc = "stopall" =>
          /\ \A o \in task'[w].todo : ~On(o)'
          /\ \A o, r \in task'[w].todo : o[1] = r[1] => o = r
    BY <1>1, <1>2, <1>4, TaskTypes DEF Processes
  <2> QED
    BY <2>1, <2>2, <2>3, <2>5, <2>6 DEF Processes
<1>8. Covered'
  BY <1>1, <1>2 DEF Covered, Wanted, Due, Inside, Waiting
<1>9. \A o \in Objs, w \in Tasks : Excused(o, w)
  BY <1>3, <1>4 DEF Excused, On, Gone
<1> QED
  BY <1>5, <1>6, <1>7, <1>8, <1>9 DEF IInv

(* A camera may come or go without anybody listening. *)
LEMMA NothingKeeps ==
  ASSUME IInv, UNCHANGED <<managerVars, queue, task, paused, config>>,
         available' \subseteq StreamIds
  PROVE  IInv' /\ \A o \in Objs, w \in Tasks : Excused(o, w)
<1>1. Typed /\ OneHolder /\ Plans /\ Processes /\ Covered
  BY DEF IInv
<1>2. UNCHANGED <<streams, obj, unresolved, watching, latest, queue, task, paused, config>>
  BY DEF managerVars
<1>3. Typed' /\ OneHolder' /\ Plans'
  BY <1>1, <1>2 DEF Typed, OneHolder, Plans, Inside
<1>4. Processes'
  <2>1. /\ \A o : (On(o)' <=> On(o)) /\ (Closing(o)' <=> Closing(o)) /\ (Held(o)' <=> Held(o))
        /\ \A s : Listed(s)' = Listed(s)
        /\ \A w : Stopping(w)' <=> Stopping(w)
    BY <1>2 DEF On, Closing, Listed, Held, Stopping
  <2>2. \A s \in StreamIds : streams'[s] # 0 /\ ~On(Listed(s))' =>
          \E w \in Tasks : task'[w].pc = "replacing" /\ task'[w].cur = Listed(s)'
    BY <1>1, <1>2 DEF Processes, On, Listed
  <2>3. \A w \in Tasks : Stopping(w)' => ~On(task[w].cur)'
    BY <1>1, <1>2, <2>1 DEF Processes, On
  <2>4. \A o \in Objs : On(o)' => (Listed(o[1]) = o)'
    BY <1>1, <1>2, <2>1 DEF Processes, Listed
  <2>5. \A w \in Tasks : task'[w].pc = "stopall" =>
          /\ \A o \in task'[w].todo : ~On(o)'
          /\ \A o, r \in task'[w].todo : o[1] = r[1] => o = r
    BY <1>1, <1>2, <2>1 DEF Processes
  <2> QED
    BY <1>1, <1>2, <2>1, <2>2, <2>3, <2>4, <2>5 DEF Processes
<1>5. Covered'
  BY <1>1, <1>2 DEF Covered, Wanted, Due, Inside, Waiting
<1>6. \A o \in Objs, w \in Tasks : Excused(o, w)
  BY <1>2 DEF Excused, On
<1> QED
  BY <1>3, <1>4, <1>5, <1>6 DEF IInv

LEMMA CallsKeep ==
  ASSUME IInv,
         \/ \E t \in Callers, c \in Configs : Configure(t, c)
         \/ \E t \in Callers, s \in StreamIds : SetPaused(t, s)
         \/ Retry
         \/ \E s \in StreamIds : SourceChanges(s)
  PROVE  IInv' /\ \A o \in Objs, w \in Tasks : Excused(o, w)
<1>1. /\ latest \in Configs \cup {NoConfig} /\ config \in Configs
      /\ paused \subseteq StreamIds /\ available \subseteq StreamIds
      /\ Callers \subseteq Tasks /\ Cycle \in Tasks
  BY TasksAssumption DEF IInv, Typed, Callers
<1>2. ASSUME NEW t \in Callers, NEW c \in Configs, Configure(t, c)
      PROVE  IInv' /\ \A o \in Objs, w \in Tasks : Excused(o, w)
  <2>1. /\ task[t] = Idle /\ Apply(t, c, paused')
        /\ config' \in Configs /\ paused' \subseteq StreamIds /\ available' \subseteq StreamIds
    BY <1>1, <1>2 DEF Configure
  <2> QED
    BY <1>1, <2>1, ApplyKeeps
<1>3. ASSUME NEW t \in Callers, NEW s \in StreamIds, SetPaused(t, s)
      PROVE  IInv' /\ \A o \in Objs, w \in Tasks : Excused(o, w)
  <2>1. /\ task[t] = Idle /\ Apply(t, config, paused')
        /\ config' \in Configs /\ paused' \subseteq StreamIds /\ available' \subseteq StreamIds
    BY <1>1, <1>3 DEF SetPaused
  <2> QED
    BY <1>1, <2>1, ApplyKeeps
<1>4. ASSUME Retry PROVE IInv' /\ \A o \in Objs, w \in Tasks : Excused(o, w)
  <2>1. /\ task[Cycle] = Idle /\ Apply(Cycle, latest, paused') /\ latest \in Configs
        /\ config' \in Configs /\ paused' \subseteq StreamIds /\ available' \subseteq StreamIds
    BY <1>1, <1>4 DEF Retry, envVars
  <2> QED
    BY <1>1, <2>1, ApplyKeeps
<1>5. ASSUME NEW s \in StreamIds, SourceChanges(s)
      PROVE  IInv' /\ \A o \in Objs, w \in Tasks : Excused(o, w)
  <2>1. /\ UNCHANGED <<paused, config>> /\ available' \subseteq StreamIds
    BY <1>1, <1>5 DEF SourceChanges
  <2>2. ASSUME NEW t \in Callers, latest # NoConfig, task[t] = Idle, Apply(t, latest, paused)
        PROVE  IInv' /\ \A o \in Objs, w \in Tasks : Excused(o, w)
    <3>1. /\ latest \in Configs /\ config' \in Configs /\ paused' \subseteq StreamIds
          /\ Apply(t, latest, paused')
      BY <1>1, <2>1, <2>2
    <3> QED
      BY <1>1, <2>1, <2>2, <3>1, ApplyKeeps
  <2>3. ASSUME UNCHANGED <<managerVars, queue, task>>
        PROVE  IInv' /\ \A o \in Objs, w \in Tasks : Excused(o, w)
    BY <2>1, <2>3, NothingKeeps
  <2> QED
    BY <1>5, <2>2, <2>3 DEF SourceChanges
<1> QED
  BY <1>2, <1>3, <1>4, <1>5

LEMMA InvStep ==
  ASSUME IInv, [Next]_vars
  PROVE  IInv' /\ \A o \in Objs, w \in Tasks : Excused(o, w)
<1>1. ASSUME NEW t \in Tasks, ApplyStep(t)
      PROVE  IInv' /\ \A o \in Objs, w \in Tasks : Excused(o, w)
  BY <1>1, AcquireKeeps, ResolveKeeps, StoppedKeeps, ReplacedKeeps DEF ApplyStep
<1>2. ASSUME NEW t \in Tasks, StoppedAll(t)
      PROVE  IInv' /\ \A o \in Objs, w \in Tasks : Excused(o, w)
  BY <1>2, StoppedAllKeeps
<1>3. ASSUME NEW t \in Callers, StopAll(t)
      PROVE  IInv' /\ \A o \in Objs, w \in Tasks : Excused(o, w)
  BY <1>3, StopAllKeeps DEF Callers
<1>4. ASSUME NEW o \in Objs, ProcessGone(o)
      PROVE  IInv' /\ \A p \in Objs, w \in Tasks : Excused(p, w)
  BY <1>4, GoneKeeps
<1>5. ASSUME UNCHANGED vars PROVE IInv' /\ \A o \in Objs, w \in Tasks : Excused(o, w)
  BY <1>5, NothingKeeps DEF vars, envVars, IInv, Typed
<1> QED
  BY <1>1, <1>2, <1>3, <1>4, <1>5, CallsKeep DEF Next

-----------------------------------------------------------------------------
(* Everything the manager keeps always has its type, whatever is called    *)
(* and however the cameras come and go (recorder.py, RecorderManager).     *)
THEOREM TypeCorrect == Spec => []TypeOK
<1>1. IInv => TypeOK
  <2> SUFFICES ASSUME IInv PROVE TypeOK
    OBVIOUS
  <2>1. \A o \in Objs : obj[o].phase \in {"on", "closing", "off"}
    <3> TAKE o \in Objs
    <3>1. obj[o] \in {Gone} \cup Process
      BY DEF IInv, Typed
    <3> QED
      BY <3>1 DEF Gone, Process
  <2>2. \A t \in Tasks : task[t].pc \in
          {"idle", "wait", "resolve", "stopping", "replacing", "stopall"}
    <3> TAKE t \in Tasks
    <3>1. task[t] \in Coroutine
      BY DEF IInv, Typed
    <3> QED
      BY <3>1 DEF Coroutine, Idle, Waiter, Resolver, Popper, Replacer, Stopper
  <2> QED
    BY <2>1, <2>2 DEF IInv, Typed, TypeOK
<1>2. IInv /\ [Next]_vars => IInv'
  BY InvStep
<1> QED
  BY <1>1, <1>2, InvInit, PTL DEF Spec

(* No ffmpeg ever records that the manager has not listed: async_apply and *)
(* async_stop_all find every process they have to stop in _streams, though *)
(* both pop it and only then wait for it, and the second takes no lock.    *)
THEOREM NothingRunsUntracked == Spec => []NothingUntracked
<1>1. IInv => \A o \in Objs : obj[o].phase = "on" => streams[o[1]] = o[2]
  <2> SUFFICES ASSUME IInv, NEW o \in Objs, On(o) PROVE streams[o[1]] = o[2]
    BY DEF On
  <2>1. Listed(o[1]) = o
    BY DEF IInv, Processes
  <2> QED
    BY <2>1 DEF Listed, Objs
<1>2. IInv /\ [Next]_vars => IInv'
  BY InvStep
<1>3. Spec => []IInv
  BY <1>2, InvInit, PTL DEF Spec
<1>4. IInv /\ TypeOK => NothingUntracked
  BY <1>1, Zenon DEF NothingUntracked
<1> QED
  BY <1>3, <1>4, TypeCorrect, PTL

(* No stream ever has two processes, a replacement only starting when the  *)
(* one before is down, except while async_stop_all brings the old one down *)
(* beside an apply that was under way (recorder.py:444-454).               *)
THEOREM NeverTwoProcesses == Spec => []OneProcess
<1>1. IInv => OneProcess
  <2> SUFFICES ASSUME IInv, NEW o \in Objs, NEW r \in Objs, o[1] = r[1],
                      ~Absent(o), ~Absent(r), ~Held(o), ~Held(r)
               PROVE  o = r
    BY DEF OneProcess, Held
  <2>1. Typed /\ OneHolder /\ Plans /\ Processes
    BY DEF IInv
  <2>2. \A p \in Objs : Absent(p) \/ On(p) \/ Closing(p)
    <3> TAKE p \in Objs
    <3>1. obj[p] \in {Gone} \cup Process
      BY <2>1 DEF Typed
    <3> QED
      BY <3>1 DEF Gone, Process, Absent, On, Closing
  <2>3. /\ o = <<o[1], o[2]>> /\ r = <<r[1], r[2]>>
        /\ o[2] # 0 /\ r[2] # 0 /\ o[1] \in StreamIds
    BY DEF Objs
  <2>4. \A p \in Objs : On(p) => streams[p[1]] = p[2] /\ p[2] # 0
    <3> TAKE p \in Objs
    <3> HAVE On(p)
    <3>1. Listed(p[1]) = p
      BY <2>1 DEF Processes
    <3> QED
      BY <3>1 DEF Listed, Objs
  <2>5. \A p \in Objs : Closing(p) /\ ~Held(p) =>
          \E t \in Tasks : /\ Inside(t) /\ Stopping(t) /\ task[t].cur = p
                           /\ streams[p[1]] \in {0, p[2]}
    <3> SUFFICES ASSUME NEW p \in Objs, Closing(p), ~Held(p)
                 PROVE  \E t \in Tasks : /\ Inside(t) /\ Stopping(t) /\ task[t].cur = p
                                         /\ streams[p[1]] \in {0, p[2]}
      OBVIOUS
    <3>1. PICK t \in Tasks : Stopping(t) /\ task[t].cur = p
      BY <2>1 DEF Processes
    <3>2. streams[p[1]] \in {0, p[2]}
      BY <2>1, <3>1 DEF Plans, Stopping
    <3> QED
      BY <3>1, <3>2 DEF Stopping, Inside
  <2>6. CASE On(o) /\ On(r)
    BY <2>3, <2>4, <2>6
  <2>7. CASE On(o) /\ Closing(r)
    BY <2>3, <2>4, <2>5, <2>7
  <2>8. CASE Closing(o) /\ On(r)
    BY <2>3, <2>4, <2>5, <2>8
  <2>9. CASE Closing(o) /\ Closing(r)
    <3>1. PICK t \in Tasks : Inside(t) /\ task[t].cur = o
      BY <2>5, <2>9
    <3>2. PICK w \in Tasks : Inside(w) /\ task[w].cur = r
      BY <2>5, <2>9
    <3> QED
      BY <2>1, <3>1, <3>2 DEF OneHolder
  <2> QED
    BY <2>2, <2>6, <2>7, <2>8, <2>9
<1>2. IInv /\ [Next]_vars => IInv'
  BY InvStep
<1> QED
  BY <1>1, <1>2, InvInit, PTL DEF Spec

(* When nothing is in flight, every stream that should record either does  *)
(* or is one the next retry is armed for (recorder.py, _unresolved and     *)
(* _unsub_sources), however calls overlapped on the way.                   *)
THEOREM NoStreamIsForgotten == Spec => []NothingForgotten
<1>1. IInv => NothingForgotten
  <2> SUFFICES ASSUME IInv, AllIdle, latest # NoConfig
               PROVE  /\ watching = unresolved
                      /\ \A s \in StreamIds : Wanted(latest, s) =>
                           streams[s] # 0 \/ s \in unresolved
    BY DEF NothingForgotten
  <2>1. \A t \in Tasks : ~Inside(t) /\ ~Waiting(t)
    BY DEF AllIdle, Idle, Inside, Waiting
  <2> QED
    BY <2>1 DEF IInv, Covered
<1>2. IInv /\ [Next]_vars => IInv'
  BY InvStep
<1> QED
  BY <1>1, <1>2, InvInit, PTL DEF Spec

(* No step of an apply stops a recording whose arguments and location are  *)
(* what they were, unless its stream is paused, its camera just failed to  *)
(* resolve, or another apply is waiting that will put it right.            *)
THEOREM NeighboursAreLeftAlone == Spec => NeighbourKeepsRecording
<1>1. IInv /\ [Next]_vars =>
        [\A o \in Objs, t \in Tasks :
           /\ obj[o].phase = "on" /\ obj'[o].phase = "closing"
           /\ task'[t].pc \in {"stopping", "replacing"} /\ task'[t].cur = o
           => LET c == task'[t].cfg IN
              \/ c.spec[o[1]] # obj[o].spec
              \/ c.base # obj[o].base
              \/ o[1] \in paused'
              \/ o[1] \in unresolved'
              \/ \E w \in Tasks : task'[w].pc = "wait"]_vars
  <2> SUFFICES ASSUME IInv, [Next]_vars, NEW o \in Objs, NEW t \in Tasks
               PROVE  /\ obj[o].phase = "on" /\ obj'[o].phase = "closing"
                      /\ task'[t].pc \in {"stopping", "replacing"} /\ task'[t].cur = o
                      => LET c == task'[t].cfg IN
                         \/ c.spec[o[1]] # obj[o].spec
                         \/ c.base # obj[o].base
                         \/ o[1] \in paused'
                         \/ o[1] \in unresolved'
                         \/ \E w \in Tasks : task'[w].pc = "wait"
    OBVIOUS
  <2>1. Excused(o, t)
    BY InvStep
  <2> QED
    BY <2>1 DEF Excused, On
<1>2. IInv /\ [Next]_vars => IInv'
  BY InvStep
<1> QED
  BY <1>1, <1>2, InvInit, PTL DEF Spec, NeighbourKeepsRecording
=============================================================================
