------------------------ MODULE AskingAndPresenceProofs ------------------------
(***************************************************************************)
(* What is asked of a model and what becomes of its answer, for any        *)
(* profile, people and configurations and whatever a model says; and that  *)
(* presence always ends, and only for a reason, for any set of people, any *)
(* configurations and any number of saves.                                 *)
(*                                                                         *)
(* Presence: what a timer was set to depends on the delay that was in      *)
(* force then, and that the last save to arrive is the coordinator's       *)
(* configuration depends on the order of those still on their way, and     *)
(* that no timer outlives its state on whoever is present having one.      *)
(* IInv adds these to the invariants of PersonPresence.                    *)
(*                                                                         *)
(* Asking: that the picture, the boxes and the values belong to a request  *)
(* depends on what that request was read from, long after the              *)
(* configuration has changed.  AskingInv says what it was read from, what  *)
(* is heard at each point and which boxes the marks were read from.  What  *)
(* is planned, loaded, named and kept is computed by folds; the lemmas     *)
(* before it say, one element after the other, what these folds return.    *)
(***************************************************************************)
EXTENDS PersonPresence, Asking, FiniteSetTheorems, WellFoundedInduction, SequenceTheorems,
        TLAPS

-----------------------------------------------------------------------------
(* Presence *)

(* Every timer runs for some configured delay after the last sighting. *)
TimersMeasured ==
  \A p \in armed :
    \E c \in Configs : deadline[p] = last_seen[p] + c.absence_seconds

(* The save that arrives last is the coordinator's configuration. *)
LastSaveIsConfig == applying # <<>> => applying[Len(applying)] = config

(* Whoever is present has a state. *)
PresentAreKnown == \A p \in Persons : present[p] => p \in states

IInv ==
  /\ TypeOK /\ TimersMeasured /\ LastSaveIsConfig /\ PresentAreKnown
  /\ PresenceEnds /\ TimersFollow

-----------------------------------------------------------------------------
(* The queue of saves *)

(* What is saved is on its way, and is the last to arrive. *)
LEMMA SaveGoesLast ==
  ASSUME NEW s \in Seq(Configs), NEW c \in Configs
  PROVE  /\ Append(s, c) \in Seq(Configs)
         /\ Append(s, c) # <<>>
         /\ Append(s, c)[Len(Append(s, c))] = c
OBVIOUS

(* An arrival leaves the others in their order; if there is no other, the  *)
(* one that arrived was the last.                                          *)
LEMMA ArrivalKeepsLast ==
  ASSUME NEW s \in Seq(Configs), s # <<>>
  PROVE  /\ Head(s) \in Configs /\ Tail(s) \in Seq(Configs)
         /\ Tail(s) # <<>> => Tail(s)[Len(Tail(s))] = s[Len(s)]
         /\ Tail(s) = <<>> => Head(s) = s[Len(s)]
<1>1. Len(s) \in Nat \ {0}
  BY EmptySeq
<1>2. /\ Tail(s) \in Seq(Configs) /\ Len(Tail(s)) = Len(s) - 1
      /\ \A i \in 1 .. Len(Tail(s)) : Tail(s)[i] = s[i + 1]
  BY HeadTailProperties
<1>3. Head(s) = s[1] /\ Head(s) \in Configs
  BY HeadTailProperties
<1>4. ASSUME Tail(s) # <<>> PROVE Tail(s)[Len(Tail(s))] = s[Len(s)]
  <2>1. Len(Tail(s)) \in 1 .. Len(Tail(s))
    BY <1>2, <1>4, EmptySeq
  <2> QED
    BY <1>1, <1>2, <2>1
<1>5. ASSUME Tail(s) = <<>> PROVE Head(s) = s[Len(s)]
  <2>1. Len(Tail(s)) = 0
    BY <1>5, EmptySeq
  <2>2. Len(Tail(s)) = Len(s) - 1
    BY <1>2
  <2>3. Len(s) = 1
    BY <1>1, <2>1, <2>2
  <2> QED
    BY <1>3, <2>3, Zenon
<1> QED
  BY <1>2, <1>3, <1>4, <1>5

-----------------------------------------------------------------------------
(* The inductive invariant *)

LEMMA InvInit == Init => IInv
<1> SUFFICES ASSUME Init PROVE IInv
  OBVIOUS
<1>1. TypeOK
  <2>1. applying \in Seq(Configs)
    BY EmptySeq DEF Init
  <2>2. present \in [Persons -> BOOLEAN]
    BY DEF Init
  <2>3. last_seen \in [Persons -> Nat] /\ \A p \in Persons : last_seen[p] <= now
    BY DEF Init
  <2>4. deadline \in [Persons -> Nat] /\ armed = {}
    BY DEF Init
  <2> QED
    BY <2>1, <2>2, <2>3, <2>4 DEF Init, TypeOK
<1>2. TimersMeasured /\ LastSaveIsConfig /\ PresentAreKnown /\ PresenceEnds /\ TimersFollow
  BY DEF Init, TimersMeasured, LastSaveIsConfig, PresentAreKnown, PresenceEnds, TimersFollow
<1> QED
  BY <1>1, <1>2 DEF IInv

(* A sighting arms the person's timer with the delay in force. *)
LEMMA SeenKeepsInv ==
  ASSUME IInv, NEW p \in Persons, Seen(p)
  PROVE  IInv'
<1> USE ConfigsAssumption DEF IInv, Seen, Arm
<1>1. TypeOK'
  BY DEF TypeOK
<1>2. TimersMeasured'
  BY DEF TypeOK, TimersMeasured
<1>3. LastSaveIsConfig'
  BY DEF LastSaveIsConfig
<1>4. PresenceEnds'
  BY DEF TypeOK, PresenceEnds
<1>5. TimersFollow'
  BY DEF TypeOK, TimersFollow
<1>6. PresentAreKnown'
  BY DEF TypeOK, PresentAreKnown
<1> QED
  BY <1>1, <1>2, <1>3, <1>4, <1>5, <1>6

(* An arrival sets every timer from the last sighting. *)
LEMMA ApplyKeepsInv == IInv /\ Apply => IInv'
<1> SUFFICES ASSUME IInv, Apply PROVE IInv'
  OBVIOUS
<1> DEFINE c == Head(applying)
<1>1. /\ applying # <<>> /\ applying \in Seq(Configs)
      /\ present \in [Persons -> BOOLEAN] /\ last_seen \in [Persons -> Nat]
      /\ deadline \in [Persons -> Nat] /\ now \in Nat
      /\ \A p \in Persons : last_seen[p] <= now
  BY DEF IInv, TypeOK, Apply
<1>2. c \in Configs /\ c.people \subseteq Persons /\ c.absence_seconds \in Nat
  BY <1>1, ArrivalKeepsLast, ConfigsAssumption
<1>3. /\ armed' = Kept(c) \ Overdue(c) /\ armed' \subseteq Persons
      /\ \A p \in armed' : now - last_seen[p] < c.absence_seconds
      /\ present' = [p \in Persons |-> p \in armed']
      /\ last_seen' = last_seen /\ now' = now
  <2>1. /\ armed' = Kept(c) \ Overdue(c) /\ present' = StillPresent(c)
        /\ last_seen' = last_seen /\ now' = now
    BY DEF Apply
  <2>2. armed' \subseteq Persons
    BY <1>2, <2>1 DEF Kept
  <2>3. \A p \in armed' : now - last_seen[p] < c.absence_seconds
    BY <1>1, <1>2, <2>1 DEF Kept, Overdue
  <2> QED
    BY <2>1, <2>2, <2>3 DEF StillPresent
<1>4. /\ deadline' \in [Persons -> Nat]
      /\ \A p \in armed' : deadline'[p] = last_seen[p] + c.absence_seconds
  <2>1. deadline' = [p \in Persons |->
                      IF p \in armed' THEN Remaining(p, c) ELSE deadline[p]]
    BY <1>3 DEF Apply
  <2>2. \A p \in armed' : Remaining(p, c) = last_seen[p] + c.absence_seconds
    BY <1>1, <1>2, <1>3 DEF Remaining
  <2> QED
    BY <1>1, <1>2, <1>3, <2>1, <2>2
<1>5. /\ applying' = Tail(applying) /\ applying' \in Seq(Configs)
      /\ UNCHANGED <<config, stopped, now, saves>> /\ missed' = FALSE
  BY <1>1, ArrivalKeepsLast DEF Apply
<1>6. TypeOK'
  <2>1. \A p \in armed' : deadline'[p] <= now' + c.absence_seconds
    BY <1>1, <1>2, <1>3, <1>4
  <2>2. present' \in [Persons -> BOOLEAN]
    BY <1>3
  <2>3. states' \in SUBSET Persons /\ armed' \subseteq states'
    BY <1>3 DEF IInv, TypeOK, PresentAreKnown, Apply, Kept
  <2> QED
    BY <1>1, <1>2, <1>3, <1>4, <1>5, <2>1, <2>2, <2>3 DEF IInv, TypeOK
<1>7. TimersMeasured'
  BY <1>2, <1>3, <1>4 DEF TimersMeasured
<1>8. LastSaveIsConfig'
  BY <1>1, <1>5, ArrivalKeepsLast DEF IInv, LastSaveIsConfig
<1>9. PresenceEnds'
  BY <1>3 DEF PresenceEnds
<1>10. TimersFollow'
  <2>1. applying' = <<>> => c = config
    BY <1>1, <1>5, ArrivalKeepsLast DEF IInv, LastSaveIsConfig
  <2> QED
    BY <1>3, <1>4, <1>5, <2>1 DEF TimersFollow
<1>11. PresentAreKnown'
  <2>1. armed' \subseteq states'
    BY <1>6 DEF TypeOK
  <2> QED
    BY <1>3, <2>1 DEF PresentAreKnown
<1> QED
  BY <1>6, <1>7, <1>8, <1>9, <1>10, <1>11 DEF IInv

(* An arrival that breaks off sets some timers from the last sighting and  *)
(* leaves the others; it does not count as one.                            *)
LEMMA ApplyBreaksKeepsInv == IInv /\ ApplyBreaks => IInv'
<1> SUFFICES ASSUME IInv, ApplyBreaks PROVE IInv'
  OBVIOUS
<1> DEFINE c == Head(applying)
<1>1. /\ applying # <<>> /\ applying \in Seq(Configs)
      /\ states \in SUBSET Persons /\ armed \subseteq states /\ config \in Configs
      /\ present \in [Persons -> BOOLEAN] /\ last_seen \in [Persons -> Nat]
      /\ deadline \in [Persons -> Nat] /\ now \in Nat
      /\ \A p \in Persons : last_seen[p] <= now
      /\ \A p \in Persons : present[p] => p \in states
  BY DEF IInv, TypeOK, PresentAreKnown, ApplyBreaks
<1>2. c \in Configs /\ c.people \subseteq Persons /\ c.absence_seconds \in Nat
  BY <1>1, ArrivalKeepsLast, ConfigsAssumption
<1>3. PICK gone \in Overdue(c), before \in SUBSET (Kept(c) \ Overdue(c)) :
        /\ \E new \in SUBSET (config.people \ (states \cap c.people)) :
             new # {} /\ states' = (states \cap c.people) \cup new
        /\ present' = [p \in Persons |-> p \in Kept(c) \ {gone}]
        /\ armed' = ((armed \cap c.people) \ {gone}) \cup before
        /\ deadline' = [p \in Persons |->
             IF p \in before THEN Remaining(p, c) ELSE deadline[p]]
  BY DEF ApplyBreaks
<1>4. /\ applying' = Tail(applying) /\ applying' \in Seq(Configs) /\ missed' = TRUE
      /\ UNCHANGED <<config, last_seen, stopped, now, saves>>
  BY <1>1, ArrivalKeepsLast DEF ApplyBreaks
<1>5. \A p \in before : /\ p \in Persons /\ p \in c.people /\ present[p]
                        /\ now - last_seen[p] < c.absence_seconds
  <2> SUFFICES ASSUME NEW p \in before PROVE  p \in Persons /\ p \in c.people /\ present[p] /\ now - last_seen[p] < c.absence_seconds
    OBVIOUS
  <2>1. p \in Kept(c) /\ p \notin Overdue(c)
    BY <1>3
  <2>2. p \in c.people /\ present[p] /\ p \in Persons
    BY <1>2, <2>1 DEF Kept
  <2>3. ~ (now - last_seen[p] >= c.absence_seconds)
    BY <2>1 DEF Overdue
  <2>4. last_seen[p] \in Nat
    BY <1>1, <2>2
  <2> QED
    BY <1>1, <1>2, <2>2, <2>3, <2>4
<1>6. \A p \in before : Remaining(p, c) = last_seen[p] + c.absence_seconds
  <2> SUFFICES ASSUME NEW p \in before
               PROVE  Remaining(p, c) = last_seen[p] + c.absence_seconds
    OBVIOUS
  <2>1. last_seen[p] \in Nat
    BY <1>1, <1>5
  <2>2. now + (c.absence_seconds - (now - last_seen[p])) = last_seen[p] + c.absence_seconds
    BY <1>1, <1>2, <2>1
  <2> QED
    BY <2>2 DEF Remaining
<1>7. states' \in SUBSET Persons /\ states \cap c.people \subseteq states'
  <2>1. config.people \subseteq Persons
    BY <1>1, ConfigsAssumption
  <2> QED
    BY <1>1, <1>3, <2>1
<1>8. armed' \subseteq states' /\ armed' \subseteq armed \cup before
  <2>1. before \subseteq states \cap c.people
    BY <1>1, <1>5
  <2> QED
    BY <1>1, <1>3, <1>7, <2>1
<1>9. deadline' \in [Persons -> Nat]
  <2>1. ASSUME NEW p \in before PROVE Remaining(p, c) \in Nat
    <3>1. last_seen[p] \in Nat
      BY <1>1, <1>5
    <3>2. last_seen[p] + c.absence_seconds \in Nat
      BY <1>2, <3>1
    <3> QED
      BY <1>6, <3>2, Zenon
  <2> QED
    BY <1>1, <1>3, <2>1
<1>10. TimersMeasured'
  <2>1. ASSUME NEW p \in armed'
        PROVE  \E d \in Configs : deadline'[p] = last_seen[p] + d.absence_seconds
    <3>1. CASE p \in before
      BY <1>2, <1>3, <1>5, <1>6, <3>1
    <3>2. CASE p \notin before
      <4>1. p \in armed /\ p \in Persons /\ deadline'[p] = deadline[p]
        BY <1>1, <1>3, <1>8, <3>2
      <4> QED
        BY <4>1 DEF IInv, TimersMeasured
    <3> QED
      BY <3>1, <3>2
  <2> QED
    BY <1>4, <2>1 DEF TimersMeasured
<1>11. TypeOK'
  <2>1. ASSUME NEW p \in armed'
        PROVE  \E d \in Configs : deadline'[p] <= now' + d.absence_seconds
    <3>1. PICK d \in Configs : deadline'[p] = last_seen[p] + d.absence_seconds
      BY <1>4, <1>10 DEF TimersMeasured
    <3>2. p \in Persons
      BY <1>7, <1>8
    <3>3. last_seen[p] \in Nat /\ last_seen[p] <= now /\ d.absence_seconds \in Nat
      BY <1>1, <3>2, ConfigsAssumption
    <3> QED
      BY <1>1, <1>4, <3>1, <3>3
  <2>2. present' \in [Persons -> BOOLEAN]
    BY <1>3
  <2>3. armed' \in SUBSET Persons
    BY <1>7, <1>8
  <2> QED
    BY <1>1, <1>4, <1>7, <1>8, <1>9, <2>1, <2>2, <2>3 DEF IInv, TypeOK
<1>12. LastSaveIsConfig'
  BY <1>1, <1>4, ArrivalKeepsLast DEF IInv, LastSaveIsConfig
<1>13. \A p \in Persons :
         present'[p] => present[p] /\ p \in c.people /\ p # gone
  BY <1>3 DEF Kept
<1>14. PresentAreKnown'
  BY <1>1, <1>7, <1>13 DEF PresentAreKnown
<1>15. PresenceEnds'
  BY <1>3, <1>4, <1>13 DEF IInv, PresenceEnds
<1>16. TimersFollow'
  BY <1>4 DEF TimersFollow
<1> QED
  BY <1>10, <1>11, <1>12, <1>14, <1>15, <1>16 DEF IInv

(* What happens to the queue of saves leaves people and timers alone. *)
LEMMA QueueKeepsInv ==
  ASSUME IInv, RecorderFails \/ \E c \in Configs : Save(c)
  PROVE  IInv'
<1>1. /\ applying' \in Seq(Configs) /\ config' \in Configs
      /\ saves' \in Nat /\ missed' \in BOOLEAN
      /\ applying' # <<>> => applying'[Len(applying')] = config'
      /\ applying' # <<>> \/ missed'
      /\ UNCHANGED <<personVars, stopped, now>>
  <2>1. ASSUME RecorderFails PROVE <1>1!:
    BY <2>1, ArrivalKeepsLast DEF IInv, TypeOK, LastSaveIsConfig, RecorderFails
  <2>2. ASSUME NEW c \in Configs, Save(c) PROVE <1>1!:
    BY <2>2, SaveGoesLast DEF IInv, TypeOK, Save
  <2> QED
    BY <2>1, <2>2
<1> QED
  BY <1>1 DEF IInv, TypeOK, TimersMeasured, LastSaveIsConfig, PresentAreKnown, PresenceEnds,
              TimersFollow, personVars

LEMMA InvStep == IInv /\ [Next]_vars => IInv'
<1> SUFFICES ASSUME IInv, [Next]_vars PROVE IInv'
  OBVIOUS
<1> USE ConfigsAssumption DEF IInv
<1>1. ASSUME NEW p \in Persons, Seen(p) PROVE IInv'
  BY <1>1, SeenKeepsInv
<1>2. ASSUME NEW p \in Persons, Expire(p) PROVE IInv'
  BY <1>2 DEF Expire, TypeOK, TimersMeasured, LastSaveIsConfig, PresentAreKnown, PresenceEnds,
             TimersFollow
<1>3. CASE RecorderFails \/ \E c \in Configs : Save(c)
  BY <1>3, QueueKeepsInv
<1>4. CASE Apply
  BY <1>4, ApplyKeepsInv
<1>5. CASE Stop
  BY <1>5 DEF Stop, TypeOK, TimersMeasured, LastSaveIsConfig, PresentAreKnown, PresenceEnds,
             TimersFollow
<1>6. CASE Restart
  <2>1. applying' \in Seq(Configs)
    BY <1>6, EmptySeq DEF Restart
  <2>2. present' \in [Persons -> BOOLEAN]
    BY <1>6 DEF Restart
  <2>3. /\ last_seen' \in [Persons -> Nat]
        /\ \A p \in Persons : last_seen'[p] <= now'
    BY <1>6 DEF Restart, TypeOK
  <2>4. deadline' \in [Persons -> Nat] /\ armed' = {}
    BY <1>6 DEF Restart
  <2>5. TypeOK'
    BY <1>6, <2>1, <2>2, <2>3, <2>4 DEF Restart, TypeOK
  <2> QED
    BY <1>6, <2>5
    DEF Restart, TimersMeasured, LastSaveIsConfig, PresentAreKnown, PresenceEnds, TimersFollow
<1>7. CASE Tick
  <2>1. ASSUME NEW p \in armed
        PROVE  \E c \in Configs : deadline[p] <= now' + c.absence_seconds
    <3>1. PICK c \in Configs : deadline[p] <= now + c.absence_seconds
      BY DEF TypeOK
    <3>2. /\ deadline[p] \in Nat /\ now \in Nat /\ c.absence_seconds \in Nat
          /\ now' = now + 1
      BY <1>7 DEF Tick, TypeOK
    <3> QED
      BY <3>1, <3>2
  <2>2. \A p \in Persons : last_seen[p] <= now'
    BY <1>7 DEF Tick, TypeOK
  <2>3. TypeOK'
    BY <1>7, <2>1, <2>2 DEF Tick, TypeOK, personVars
  <2> QED
    BY <1>7, <2>3
    DEF Tick, personVars, TimersMeasured, LastSaveIsConfig, PresentAreKnown, PresenceEnds,
        TimersFollow
<1>8. CASE UNCHANGED vars
  BY <1>8 DEF vars, personVars, TypeOK, TimersMeasured, LastSaveIsConfig, PresentAreKnown,
              PresenceEnds, TimersFollow
<1>9. CASE ApplyBreaks
  BY <1>9, ApplyBreaksKeepsInv
<1>10. ASSUME NEW p \in Persons, Look(p) PROVE IInv'
  BY <1>10 DEF Look, TypeOK, TimersMeasured, LastSaveIsConfig, PresentAreKnown, PresenceEnds,
              TimersFollow
<1> QED
  BY <1>1, <1>2, <1>3, <1>4, <1>5, <1>6, <1>7, <1>8, <1>9, <1>10 DEF Next

LEMMA Invariant == Spec => []IInv
BY InvInit, InvStep, PTL DEF Spec

-----------------------------------------------------------------------------
(* Results *)

(* The variables keep their types, and no timer is set further ahead than  *)
(* the longest delay.                                                      *)
THEOREM TypeCorrect == Spec => []TypeOK
<1>1. IInv => TypeOK
  BY DEF IInv
<1> QED
  BY <1>1, Invariant, PTL

(* Nobody is present without a timer that will end it, whatever sightings, *)
(* deletions, late or lost saves the tracker sees.                         *)
THEOREM PresenceAlwaysEnds == Spec => []PresenceEnds
<1>1. IInv => PresenceEnds
  BY DEF IInv
<1> QED
  BY <1>1, Invariant, PTL

(* When every save has arrived, and none broke off on the way, the timers  *)
(* are those of the configuration, measured from the last sighting.        *)
THEOREM TimersFollowConfig == Spec => []TimersFollow
<1>1. IInv => TimersFollow
  BY DEF IInv
<1> QED
  BY <1>1, Invariant, PTL

(* Only the configured delay, or deletion, makes somebody absent. *)
THEOREM AbsenceIsTimed == Spec => NeverEarly
<1> DEFINE Allowed(p) ==
      \/ \E c \in Configs :
           /\ c.absence_seconds <= now - last_seen[p]
           /\ applying = <<>> /\ ~missed => c = config
      \/ applying # <<>> /\ p \notin Head(applying).people
<1>1. ASSUME IInv, [Next]_vars, NEW p \in Persons, present[p], ~present'[p], ~stopped
      PROVE  Allowed(p)
  <2> USE <1>1 DEF IInv
  <2>1. ASSUME Expire(p) PROVE Allowed(p)
    <3>1. p \in armed /\ deadline[p] <= now
      BY <2>1 DEF Expire
    <3>2. PICK c \in Configs : deadline[p] = last_seen[p] + c.absence_seconds
      BY <3>1 DEF TimersMeasured
    <3>3. applying = <<>> /\ ~missed =>
            deadline[p] = last_seen[p] + config.absence_seconds
      BY <3>1 DEF TimersFollow
    <3>4. config \in Configs /\ last_seen[p] \in Nat /\ now \in Nat
      BY DEF TypeOK
    <3> QED
      BY <3>1, <3>2, <3>3, <3>4, ConfigsAssumption
  <2>2. ASSUME Apply PROVE Allowed(p)
    <3>1. applying # <<>> /\ Head(applying) \in Configs
      BY <2>2, ArrivalKeepsLast DEF Apply, TypeOK
    <3>2. p \notin Kept(Head(applying)) \ Overdue(Head(applying))
      BY <2>2 DEF Apply, StillPresent
    <3>3. last_seen[p] \in Nat /\ now \in Nat
      BY DEF TypeOK
    <3> QED
      BY <3>1, <3>2, <3>3, ConfigsAssumption DEF Kept, Overdue
  <2>3. ASSUME ApplyBreaks PROVE Allowed(p)
    <3>1. applying # <<>> /\ Head(applying) \in Configs
      BY <2>3, ArrivalKeepsLast DEF ApplyBreaks, TypeOK
    <3>2. PICK gone \in Overdue(Head(applying)) :
            present' = [q \in Persons |-> q \in Kept(Head(applying)) \ {gone}]
      BY <2>3 DEF ApplyBreaks
    <3>3. p \notin Kept(Head(applying)) \/ p \in Overdue(Head(applying))
      BY <3>2
    <3>4. last_seen[p] \in Nat /\ now \in Nat
      BY DEF TypeOK
    <3> QED
      BY <3>1, <3>3, <3>4, ConfigsAssumption DEF Kept, Overdue
  <2>4. Expire(p) \/ Apply \/ ApplyBreaks
    <3>1. ASSUME NEW q \in Persons, Seen(q) PROVE FALSE
      BY <3>1 DEF Seen, TypeOK
    <3>2. ASSUME NEW q \in Persons, q # p, Expire(q) PROVE FALSE
      BY <3>2 DEF Expire, TypeOK
    <3>3. ASSUME Restart PROVE FALSE
      BY <3>3 DEF Restart
    <3>4. present' = present => FALSE
      OBVIOUS
    <3> QED
      BY <3>1, <3>2, <3>3, <3>4
      DEF Next, vars, personVars, Look, Save, RecorderFails, Stop, Tick
  <2> QED
    BY <2>1, <2>2, <2>3, <2>4
<1>2. IInv /\ [Next]_vars =>
        [\A p \in Persons : present[p] /\ ~present'[p] /\ ~stopped => Allowed(p)]_vars
  BY <1>1
<1> QED
  BY <1>2, Invariant, PTL DEF Spec, NeverEarly

-----------------------------------------------------------------------------
(* Folds over a sequence, one element after the other *)

LEMMA LeastNumber ==
  ASSUME NEW S \in SUBSET Nat, S # {}
  PROVE  \E m \in S : \A k \in S : ~ (k < m)
<1>1. PICK m \in S : \A k \in S : ~ (<<k, m>> \in OpToRel(<, Nat))
  BY NatLessThanWellFounded, WFMin, Zenon
<1> QED
  BY <1>1 DEF OpToRel

LEMMA EveryNumber ==
  ASSUME NEW G, 0 \in G, \A n \in Nat : n \in G => n + 1 \in G
  PROVE  Nat \subseteq G
<1> DEFINE Bad == {n \in Nat : n \notin G}
<1>1. SUFFICES ASSUME Bad # {}
               PROVE  FALSE
  OBVIOUS
<1>2. Bad \in SUBSET Nat
  OBVIOUS
<1>3. PICK m \in Bad : \A k \in Bad : ~ (k < m)
  <2> HIDE DEF Bad
  <2> QED
    BY <1>1, <1>2, LeastNumber
<1>4. m # 0 /\ m - 1 \in Nat /\ m - 1 < m /\ m = (m - 1) + 1
  OBVIOUS
<1>5. m - 1 \in G
  BY <1>3, <1>4
<1> QED
  BY <1>4, <1>5

LEMMA MaxIsLast ==
  ASSUME NEW n \in Nat, NEW T \in SUBSET (1 .. n), T # {}
  PROVE  Max(T) \in T /\ \A y \in T : Max(T) >= y
<1> DEFINE HasMax(U) == \E x \in U : \A y \in U : x >= y
           G == {m \in Nat : \A U \in SUBSET (1 .. m) : U # {} => HasMax(U)}
<1>1. 0 \in G
  <2>1. 1 .. 0 = {}
    OBVIOUS
  <2> QED
    BY <2>1
<1>2. ASSUME NEW m \in Nat, m \in G
      PROVE  m + 1 \in G
  <2>1. SUFFICES ASSUME NEW U \in SUBSET (1 .. m + 1), U # {}
                 PROVE  HasMax(U)
    OBVIOUS
  <2>2. CASE m + 1 \in U
    BY <2>2
  <2>3. CASE m + 1 \notin U
    <3>1. U \in SUBSET (1 .. m)
      BY <2>3
    <3> QED
      BY <1>2, <2>1, <3>1
  <2> QED
    BY <2>2, <2>3
<1>3. Nat \subseteq G
  <2> HIDE DEF G
  <2> QED
    BY <1>1, <1>2, EveryNumber
<1>4. HasMax(T)
  BY <1>3
<1> QED
  BY <1>4 DEF Max

(* g takes the parts of 1 .. n apart from the greatest number down. *)
Folded(Q, base, n, step, g) ==
  /\ g \in [SUBSET (1 .. n) -> Q]
  /\ \A T \in SUBSET (1 .. n) :
       g[T] = IF T = {} THEN base ELSE step[<<g[T \ {Max(T)}], Max(T)>>]

(* There is such a g, if every step stays in Q. *)
LEMMA FoldExists ==
  ASSUME NEW Q, NEW base \in Q, NEW n \in Nat, NEW step \in [Q \X (1 .. n) -> Q]
  PROVE  \E g : Folded(Q, base, n, step, g)
<1> DEFINE Good(m, g) ==
             /\ g \in [SUBSET (1 .. m) -> Q]
             /\ \A T \in SUBSET (1 .. m) :
                  g[T] = IF T = {} THEN base ELSE step[<<g[T \ {Max(T)}], Max(T)>>]
           G == {m \in Nat : m <= n => \E g : Good(m, g)}
<1>1. 0 \in G
  <2>1. PICK g : g = [T \in SUBSET (1 .. 0) |-> base]
    OBVIOUS
  <2>2. Good(0, g)
    BY <2>1
  <2> HIDE DEF Good
  <2> QED
    BY <2>2
<1>2. ASSUME NEW m \in Nat, m \in G
      PROVE  m + 1 \in G
  <2> HIDE DEF Good
  <2>1. SUFFICES ASSUME m + 1 <= n
                 PROVE  \E g : Good(m + 1, g)
    OBVIOUS
  <2>2. PICK g : Good(m, g)
    BY <1>2, <2>1
  <2> USE DEF Good
  <2> DEFINE h == [T \in SUBSET (1 .. m + 1) |->
                     IF m + 1 \in T THEN step[<<g[T \ {m + 1}], m + 1>>] ELSE g[T]]
  <2>3. \A T \in SUBSET (1 .. m + 1) :
          /\ m + 1 \notin T => T \in SUBSET (1 .. m)
          /\ T \ {m + 1} \in SUBSET (1 .. m)
          /\ m + 1 \in T => Max(T) = m + 1
    <3>1. ASSUME NEW T \in SUBSET (1 .. m + 1), m + 1 \in T
          PROVE  Max(T) = m + 1
      <4>1. m + 1 \in Nat /\ T # {}
        BY <3>1
      <4>2. Max(T) \in T /\ Max(T) >= m + 1
        BY <3>1, <4>1, MaxIsLast
      <4>3. Max(T) \in 1 .. m + 1
        BY <4>2
      <4> QED
        BY <4>2, <4>3
    <3> QED
      BY <3>1
  <2>4. h \in [SUBSET (1 .. m + 1) -> Q]
    <3>1. ASSUME NEW T \in SUBSET (1 .. m + 1)
          PROVE  h[T] \in Q
      <4>1. CASE m + 1 \in T
        <5>1. g[T \ {m + 1}] \in Q /\ m + 1 \in 1 .. n
          BY <2>1, <2>2, <2>3
        <5>2. h[T] = step[<<g[T \ {m + 1}], m + 1>>]
          BY <4>1
        <5> QED
          BY <5>1, <5>2
      <4>2. CASE m + 1 \notin T
        BY <2>2, <2>3, <4>2
      <4> QED
        BY <4>1, <4>2
    <3> QED
      BY <3>1
  <2>5. ASSUME NEW T \in SUBSET (1 .. m + 1)
        PROVE  h[T] = IF T = {} THEN base ELSE step[<<h[T \ {Max(T)}], Max(T)>>]
    <3>1. CASE m + 1 \in T
      <4>1. T \ {m + 1} \in SUBSET (1 .. m + 1) /\ m + 1 \notin T \ {m + 1}
        OBVIOUS
      <4>2. h[T \ {m + 1}] = g[T \ {m + 1}]
        BY <4>1
      <4>3. h[T] = step[<<g[T \ {m + 1}], m + 1>>]
        BY <3>1
      <4>4. Max(T) = m + 1 /\ T # {}
        BY <2>3, <3>1
      <4> HIDE DEF h
      <4> QED
        BY <4>2, <4>3, <4>4
    <3>2. CASE m + 1 \notin T
      <4>1. T \in SUBSET (1 .. m) /\ h[T] = g[T]
        BY <2>3, <3>2
      <4>2. T \ {Max(T)} \in SUBSET (1 .. m)
        BY <4>1
      <4>3. h[T \ {Max(T)}] = g[T \ {Max(T)}]
        <5>1. T \ {Max(T)} \in SUBSET (1 .. m + 1) /\ m + 1 \notin T \ {Max(T)}
          BY <3>2
        <5> QED
          BY <5>1
      <4>4. g[T] = IF T = {} THEN base ELSE step[<<g[T \ {Max(T)}], Max(T)>>]
        BY <2>2, <4>1
      <4> HIDE DEF h, Good
      <4> QED
        BY <4>1, <4>3, <4>4
    <3> QED
      BY <3>1, <3>2
  <2>6. Good(m + 1, h)
    <3> HIDE DEF h
    <3> QED
      BY <2>4, <2>5
  <2> HIDE DEF Good, h
  <2> QED
    BY <2>6
<1>3. Nat \subseteq G
  <2> HIDE DEF G
  <2> QED
    BY <1>1, <1>2, EveryNumber
<1> HIDE DEF Good
<1>4. PICK g : Good(n, g)
  BY <1>3
<1>5. Folded(Q, base, n, step, g)
  BY <1>4 DEF Good, Folded
<1> QED
  BY <1>5, Zenon

-----------------------------------------------------------------------------
(* Sequences joined and thinned *)

(* A chain of values, each of which follows from the one before it *)
Joined(seqs, pre) ==
  /\ pre[0] = <<>>
  /\ \A i \in 1 .. Len(seqs) : pre[i] = pre[i - 1] \o seqs[i]

LEMMA UpTo ==
  ASSUME NEW n \in Nat, NEW i \in 1 .. n
  PROVE  /\ 1 .. i # {} /\ 1 .. i \in SUBSET (1 .. n)
         /\ Max(1 .. i) = i /\ (1 .. i) \ {i} = 1 .. i - 1
<1>1. i \in 1 .. i /\ 1 .. i \in SUBSET (1 .. n) /\ i \in Nat
  OBVIOUS
<1>2. Max(1 .. i) \in 1 .. i /\ Max(1 .. i) >= i
  BY <1>1, MaxIsLast
<1>3. Max(1 .. i) = i
  BY <1>2
<1> QED
  BY <1>1, <1>3

LEMMA FlattenInSteps ==
  ASSUME NEW E, NEW seqs \in Seq(Seq(E))
  PROVE  \E pre \in [0 .. Len(seqs) -> Seq(E)] :
           Joined(seqs, pre) /\ FlattenSeq(seqs) = pre[Len(seqs)]
<1> DEFINE n == Len(seqs)
           step == [q \in Seq(E) \X (1 .. n) |-> q[1] \o seqs[q[2]]]
           Flat(f) == f = [i \in 1 .. n |-> IF i = 1 THEN seqs[i] ELSE f[i - 1] \o seqs[i]]
<1>1. /\ n \in Nat /\ <<>> \in Seq(E)
      /\ \A i \in 1 .. n : seqs[i] \in Seq(E)
      /\ \A s \in Seq(E) : \A t \in Seq(E) : s \o t \in Seq(E)
      /\ \A s \in Seq(E) : <<>> \o s = s
  BY EmptySeq, ConcatProperties, ConcatEmptySeq
<1>2. step \in [Seq(E) \X (1 .. n) -> Seq(E)]
  BY <1>1
<1>3. \A q \in Seq(E) : \A i \in 1 .. n : step[<<q, i>>] = q \o seqs[i]
  OBVIOUS
<1> HIDE DEF step
<1>4. PICK g : Folded(Seq(E), <<>>, n, step, g)
  BY <1>1, <1>2, FoldExists, Zenon
<1> DEFINE pre == [i \in 0 .. n |-> g[1 .. i]]
<1>5. pre \in [0 .. n -> Seq(E)]
  <2>1. \A i \in 0 .. n : 1 .. i \in SUBSET (1 .. n)
    BY <1>1
  <2> QED
    BY <1>4, <2>1 DEF Folded
<1>6. pre[0] = <<>>
  <2>1. 1 .. 0 = {} /\ {} \in SUBSET (1 .. n) /\ 0 \in 0 .. n
    BY <1>1
  <2> QED
    BY <1>4, <2>1 DEF Folded
<1>7. ASSUME NEW i \in 1 .. n
      PROVE  pre[i] = pre[i - 1] \o seqs[i]
  <2>1. /\ 1 .. i # {} /\ 1 .. i \in SUBSET (1 .. n)
        /\ Max(1 .. i) = i /\ (1 .. i) \ {i} = 1 .. i - 1
    BY <1>1, UpTo
  <2>2. g[1 .. i] = step[<<g[1 .. i - 1], i>>]
    BY <1>4, <2>1 DEF Folded
  <2>3. i \in 0 .. n /\ i - 1 \in 0 .. n
    BY <1>1
  <2>4. pre[i] = g[1 .. i] /\ pre[i - 1] = g[1 .. i - 1] /\ pre[i - 1] \in Seq(E)
    BY <1>5, <2>3
  <2> HIDE DEF pre
  <2> QED
    BY <1>3, <2>2, <2>4
<1> HIDE DEF pre
<1>8. Joined(seqs, pre)
  BY <1>6, <1>7 DEF Joined
<1>9. FlattenSeq(seqs) = pre[n]
  <2>1. CASE n = 0
    <3>1. FlattenSeq(seqs) = <<>>
      BY <2>1, EmptySeq DEF FlattenSeq
    <3> QED
      BY <1>6, <2>1, <3>1
  <2>2. CASE n # 0
    <3>1. 1 \in 1 .. n /\ n \in 1 .. n
      BY <1>1, <2>2
    <3>2. FlattenSeq(seqs) = (CHOOSE f : Flat(f))[n]
      BY <2>2 DEF FlattenSeq
    <3> DEFINE f1 == [i \in 1 .. n |-> pre[i]]
    <3>3. Flat(f1)
      <4>1. ASSUME NEW i \in 1 .. n
            PROVE  f1[i] = IF i = 1 THEN seqs[i] ELSE f1[i - 1] \o seqs[i]
        <5>1. CASE i = 1
          <6>0. 1 - 1 = 0
            OBVIOUS
          <6>1. pre[1] = pre[0] \o seqs[1]
            BY <1>7, <3>1, <6>0, Zenon
          <6> QED
            BY <1>1, <1>6, <3>1, <5>1, <6>1
        <5>2. CASE i # 1
          <6>1. i - 1 \in 1 .. n
            BY <1>1, <5>2
          <6> QED
            BY <1>7, <5>2, <6>1
        <5> QED
          BY <5>1, <5>2
      <4> HIDE DEF f1
      <4>2. f1 = [i \in 1 .. n |-> f1[i]]
        BY DEF f1
      <4> QED
        BY <4>1, <4>2
    <3> HIDE DEF f1, Flat
    <3>4. PICK f : f = CHOOSE h : Flat(h)
      OBVIOUS
    <3>5. Flat(f)
      BY <3>3, <3>4
    <3> DEFINE G == {m \in Nat : m \in 1 .. n => f[m] = pre[m]}
    <3>6. 0 \in G
      BY <1>1
    <3>7. ASSUME NEW m \in Nat, m \in G
          PROVE  m + 1 \in G
      <4>1. SUFFICES ASSUME m + 1 \in 1 .. n
                     PROVE  f[m + 1] = pre[m + 1]
        OBVIOUS
      <4>2. f[m + 1] = IF m + 1 = 1 THEN seqs[m + 1] ELSE f[(m + 1) - 1] \o seqs[m + 1]
        BY <3>5, <4>1 DEF Flat
      <4>3. pre[m + 1] = pre[(m + 1) - 1] \o seqs[m + 1]
        BY <1>7, <4>1
      <4>4. CASE m = 0
        <5>1. m + 1 = 1 /\ (m + 1) - 1 = 0 /\ 1 \in 1 .. n
          BY <4>1, <4>4
        <5>2. seqs[1] \in Seq(E) /\ <<>> \o seqs[1] = seqs[1]
          BY <1>1, <5>1
        <5> QED
          BY <1>6, <4>2, <4>3, <5>1, <5>2, Zenon
      <4>5. CASE m # 0
        <5>1. m \in 1 .. n /\ (m + 1) - 1 = m
          BY <1>1, <4>1, <4>5
        <5>2. f[m] = pre[m]
          BY <3>7, <5>1
        <5>3. m + 1 # 1
          BY <4>5
        <5> QED
          BY <4>2, <4>3, <5>1, <5>2, <5>3, Zenon
      <4> QED
        BY <4>4, <4>5
    <3>8. Nat \subseteq G
      <4> HIDE DEF G
      <4> QED
        BY <3>6, <3>7, EveryNumber
    <3> QED
      BY <1>1, <3>1, <3>2, <3>4, <3>8
  <2> QED
    BY <2>1, <2>2
<1> QED
  BY <1>5, <1>8, <1>9

LEMMA EveryIndex ==
  ASSUME NEW n \in Nat, NEW G, 0 \in G, \A i \in 1 .. n : i - 1 \in G => i \in G
  PROVE  0 .. n \subseteq G
<1> DEFINE H == {m \in Nat : m <= n => m \in G}
<1>1. 0 \in H
  OBVIOUS
<1>2. ASSUME NEW m \in Nat, m \in H
      PROVE  m + 1 \in H
  <2>1. SUFFICES ASSUME m + 1 <= n
                 PROVE  m + 1 \in G
    OBVIOUS
  <2>2. m + 1 \in 1 .. n /\ (m + 1) - 1 = m /\ m \in G
    BY <1>2, <2>1
  <2> QED
    BY <2>2
<1>3. Nat \subseteq H
  <2> HIDE DEF H
  <2> QED
    BY <1>1, <1>2, EveryNumber
<1> QED
  BY <1>3

LEMMA ConcatHas ==
  ASSUME NEW E, NEW s \in Seq(E), NEW t \in Seq(E)
  PROVE  /\ s \o t \in Seq(E) /\ Len(s \o t) = Len(s) + Len(t)
         /\ ToSet(s \o t) = ToSet(s) \cup ToSet(t)
         /\ IsInjective(s) /\ IsInjective(t) /\ ToSet(s) \cap ToSet(t) = {}
              => IsInjective(s \o t)
<1>1. /\ s \o t \in Seq(E) /\ Len(s) \in Nat /\ Len(t) \in Nat
      /\ Len(s \o t) = Len(s) + Len(t)
      /\ DOMAIN s = 1 .. Len(s) /\ DOMAIN t = 1 .. Len(t)
      /\ DOMAIN (s \o t) = 1 .. Len(s) + Len(t)
  BY ConcatProperties, LenProperties
<1>2. \A i \in 1 .. Len(s) + Len(t) :
        (s \o t)[i] = IF i <= Len(s) THEN s[i] ELSE t[i - Len(s)]
  BY ConcatProperties
<1> DEFINE c == s \o t
<1>3. \A i \in DOMAIN c :
        \/ i \in DOMAIN s /\ c[i] = s[i]
        \/ i - Len(s) \in DOMAIN t /\ c[i] = t[i - Len(s)] /\ i \notin DOMAIN s
  BY <1>1, <1>2
<1>4. \A i \in DOMAIN s : i \in DOMAIN c /\ c[i] = s[i]
  BY <1>1, <1>2
<1>5. \A i \in DOMAIN t : i + Len(s) \in DOMAIN c /\ c[i + Len(s)] = t[i]
  BY <1>1, <1>2
<1>6. DOMAIN c \subseteq Int
  BY <1>1
<1> HIDE DEF c
<1>7. ToSet(c) = ToSet(s) \cup ToSet(t)
  <2>1. ASSUME NEW x \in ToSet(c)
        PROVE  x \in ToSet(s) \cup ToSet(t)
    BY <1>3 DEF ToSet
  <2>2. ASSUME NEW x \in ToSet(s) \cup ToSet(t)
        PROVE  x \in ToSet(c)
    BY <1>4, <1>5 DEF ToSet
  <2> QED
    BY <2>1, <2>2
<1>8. ASSUME IsInjective(s), IsInjective(t), ToSet(s) \cap ToSet(t) = {}
      PROVE  IsInjective(c)
  <2>1. SUFFICES ASSUME NEW i \in DOMAIN c, NEW j \in DOMAIN c, c[i] = c[j]
                 PROVE  i = j
    BY DEF IsInjective
  <2>2. \A k \in DOMAIN s : \A l \in DOMAIN t : s[k] # t[l]
    BY <1>8 DEF ToSet
  <2>3. CASE i \in DOMAIN s
    <3>1. j \in DOMAIN s
      BY <1>3, <2>1, <2>2, <2>3
    <3>2. s[i] = s[j]
      BY <1>4, <2>1, <2>3, <3>1
    <3> QED
      BY <1>8, <2>3, <3>1, <3>2 DEF IsInjective
  <2>4. CASE i \notin DOMAIN s
    <3>1. i - Len(s) \in DOMAIN t /\ c[i] = t[i - Len(s)]
      BY <1>3, <2>4
    <3>2. j \notin DOMAIN s
      BY <1>4, <2>1, <2>2, <3>1
    <3>3. j - Len(s) \in DOMAIN t /\ c[j] = t[j - Len(s)]
      BY <1>3, <3>2
    <3>4. i - Len(s) = j - Len(s)
      BY <1>8, <2>1, <3>1, <3>3 DEF IsInjective
    <3> QED
      BY <1>1, <1>6, <3>4
  <2> QED
    BY <2>3, <2>4
<1> QED
  BY <1>1, <1>7, <1>8 DEF c

LEMMA FlattenHas ==
  ASSUME NEW E, NEW seqs \in Seq(Seq(E))
  PROVE  /\ FlattenSeq(seqs) \in Seq(E)
         /\ ToSet(FlattenSeq(seqs)) = UNION {ToSet(seqs[i]) : i \in 1 .. Len(seqs)}
<1> DEFINE n == Len(seqs)
<1>1. PICK pre \in [0 .. n -> Seq(E)] : Joined(seqs, pre) /\ FlattenSeq(seqs) = pre[n]
  BY FlattenInSteps
<1>2. n \in Nat /\ \A i \in 1 .. n : seqs[i] \in Seq(E)
  OBVIOUS
<1> HIDE DEF n
<1> DEFINE Sum(i) == UNION {ToSet(seqs[j]) : j \in 1 .. i}
           G == {i \in 0 .. n : ToSet(pre[i]) = Sum(i)}
<1>3. 0 \in G
  <2>1. pre[0] = <<>> /\ 0 \in 0 .. n
    BY <1>1, <1>2 DEF Joined, n
  <2>2. ToSet(pre[0]) = {}
    BY <2>1, EmptySeq DEF ToSet
  <2>3. 1 .. 0 = {}
    OBVIOUS
  <2>4. Sum(0) = {}
    BY <2>3
  <2> QED
    BY <2>1, <2>2, <2>4
<1>4. ASSUME NEW i \in 1 .. n, i - 1 \in G
      PROVE  i \in G
  <2>1. i \in 0 .. n /\ i - 1 \in 0 .. n /\ i \in Nat
    BY <1>2
  <2>2. pre[i] = pre[i - 1] \o seqs[i] /\ pre[i - 1] \in Seq(E)
    BY <1>1, <2>1 DEF Joined, n
  <2>3. ToSet(pre[i]) = ToSet(pre[i - 1]) \cup ToSet(seqs[i])
    BY <1>2, <2>2, ConcatHas
  <2>4. \A j \in 1 .. i : j \in 1 .. i - 1 \/ j = i
    BY <2>1
  <2>5. 1 .. i - 1 \subseteq 1 .. i /\ i \in 1 .. i
    BY <2>1
  <2>6. Sum(i) = Sum(i - 1) \cup ToSet(seqs[i])
    BY <2>4, <2>5
  <2>7. ToSet(pre[i - 1]) = Sum(i - 1)
    BY <1>4
  <2> HIDE DEF Sum
  <2> QED
    BY <2>1, <2>3, <2>6, <2>7
<1>5. n \in G
  <2> HIDE DEF G
  <2>1. 0 .. n \subseteq G
    BY <1>2, <1>3, <1>4, EveryIndex, Zenon
  <2> QED
    BY <1>2, <2>1
<1>6. pre[n] \in Seq(E)
  BY <1>1, <1>2
<1> QED
  BY <1>1, <1>5, <1>6 DEF n

LEMMA FlattenOnce ==
  ASSUME NEW E, NEW seqs \in Seq(Seq(E)),
         \A i \in 1 .. Len(seqs) : IsInjective(seqs[i]),
         \A i, j \in 1 .. Len(seqs) : i # j => ToSet(seqs[i]) \cap ToSet(seqs[j]) = {}
  PROVE  IsInjective(FlattenSeq(seqs))
<1> DEFINE n == Len(seqs)
<1>1. PICK pre \in [0 .. n -> Seq(E)] : Joined(seqs, pre) /\ FlattenSeq(seqs) = pre[n]
  BY FlattenInSteps
<1>2. n \in Nat /\ \A i \in 1 .. n : seqs[i] \in Seq(E)
  OBVIOUS
<1>3. /\ \A i \in 1 .. n : IsInjective(seqs[i])
      /\ \A i, j \in 1 .. n : i # j => ToSet(seqs[i]) \cap ToSet(seqs[j]) = {}
  OBVIOUS
<1> HIDE DEF n
<1> DEFINE G == {i \in 0 .. n : IsInjective(pre[i]) /\
                   \A k \in 1 .. n : k > i => ToSet(pre[i]) \cap ToSet(seqs[k]) = {}}
<1>4. 0 \in G
  <2>1. pre[0] = <<>> /\ 0 \in 0 .. n
    BY <1>1, <1>2 DEF Joined, n
  <2>2. ToSet(pre[0]) = {} /\ IsInjective(pre[0])
    BY <2>1, EmptySeq DEF ToSet, IsInjective
  <2> QED
    BY <2>1, <2>2
<1>5. ASSUME NEW i \in 1 .. n, i - 1 \in G
      PROVE  i \in G
  <2>1. i \in 0 .. n /\ i - 1 \in 0 .. n /\ i \in Nat /\ i > i - 1
    BY <1>2
  <2>2. pre[i] = pre[i - 1] \o seqs[i] /\ pre[i - 1] \in Seq(E)
    BY <1>1, <2>1 DEF Joined, n
  <2>3. /\ ToSet(pre[i]) = ToSet(pre[i - 1]) \cup ToSet(seqs[i])
        /\ IsInjective(pre[i - 1]) /\ ToSet(pre[i - 1]) \cap ToSet(seqs[i]) = {}
             => IsInjective(pre[i])
    BY <1>2, <1>3, <2>2, ConcatHas
  <2>4. /\ IsInjective(pre[i - 1])
        /\ \A k \in 1 .. n : k > i - 1 => ToSet(pre[i - 1]) \cap ToSet(seqs[k]) = {}
    BY <1>5
  <2>5. ASSUME NEW k \in 1 .. n, k > i
        PROVE  ToSet(pre[i]) \cap ToSet(seqs[k]) = {}
    <3>1. k > i - 1 /\ k # i
      BY <1>2, <2>1, <2>5
    <3>2. ToSet(pre[i - 1]) \cap ToSet(seqs[k]) = {} /\ ToSet(seqs[i]) \cap ToSet(seqs[k]) = {}
      BY <1>3, <2>4, <3>1
    <3> QED
      BY <2>3, <3>2
  <2> QED
    BY <2>1, <2>3, <2>4, <2>5
<1>6. n \in G
  <2> HIDE DEF G
  <2>1. 0 .. n \subseteq G
    BY <1>2, <1>4, <1>5, EveryIndex, Zenon
  <2> QED
    BY <1>2, <2>1
<1> QED
  BY <1>1, <1>6

(* A sequence has at least as many elements as different ones. *)
LEMMA SeqRange ==
  ASSUME NEW E, NEW s \in Seq(E)
  PROVE  /\ ToSet(s) \subseteq E /\ IsFiniteSet(ToSet(s))
         /\ Cardinality(ToSet(s)) \in Nat /\ Cardinality(ToSet(s)) <= Len(s)
         /\ IsInjective(s) => Cardinality(ToSet(s)) = Len(s)
<1> DEFINE n == Len(s)
<1>1. n \in Nat /\ DOMAIN s = 1 .. n /\ s \in [1 .. n -> E]
  BY LenProperties, Zenon
<1> HIDE DEF n
<1>2. ToSet(s) \subseteq E /\ s \in [1 .. n -> ToSet(s)]
  BY <1>1 DEF ToSet
<1>3. s \in Surjection(1 .. n, ToSet(s))
  BY <1>1, <1>2 DEF Surjection, ToSet
<1>4. IsFiniteSet(1 .. n) /\ Cardinality(1 .. n) = n
  <2>1. Cardinality(1 .. n) = IF 1 > n THEN 0 ELSE n - 1 + 1
    BY <1>1, FS_Interval
  <2> QED
    BY <1>1, <2>1, FS_Interval
<1>5. IsInjective(s) => s \in Injection(1 .. n, ToSet(s))
  BY <1>1, <1>2 DEF IsInjective, Injection
<1>6. /\ IsFiniteSet(ToSet(s)) /\ Cardinality(ToSet(s)) <= Cardinality(1 .. n)
      /\ Cardinality(ToSet(s)) = Cardinality(1 .. n) <=> s \in Injection(1 .. n, ToSet(s))
  BY <1>3, <1>4, FS_Surjection
<1>7. Cardinality(ToSet(s)) \in Nat
  BY <1>6, FS_CardinalityType
<1>8. Cardinality(ToSet(s)) <= n /\ (IsInjective(s) => Cardinality(ToSet(s)) = n)
  BY <1>4, <1>5, <1>6
<1> QED
  BY <1>2, <1>6, <1>7, <1>8 DEF n

LEMMA AtMostIs ==
  ASSUME NEW E, NEW s \in Seq(E), NEW n \in Nat
  PROVE  /\ AtMost(s, n) \in Seq(E)
         /\ Len(AtMost(s, n)) = IF Len(s) < n THEN Len(s) ELSE n
         /\ Len(s) <= n => AtMost(s, n) = s
         /\ ToSet(AtMost(s, n)) \subseteq ToSet(s)
         /\ IsInjective(s) => IsInjective(AtMost(s, n))
<1> DEFINE m == IF Len(s) < n THEN Len(s) ELSE n
           t == SubSeq(s, 1, m)
<1>1. /\ Len(s) \in Nat /\ m \in Nat /\ m <= Len(s) /\ DOMAIN s = 1 .. Len(s)
      /\ Len(s) <= n => m = Len(s)
  OBVIOUS
<1>2. AtMost(s, n) = t
  BY DEF AtMost
<1> HIDE DEF m
<1>3. /\ t \in Seq(E) /\ Len(t) = m /\ DOMAIN t = 1 .. m
      /\ \A i \in 1 .. m : i \in DOMAIN s /\ t[i] = s[i]
  <2>0. m \in Nat /\ m <= Len(s)
    BY <1>1
  <2>1. m \in Int /\ 1 \in Int /\ \A i \in 1 .. m : i \in 1 .. Len(s) /\ s[i] \in E
    BY <2>0, ElementOfSeq
  <2>2. /\ t \in Seq(E) /\ Len(t) = IF 1 <= m THEN m - 1 + 1 ELSE 0
        /\ \A i \in 1 .. m - 1 + 1 : t[i] = s[1 + i - 1]
    BY <2>1, SubSeqProperties
  <2>3. Len(t) = m
    BY <2>0, <2>2
  <2>4. DOMAIN t = 1 .. m
    BY <2>2, <2>3, LenProperties
  <2>5. \A i \in 1 .. m : i \in 1 .. m - 1 + 1 /\ 1 + i - 1 = i
    BY <2>1
  <2>6. \A i \in 1 .. m : t[i] = s[i]
    BY <2>2, <2>5
  <2> QED
    BY <1>1, <2>1, <2>2, <2>3, <2>4, <2>6
<1> HIDE DEF t
<1>4. ToSet(t) \subseteq ToSet(s)
  BY <1>3 DEF ToSet
<1>5. IsInjective(s) => IsInjective(t)
  BY <1>3 DEF IsInjective
<1>6. Len(s) <= n => t = s
  BY <1>1, <1>3, SeqEqual
<1> QED
  BY <1>2, <1>3, <1>4, <1>5, <1>6 DEF m

LEMMA WithoutIs ==
  ASSUME NEW E, NEW s \in Seq(E), NEW gone
  PROVE  /\ Without(s, gone) \in Seq(E) /\ Len(Without(s, gone)) <= Len(s)
         /\ ToSet(Without(s, gone)) = ToSet(s) \ gone
<1> DEFINE seqs == [i \in DOMAIN s |-> IF s[i] \in gone THEN <<>> ELSE <<s[i]>>]
           n == Len(s)
<1>1. n \in Nat /\ DOMAIN s = 1 .. n /\ \A i \in 1 .. n : s[i] \in E
  OBVIOUS
<1>2. \A x \in E : <<x>> \in Seq(E) /\ Len(<<x>>) = 1 /\ ToSet(<<x>>) = {x}
  BY DEF ToSet
<1>3. <<>> \in Seq(E) /\ Len(<<>>) = 0 /\ ToSet(<<>>) = {}
  BY EmptySeq DEF ToSet
<1> HIDE DEF n
<1>4. \A i \in 1 .. n :
        /\ seqs[i] \in Seq(E) /\ Len(seqs[i]) \in 0 .. 1
        /\ ToSet(seqs[i]) = {s[i]} \ gone
  BY <1>1, <1>2, <1>3
<1>5. seqs \in [1 .. n -> Seq(E)]
  BY <1>1, <1>4
<1> HIDE DEF seqs
<1>6. seqs \in Seq(Seq(E)) /\ Len(seqs) = n
  BY <1>1, <1>5, LenProperties
<1>7. Without(s, gone) = FlattenSeq(seqs)
  BY DEF Without, seqs
<1>8. /\ FlattenSeq(seqs) \in Seq(E)
      /\ ToSet(FlattenSeq(seqs)) = UNION {ToSet(seqs[i]) : i \in 1 .. n}
  BY <1>6, FlattenHas
<1>9. ToSet(FlattenSeq(seqs)) = ToSet(s) \ gone
  <2>1. ToSet(s) = {s[i] : i \in 1 .. n}
    BY <1>1 DEF ToSet
  <2> QED
    BY <1>4, <1>8, <2>1
<1>10. Len(FlattenSeq(seqs)) <= n
  <2>1. PICK pre \in [0 .. n -> Seq(E)] : Joined(seqs, pre) /\ FlattenSeq(seqs) = pre[n]
    BY <1>6, FlattenInSteps
  <2> DEFINE G == {i \in 0 .. n : Len(pre[i]) <= i}
  <2>2. 0 \in G
    BY <1>1, <1>3, <2>1 DEF Joined
  <2>3. ASSUME NEW i \in 1 .. n, i - 1 \in G
        PROVE  i \in G
    <3>1. i \in 0 .. n /\ i - 1 \in 0 .. n /\ i \in Nat
      BY <1>1
    <3>2. pre[i] = pre[i - 1] \o seqs[i] /\ pre[i - 1] \in Seq(E) /\ seqs[i] \in Seq(E)
      BY <1>4, <1>6, <2>1, <3>1 DEF Joined
    <3>3. Len(pre[i]) = Len(pre[i - 1]) + Len(seqs[i])
      BY <3>2, ConcatHas
    <3>4. Len(seqs[i]) \in 0 .. 1
      BY <1>4
    <3>5. Len(pre[i - 1]) <= i - 1
      BY <2>3
    <3>6. Len(pre[i - 1]) \in Nat
      BY <3>2, LenProperties
    <3>7. Len(pre[i]) <= i
      <4> DEFINE a == Len(pre[i - 1])
                 b == Len(seqs[i])
                 c == Len(pre[i])
      <4>1. c = a + b /\ a \in Nat /\ b \in 0 .. 1 /\ a <= i - 1 /\ i \in Nat
        BY <3>1, <3>3, <3>4, <3>5, <3>6
      <4> HIDE DEF a, b, c
      <4>2. c <= i
        BY <4>1
      <4> QED
        BY <4>2 DEF c
    <3> QED
      BY <3>1, <3>7
  <2>4. 0 .. n \subseteq G
    <3> HIDE DEF G
    <3> QED
      BY <1>1, <2>2, <2>3, EveryIndex, Zenon
  <2> QED
    BY <1>1, <2>1, <2>4
<1> QED
  BY <1>7, <1>8, <1>9, <1>10 DEF n

-----------------------------------------------------------------------------
(* Pictures *)

Keyed == QuestionKeys \cup PersonIds
Picture == [of : Keyed \cup {"baseline"}, n : Nat]

(* All pictures of the questions and people in F *)
Whole(F) == UNION {{[of |-> f, n |-> i] : i \in 1 .. Pictures[f]} : f \in F}

(* A part of a plan: no picture is in it twice. *)
Part(s, F) == s \in Seq(Picture) /\ IsInjective(s) /\ ToSet(s) = Whole(F)

LEMMA RingIs ==
  ASSUME NEW f \in Keyed
  PROVE  Part(Ring(f), {f})
<1> DEFINE n == Pictures[f]
           r == [i \in 1 .. n |-> [of |-> f, n |-> i]]
<1>1. n \in Nat
  BY BudgetAssumption DEF Keyed
<1> HIDE DEF n
<1>2. \A i \in 1 .. n : [of |-> f, n |-> i] \in Picture
  BY DEF Picture
<1>3. r \in Seq(Picture)
  BY <1>1, <1>2
<1>4. IsInjective(r)
  <2>1. SUFFICES ASSUME NEW i \in 1 .. n, NEW j \in 1 .. n, r[i] = r[j]
                 PROVE  i = j
    BY DEF IsInjective
  <2>2. r[i].n = i /\ r[j].n = j
    OBVIOUS
  <2> QED
    BY <2>1, <2>2, Zenon
<1>5. ToSet(r) = Whole({f})
  <2>1. ToSet(r) = {[of |-> f, n |-> i] : i \in 1 .. n}
    BY DEF ToSet
  <2>2. Whole({f}) = {[of |-> f, n |-> i] : i \in 1 .. n}
    BY DEF Whole, n
  <2> QED
    BY <2>1, <2>2
<1>6. Ring(f) = r
  BY DEF Ring, n
<1> QED
  BY <1>3, <1>4, <1>5, <1>6 DEF Part

LEMMA WholesApart ==
  ASSUME NEW F, NEW H, F \cap H = {}
  PROVE  Whole(F) \cap Whole(H) = {}
<1>1. SUFFICES ASSUME NEW p, p \in Whole(F), p \in Whole(H)
               PROVE  FALSE
  OBVIOUS
<1>2. PICK f \in F : \E i \in 1 .. Pictures[f] : p = [of |-> f, n |-> i]
  BY <1>1 DEF Whole
<1>3. PICK h \in H : \E j \in 1 .. Pictures[h] : p = [of |-> h, n |-> j]
  BY <1>1 DEF Whole
<1>4. p.of = f /\ p.of = h
  BY <1>2, <1>3
<1> QED
  BY <1>4

LEMMA PicturesOfAre ==
  ASSUME NEW order \in Seq(Keyed), IsInjective(order), NEW chosen \in SUBSET ToSet(order)
  PROVE  Part(PicturesOf(order, chosen), chosen)
<1> DEFINE seqs == [i \in DOMAIN order |-> IF order[i] \in chosen THEN Ring(order[i]) ELSE <<>>]
           n == Len(order)
           F(i) == {order[i]} \cap chosen
<1>1. n \in Nat /\ DOMAIN order = 1 .. n /\ \A i \in 1 .. n : order[i] \in Keyed
  BY LenProperties, ElementOfSeq
<1> HIDE DEF n
<1>2. \A i \in 1 .. n : Part(seqs[i], F(i))
  <2>1. Part(<<>>, {})
    <3>1. <<>> \in Seq(Picture) /\ IsInjective(<<>>) /\ ToSet(<<>>) = {}
      BY EmptySeq DEF IsInjective, ToSet
    <3>2. Whole({}) = {}
      BY DEF Whole
    <3> QED
      BY <3>1, <3>2 DEF Part
  <2>2. SUFFICES ASSUME NEW i \in 1 .. n
                 PROVE  Part(seqs[i], F(i))
    OBVIOUS
  <2>3. seqs[i] = IF order[i] \in chosen THEN Ring(order[i]) ELSE <<>>
    BY <1>1
  <2> HIDE DEF seqs
  <2>4. CASE order[i] \in chosen
    <3>1. F(i) = {order[i]} /\ seqs[i] = Ring(order[i])
      BY <2>3, <2>4
    <3> HIDE DEF F
    <3> QED
      BY <1>1, <3>1, RingIs
  <2>5. CASE order[i] \notin chosen
    <3>1. F(i) = {} /\ seqs[i] = <<>>
      BY <2>3, <2>5
    <3> HIDE DEF F
    <3> QED
      BY <2>1, <3>1
  <2> QED
    BY <2>4, <2>5
<1>3. seqs \in Seq(Seq(Picture)) /\ Len(seqs) = n
  <2>1. \A i \in 1 .. n : seqs[i] \in Seq(Picture)
    BY <1>2 DEF Part
  <2>2. DOMAIN seqs = 1 .. n /\ seqs = [i \in 1 .. n |-> seqs[i]]
    BY <1>1
  <2> HIDE DEF seqs
  <2>3. seqs \in [1 .. n -> Seq(Picture)]
    BY <2>1, <2>2
  <2> QED
    BY <1>1, <2>3, LenProperties
<1>4. PicturesOf(order, chosen) = FlattenSeq(seqs)
  BY DEF PicturesOf
<1> HIDE DEF seqs
<1>5. /\ FlattenSeq(seqs) \in Seq(Picture)
      /\ ToSet(FlattenSeq(seqs)) = UNION {ToSet(seqs[i]) : i \in 1 .. n}
  BY <1>3, FlattenHas
<1>6. ToSet(FlattenSeq(seqs)) = Whole(chosen)
  <2>1. \A i \in 1 .. n : ToSet(seqs[i]) = Whole(F(i))
    BY <1>2 DEF Part
  <2>2. \A i \in 1 .. n : F(i) \subseteq chosen
    OBVIOUS
  <2>3. \A f \in chosen : \E i \in 1 .. n : F(i) = {f}
    BY <1>1 DEF ToSet
  <2> HIDE DEF F
  <2>4. \A i \in 1 .. n : Whole(F(i)) \subseteq Whole(chosen)
    BY <2>2 DEF Whole
  <2>5. ASSUME NEW p \in Whole(chosen)
        PROVE  \E i \in 1 .. n : p \in Whole(F(i))
    <3>1. PICK f \in chosen : p \in Whole({f})
      BY DEF Whole
    <3> QED
      BY <2>3, <3>1
  <2> QED
    BY <1>5, <2>1, <2>4, <2>5
<1>7. IsInjective(FlattenSeq(seqs))
  <2>1. \A i \in 1 .. n : IsInjective(seqs[i]) /\ ToSet(seqs[i]) = Whole(F(i))
    BY <1>2 DEF Part
  <2>2. ASSUME NEW i \in 1 .. n, NEW j \in 1 .. n, i # j
        PROVE  ToSet(seqs[i]) \cap ToSet(seqs[j]) = {}
    <3>1. order[i] # order[j]
      BY <1>1, <2>2 DEF IsInjective
    <3>2. F(i) \cap F(j) = {}
      BY <3>1
    <3> HIDE DEF F
    <3> QED
      BY <2>1, <3>2, WholesApart
  <2> HIDE DEF F
  <2> QED
    BY <1>3, <2>1, <2>2, FlattenOnce
<1> QED
  BY <1>4, <1>5, <1>6, <1>7 DEF Part

Room == MAX_PICTURES_PER_REQUEST - 1

(* What a request of this kind may have pictures of, beside a baseline *)
Pictured(s, adhoc, people) == people \cup (IF adhoc THEN {} ELSE s.enabled)

LEMMA PlanIs ==
  ASSUME NEW s \in Setups, NEW adhoc, NEW people \in SUBSET PersonIds
  PROVE  /\ plan(s, adhoc, people) \in Seq(Picture)
         /\ IsInjective(plan(s, adhoc, people))
         /\ \A p \in ToSet(plan(s, adhoc, people)) :
              p \in Whole(Pictured(s, adhoc, people)) \/ (p.of = "baseline" /\ ~adhoc)
         /\ \/ Whole(Pictured(s, adhoc, people)) \subseteq ToSet(plan(s, adhoc, people))
            \/ Len(plan(s, adhoc, people)) >= Room
<1> DEFINE theirs == plan_person_pictures(people)
           all == PicturesOf(Questions, s.enabled)
           its == plan_pictures(s)
           base == plan_baseline(s)
<1>1. Room \in Nat
  BY BudgetAssumption DEF Room
<1>2. Part(theirs, people)
  <2>1. PersonOrder \in Seq(Keyed) /\ people \in SUBSET ToSet(PersonOrder)
    <3>1. PersonIds \subseteq Keyed
      BY DEF Keyed
    <3> QED
      BY <3>1, FieldsAssumption, SeqMonotonic DEF PersonIds
  <2> QED
    BY <2>1, FieldsAssumption, PicturesOfAre DEF plan_person_pictures
<1>3. Part(all, s.enabled)
  <2>1. Questions \in Seq(Keyed) /\ s.enabled \in SUBSET ToSet(Questions)
    <3>1. QuestionKeys \subseteq Keyed
      BY DEF Keyed
    <3> QED
      BY <3>1, FieldsAssumption, SetupsAssumption, SeqMonotonic DEF QuestionKeys
  <2> QED
    BY <2>1, FieldsAssumption, PicturesOfAre
<1>4. CASE adhoc
  <2>1. plan(s, adhoc, people) = theirs /\ Pictured(s, adhoc, people) = people
    BY <1>4 DEF plan, Pictured
  <2> QED
    BY <1>2, <2>1 DEF Part
<1>5. CASE ~adhoc
  <2>1. /\ its \in Seq(Picture) /\ IsInjective(its) /\ ToSet(its) \subseteq Whole(s.enabled)
        /\ its = all \/ Len(its) = Room
    <3>1. its = AtMost(all, Room) /\ Len(all) \in Nat
      BY <1>3, LenProperties DEF Part, plan_pictures, Room
    <3>2. /\ AtMost(all, Room) \in Seq(Picture)
          /\ Len(AtMost(all, Room)) = IF Len(all) < Room THEN Len(all) ELSE Room
          /\ Len(all) <= Room => AtMost(all, Room) = all
          /\ ToSet(AtMost(all, Room)) \subseteq ToSet(all)
          /\ IsInjective(AtMost(all, Room))
      BY <1>1, <1>3, AtMostIs DEF Part
    <3> HIDE DEF all, its
    <3>3. its = all \/ Len(its) = Room
      BY <1>1, <3>1, <3>2
    <3> QED
      BY <1>3, <3>1, <3>2, <3>3 DEF Part
  <2>2. /\ base \in Seq(Picture) /\ IsInjective(base)
        /\ \A p \in ToSet(base) : p.of = "baseline"
    <3>1. [of |-> "baseline", n |-> 1] \in Picture
      BY DEF Picture
    <3>2. base = <<>> \/ base = <<[of |-> "baseline", n |-> 1]>>
      BY DEF plan_baseline
    <3> HIDE DEF base
    <3>3. CASE base = <<>>
      BY <3>3, EmptySeq DEF IsInjective, ToSet
    <3>4. CASE base = <<[of |-> "baseline", n |-> 1]>>
      BY <3>1, <3>4 DEF IsInjective, ToSet
    <3> QED
      BY <3>2, <3>3, <3>4
  <2>3. /\ theirs \in Seq(Picture) /\ IsInjective(theirs) /\ ToSet(theirs) = Whole(people)
    BY <1>2 DEF Part
  <2> DEFINE F == Pictured(s, adhoc, people)
             two == base \o its
             three == two \o theirs
  <2>4. plan(s, adhoc, people) = three /\ F = people \cup s.enabled
    BY <1>5 DEF plan, Pictured
  <2>5. Whole(F) = Whole(people) \cup Whole(s.enabled)
    BY <2>4 DEF Whole
  <2>6. \A p \in Whole(F) : p.of # "baseline"
    <3>1. F \subseteq Fields
      BY <2>4, SetupsAssumption DEF Fields
    <3> HIDE DEF F
    <3> QED
      BY <3>1, FieldsAssumption DEF Whole
  <2>7. Whole(people) \cap Whole(s.enabled) = {}
    <3>1. people \cap s.enabled = {}
      BY FieldsAssumption, SetupsAssumption
    <3> QED
      BY <3>1, WholesApart
  <2> HIDE DEF base, its, theirs, all, F
  <2>8. /\ two \in Seq(Picture) /\ IsInjective(two) /\ Len(two) = Len(base) + Len(its)
        /\ ToSet(two) = ToSet(base) \cup ToSet(its)
    <3>1. ToSet(base) \cap ToSet(its) = {}
      BY <2>1, <2>2, <2>5, <2>6
    <3> QED
      BY <2>1, <2>2, <3>1, ConcatHas
  <2> HIDE DEF two
  <2>9. /\ three \in Seq(Picture) /\ IsInjective(three) /\ Len(three) = Len(two) + Len(theirs)
        /\ ToSet(three) = ToSet(two) \cup ToSet(theirs)
    <3>1. ToSet(two) \cap ToSet(theirs) = {}
      BY <2>1, <2>2, <2>3, <2>5, <2>6, <2>7, <2>8
    <3> QED
      BY <2>3, <2>8, <3>1, ConcatHas
  <2> HIDE DEF three
  <2>10. \A p \in ToSet(three) : p \in Whole(F) \/ p.of = "baseline"
    BY <2>1, <2>2, <2>3, <2>5, <2>8, <2>9
  <2>11. Whole(F) \subseteq ToSet(three) \/ Len(three) >= Room
    <3>1. CASE its = all
      BY <1>3, <2>3, <2>5, <2>8, <2>9, <3>1 DEF Part
    <3>2. CASE Len(its) = Room
      <4>1. Len(base) \in Nat /\ Len(theirs) \in Nat
        BY <2>2, <2>3, LenProperties
      <4> QED
        BY <1>1, <2>8, <2>9, <3>2, <4>1
    <3> QED
      BY <2>1, <3>1, <3>2
  <2> QED
    BY <1>5, <2>4, <2>9, <2>10, <2>11 DEF F
<1> QED
  BY <1>4, <1>5

LEMMA LoadIs ==
  ASSUME NEW planned \in Seq(Picture), IsInjective(planned),
         NEW missing \in SUBSET ToSet(planned), NEW W,
         W \subseteq ToSet(planned) \/ Len(planned) >= Room
  PROVE  /\ Len(load_planned(planned, missing)) <= Room
         /\ ToSet(load_planned(planned, missing)) \subseteq ToSet(planned)
         /\ load_planned(planned, missing) \in Seq(Picture)
         /\ Len(load_planned(planned, missing)) + Cardinality(missing) < Room =>
              W \subseteq ToSet(load_planned(planned, missing)) \cup missing
<1> DEFINE t == AtMost(planned, Room)
           l == load_planned(planned, missing)
<1>1. Room \in Nat /\ Len(planned) \in Nat
  BY BudgetAssumption, LenProperties DEF Room
<1>2. /\ t \in Seq(Picture) /\ Len(t) = (IF Len(planned) < Room THEN Len(planned) ELSE Room)
      /\ Len(planned) <= Room => t = planned
      /\ ToSet(t) \subseteq ToSet(planned) /\ IsInjective(t)
  BY <1>1, AtMostIs
<1>3. l = Without(t, missing)
  BY DEF load_planned, Room
<1> HIDE DEF t, l
<1>4. l \in Seq(Picture) /\ Len(l) <= Len(t) /\ ToSet(l) = ToSet(t) \ missing
  BY <1>2, <1>3, WithoutIs
<1>5. Len(l) \in Nat /\ Len(l) <= Room
  <2>1. Len(l) \in Nat
    BY <1>4, LenProperties
  <2> QED
    BY <1>1, <1>2, <1>4, <2>1
<1>6. ASSUME Len(l) + Cardinality(missing) < Room
      PROVE  W \subseteq ToSet(l) \cup missing
  <2>1. IsFiniteSet(missing) /\ Cardinality(missing) \in Nat
    BY SeqRange, FS_Subset, FS_CardinalityType
  <2>2. IsFiniteSet(ToSet(l)) /\ Cardinality(ToSet(l)) \in Nat /\ Cardinality(ToSet(l)) <= Len(l)
    BY <1>4, SeqRange
  <2>3. Cardinality(ToSet(t)) = Len(t)
    BY <1>2, SeqRange
  <2>4. /\ IsFiniteSet(ToSet(l) \cup missing)
        /\ Cardinality(ToSet(l) \cup missing) <= Cardinality(ToSet(l)) + Cardinality(missing)
    <3>1. /\ IsFiniteSet(ToSet(l) \cup missing)
          /\ Cardinality(ToSet(l) \cup missing) =
               Cardinality(ToSet(l)) + Cardinality(missing) - Cardinality(ToSet(l) \cap missing)
      BY <2>1, <2>2, FS_Union
    <3>2. Cardinality(ToSet(l) \cap missing) \in Nat
      BY <2>2, FS_Intersection, FS_CardinalityType
    <3> QED
      BY <2>1, <2>2, <3>1, <3>2
  <2>5. ToSet(t) \in SUBSET (ToSet(l) \cup missing)
    BY <1>4
  <2>6. Cardinality(ToSet(t)) <= Cardinality(ToSet(l) \cup missing)
    BY <2>4, <2>5, FS_Subset
  <2>7. Cardinality(ToSet(l) \cup missing) \in Nat
    BY <2>4, FS_CardinalityType
  <2>8. Len(t) < Room
    BY <1>1, <1>2, <1>5, <1>6, <2>1, <2>2, <2>3, <2>4, <2>6, <2>7
  <2>9. Len(planned) < Room
    BY <1>1, <1>2, <2>8
  <2>10. t = planned /\ W \subseteq ToSet(planned)
    BY <1>1, <1>2, <2>9
  <2> QED
    BY <1>4, <2>10
<1> QED
  BY <1>2, <1>4, <1>5, <1>6 DEF l

-----------------------------------------------------------------------------
(* Names and boxes, one after the other *)

Corners == Int \X Int \X Int \X Int
Entry == [label : Name, box : Box]
Mark == [label : Name, box : Corners]

LEMMA UprightIs ==
  ASSUME NEW b \in Box, b # NoBox
  PROVE  /\ Upright(b) \in Corners
         /\ Upright(b)[1] = Low(Clip(b[1]), Clip(b[3]))
         /\ Upright(b)[2] = Low(Clip(b[2]), Clip(b[4]))
         /\ Upright(b)[3] = High(Clip(b[1]), Clip(b[3]))
         /\ Upright(b)[4] = High(Clip(b[2]), Clip(b[4]))
         /\ \A i \in 1 .. 4 : b[i] \in Int
<1>1. b \in [1 .. 4 -> Int]
  BY DEF Box
<1>2. \A i \in 1 .. 4 : b[i] \in Int /\ Clip(b[i]) \in Int
  BY <1>1, BudgetAssumption DEF Clip
<1>3. 1 \in 1 .. 4 /\ 2 \in 1 .. 4 /\ 3 \in 1 .. 4 /\ 4 \in 1 .. 4
  OBVIOUS
<1>4. Upright(b) = <<Low(Clip(b[1]), Clip(b[3])), Low(Clip(b[2]), Clip(b[4])),
                     High(Clip(b[1]), Clip(b[3])), High(Clip(b[2]), Clip(b[4]))>>
  BY <1>1, <1>3 DEF Upright
<1>5. \A x \in Int : \A y \in Int : Low(x, y) \in Int /\ High(x, y) \in Int
  BY DEF Low, High
<1> QED
  BY <1>2, <1>3, <1>4, <1>5 DEF Corners

LEMMA KeepMarkStays ==
  ASSUME NEW kept \in Seq(Mark), NEW entry \in Entry
  PROVE  KeepMark(kept, entry) \in Seq(Mark)
<1>1. CASE Drawable(entry.box)
  <2>1. entry.box \in Box /\ entry.box # NoBox /\ entry.label \in Name
    BY <1>1 DEF Drawable, Entry
  <2>2. Upright(entry.box) \in Corners
    BY <2>1, UprightIs
  <2>3. [label |-> entry.label, box |-> Upright(entry.box)] \in Mark
    BY <2>1, <2>2 DEF Mark
  <2>4. Append(kept, [label |-> entry.label, box |-> Upright(entry.box)]) \in Seq(Mark)
    BY <2>3, AppendProperties
  <2> QED
    BY <2>4 DEF KeepMark
<1>2. CASE ~Drawable(entry.box)
  BY <1>2 DEF KeepMark
<1> QED
  BY <1>1, <1>2

LEMMA MarksInSteps ==
  ASSUME NEW entries \in Seq(Entry)
  PROVE  \E pre \in [0 .. Len(entries) -> Seq(Mark)] :
           /\ pre[0] = <<>>
           /\ \A i \in 1 .. Len(entries) : pre[i] = KeepMark(pre[i - 1], entries[i])
           /\ parse_marks(entries) = pre[Len(entries)]
<1> DEFINE n == Len(entries)
           step == [q \in Seq(Mark) \X (1 .. n) |-> KeepMark(q[1], entries[q[2]])]
           Iter(f) == f = [T \in SUBSET (1 .. n) |->
                             IF T = {} THEN <<>>
                             ELSE KeepMark(f[T \ {Max(T)}], entries[Max(T)])]
<1>1. /\ n \in Nat /\ DOMAIN entries = 1 .. n /\ <<>> \in Seq(Mark)
      /\ \A i \in 1 .. n : entries[i] \in Entry
  BY EmptySeq, LenProperties, ElementOfSeq
<1>2. parse_marks(entries) = (CHOOSE f : Iter(f))[1 .. n]
  BY <1>1 DEF parse_marks, FoldLeft, MapThenFoldSet
<1> HIDE DEF n
<1>3. step \in [Seq(Mark) \X (1 .. n) -> Seq(Mark)]
  BY <1>1, KeepMarkStays
<1>4. \A q \in Seq(Mark) : \A i \in 1 .. n : step[<<q, i>>] = KeepMark(q, entries[i])
  OBVIOUS
<1> HIDE DEF step
<1>5. PICK g : Folded(Seq(Mark), <<>>, n, step, g)
  BY <1>1, <1>3, FoldExists, Zenon
<1>6. Iter(g)
  <2>1. g \in [SUBSET (1 .. n) -> Seq(Mark)]
    BY <1>5 DEF Folded
  <2>2. ASSUME NEW T \in SUBSET (1 .. n)
        PROVE  g[T] = IF T = {} THEN <<>> ELSE KeepMark(g[T \ {Max(T)}], entries[Max(T)])
    <3>1. CASE T = {}
      BY <1>5, <3>1 DEF Folded
    <3>2. CASE T # {}
      <4>1. Max(T) \in 1 .. n
        BY <1>1, <3>2, MaxIsLast
      <4>2. g[T] = step[<<g[T \ {Max(T)}], Max(T)>>]
        BY <1>5, <3>2 DEF Folded
      <4>3. g[T \ {Max(T)}] \in Seq(Mark)
        BY <2>1
      <4> QED
        BY <1>4, <3>2, <4>1, <4>2, <4>3
    <3> QED
      BY <3>1, <3>2
  <2> QED
    BY <2>1, <2>2
<1> HIDE DEF Iter
<1>7. PICK f : f = CHOOSE h : Iter(h)
  OBVIOUS
<1>8. Iter(f)
  BY <1>6, <1>7
<1> DEFINE pre == [i \in 0 .. n |-> f[1 .. i]]
<1>9. pre[0] = <<>>
  <2>1. 1 .. 0 = {} /\ {} \in SUBSET (1 .. n) /\ 0 \in 0 .. n
    BY <1>1
  <2> QED
    BY <1>8, <2>1 DEF Iter
<1>10. \A i \in 1 .. n : pre[i] = KeepMark(pre[i - 1], entries[i])
  <2>1. SUFFICES ASSUME NEW i \in 1 .. n
                 PROVE  pre[i] = KeepMark(pre[i - 1], entries[i])
    OBVIOUS
  <2>2. /\ 1 .. i # {} /\ 1 .. i \in SUBSET (1 .. n)
        /\ Max(1 .. i) = i /\ (1 .. i) \ {i} = 1 .. i - 1
    BY <1>1, UpTo
  <2>3. f[1 .. i] = KeepMark(f[1 .. i - 1], entries[i])
    BY <1>8, <2>2 DEF Iter
  <2>4. i \in 0 .. n /\ i - 1 \in 0 .. n
    BY <1>1
  <2> QED
    BY <2>3, <2>4
<1>11. DOMAIN pre = 0 .. n /\ pre[n] = parse_marks(entries)
  BY <1>1, <1>2, <1>7
<1> HIDE DEF pre
<1>12. \A i \in 0 .. n : pre[i] \in Seq(Mark)
  <2> DEFINE G == {i \in 0 .. n : pre[i] \in Seq(Mark)}
  <2>1. 0 \in G
    <3>1. 0 \in 0 .. n /\ pre[0] \in Seq(Mark)
      BY <1>1, <1>9
    <3> QED
      BY <3>1
  <2>2. ASSUME NEW i \in 1 .. n, i - 1 \in G
        PROVE  i \in G
    <3>1. pre[i - 1] \in Seq(Mark) /\ i \in 0 .. n
      BY <1>1, <2>2
    <3> QED
      BY <1>1, <1>10, <3>1, KeepMarkStays
  <2>3. 0 .. n \subseteq G
    <3> HIDE DEF G
    <3> QED
      BY <1>1, <2>1, <2>2, EveryIndex, Zenon
  <2> QED
    BY <2>3
<1>13. pre \in [0 .. n -> Seq(Mark)]
  <2>1. pre = [i \in 0 .. n |-> pre[i]]
    BY <1>11 DEF pre
  <2> QED
    BY <1>12, <2>1
<1> QED
  BY <1>9, <1>10, <1>11, <1>13 DEF n

LEMMA UprightIsSame ==
  ASSUME NEW b \in Box, b # NoBox
  PROVE  Same(Upright(b), b)
<1>1. /\ Upright(b)[1] = Low(Clip(b[1]), Clip(b[3]))
      /\ Upright(b)[2] = Low(Clip(b[2]), Clip(b[4]))
      /\ Upright(b)[3] = High(Clip(b[1]), Clip(b[3]))
      /\ Upright(b)[4] = High(Clip(b[2]), Clip(b[4]))
      /\ \A i \in 1 .. 4 : b[i] \in Int
  BY UprightIs
<1>2. \A c \in Int : InFrame(Clip(c), c)
  BY BudgetAssumption DEF InFrame, Clip
<1>3. \A x, y : (Low(x, y) = x /\ High(x, y) = y) \/ (Low(x, y) = y /\ High(x, y) = x)
  BY DEF Low, High
<1>4. b[1] \in Int /\ b[2] \in Int /\ b[3] \in Int /\ b[4] \in Int
  BY <1>1
<1> QED
  BY <1>1, <1>2, <1>3, <1>4 DEF Same

(* What the marks of the first k entries are *)
MarksOf(entries, k, kept) ==
  /\ Len(kept) <= MAX_MARKS
  /\ \A i \in DOMAIN kept :
       \E j \in 1 .. k : Drawable(entries[j].box) /\ kept[i].box = Upright(entries[j].box)
  /\ \A i, j \in DOMAIN kept : kept[i].box = kept[j].box => i = j
  /\ Len(kept) < MAX_MARKS =>
       \A j \in 1 .. k : Drawable(entries[j].box) => SeenBefore(kept, entries[j])

LEMMA NextMark ==
  ASSUME NEW entries \in Seq(Entry), NEW k \in 1 .. Len(entries), NEW kept \in Seq(Mark),
         MarksOf(entries, k - 1, kept)
  PROVE  MarksOf(entries, k, KeepMark(kept, entries[k]))
<1> DEFINE e == entries[k]
           new == KeepMark(kept, e)
<1>1. /\ k \in Nat /\ Len(kept) \in Nat /\ MAX_MARKS \in Nat /\ DOMAIN kept = 1 .. Len(kept)
      /\ e \in Entry
  BY BudgetAssumption, LenProperties, ElementOfSeq
<1>2. 1 .. k - 1 \subseteq 1 .. k /\ k \in 1 .. k /\ \A j \in 1 .. k : j \in 1 .. k - 1 \/ j = k
  BY <1>1
<1> HIDE DEF e
<1>3. CASE Len(kept) = MAX_MARKS \/ ~Drawable(e.box) \/ SeenBefore(kept, e)
  <2>1. new = kept
    BY <1>3 DEF KeepMark
  <2>2. Len(kept) < MAX_MARKS => ~Drawable(e.box) \/ SeenBefore(kept, e)
    <3>1. \A a \in Nat : ~(a < a)
      OBVIOUS
    <3>2. Len(kept) < MAX_MARKS => Len(kept) # MAX_MARKS
      BY <1>1, <3>1, Zenon
    <3> QED
      BY <1>3, <3>2, Zenon
  <2>3. MarksOf(entries, k, kept)
    BY <1>2, <2>2 DEF MarksOf, e
  <2> HIDE DEF new
  <2> QED
    BY <2>1, <2>3 DEF e, new
<1>4. CASE ~(Len(kept) = MAX_MARKS \/ ~Drawable(e.box) \/ SeenBefore(kept, e))
  <2> DEFINE m == [label |-> e.label, box |-> Upright(e.box)]
             l == Len(kept)
  <2>1. new = Append(kept, m)
    BY <1>4 DEF KeepMark
  <2>2. m \in Mark
    <3>1. e.box \in Box /\ e.box # NoBox /\ e.label \in Name
      BY <1>1, <1>4 DEF Drawable, Entry
    <3> QED
      BY <3>1, UprightIs DEF Mark
  <2>3. m.box = Upright(e.box)
    OBVIOUS
  <2> HIDE DEF m, new
  <2>4. /\ new \in Seq(Mark) /\ Len(new) = l + 1 /\ new[l + 1] = m
        /\ \A i \in 1 .. l : new[i] = kept[i]
    BY <2>1, <2>2, AppendProperties
  <2>5. DOMAIN new = 1 .. l + 1
    BY <2>4, LenProperties
  <2>6. \A i \in DOMAIN new : (i \in DOMAIN kept /\ new[i] = kept[i]) \/ (i = l + 1 /\ new[i] = m)
    BY <1>1, <2>4, <2>5
  <2>7. \A i \in DOMAIN kept : i \in DOMAIN new /\ new[i] = kept[i]
    BY <1>1, <2>4, <2>5
  <2>8. l + 1 \in DOMAIN new /\ l + 1 \notin DOMAIN kept
    BY <1>1, <2>5
  <2>9. Len(new) <= MAX_MARKS
    <3>1. l \in Nat /\ l # MAX_MARKS /\ l <= MAX_MARKS
      BY <1>1, <1>4 DEF MarksOf
    <3> HIDE DEF l
    <3> QED
      BY <1>1, <2>4, <3>1
  <2>10. ASSUME NEW i \in DOMAIN new
         PROVE  \E j \in 1 .. k : Drawable(entries[j].box) /\ new[i].box = Upright(entries[j].box)
    <3>1. CASE i \in DOMAIN kept /\ new[i] = kept[i]
      BY <1>2, <3>1 DEF MarksOf
    <3>2. CASE new[i] = m
      BY <1>2, <1>4, <2>3, <3>2 DEF e
    <3> QED
      BY <2>6, <3>1, <3>2
  <2>11. \A i \in DOMAIN kept : kept[i].box # m.box
    BY <1>4, <2>3 DEF SeenBefore
  <2>12. ASSUME NEW i \in DOMAIN new, NEW j \in DOMAIN new, new[i].box = new[j].box
         PROVE  i = j
    BY <2>6, <2>11, <2>12 DEF MarksOf
  <2>13. \A j \in 1 .. k : Len(new) < MAX_MARKS /\ Drawable(entries[j].box) => SeenBefore(new, entries[j])
    <3>1. SUFFICES ASSUME NEW j \in 1 .. k, Len(new) < MAX_MARKS, Drawable(entries[j].box)
                   PROVE  SeenBefore(new, entries[j])
      OBVIOUS
    <3>2. CASE j \in 1 .. k - 1
      <4>1. Len(kept) < MAX_MARKS
        BY <1>1, <2>4, <3>1
      <4>2. SeenBefore(kept, entries[j])
        BY <3>1, <3>2, <4>1 DEF MarksOf
      <4> QED
        BY <2>7, <4>2 DEF SeenBefore
    <3>3. CASE j = k
      BY <2>3, <2>4, <2>8, <3>3 DEF SeenBefore, e
    <3> QED
      BY <1>2, <3>2, <3>3
  <2> HIDE DEF l
  <2>14. MarksOf(entries, k, new)
    BY <2>9, <2>10, <2>12, <2>13 DEF MarksOf
  <2> QED
    BY <2>14 DEF new, e
<1> QED
  BY <1>3, <1>4

LEMMA MarksAre ==
  ASSUME NEW entries \in Seq(Entry)
  PROVE  /\ parse_marks(entries) \in Seq(Mark)
         /\ MarksOf(entries, Len(entries), parse_marks(entries))
<1> DEFINE n == Len(entries)
<1>1. PICK pre \in [0 .. n -> Seq(Mark)] :
        /\ pre[0] = <<>>
        /\ \A i \in 1 .. n : pre[i] = KeepMark(pre[i - 1], entries[i])
        /\ parse_marks(entries) = pre[n]
  BY MarksInSteps
<1>2. n \in Nat
  BY LenProperties
<1> DEFINE G == {i \in 0 .. n : MarksOf(entries, i, pre[i])}
<1>3. 0 \in G
  <2>1. 0 \in 0 .. n /\ 1 .. 0 = {} /\ DOMAIN <<>> = {} /\ Len(<<>>) = 0 /\ 0 <= MAX_MARKS
    BY <1>2, EmptySeq, BudgetAssumption
  <2>2. MarksOf(entries, 0, <<>>)
    BY <2>1 DEF MarksOf
  <2> QED
    BY <1>1, <2>1, <2>2
<1>4. ASSUME NEW i \in 1 .. n, i - 1 \in G
      PROVE  i \in G
  <2>1. i \in 0 .. n /\ i - 1 \in 0 .. n
    BY <1>2
  <2>2. pre[i - 1] \in Seq(Mark) /\ MarksOf(entries, i - 1, pre[i - 1])
    BY <1>1, <1>4, <2>1
  <2>3. MarksOf(entries, i, KeepMark(pre[i - 1], entries[i]))
    BY <2>2, NextMark
  <2> QED
    BY <1>1, <2>1, <2>3
<1>5. 0 .. n \subseteq G
  <2> HIDE DEF G, n
  <2> QED
    BY <1>2, <1>3, <1>4, EveryIndex, Zenon
<1>6. n \in 0 .. n
  BY <1>2
<1> QED
  BY <1>1, <1>5, <1>6

LEMMA NextFreeIs ==
  ASSUME NEW taken \in Seq(Name), NEW name \in Name
  PROVE  /\ NextFree(taken, name) \in Name /\ NextFree(taken, name) \notin ToSet(taken)
         /\ IsPrefix(name, NextFree(taken, name))
<1> DEFINE n == Len(taken)
           C == 2 .. n + 2
           f == [c \in C |-> name \o <<c>>]
           Free(c) == /\ f[c] \notin ToSet(taken)
                      /\ \A d \in 2 .. c - 1 : f[d] \in ToSet(taken)
<1>1. n \in Nat /\ Len(name) \in Nat /\ name \in Seq(Words \cup Nat)
  BY LenProperties DEF Name
<1> HIDE DEF n
<1>2. \A c \in C :
        /\ name \o <<c>> \in Name
        /\ Len(name \o <<c>>) = Len(name) + 1
        /\ (name \o <<c>>)[Len(name) + 1] = c
        /\ \A i \in 1 .. Len(name) : (name \o <<c>>)[i] = name[i]
  <2>1. SUFFICES ASSUME NEW c \in C
                 PROVE  <1>2!(c)
    OBVIOUS
  <2>2. <<c>> \in Seq(Words \cup Nat) /\ Len(<<c>>) = 1 /\ <<c>>[1] = c
    BY <1>1
  <2>3. /\ name \o <<c>> \in Seq(Words \cup Nat)
        /\ Len(name \o <<c>>) = Len(name) + 1
        /\ \A i \in 1 .. Len(name) + 1 :
             (name \o <<c>>)[i] = IF i <= Len(name) THEN name[i] ELSE <<c>>[i - Len(name)]
    BY <1>1, <2>2, ConcatProperties
  <2>4. Len(name) + 1 \in 1 .. Len(name) + 1 /\ ~(Len(name) + 1 <= Len(name))
        /\ (Len(name) + 1) - Len(name) = 1
    BY <1>1
  <2>5. \A i \in 1 .. Len(name) : i \in 1 .. Len(name) + 1 /\ i <= Len(name)
    BY <1>1
  <2> QED
    BY <2>2, <2>3, <2>4, <2>5 DEF Name
<1>3. \A c \in C : \A d \in C : f[c] = f[d] => c = d
  BY <1>2, Zenon
<1>4. \E c \in C : f[c] \notin ToSet(taken)
  <2>1. SUFFICES ASSUME \A c \in C : f[c] \in ToSet(taken)
                 PROVE  FALSE
    OBVIOUS
  <2>2. f \in [C -> ToSet(taken)]
    BY <2>1
  <2>3. IsFiniteSet(C) /\ Cardinality(C) = n + 1
    <3>1. /\ IsFiniteSet(2 .. n + 2)
          /\ Cardinality(2 .. n + 2) = IF 2 > n + 2 THEN 0 ELSE (n + 2) - 2 + 1
      <4>1. 2 \in Int /\ n + 2 \in Int
        BY <1>1
      <4> QED
        BY <4>1, FS_Interval, Zenon
    <3> QED
      BY <1>1, <3>1
  <2>4. IsFiniteSet(ToSet(taken)) /\ Cardinality(ToSet(taken)) \in Nat
        /\ Cardinality(ToSet(taken)) <= n
    BY SeqRange DEF n
  <2>5. Cardinality(ToSet(taken)) < Cardinality(C)
    BY <1>1, <2>3, <2>4
  <2> HIDE DEF C, f
  <2>6. \E x, y \in C : x # y /\ f[x] = f[y]
    BY <2>2, <2>3, <2>4, <2>5, FS_PigeonHole
  <2> QED
    BY <1>3, <2>6
<1>5. \E c \in C : Free(c)
  <2> DEFINE S == {c \in C : f[c] \notin ToSet(taken)}
  <2>1. S \in SUBSET Nat /\ S # {}
    <3>1. C \in SUBSET Nat
      BY <1>1
    <3> HIDE DEF C, f
    <3> QED
      BY <1>4, <3>1
  <2>2. PICK m \in S : \A k \in S : ~(k < m)
    <3> HIDE DEF S
    <3> QED
      BY <2>1, LeastNumber
  <2>3. \A d \in 2 .. m - 1 : d \in C /\ d < m
    BY <1>1
  <2>4. Free(m) /\ m \in C
    BY <2>2, <2>3
  <2> HIDE DEF Free, C
  <2> QED
    BY <2>4
<1>6. \A c \in C : Free(c) <=>
        /\ name \o <<c>> \notin ToSet(taken)
        /\ \A d \in 2 .. c - 1 : name \o <<d>> \in ToSet(taken)
  <2>1. \A c \in C : \A d \in 2 .. c - 1 : d \in C
    BY <1>1
  <2> QED
    BY <2>1
<1> DEFINE Ok(c) == /\ name \o <<c>> \notin ToSet(taken)
                    /\ \A d \in 2 .. c - 1 : name \o <<d>> \in ToSet(taken)
<1>7. PICK c : c = CHOOSE x \in C : Ok(x)
  OBVIOUS
<1>8. \E x \in C : Ok(x)
  BY <1>5, <1>6
<1>9. c \in C /\ Ok(c)
  <2> HIDE DEF C, Ok
  <2> QED
    BY <1>7, <1>8
<1>10. NextFree(taken, name) = name \o <<c>>
  BY <1>7 DEF NextFree, n
<1>11. name \o <<c>> \in Name /\ name \o <<c>> \notin ToSet(taken)
  BY <1>2, <1>9
<1>12. IsPrefix(name, name \o <<c>>)
  <2> DEFINE t == name \o <<c>>
             s == SubSeq(t, 1, Len(name))
  <2>1. /\ t \in Seq(Words \cup Nat) /\ Len(t) = Len(name) + 1
        /\ \A i \in 1 .. Len(name) : t[i] = name[i]
    BY <1>2, <1>9 DEF Name
  <2> HIDE DEF t
  <2>2. \A i \in 1 .. Len(name) : t[i] \in Words \cup Nat
    BY <1>1, <2>1, ElementOfSeq
  <2>3. /\ s \in Seq(Words \cup Nat)
        /\ Len(s) = IF 1 <= Len(name) THEN Len(name) - 1 + 1 ELSE 0
        /\ \A i \in 1 .. Len(name) - 1 + 1 : s[i] = t[1 + i - 1]
    BY <1>1, <2>2, SubSeqProperties
  <2>4. Len(s) = Len(name)
    BY <1>1, <2>3
  <2>5. \A i \in 1 .. Len(name) : i \in 1 .. Len(name) - 1 + 1 /\ 1 + i - 1 = i
    BY <1>1
  <2>6. \A i \in 1 .. Len(s) : s[i] = name[i]
    BY <2>1, <2>3, <2>4, <2>5
  <2>7. s = name
    BY <1>1, <2>3, <2>4, <2>6, SeqEqual
  <2>8. SubSeq(name, 1, Len(name)) = name
    BY <1>1, SubSeqFull
  <2>9. Len(name) <= Len(t)
    BY <1>1, <2>1
  <2> QED
    BY <2>7, <2>8, <2>9 DEF IsPrefix, t
<1> QED
  BY <1>10, <1>11, <1>12

LEMMA TakeNameStays ==
  ASSUME NEW taken \in Seq(Name), NEW name \in Name
  PROVE  TakeName(taken, name) \in Seq(Name)
<1>1. NextFree(taken, name) \in Name
  BY NextFreeIs
<1> QED
  BY <1>1, AppendProperties DEF TakeName

LEMMA NamesInSteps ==
  ASSUME NEW objects \in Seq(Name)
  PROVE  \E pre \in [0 .. Len(objects) -> Seq(Name)] :
           /\ pre[0] = <<>>
           /\ \A i \in 1 .. Len(objects) : pre[i] = TakeName(pre[i - 1], objects[i])
           /\ parse_object_names(objects) = pre[Len(objects)]
<1> DEFINE n == Len(objects)
           step == [q \in Seq(Name) \X (1 .. n) |-> TakeName(q[1], objects[q[2]])]
           Iter(f) == f = [T \in SUBSET (1 .. n) |->
                             IF T = {} THEN <<>>
                             ELSE TakeName(f[T \ {Max(T)}], objects[Max(T)])]
<1>1. /\ n \in Nat /\ DOMAIN objects = 1 .. n /\ <<>> \in Seq(Name)
      /\ \A i \in 1 .. n : objects[i] \in Name
  BY EmptySeq, LenProperties, ElementOfSeq
<1>2. parse_object_names(objects) = (CHOOSE f : Iter(f))[1 .. n]
  BY <1>1 DEF parse_object_names, FoldLeft, MapThenFoldSet
<1> HIDE DEF n
<1>3. step \in [Seq(Name) \X (1 .. n) -> Seq(Name)]
  BY <1>1, TakeNameStays
<1>4. \A q \in Seq(Name) : \A i \in 1 .. n : step[<<q, i>>] = TakeName(q, objects[i])
  OBVIOUS
<1> HIDE DEF step
<1>5. PICK g : Folded(Seq(Name), <<>>, n, step, g)
  BY <1>1, <1>3, FoldExists, Zenon
<1>6. Iter(g)
  <2>1. g \in [SUBSET (1 .. n) -> Seq(Name)]
    BY <1>5 DEF Folded
  <2>2. ASSUME NEW T \in SUBSET (1 .. n)
        PROVE  g[T] = IF T = {} THEN <<>> ELSE TakeName(g[T \ {Max(T)}], objects[Max(T)])
    <3>1. CASE T = {}
      BY <1>5, <3>1 DEF Folded
    <3>2. CASE T # {}
      <4>1. Max(T) \in 1 .. n
        BY <1>1, <3>2, MaxIsLast
      <4>2. g[T] = step[<<g[T \ {Max(T)}], Max(T)>>]
        BY <1>5, <3>2 DEF Folded
      <4>3. g[T \ {Max(T)}] \in Seq(Name)
        BY <2>1
      <4> QED
        BY <1>4, <3>2, <4>1, <4>2, <4>3
    <3> QED
      BY <3>1, <3>2
  <2> QED
    BY <2>1, <2>2
<1> HIDE DEF Iter
<1>7. PICK f : f = CHOOSE h : Iter(h)
  OBVIOUS
<1>8. Iter(f)
  BY <1>6, <1>7
<1> DEFINE pre == [i \in 0 .. n |-> f[1 .. i]]
<1>9. pre[0] = <<>>
  <2>1. 1 .. 0 = {} /\ {} \in SUBSET (1 .. n) /\ 0 \in 0 .. n
    BY <1>1
  <2> QED
    BY <1>8, <2>1 DEF Iter
<1>10. \A i \in 1 .. n : pre[i] = TakeName(pre[i - 1], objects[i])
  <2>1. SUFFICES ASSUME NEW i \in 1 .. n
                 PROVE  pre[i] = TakeName(pre[i - 1], objects[i])
    OBVIOUS
  <2>2. /\ 1 .. i # {} /\ 1 .. i \in SUBSET (1 .. n)
        /\ Max(1 .. i) = i /\ (1 .. i) \ {i} = 1 .. i - 1
    BY <1>1, UpTo
  <2>3. f[1 .. i] = TakeName(f[1 .. i - 1], objects[i])
    BY <1>8, <2>2 DEF Iter
  <2>4. i \in 0 .. n /\ i - 1 \in 0 .. n
    BY <1>1
  <2> QED
    BY <2>3, <2>4
<1>11. DOMAIN pre = 0 .. n /\ pre[n] = parse_object_names(objects)
  BY <1>1, <1>2, <1>7
<1> HIDE DEF pre
<1>12. \A i \in 0 .. n : pre[i] \in Seq(Name)
  <2> DEFINE G == {i \in 0 .. n : pre[i] \in Seq(Name)}
  <2>1. 0 \in G
    <3>1. 0 \in 0 .. n /\ pre[0] \in Seq(Name)
      BY <1>1, <1>9
    <3> QED
      BY <3>1
  <2>2. ASSUME NEW i \in 1 .. n, i - 1 \in G
        PROVE  i \in G
    <3>1. pre[i - 1] \in Seq(Name) /\ i \in 0 .. n
      BY <1>1, <2>2
    <3> QED
      BY <1>1, <1>10, <3>1, TakeNameStays
  <2>3. 0 .. n \subseteq G
    <3> HIDE DEF G
    <3> QED
      BY <1>1, <2>1, <2>2, EveryIndex, Zenon
  <2> QED
    BY <2>3
<1>13. pre \in [0 .. n -> Seq(Name)]
  <2>1. pre = [i \in 0 .. n |-> pre[i]]
    BY <1>11 DEF pre
  <2> QED
    BY <1>12, <2>1
<1> QED
  BY <1>9, <1>10, <1>11, <1>13 DEF n

(* What the names of some objects are, of which those are named that have  *)
(* a name                                                                  *)
NamesOf(named, taken) ==
  /\ Len(taken) = Low(Len(named), MAX_MARKS)
  /\ \A i, j \in DOMAIN taken : taken[i] = taken[j] => i = j
  /\ \A i \in DOMAIN taken : IsPrefix(named[i], taken[i])

LEMMA NextName ==
  ASSUME NEW named \in Seq(Name), NEW taken \in Seq(Name), NamesOf(named, taken),
         NEW name \in Name
  PROVE  NamesOf(named \o (IF name \in {Blank} THEN <<>> ELSE <<name>>), TakeName(taken, name))
<1>1. /\ Len(named) \in Nat /\ Len(taken) \in Nat /\ MAX_MARKS \in Nat
      /\ DOMAIN taken = 1 .. Len(taken)
  BY BudgetAssumption, LenProperties
<1>2. Len(taken) <= Len(named) /\ Len(taken) <= MAX_MARKS
      /\ (Len(taken) = Len(named) \/ Len(taken) = MAX_MARKS)
  BY <1>1 DEF NamesOf, Low
<1>3. CASE name = Blank
  <2>1. TakeName(taken, name) = taken
    BY <1>3 DEF TakeName
  <2>2. named \o <<>> = named
    BY ConcatEmptySeq
  <2> QED
    BY <1>3, <2>1, <2>2
<1>4. CASE name # Blank
  <2> DEFINE l == Len(named)
             k == Len(taken)
             new == named \o <<name>>
  <2>1. (IF name \in {Blank} THEN <<>> ELSE <<name>>) = <<name>>
    BY <1>4
  <2>2. /\ new \in Seq(Name) /\ Len(new) = l + 1 /\ new[l + 1] = name
        /\ \A i \in 1 .. l : new[i] = named[i]
    <3>1. new = Append(named, name)
      BY AppendIsConcat
    <3> HIDE DEF new
    <3> QED
      BY <3>1, AppendProperties
  <2> HIDE DEF l, k, new
  <2>3. /\ l \in Nat /\ k \in Nat /\ k <= l /\ k <= MAX_MARKS
        /\ (k = l \/ k = MAX_MARKS) /\ DOMAIN taken = 1 .. k
    BY <1>1, <1>2 DEF l, k
  <2>4. \A i \in 1 .. k : new[i] = named[i]
    BY <2>2, <2>3
  <2>5. CASE k = MAX_MARKS
    <3>1. TakeName(taken, name) = taken
      BY <2>5 DEF TakeName, k
    <3>2. Len(taken) = Low(Len(new), MAX_MARKS)
      <4>1. Low(l + 1, MAX_MARKS) = MAX_MARKS
        BY <1>1, <2>3, <2>5 DEF Low
      <4> QED
        BY <2>2, <2>5, <4>1 DEF k
    <3>3. NamesOf(new, taken)
      BY <2>3, <2>4, <3>2 DEF NamesOf
    <3> QED
      BY <2>1, <3>1, <3>3 DEF new
  <2>6. CASE k # MAX_MARKS
    <3> DEFINE y == IF name \in ToSet(taken) THEN NextFree(taken, name) ELSE name
               more == Append(taken, y)
    <3>1. y \in Name /\ y \notin ToSet(taken) /\ IsPrefix(name, y)
      <4>1. IsPrefix(name, name)
        <5>1. Len(name) \in Nat
          BY LenProperties DEF Name
        <5> QED
          BY <5>1 DEF IsPrefix
      <4> QED
        BY <4>1, NextFreeIs
    <3>2. TakeName(taken, name) = more
      BY <1>4, <2>6 DEF TakeName, k
    <3> HIDE DEF y, more
    <3>3. /\ more \in Seq(Name) /\ Len(more) = k + 1 /\ more[k + 1] = y
          /\ \A i \in 1 .. k : more[i] = taken[i]
      BY <3>1, AppendProperties DEF more, k
    <3>4. DOMAIN more = 1 .. k + 1
      BY <3>3, LenProperties
    <3>5. \A i \in DOMAIN more : (i \in DOMAIN taken /\ more[i] = taken[i])
                               \/ (i = k + 1 /\ more[i] = y)
      BY <2>3, <3>3, <3>4
    <3>6. k = l /\ k + 1 <= MAX_MARKS
      BY <1>1, <2>3, <2>6
    <3>7. Len(more) = Low(Len(new), MAX_MARKS)
      <4>1. Low(l + 1, MAX_MARKS) = l + 1
        BY <1>1, <2>3, <3>6 DEF Low
      <4> QED
        BY <2>2, <3>3, <3>6, <4>1
    <3>8. \A i \in DOMAIN taken : taken[i] # y
      BY <3>1 DEF ToSet
    <3>9. ASSUME NEW i \in DOMAIN more, NEW j \in DOMAIN more, more[i] = more[j]
          PROVE  i = j
      BY <3>5, <3>8, <3>9 DEF NamesOf
    <3>10. ASSUME NEW i \in DOMAIN more
           PROVE  IsPrefix(new[i], more[i])
      <4>1. CASE i \in DOMAIN taken /\ more[i] = taken[i]
        <5>1. new[i] = named[i]
          BY <2>3, <2>4, <4>1
        <5> QED
          BY <4>1, <5>1 DEF NamesOf
      <4>2. CASE i = k + 1 /\ more[i] = y
        <5>1. new[i] = name
          BY <2>2, <3>6, <4>2
        <5> QED
          BY <3>1, <4>2, <5>1
      <4> QED
        BY <3>5, <4>1, <4>2
    <3>11. NamesOf(new, more)
      BY <3>7, <3>9, <3>10 DEF NamesOf
    <3> QED
      BY <2>1, <3>2, <3>11 DEF new
  <2> QED
    BY <2>5, <2>6
<1> QED
  BY <1>3, <1>4

LEMMA NamesAre ==
  ASSUME NEW objects \in Seq(Name)
  PROVE  /\ parse_object_names(objects) \in Seq(Name)
         /\ NamesOf(Without(objects, {Blank}), parse_object_names(objects))
<1> DEFINE n == Len(objects)
           seqs == [i \in DOMAIN objects |-> IF objects[i] \in {Blank} THEN <<>> ELSE <<objects[i]>>]
<1>1. PICK pre \in [0 .. n -> Seq(Name)] :
        /\ pre[0] = <<>>
        /\ \A i \in 1 .. n : pre[i] = TakeName(pre[i - 1], objects[i])
        /\ parse_object_names(objects) = pre[n]
  BY NamesInSteps
<1>2. n \in Nat /\ DOMAIN objects = 1 .. n /\ \A i \in 1 .. n : objects[i] \in Name
  BY LenProperties, ElementOfSeq
<1> HIDE DEF n
<1>3. \A i \in 1 .. n :
        /\ seqs[i] = IF objects[i] \in {Blank} THEN <<>> ELSE <<objects[i]>>
        /\ seqs[i] \in Seq(Name)
  BY <1>2, EmptySeq
<1>4. seqs \in Seq(Seq(Name)) /\ Len(seqs) = n
  <2>1. seqs \in [1 .. n -> Seq(Name)]
    BY <1>2, <1>3
  <2> HIDE DEF seqs
  <2> QED
    BY <1>2, <2>1, LenProperties
<1>5. Without(objects, {Blank}) = FlattenSeq(seqs)
  BY DEF Without
<1> HIDE DEF seqs
<1>6. PICK named \in [0 .. n -> Seq(Name)] : Joined(seqs, named) /\ FlattenSeq(seqs) = named[n]
  BY <1>4, FlattenInSteps
<1> DEFINE G == {i \in 0 .. n : NamesOf(named[i], pre[i])}
<1>7. 0 \in G
  <2>1. 0 \in 0 .. n /\ DOMAIN <<>> = {} /\ Len(<<>>) = 0 /\ Low(0, MAX_MARKS) = 0
    BY <1>2, EmptySeq, BudgetAssumption DEF Low
  <2>2. NamesOf(<<>>, <<>>)
    BY <2>1 DEF NamesOf
  <2>3. named[0] = <<>> /\ pre[0] = <<>>
    BY <1>1, <1>6 DEF Joined
  <2> QED
    BY <2>1, <2>2, <2>3
<1>8. ASSUME NEW i \in 1 .. n, i - 1 \in G
      PROVE  i \in G
  <2>1. i \in 0 .. n /\ i - 1 \in 0 .. n
    BY <1>2
  <2>2. /\ pre[i - 1] \in Seq(Name) /\ named[i - 1] \in Seq(Name) /\ objects[i] \in Name
        /\ NamesOf(named[i - 1], pre[i - 1])
    BY <1>1, <1>2, <1>6, <1>8, <2>1
  <2>3. pre[i] = TakeName(pre[i - 1], objects[i])
    BY <1>1
  <2>4. named[i] = named[i - 1] \o (IF objects[i] \in {Blank} THEN <<>> ELSE <<objects[i]>>)
    BY <1>3, <1>4, <1>6 DEF Joined
  <2>5. NamesOf(named[i], pre[i])
    BY <2>2, <2>3, <2>4, NextName
  <2> QED
    BY <2>1, <2>5
<1>9. 0 .. n \subseteq G
  <2> HIDE DEF G
  <2> QED
    BY <1>2, <1>7, <1>8, EveryIndex, Zenon
<1>10. n \in G /\ pre[n] \in Seq(Name)
  BY <1>1, <1>2, <1>9
<1> QED
  BY <1>1, <1>5, <1>6, <1>10

-----------------------------------------------------------------------------
(* The inductive invariant *)

(* What an analysis has read from the configuration s *)
Read(s, adhoc, check, missing, retried) ==
  LET people  == people_asked(s, adhoc, check)
      planned == plan(s, adhoc, people)
  IN [fields |-> analysis_fields(s, adhoc, people), adhoc |-> adhoc, check |-> check,
      kind |-> s.kind, marks |-> marks_wanted(s, adhoc), asked_under |-> s,
      missing |-> missing, pictures |-> load_planned(planned, missing), retried |-> retried]

(* The request is one that was read from a configuration. *)
RequestIsRead ==
  \E s \in Setups, adhoc, check, retried \in BOOLEAN :
    \E missing \in SUBSET ToSet(plan(s, adhoc, people_asked(s, adhoc, check))) :
      request = Read(s, adhoc, check, missing, retried)

(* Values for some fields *)
Raw == UNION {[S -> Values] : S \in SUBSET Fields}

AskingInv ==
  /\ setup \in Setups /\ pc \in {"idle", "ask", "locate"}
  /\ outcome \in {"none", "answered", "failed", "raised"}
  /\ request.fields \subseteq Fields
  /\ DOMAIN sensors \subseteq QuestionKeys
  /\ pc # "idle" \/ outcome # "none" => RequestIsRead
  /\ pc # "idle" => outcome = "none"
  /\ pc = "ask" => heard = <<>>
  /\ pc = "locate" =>
       /\ request.marks = "split" /\ names \in Seq(Name)
       /\ heard # <<>> /\ heard[1] \in Raw
  /\ claimed \in Seq(Entry)
  /\ result.marks =
       IF outcome = "answered" /\ request.marks # "no" THEN parse_marks(claimed) ELSE <<>>

LEMMA FieldsAre ==
  ASSUME NEW s \in Setups, NEW adhoc \in BOOLEAN, NEW check \in BOOLEAN,
         NEW people, people = people_asked(s, adhoc, check)
  PROVE  /\ people \subseteq PersonIds /\ people \subseteq s.people
         /\ people # {} => (IF adhoc THEN check ELSE s.detect_persons)
         /\ analysis_fields(s, adhoc, people) \subseteq Fields
         /\ analysis_fields(s, adhoc, people) \cap PersonIds = people
         /\ analysis_fields(s, adhoc, people) \ PersonIds =
              IF adhoc THEN {ADHOC_KEY} ELSE s.enabled
<1>1. people \subseteq s.people /\ s.people \subseteq PersonIds /\ s.enabled \subseteq QuestionKeys
  BY SetupsAssumption DEF people_asked
<1>2. people # {} => (IF adhoc THEN check ELSE s.detect_persons)
  BY DEF people_asked
<1>3. PersonIds \cap (QuestionKeys \cup {ADHOC_KEY}) = {}
  BY FieldsAssumption
<1> QED
  BY <1>1, <1>2, <1>3 DEF analysis_fields, Asked, Fields

LEMMA NoMarks == parse_marks(<<>>) = <<>>
<1>1. <<>> \in Seq(Entry) /\ Len(<<>>) = 0
  BY EmptySeq
<1>2. PICK pre \in [0 .. Len(<<>>) -> Seq(Mark)] :
        pre[0] = <<>> /\ parse_marks(<<>>) = pre[Len(<<>>)]
  BY <1>1, MarksInSteps
<1> QED
  BY <1>1, <1>2

LEMMA EntriesAre ==
  ASSUME NEW claims \in Seq(Box), NEW label \in Name
  PROVE  Entries(claims, label) \in Seq(Entry)
<1>1. Len(claims) \in Nat /\ DOMAIN claims = 1 .. Len(claims)
      /\ \A i \in 1 .. Len(claims) : claims[i] \in Box
  BY LenProperties, ElementOfSeq
<1>2. Entries(claims, label) = [i \in 1 .. Len(claims) |-> [label |-> label, box |-> claims[i]]]
  BY <1>1 DEF Entries
<1>3. \A i \in 1 .. Len(claims) : [label |-> label, box |-> claims[i]] \in Entry
  BY <1>1 DEF Entry
<1> QED
  BY <1>1, <1>2, <1>3

LEMMA SetToSeqIs ==
  ASSUME NEW E, NEW T \in SUBSET E, IsFiniteSet(T)
  PROVE  SetToSeq(T) \in Seq(E)
<1> DEFINE n == Cardinality(T)
<1>1. n \in Nat /\ ExistsBijection(1 .. n, T)
  BY FS_CardinalityType
<1>2. \E f \in [1 .. n -> T] : IsInjective(f)
  <2>1. PICK f : f \in Bijection(1 .. n, T)
    BY <1>1 DEF ExistsBijection
  <2>2. f \in [1 .. n -> T] /\ IsInjective(f)
    BY <2>1 DEF Bijection, Injection, IsInjective
  <2> QED
    BY <2>2
<1>3. SetToSeq(T) \in [1 .. n -> T]
  BY <1>2 DEF SetToSeq
<1> HIDE DEF n
<1>4. SetToSeq(T) \in [1 .. n -> E]
  BY <1>3
<1> QED
  BY <1>1, <1>4

LEMMA GroundingIs ==
  ASSUME names \in Seq(Name), NEW located \in GroundingAnswers
  PROVE  located \in Seq(Entry)
<1>1. PICK S \in SUBSET DOMAIN names :
        \E box \in [S -> Boxes] :
          located = SetToSeq({[label |-> names[i], box |-> box[i]] : i \in S})
  BY DEF GroundingAnswers
<1>2. PICK box \in [S -> Boxes] :
        located = SetToSeq({[label |-> names[i], box |-> box[i]] : i \in S})
  BY <1>1
<1> DEFINE T == {[label |-> names[i], box |-> box[i]] : i \in S}
           f == [i \in S |-> [label |-> names[i], box |-> box[i]]]
<1>3. DOMAIN names = 1 .. Len(names) /\ Len(names) \in Nat
  BY LenProperties
<1>4. \A i \in S : names[i] \in Name /\ box[i] \in Box
  BY <1>3, AnswersAssumption, ElementOfSeq
<1>5. T \in SUBSET Entry
  BY <1>4 DEF Entry
<1>6. IsFiniteSet(S)
  <2>1. IsFiniteSet(1 .. Len(names))
    BY <1>3, FS_Interval
  <2> QED
    BY <1>3, <2>1, FS_Subset
<1>7. f \in Surjection(S, T)
  BY DEF Surjection
<1>8. IsFiniteSet(T)
  <2> HIDE DEF f, T
  <2> QED
    BY <1>6, <1>7, FS_Surjection
<1> QED
  <2> HIDE DEF f
  <2>1. located = SetToSeq(T)
    BY <1>2
  <2> HIDE DEF T
  <2> QED
    BY <1>5, <1>8, <2>1, SetToSeqIs

-----------------------------------------------------------------------------
(* The end of an analysis *)

Types == {"boolean", "number", "select", "text"}

(* A value that can be used stands for what it is turned into. *)
LEMMA UsableStands ==
  ASSUME NEW type \in Types, NEW v, v.number \in Int, Usable(type, v)
  PROVE  StandsFor(type, v, coerce_answer(type, v))
<1>1. CASE type = "boolean"
  <2> DEFINE a == coerce_answer(type, v)
             yes == \/ v.form = "text" /\ v.word \in YesWords
                    \/ v.form \in {"boolean", "number"} /\ v.number # 0
  <2>1. CASE v.form = "text"
    <3> DEFINE y == v.word \in YesWords
    <3>1. a = <<type, y>>
      BY <1>1, <2>1 DEF coerce_answer
    <3>2. y \in BOOLEAN /\ (y <=> yes)
      BY <2>1
    <3> HIDE DEF y
    <3>3. a[1] = type /\ a[2] = y
      BY <3>1
    <3> QED
      BY <1>1, <3>2, <3>3 DEF StandsFor
  <2>2. CASE v.form \in {"boolean", "number"}
    <3>1. a = <<type, v.number # 0>>
      BY <1>1, <2>2 DEF coerce_answer
    <3>2. a[1] = type /\ a[2] = (v.number # 0)
      BY <3>1
    <3>3. (v.number # 0) <=> yes
      BY <2>2
    <3> QED
      BY <1>1, <3>2, <3>3 DEF StandsFor
  <2> QED
    BY <1>1, <2>1, <2>2 DEF Usable
<1>2. CASE type = "number"
  <2> DEFINE n == v.number
             Far(a, b) == IF a < b THEN b - a ELSE a - b
  <2>1. n \in Int /\ n # NoNumber /\ coerce_answer(type, v) = <<type, Clamp(n)>>
    BY <1>2 DEF Usable, coerce_answer
  <2> HIDE DEF n
  <2>2. /\ Clamp(n) \in minimum .. maximum
        /\ \A m \in minimum .. maximum : Far(Clamp(n), n) <= Far(m, n)
    BY <2>1, RangeAssumption DEF Clamp
  <2> QED
    BY <1>2, <2>1, <2>2 DEF StandsFor, n
<1>3. CASE type = "select"
  BY <1>3 DEF Usable, coerce_answer, StandsFor
<1>4. CASE type = "text"
  BY <1>4 DEF Usable, coerce_answer, StandsFor
<1> QED
  BY <1>1, <1>2, <1>3, <1>4 DEF Types

(* A value can be used unless it is unrecognisable. *)
LEMMA UsableIs ==
  ASSUME NEW type \in Types, NEW v, v.form = "null" => v.number = NoNumber
  PROVE  Usable(type, v) <=> ~Unrecognisable(type, v)
<1>1. CASE type = "boolean"
  BY <1>1 DEF Usable, Unrecognisable
<1>2. CASE type = "number"
  BY <1>2 DEF Usable, Unrecognisable
<1>3. CASE type = "select"
  BY <1>3 DEF Usable, Unrecognisable
<1>4. CASE type = "text"
  BY <1>4 DEF Usable, Unrecognisable
<1> QED
  BY <1>1, <1>2, <1>3, <1>4 DEF Types

Endless(raw, entries) ==
  \/ \E f \in request.fields \cap DOMAIN raw :
       TypeOf(request, f) = "number" /\ raw[f].number = Infinite
  \/ \E i \in DOMAIN entries : Infinite \in ToSet(entries[i].box)

(* The sensors follow only what was asked and answered with raw. *)
SensorsFollow(raw) ==
  /\ DOMAIN sensors \subseteq DOMAIN sensors'
  /\ \A q \in DOMAIN sensors' :
       \/ q \in DOMAIN sensors /\ sensors'[q] = sensors[q]
       \/ /\ ~request.adhoc /\ q \in request.asked_under.enabled /\ q \in DOMAIN raw
          /\ StandsFor(request.asked_under.type[q], raw[q], sensors'[q])

(* So do the people who are reported. *)
PersonsFollow(raw) ==
  \A p \in DOMAIN result'.persons :
    /\ p \in request.asked_under.people
    /\ IF request.adhoc THEN request.check ELSE request.asked_under.detect_persons
    /\ StandsFor("boolean", raw[p], result'.persons[p])

(* Every answer that can be used is, and no other; the rest are problems. *)
AnswersKept(raw) ==
  LET answered == DOMAIN result'.values \cup DOMAIN result'.persons IN
  /\ outcome' = "answered"
  /\ result'.problems = request.fields \ answered
  /\ \A f \in request.fields \cap DOMAIN raw :
       f \in answered <=> ~Unrecognisable(TypeOf(request, f), raw[f])

LEMMA TypeOfField ==
  ASSUME NEW r, NEW s \in Setups, NEW adhoc \in BOOLEAN, NEW check \in BOOLEAN,
         r.asked_under = s, r.adhoc = adhoc,
         NEW f \in analysis_fields(s, adhoc, people_asked(s, adhoc, check))
  PROVE  /\ TypeOf(r, f) \in Types
         /\ f \in PersonIds => TypeOf(r, f) = "boolean"
         /\ f \notin PersonIds /\ ~adhoc => f \in s.enabled /\ TypeOf(r, f) = s.type[f]
<1>1. f \notin PersonIds => f \in (IF adhoc THEN {ADHOC_KEY} ELSE s.enabled)
  BY FieldsAre
<1>2. s.enabled \subseteq QuestionKeys /\ s.type \in [QuestionKeys -> Types]
  BY SetupsAssumption DEF Types
<1>3. f \notin PersonIds /\ ~adhoc => f \in s.enabled /\ f \in QuestionKeys
  BY <1>1, <1>2
<1>4. CASE f \in PersonIds
  <2>1. TypeOf(r, f) = "boolean"
    BY <1>4 DEF TypeOf
  <2> QED
    BY <1>4, <2>1 DEF Types
<1>5. CASE f \notin PersonIds /\ adhoc
  <2>1. TypeOf(r, f) = "text"
    BY <1>5, Zenon DEF TypeOf
  <2> QED
    BY <1>5, <2>1 DEF Types
<1>6. CASE f \notin PersonIds /\ ~adhoc
  <2>1. TypeOf(r, f) = s.type[f]
    BY <1>6 DEF TypeOf
  <2>2. f \in s.enabled /\ s.type[f] \in Types
    BY <1>2, <1>3, <1>6
  <2> QED
    BY <1>6, <2>1, <2>2
<1> QED
  BY <1>4, <1>5, <1>6

LEMMA ConcludeIs ==
  ASSUME RequestIsRead, NEW raw \in Raw, NEW entries \in Seq(Entry), Conclude(raw, entries),
         DOMAIN sensors \subseteq QuestionKeys
  PROVE  /\ pc' = "idle" /\ outcome' \in {"answered", "raised"}
         /\ result'.marks = IF outcome' = "answered" /\ request.marks # "no"
                            THEN parse_marks(entries) ELSE <<>>
         /\ DOMAIN sensors' \subseteq QuestionKeys
         /\ SensorsFollow(raw) /\ PersonsFollow(raw)
         /\ Endless(raw, entries) \/ AnswersKept(raw)
<1> DEFINE r == request
           all == coerce_answers(r, raw)
           boxes == IF r.marks = "no" THEN <<>> ELSE entries
           values == [f \in DOMAIN all \ PersonIds |-> all[f]]
           persons == [f \in DOMAIN all \cap PersonIds |-> all[f]]
           Raises == \/ BoxOverflows(boxes)
                     \/ \E f \in r.fields \cap DOMAIN raw : Overflows(TypeOf(r, f), raw[f])
<1>1. PICK s \in Setups, adhoc \in BOOLEAN, check \in BOOLEAN :
        /\ r.asked_under = s /\ r.adhoc = adhoc /\ r.check = check
        /\ r.fields = analysis_fields(s, adhoc, people_asked(s, adhoc, check))
  BY DEF RequestIsRead, Read
<1>2. \A f \in r.fields :
        /\ TypeOf(r, f) \in Types
        /\ f \in PersonIds => TypeOf(r, f) = "boolean"
        /\ f \notin PersonIds /\ ~r.adhoc => f \in s.enabled /\ TypeOf(r, f) = s.type[f]
  BY <1>1, TypeOfField
<1>3. /\ r.fields \cap PersonIds \subseteq s.people
      /\ r.fields \cap PersonIds # {} => (IF r.adhoc THEN r.check ELSE s.detect_persons)
      /\ s.enabled \subseteq QuestionKeys
  BY <1>1, FieldsAre, SetupsAssumption
<1>4. \A f \in DOMAIN raw :
        raw[f].number \in Int /\ (raw[f].form = "null" => raw[f].number = NoNumber)
  BY AnswersAssumption DEF Raw
<1>5. /\ DOMAIN all = {g \in r.fields \cap DOMAIN raw : Usable(TypeOf(r, g), raw[g])}
      /\ \A f \in DOMAIN all : all[f] = coerce_answer(TypeOf(r, f), raw[f])
  BY DEF coerce_answers
<1>6. \A f \in DOMAIN all :
        f \in r.fields /\ f \in DOMAIN raw /\ StandsFor(TypeOf(r, f), raw[f], all[f])
  BY <1>2, <1>4, <1>5, UsableStands
<1>7. CASE Raises
  <2>1. pc' = "idle" /\ outcome' = "raised" /\ result' = NothingFound /\ sensors' = sensors
    BY <1>7 DEF Conclude, End
  <2>2. result'.marks = <<>> /\ DOMAIN result'.persons = {}
    BY <2>1 DEF NothingFound
  <2>3. Endless(raw, entries)
    <3>1. CASE BoxOverflows(boxes)
      <4>1. PICK i \in DOMAIN boxes : Infinite \in ToSet(boxes[i].box)
        BY <3>1 DEF BoxOverflows
      <4>2. boxes = entries
        BY <4>1, EmptySeq
      <4> QED
        BY <4>1, <4>2 DEF Endless
    <3>2. CASE \E f \in r.fields \cap DOMAIN raw : Overflows(TypeOf(r, f), raw[f])
      BY <3>2 DEF Overflows, Endless
    <3> QED
      BY <1>7, <3>1, <3>2
  <2> QED
    BY <2>1, <2>2, <2>3 DEF SensorsFollow, PersonsFollow
<1>8. CASE ~Raises
  <2> HIDE DEF all
  <2>1. /\ pc' = "idle" /\ outcome' = "answered"
        /\ result' = [values |-> values, problems |-> r.fields \ DOMAIN all,
                      persons |-> persons, marks |-> parse_marks(boxes)]
        /\ sensors' = SensorsWith(r.adhoc, values)
    BY <1>8 DEF Conclude, End, all
  <2> HIDE DEF Raises
  <2>2. /\ result'.marks = parse_marks(boxes) /\ result'.persons = persons
        /\ result'.values = values /\ result'.problems = r.fields \ DOMAIN all
    BY <2>1
  <2>3. result'.marks = IF r.marks # "no" THEN parse_marks(entries) ELSE <<>>
    BY <2>2, NoMarks
  <2>4. \A q \in DOMAIN values : values[q] = all[q] /\ q \in DOMAIN all /\ q \notin PersonIds
    OBVIOUS
  <2>5. SensorsFollow(raw) /\ DOMAIN sensors' \subseteq QuestionKeys
    <3>1. CASE r.adhoc
      <4>1. sensors' = sensors
        BY <2>1, <3>1 DEF SensorsWith
      <4> QED
        BY <4>1 DEF SensorsFollow
    <3>2. CASE ~r.adhoc
      <4> HIDE DEF values
      <4>1. sensors' = [k \in DOMAIN values \cup DOMAIN sensors |->
                          IF k \in DOMAIN values THEN values[k] ELSE sensors[k]]
        BY <2>1, <3>2 DEF SensorsWith
      <4>2. \A q \in DOMAIN values : q \in s.enabled /\ q \in DOMAIN raw
                                     /\ StandsFor(s.type[q], raw[q], values[q])
        BY <1>2, <1>6, <2>4, <3>2
      <4> QED
        BY <1>1, <1>3, <3>2, <4>1, <4>2 DEF SensorsFollow
    <3> QED
      BY <3>1, <3>2
  <2>6. PersonsFollow(raw)
    <3>1. SUFFICES ASSUME NEW p \in DOMAIN persons
                   PROVE  /\ p \in s.people
                          /\ IF r.adhoc THEN r.check ELSE s.detect_persons
                          /\ StandsFor("boolean", raw[p], persons[p])
      BY <1>1, <2>2, Zenon DEF PersonsFollow
    <3>2. p \in DOMAIN all /\ p \in PersonIds /\ persons[p] = all[p]
      OBVIOUS
    <3>3. p \in r.fields \cap PersonIds
      BY <1>6, <3>2
    <3> QED
      BY <1>2, <1>3, <1>6, <3>2, <3>3
  <2>7. AnswersKept(raw)
    <3>1. DOMAIN result'.values \cup DOMAIN result'.persons = DOMAIN all
      BY <2>2
    <3>2. \A f \in r.fields \cap DOMAIN raw :
            f \in DOMAIN all <=> ~Unrecognisable(TypeOf(r, f), raw[f])
      BY <1>2, <1>4, <1>5, UsableIs
    <3> HIDE DEF values, persons
    <3> QED
      BY <2>1, <2>2, <3>1, <3>2, Zenon DEF AnswersKept
  <2> QED
    BY <2>1, <2>3, <2>5, <2>6, <2>7
<1> QED
  BY <1>7, <1>8

-----------------------------------------------------------------------------
(* The invariant holds at first, and every step keeps it. *)

LEMMA AskingInitInv == AskingInit => AskingInv
<1> SUFFICES ASSUME AskingInit
             PROVE  AskingInv
  OBVIOUS
<1>1. <<>> \in Seq(Entry) /\ DOMAIN <<>> = {}
  BY EmptySeq
<1>2. result.marks = <<>>
  BY DEF AskingInit, NothingFound
<1>3. request.fields \subseteq Fields /\ DOMAIN sensors \subseteq QuestionKeys
      /\ claimed \in Seq(Entry)
  BY <1>1 DEF AskingInit
<1> QED
  BY <1>2, <1>3 DEF AskingInit, AskingInv

(* Another attempt asks the same. *)
LEMMA RetriedIs ==
  ASSUME RequestIsRead, NEW b \in BOOLEAN, request' = [request EXCEPT !.retried = b]
  PROVE  /\ RequestIsRead' /\ request'.fields = request.fields /\ request'.marks = request.marks
         /\ request'.asked_under = request.asked_under /\ request'.adhoc = request.adhoc
<1>1. PICK s \in Setups, adhoc \in BOOLEAN, check \in BOOLEAN, retried \in BOOLEAN :
        \E missing \in SUBSET ToSet(plan(s, adhoc, people_asked(s, adhoc, check))) :
          request = Read(s, adhoc, check, missing, retried)
  BY DEF RequestIsRead
<1>2. PICK missing \in SUBSET ToSet(plan(s, adhoc, people_asked(s, adhoc, check))) :
        request = Read(s, adhoc, check, missing, retried)
  BY <1>1
<1>3. [Read(s, adhoc, check, missing, retried) EXCEPT !.retried = b]
        = Read(s, adhoc, check, missing, b)
  BY DEF Read
<1>4. request' = Read(s, adhoc, check, missing, b)
  BY <1>2, <1>3
<1>5. /\ request'.fields = request.fields /\ request'.marks = request.marks
      /\ request'.asked_under = request.asked_under /\ request'.adhoc = request.adhoc
  BY <1>2, <1>4 DEF Read
<1>6. RequestIsRead'
  BY <1>4 DEF RequestIsRead
<1> QED
  BY <1>5, <1>6

(* A model that answers is heard with values for some fields and some      *)
(* boxes; then the analysis ends, or the objects it named are located.     *)
LEMMA AnsweredIs ==
  ASSUME AskingInv, AskAnswered
  PROVE  \E raw \in Raw, entries \in Seq(Entry) :
           /\ heard' = <<raw>> /\ claimed' = entries /\ setup' = setup /\ runs' = runs
           /\ \/ /\ pc' = "locate" /\ request.marks = "split"
                 /\ \E objects \in ObjectLists : names' = parse_object_names(objects)
                 /\ request' = [request EXCEPT !.retried = FALSE]
                 /\ UNCHANGED <<outcome, result, sensors>>
              \/ Conclude(raw, entries) /\ request' = request
<1>1. PICK raw \in RawAnswers, objects \in (IF request.marks = "split" THEN ObjectLists ELSE {<<>>}),
           claims \in (IF request.marks = "no" \/ request.kind = "ai_task"
                       THEN {<<>>} ELSE Claims) :
        Answer(raw, objects, claims)
  BY DEF AskAnswered
<1>2. raw \in Raw
  <2>1. request.fields \in SUBSET Fields
    BY DEF AskingInv
  <2>2. CASE request.kind = "ai_task"
    <3>1. raw \in [request.fields -> Values]
      BY <1>1, <2>2 DEF RawAnswers
    <3> QED
      BY <2>1, <3>1 DEF Raw
  <2>3. CASE request.kind # "ai_task"
    BY <1>1, <2>3 DEF RawAnswers, Raw
  <2> QED
    BY <2>2, <2>3
<1>3. Entries(claims, Blank) \in Seq(Entry)
  <2>1. Blank \in Name
    BY EmptySeq DEF Name, Blank
  <2>2. claims \in Seq(Box)
    BY <1>1, AnswersAssumption, EmptySeq
  <2> QED
    BY <2>1, <2>2, EntriesAre
<1> DEFINE entries == Entries(claims, Blank)
<1>4. /\ heard' = <<raw>> /\ claimed' = entries /\ setup' = setup /\ runs' = runs
  BY <1>1 DEF Answer
<1>5. CASE request.marks = "split" /\ request.kind = "openai" /\ parse_object_names(objects) # <<>>
  <2>1. /\ pc' = "locate" /\ names' = parse_object_names(objects)
        /\ request' = [request EXCEPT !.retried = FALSE]
        /\ UNCHANGED <<outcome, result, sensors>>
    BY <1>1, <1>5 DEF Answer
  <2>2. objects \in ObjectLists
    BY <1>1, <1>5
  <2> QED
    BY <1>2, <1>3, <1>4, <1>5, <2>1, <2>2
<1>6. CASE ~(request.marks = "split" /\ request.kind = "openai" /\ parse_object_names(objects) # <<>>)
  <2>1. Conclude(raw, claimed') /\ request' = request
    BY <1>1, <1>6 DEF Answer
  <2>2. Conclude(raw, entries)
    <3> HIDE DEF entries
    <3> QED
      BY <1>4, <2>1, Zenon
  <2> QED
    BY <1>2, <1>3, <1>4, <2>1, <2>2
<1> QED
  BY <1>5, <1>6

(* What is located ends the analysis with the answer that was heard, and   *)
(* so does a failure to locate it.                                         *)
LEMMA LocatedIs ==
  ASSUME AskingInv, Located \/ LocateFails
  PROVE  \E raw \in Raw, entries \in Seq(Entry) :
           /\ heard[1] = raw /\ heard' = heard /\ claimed' = entries
           /\ setup' = setup /\ runs' = runs /\ request' = request /\ pc = "locate"
           /\ Conclude(raw, entries)
<1>1. pc = "locate" /\ heard[1] \in Raw /\ names \in Seq(Name) /\ claimed \in Seq(Entry)
  BY DEF AskingInv, Located, LocateFails
<1>2. heard' = heard /\ setup' = setup /\ runs' = runs /\ request' = request
  BY DEF Located, LocateFails, answerVars
<1>3. CASE Located
  <2>1. PICK entries \in GroundingAnswers : entries = claimed'
    BY <1>3 DEF Located
  <2>2. entries \in Seq(Entry)
    BY <1>1, <2>1, GroundingIs
  <2>3. Conclude(heard[1], claimed')
    BY <1>3 DEF Located
  <2>4. Conclude(heard[1], entries)
    BY <2>1, <2>3, Zenon
  <2> QED
    BY <1>1, <1>2, <2>1, <2>2, <2>4
<1>4. CASE LocateFails
  <2>1. Conclude(heard[1], claimed) /\ claimed' = claimed
    BY <1>4 DEF LocateFails, WithoutMarks, answerVars
  <2> QED
    BY <1>1, <1>2, <2>1
<1> QED
  BY <1>3, <1>4

(* The end of an analysis keeps the invariant. *)
LEMMA EndInv ==
  ASSUME AskingInv, pc # "idle", NEW raw \in Raw, NEW entries \in Seq(Entry),
         Conclude(raw, entries), claimed' = entries, setup' = setup, request' = request
  PROVE  AskingInv'
<1>1. RequestIsRead /\ DOMAIN sensors \subseteq QuestionKeys
  BY DEF AskingInv
<1>2. /\ pc' = "idle" /\ outcome' \in {"answered", "raised"}
      /\ result'.marks = IF outcome' = "answered" /\ request.marks # "no"
                         THEN parse_marks(entries) ELSE <<>>
      /\ DOMAIN sensors' \subseteq QuestionKeys
  BY <1>1, ConcludeIs
<1>3. RequestIsRead'
  BY <1>1 DEF RequestIsRead
<1> QED
  BY <1>2, <1>3 DEF AskingInv

(* What an analysis reads when it begins *)
LEMMA BeginIs ==
  ASSUME AskingInv, NEW adhoc \in BOOLEAN, NEW check \in BOOLEAN, Begin(adhoc, check)
  PROVE  /\ RequestIsRead' /\ request'.fields \subseteq Fields
         /\ heard' = <<>> /\ claimed' = <<>> /\ setup' = setup /\ sensors' = sensors
         /\ result' = NothingFound /\ pc = "idle"
         /\ (pc' = "ask" /\ outcome' = "none") \/ (pc' = "idle" /\ outcome' = "answered")
<1> DEFINE people == people_asked(setup, adhoc, check)
           planned == plan(setup, adhoc, people)
<1>1. setup \in Setups
  BY DEF AskingInv
<1>2. PICK missing \in SUBSET (ToSet(planned) \cap MayBeMissing) :
        request' = Read(setup, adhoc, check, missing, FALSE)
  BY DEF Begin, Read
<1>3. missing \in SUBSET ToSet(planned)
  OBVIOUS
<1>4. RequestIsRead'
  <2>1. PICK s \in Setups : s = setup
    BY <1>1
  <2>2. /\ request' = Read(s, adhoc, check, missing, FALSE)
        /\ missing \in SUBSET ToSet(plan(s, adhoc, people_asked(s, adhoc, check)))
    BY <1>2, <1>3, <2>1
  <2> QED
    BY <2>2, Zenon DEF RequestIsRead
<1>5. request'.fields = analysis_fields(setup, adhoc, people)
  BY <1>2 DEF Read
<1>6. analysis_fields(setup, adhoc, people) \subseteq Fields
  BY <1>1, FieldsAre
<1>7. /\ heard' = <<>> /\ claimed' = <<>> /\ setup' = setup /\ sensors' = sensors
      /\ pc = "idle" /\ result' = NothingFound
      /\ (pc' = "ask" /\ outcome' = "none") \/ (pc' = "idle" /\ outcome' = "answered")
  BY DEF Begin, End
<1> QED
  BY <1>4, <1>5, <1>6, <1>7

LEMMA AskingStepInv == AskingInv /\ [AskingNext]_askingVars => AskingInv'
<1> SUFFICES ASSUME AskingInv, [AskingNext]_askingVars
             PROVE  AskingInv'
  OBVIOUS
<1>1. CASE Configure
  <2>1. setup' \in Setups
    BY <1>1 DEF Configure
  <2>2. /\ pc' = pc /\ request' = request /\ heard' = heard /\ names' = names
        /\ claimed' = claimed /\ outcome' = outcome /\ result' = result /\ sensors' = sensors
    BY <1>1 DEF Configure, answerVars
  <2>3. RequestIsRead => RequestIsRead'
    BY <2>2 DEF RequestIsRead
  <2> QED
    BY <2>1, <2>2, <2>3 DEF AskingInv
<1>2. CASE Retry
  <2>1. /\ pc \in {"ask", "locate"} /\ request' = [request EXCEPT !.retried = TRUE]
        /\ pc' = pc /\ setup' = setup /\ heard' = heard /\ names' = names
        /\ claimed' = claimed /\ outcome' = outcome /\ result' = result /\ sensors' = sensors
    BY <1>2 DEF Retry, answerVars
  <2>2. RequestIsRead
    BY <2>1 DEF AskingInv
  <2>3. RequestIsRead' /\ request'.fields = request.fields /\ request'.marks = request.marks
    BY <2>1, <2>2, RetriedIs
  <2> QED
    BY <2>1, <2>3 DEF AskingInv
<1>3. CASE AskFails
  <2>1. /\ pc = "ask" /\ pc' = "idle" /\ outcome' = "failed" /\ result' = NothingFound
        /\ setup' = setup /\ request' = request /\ claimed' = claimed /\ sensors' = sensors
    BY <1>3 DEF AskFails, End, answerVars
  <2>2. RequestIsRead'
    BY <2>1 DEF AskingInv, RequestIsRead
  <2>3. result'.marks = <<>>
    BY <2>1 DEF NothingFound
  <2> QED
    BY <2>1, <2>2, <2>3 DEF AskingInv
<1>4. CASE AskAnswered
  <2>1. PICK raw \in Raw, entries \in Seq(Entry) :
          /\ heard' = <<raw>> /\ claimed' = entries /\ setup' = setup /\ runs' = runs
          /\ \/ /\ pc' = "locate" /\ request.marks = "split"
                /\ \E objects \in ObjectLists : names' = parse_object_names(objects)
                /\ request' = [request EXCEPT !.retried = FALSE]
                /\ UNCHANGED <<outcome, result, sensors>>
             \/ Conclude(raw, entries) /\ request' = request
    BY <1>4, AnsweredIs
  <2>2. pc = "ask"
    BY <1>4 DEF AskAnswered
  <2>3. CASE Conclude(raw, entries) /\ request' = request
    BY <2>1, <2>2, <2>3, EndInv
  <2>4. CASE /\ pc' = "locate" /\ request.marks = "split"
             /\ \E objects \in ObjectLists : names' = parse_object_names(objects)
             /\ request' = [request EXCEPT !.retried = FALSE]
             /\ UNCHANGED <<outcome, result, sensors>>
    <3>1. RequestIsRead /\ outcome = "none"
      BY <2>2 DEF AskingInv
    <3>2. RequestIsRead' /\ request'.fields = request.fields /\ request'.marks = request.marks
      BY <2>4, <3>1, RetriedIs
    <3>3. names' \in Seq(Name)
      BY <2>4, NamesAre, AnswersAssumption
    <3>4. heard' # <<>> /\ heard'[1] = raw
      BY <2>1
    <3> QED
      BY <2>1, <2>4, <3>1, <3>2, <3>3, <3>4 DEF AskingInv
  <2> QED
    BY <2>1, <2>3, <2>4
<1>5. CASE Located \/ LocateFails
  <2>1. PICK raw \in Raw, entries \in Seq(Entry) :
          /\ claimed' = entries /\ setup' = setup /\ request' = request /\ pc = "locate"
          /\ Conclude(raw, entries)
    BY <1>5, LocatedIs
  <2> QED
    BY <2>1, EndInv
<1>6. ASSUME NEW adhoc \in BOOLEAN, NEW check \in BOOLEAN, Begin(adhoc, check)
      PROVE  AskingInv'
  <2>1. /\ RequestIsRead' /\ request'.fields \subseteq Fields
        /\ heard' = <<>> /\ claimed' = <<>> /\ setup' = setup /\ sensors' = sensors
        /\ result' = NothingFound
        /\ (pc' = "ask" /\ outcome' = "none") \/ (pc' = "idle" /\ outcome' = "answered")
    BY <1>6, BeginIs
  <2>2. result'.marks = <<>>
    BY <2>1 DEF NothingFound
  <2>3. parse_marks(claimed') = <<>> /\ claimed' \in Seq(Entry)
    BY <2>1, NoMarks, EmptySeq
  <2> QED
    BY <2>1, <2>2, <2>3 DEF AskingInv
<1>7. CASE UNCHANGED askingVars
  <2>1. /\ pc' = pc /\ request' = request /\ heard' = heard /\ names' = names /\ setup' = setup
        /\ claimed' = claimed /\ outcome' = outcome /\ result' = result /\ sensors' = sensors
    BY <1>7 DEF askingVars, answerVars
  <2>2. RequestIsRead => RequestIsRead'
    BY <2>1 DEF RequestIsRead
  <2> QED
    BY <2>1, <2>2 DEF AskingInv
<1> QED
  BY <1>1, <1>2, <1>3, <1>4, <1>5, <1>6, <1>7 DEF AskingNext, AskStep

LEMMA AskingInvariant == AskingSpec => []AskingInv
<1> QED
  BY AskingInitInv, AskingStepInv, PTL DEF AskingSpec

-----------------------------------------------------------------------------
(* What the invariant means for the boxes and the pictures *)

LEMMA KeptMarks ==
  ASSUME AskingInv
  PROVE  MarksFit
<1> DEFINE kept == result.marks
           marked == outcome = "answered" /\ request.marks # "no"
<1>1. AskingTypeOK
  BY DEF AskingInv, AskingTypeOK
<1>2. claimed \in Seq(Entry) /\ kept = IF marked THEN parse_marks(claimed) ELSE <<>>
  BY DEF AskingInv
<1>3. Len(claimed) \in Nat /\ DOMAIN claimed = 1 .. Len(claimed)
      /\ \A j \in DOMAIN claimed : claimed[j].box \in Box
  <2>1. Len(claimed) \in Nat /\ DOMAIN claimed = 1 .. Len(claimed)
        /\ \A j \in 1 .. Len(claimed) : claimed[j] \in Entry
    BY <1>2, LenProperties, ElementOfSeq
  <2> QED
    BY <2>1 DEF Entry
<1>4. /\ Len(kept) <= MAX_MARKS
      /\ \A i \in DOMAIN kept :
           \E j \in DOMAIN claimed :
             Drawable(claimed[j].box) /\ kept[i].box = Upright(claimed[j].box)
      /\ \A i, j \in DOMAIN kept : kept[i].box = kept[j].box => i = j
      /\ marked /\ Len(kept) < MAX_MARKS =>
           \A j \in DOMAIN claimed :
             Drawable(claimed[j].box) => SeenBefore(kept, claimed[j])
  <2>1. CASE marked
    <3>1. kept = parse_marks(claimed)
      BY <1>2, <2>1
    <3>2. MarksOf(claimed, Len(claimed), parse_marks(claimed))
      BY <1>2, MarksAre
    <3> HIDE DEF kept
    <3>3. MarksOf(claimed, Len(claimed), kept)
      BY <3>1, <3>2
    <3> QED
      BY <1>3, <3>3 DEF MarksOf
  <2>2. CASE ~marked
    <3>1. kept = <<>> /\ Len(<<>>) = 0 /\ DOMAIN <<>> = {} /\ 0 <= MAX_MARKS
      BY <1>2, <2>2, EmptySeq, BudgetAssumption
    <3> HIDE DEF kept, marked
    <3> QED
      BY <2>2, <3>1
  <2> QED
    BY <2>1, <2>2
<1>5. \A b \in Box : Drawable(b) =>
        Upright(b)[1] < Upright(b)[3] /\ Upright(b)[2] < Upright(b)[4] /\ Same(Upright(b), b)
  BY UprightIsSame DEF Drawable
<1> HIDE DEF kept
<1>6. \A i \in DOMAIN kept :
        /\ kept[i].box[1] < kept[i].box[3] /\ kept[i].box[2] < kept[i].box[4]
        /\ \E j \in DOMAIN claimed : Same(kept[i].box, claimed[j].box)
        /\ \A j \in DOMAIN kept : kept[j].box = kept[i].box => j = i
  <2>1. SUFFICES ASSUME NEW i \in DOMAIN kept
                 PROVE  <1>6!(i)
    OBVIOUS
  <2>2. PICK j \in DOMAIN claimed :
          Drawable(claimed[j].box) /\ kept[i].box = Upright(claimed[j].box)
    BY <1>4
  <2>3. /\ kept[i].box[1] < kept[i].box[3] /\ kept[i].box[2] < kept[i].box[4]
        /\ Same(kept[i].box, claimed[j].box)
    BY <1>3, <1>5, <2>2
  <2> QED
    BY <1>4, <2>3
<1>7. marked /\ Len(kept) < MAX_MARKS =>
        \A j \in DOMAIN claimed :
          Drawable(claimed[j].box) => \E i \in DOMAIN kept : Same(kept[i].box, claimed[j].box)
  BY <1>3, <1>4, <1>5 DEF SeenBefore
<1> QED
  BY <1>1, <1>4, <1>6, <1>7 DEF MarksFit, kept

LEMMA PicturesOfRequest ==
  ASSUME AskingInv
  PROVE  PicturesBelong
<1>1. SUFFICES ASSUME outcome # "none" \/ pc # "idle"
               PROVE  PicturesBelong
  BY DEF PicturesBelong
<1>2. PICK s \in Setups, adhoc \in BOOLEAN, check \in BOOLEAN, retried \in BOOLEAN :
        \E missing \in SUBSET ToSet(plan(s, adhoc, people_asked(s, adhoc, check))) :
          request = Read(s, adhoc, check, missing, retried)
  BY <1>1 DEF AskingInv, RequestIsRead
<1>3. PICK missing \in SUBSET ToSet(plan(s, adhoc, people_asked(s, adhoc, check))) :
        request = Read(s, adhoc, check, missing, retried)
  BY <1>2
<1> DEFINE people == people_asked(s, adhoc, check)
           planned == plan(s, adhoc, people)
           loaded == load_planned(planned, missing)
           pictured == Pictured(s, adhoc, people)
           W == Whole(pictured)
<1>4. people \in SUBSET PersonIds
  BY FieldsAre
<1>5. /\ request.fields = analysis_fields(s, adhoc, people) /\ request.adhoc = adhoc
      /\ request.missing = missing /\ request.pictures = loaded
  BY <1>3 DEF Read
<1> HIDE DEF people
<1>6. /\ planned \in Seq(Picture) /\ IsInjective(planned)
      /\ \A p \in ToSet(planned) : p \in W \/ (p.of = "baseline" /\ ~adhoc)
      /\ W \subseteq ToSet(planned) \/ Len(planned) >= Room
  BY <1>4, PlanIs
<1>7. missing \in SUBSET ToSet(planned)
  BY <1>3 DEF people
<1> HIDE DEF planned, W
<1>8. /\ Len(loaded) <= Room /\ ToSet(loaded) \subseteq ToSet(planned)
      /\ Len(loaded) + Cardinality(missing) < Room => W \subseteq ToSet(loaded) \cup missing
  BY <1>6, <1>7, LoadIs
<1>9. request.fields \ (IF request.adhoc THEN {ADHOC_KEY} ELSE {}) = pictured
  <2>1. /\ analysis_fields(s, adhoc, people) = (IF adhoc THEN {ADHOC_KEY} ELSE s.enabled) \cup people
        /\ s.enabled \subseteq QuestionKeys
    BY SetupsAssumption DEF analysis_fields, Asked
  <2>2. ADHOC_KEY \notin people
    BY <1>4, FieldsAssumption
  <2> QED
    BY <1>5, <2>1, <2>2 DEF Pictured
<1>10. UNION {{[of |-> f, n |-> i] : i \in 1 .. Pictures[f]} :
                f \in request.fields \ (IF request.adhoc THEN {ADHOC_KEY} ELSE {})} = W
  <2> HIDE DEF pictured
  <2>1. W = UNION {{[of |-> f, n |-> i] : i \in 1 .. Pictures[f]} : f \in pictured}
    BY DEF W, Whole
  <2> QED
    BY <1>9, <2>1, Zenon
<1> HIDE DEF loaded
<1>11. \A i \in DOMAIN loaded : loaded[i] \in ToSet(loaded)
  BY DEF ToSet
<1>12. /\ Len(request.pictures) <= MAX_PICTURES_PER_REQUEST - 1
       /\ \A i \in DOMAIN request.pictures :
            request.pictures[i] \in W \/ (request.pictures[i].of = "baseline" /\ ~request.adhoc)
       /\ Len(request.pictures) + Cardinality(request.missing) < MAX_PICTURES_PER_REQUEST - 1 =>
            W \subseteq ToSet(request.pictures) \cup request.missing
  BY <1>5, <1>6, <1>8, <1>11 DEF Room
<1> QED
  BY <1>10, <1>12, Zenon DEF PicturesBelong

-----------------------------------------------------------------------------
(* What a step does to the answers *)

(* A step leaves the sensors alone and reports nobody anew, or it ends an  *)
(* analysis with what a model was heard to answer.                         *)
LEMMA StepsAre ==
  ASSUME AskingInv, [AskingNext]_askingVars
  PROVE  \/ /\ sensors' = sensors /\ (result' = result \/ result' = NothingFound)
            /\ Ends => heard' = <<>>
         \/ /\ Ends /\ request' = request
            /\ \E raw \in Raw, entries \in Seq(Entry) :
                 /\ heard'[1] = raw /\ claimed' = entries
                 /\ SensorsFollow(raw) /\ PersonsFollow(raw)
                 /\ Endless(raw, entries) \/ AnswersKept(raw)
<1>1. CASE Configure \/ Retry \/ UNCHANGED askingVars
  BY <1>1 DEF Configure, Retry, askingVars, answerVars, Ends
<1>2. CASE AskFails
  <2>1. pc = "ask" /\ heard' = heard /\ sensors' = sensors /\ result' = NothingFound
    BY <1>2 DEF AskFails, End, answerVars
  <2> QED
    BY <2>1 DEF AskingInv
<1>3. ASSUME pc # "idle", request' = request, NEW raw \in Raw, NEW entries \in Seq(Entry),
             Conclude(raw, entries), heard'[1] = raw, claimed' = entries
      PROVE  /\ Ends /\ SensorsFollow(raw) /\ PersonsFollow(raw)
             /\ Endless(raw, entries) \/ AnswersKept(raw)
  <2>1. RequestIsRead /\ DOMAIN sensors \subseteq QuestionKeys
    BY <1>3 DEF AskingInv
  <2> QED
    BY <1>3, <2>1, ConcludeIs DEF Ends
<1>4. CASE AskAnswered
  <2>1. PICK raw \in Raw, entries \in Seq(Entry) :
          /\ heard' = <<raw>> /\ claimed' = entries
          /\ \/ pc' = "locate" /\ UNCHANGED <<outcome, result, sensors>>
             \/ Conclude(raw, entries) /\ request' = request
    BY <1>4, AnsweredIs
  <2>2. pc # "idle" /\ heard'[1] = raw
    BY <1>4, <2>1 DEF AskAnswered
  <2>3. CASE pc' = "locate" /\ UNCHANGED <<outcome, result, sensors>>
    BY <2>3 DEF Ends
  <2>4. CASE Conclude(raw, entries) /\ request' = request
    BY <1>3, <2>1, <2>2, <2>4
  <2> QED
    BY <2>1, <2>3, <2>4
<1>5. CASE Located \/ LocateFails
  <2>1. PICK raw \in Raw, entries \in Seq(Entry) :
          /\ heard[1] = raw /\ heard' = heard /\ claimed' = entries
          /\ request' = request /\ pc = "locate" /\ Conclude(raw, entries)
    BY <1>5, LocatedIs
  <2>2. heard'[1] = raw
    BY <2>1
  <2> QED
    BY <1>3, <2>1, <2>2
<1>6. ASSUME NEW adhoc \in BOOLEAN, NEW check \in BOOLEAN, Begin(adhoc, check)
      PROVE  sensors' = sensors /\ result' = NothingFound /\ heard' = <<>>
  BY <1>6, BeginIs
<1> QED
  BY <1>1, <1>2, <1>4, <1>5, <1>6 DEF AskingNext, AskStep

(* Where the objects are to be located, they have names of their own. *)
LEMMA SlotsAre ==
  ASSUME AskingInv, [AskingNext]_askingVars, pc = "ask", pc' = "locate"
  PROVE  \E objects \in ObjectLists : NamesOf(Without(objects, {Blank}), names')
<1>1. AskAnswered
  BY DEF AskingNext, AskStep, Configure, Retry, AskFails, End, Located, LocateFails, Begin,
         askingVars
<1>2. PICK raw \in Raw, entries \in Seq(Entry) :
        \/ \E objects \in ObjectLists : names' = parse_object_names(objects)
        \/ Conclude(raw, entries)
  BY <1>1, AnsweredIs
<1>3. ~Conclude(raw, entries)
  BY DEF Conclude, End
<1>4. PICK objects \in ObjectLists : names' = parse_object_names(objects)
  BY <1>2, <1>3
<1>5. objects \in Seq(Name)
  BY AnswersAssumption
<1>6. NamesOf(Without(objects, {Blank}), names')
  BY <1>4, <1>5, NamesAre, Zenon
<1> QED
  BY <1>6

-----------------------------------------------------------------------------
(* The theorems *)

(* The marks that are drawn are boxes a model claimed, upright and in the  *)
(* frame, none of them twice or without an extent and not too many, and    *)
(* nothing that can be drawn is left out while there is room (parse_marks).*)
THEOREM MarksAlwaysFit == AskingSpec => []MarksFit
<1> QED
  BY AskingInvariant, KeptMarks, PTL

(* A request carries pictures of nothing and nobody it does not ask about, *)
(* never more than fit beside the frame, and leaves one out only for those *)
(* planned before it or because its file is gone (plan_pictures,           *)
(* plan_person_pictures, load_planned).                                    *)
THEOREM PicturesAlwaysBelong == AskingSpec => []PicturesBelong
<1> QED
  BY AskingInvariant, PicturesOfRequest, PTL

(* A sensor changes only to what its own question was answered with by a   *)
(* request it was part of, and only people who were asked for are          *)
(* reported, whatever a model volunteers and however the configuration     *)
(* changes meanwhile (coerce_answers, VisionRunner.async_analyse).         *)
THEOREM AnswersAreAskedFor == AskingSpec => OnlyWhatWasAsked
<1>1. ASSUME AskingInv, [AskingNext]_askingVars
      PROVE  LET s == request.asked_under IN
             /\ \A q \in DOMAIN sensors' :
                  \/ q \in DOMAIN sensors /\ sensors'[q] = sensors[q]
                  \/ /\ Ends /\ ~request.adhoc /\ q \in s.enabled
                     /\ q \in DOMAIN heard'[1]
                     /\ StandsFor(s.type[q], heard'[1][q], sensors'[q])
             /\ DOMAIN sensors \subseteq DOMAIN sensors'
             /\ \A p \in DOMAIN result'.persons \ DOMAIN result.persons :
                  /\ p \in s.people /\ (IF request.adhoc THEN request.check ELSE s.detect_persons)
                  /\ StandsFor("boolean", heard'[1][p], result'.persons[p])
  <2>1. CASE sensors' = sensors /\ (result' = result \/ result' = NothingFound)
    BY <2>1 DEF NothingFound
  <2>2. CASE Ends /\ \E raw \in Raw :
               heard'[1] = raw /\ SensorsFollow(raw) /\ PersonsFollow(raw)
    BY <2>2 DEF SensorsFollow, PersonsFollow
  <2> QED
    BY <1>1, <2>1, <2>2, StepsAre
<1> QED
  BY <1>1, AskingInvariant, PTL DEF AskingSpec, OnlyWhatWasAsked

(* Once a model has answered with fields, the analysis succeeds, every     *)
(* answer that can be recognised is used and no other, and every other     *)
(* field asked for is reported as a problem, whatever became of the boxes; *)
(* all but a number beyond every float (coerce_answer, async_analyse,      *)
(* _async_ground).                                                         *)
THEOREM AnswersAlwaysStand == AskingSpec => AnswersStand
<1>1. ASSUME AskingInv, [AskingNext]_askingVars, Ends, heard' # <<>>
      PROVE  LET endless  ==
                   \/ \E f \in request.fields \cap DOMAIN heard'[1] :
                        TypeOf(request, f) = "number" /\ heard'[1][f].number = Infinite
                   \/ \E i \in DOMAIN claimed' : Infinite \in ToSet(claimed'[i].box)
                 answered == DOMAIN result'.values \cup DOMAIN result'.persons
             IN ~endless =>
             /\ outcome' = "answered"
             /\ result'.problems = request.fields \ answered
             /\ \A f \in request.fields \cap DOMAIN heard'[1] :
                  f \in answered <=> ~Unrecognisable(TypeOf(request, f), heard'[1][f])
  <2>1. PICK raw \in Raw, entries \in Seq(Entry) :
          /\ heard'[1] = raw /\ claimed' = entries
          /\ Endless(raw, entries) \/ AnswersKept(raw)
    BY <1>1, StepsAre
  <2> QED
    BY <2>1 DEF Endless, AnswersKept
<1> QED
  BY <1>1, AskingInvariant, PTL DEF AskingSpec, AnswersStand

(* As many names are to be located as objects were named, up to the most   *)
(* there may be, each begins with the one it stands for, and no two of     *)
(* them are the same, whatever names a model makes up (parse_object_names).*)
THEOREM EachHasItsSlot == AskingSpec => OneSlotEach
<1>1. ASSUME AskingInv, [AskingNext]_askingVars, pc = "ask", pc' = "locate"
      PROVE  /\ \A i, j \in DOMAIN names' : names'[i] = names'[j] => i = j
             /\ \E objects \in ObjectLists :
                  LET named == Without(objects, {Blank}) IN
                  /\ Len(names') = Low(Len(named), MAX_MARKS)
                  /\ \A i \in DOMAIN names' : IsPrefix(named[i], names'[i])
  BY <1>1, SlotsAre DEF NamesOf
<1> QED
  BY <1>1, AskingInvariant, PTL DEF AskingSpec, OneSlotEach
================================================================================
