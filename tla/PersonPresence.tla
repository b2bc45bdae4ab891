---------------------------- MODULE PersonPresence ----------------------------
(***************************************************************************)
(* The PersonPresenceTracker of persons.py: sightings reported by the      *)
(* analyses of any camera, the off-delay timer of each person, and         *)
(* configuration changes that delete people or change the delay while      *)
(* timers run.  The coordinator changes its configuration at once and      *)
(* brings it to the tracker later, in the order of the saves, or never, if *)
(* the recorder fails while a lost location has everything stopped.  A     *)
(* sighting in between already uses the new delay, and may be of a person  *)
(* who is no longer configured.                                            *)
(*                                                                         *)
(* One clock stands for the wall clock of last_seen and the monotonic one  *)
(* of the timers.  A timer fires at its deadline or at any time after it.  *)
(* A person without a state reads as one that was never seen, and whatever *)
(* reads it makes one.  States are gone through in the order in which they *)
(* were made, which is left open here.                                     *)
(***************************************************************************)
EXTENDS Naturals, Sequences

CONSTANTS
  Persons,     \* person ids
  Configs,     \* [people, absence_seconds]
  MaxTime,     \* bound on the clock
  MaxSaves     \* bound on configuration saves

ASSUME ConfigsAssumption ==
  \A c \in Configs : c.people \subseteq Persons /\ c.absence_seconds \in Nat
ASSUME BoundsAssumption == MaxTime \in Nat /\ MaxSaves \in Nat

VARIABLES
  config,      \* the coordinator's configuration
  applying,    \* saved configurations on their way to the tracker
  missed,      \* the newest configuration that was due never arrived, or in part
  states,      \* the persons in _states
  present,     \* by person
  last_seen,   \* by person, meaningful while present
  armed,       \* the persons whose timer runs
  deadline,    \* when it does
  stopped,     \* async_stop was called
  now, saves

personVars == <<states, present, last_seen, armed, deadline>>
vars == <<config, applying, missed, personVars, stopped, now, saves>>

Init ==
  /\ config \in Configs
  /\ applying = <<>> /\ missed = FALSE
  /\ states = {}
  /\ present = [p \in Persons |-> FALSE]
  /\ last_seen = [p \in Persons |-> 0]
  /\ armed = {}
  /\ deadline = [p \in Persons |-> 0]
  /\ stopped = FALSE
  /\ now = 0 /\ saves = 0

-----------------------------------------------------------------------------
(* Faulty variant: a timer that runs already is left alone. *)
ArmsOnce(p) ==
  /\ armed' = armed \cup {p}
  /\ deadline' =
       IF p \in armed THEN deadline
       ELSE [deadline EXCEPT ![p] = now + config.absence_seconds]

(* _arm after a sighting: the new timer takes the place of a running one. *)
Arm(p) ==
  /\ armed' = armed \cup {p}
  /\ deadline' = [deadline EXCEPT ![p] = now + config.absence_seconds]

(* async_seen *)
Seen(p) ==
  /\ states' = states \cup {p}
  /\ present' = [present EXCEPT ![p] = TRUE]
  /\ last_seen' = [last_seen EXCEPT ![p] = now]
  /\ Arm(p)
  /\ UNCHANGED <<config, applying, missed, stopped, now, saves>>

(* The timer fires: _expired, and _expire after it. *)
Expire(p) ==
  /\ p \in armed /\ deadline[p] <= now
  /\ armed' = armed \ {p}
  /\ present' = [present EXCEPT ![p] = FALSE]
  /\ UNCHANGED <<config, applying, missed, states, last_seen, deadline, stopped, now, saves>>

(* state_for: the entity or the panel shows a configured person. *)
Look(p) ==
  /\ p \in config.people \ states
  /\ states' = states \cup {p}
  /\ UNCHANGED <<config, applying, missed, present, last_seen, armed, deadline, stopped, now,
                 saves>>

(* A save of the coordinator: what async_set_config does before it waits   *)
(* for the recorder.                                                       *)
Save(c) ==
  /\ saves < MaxSaves
  /\ config' = c
  /\ applying' = Append(applying, c)
  /\ saves' = saves + 1
  /\ UNCHANGED <<missed, personVars, stopped, now>>

Kept(c) == {p \in c.people : present[p]}

Overdue(c) == {p \in Kept(c) : now - last_seen[p] >= c.absence_seconds}

(* Faulty variant: the delay starts over. *)
FromNow(p, c) == now + c.absence_seconds

(* The delay is measured from the last sighting, for what remains of it. *)
Remaining(p, c) == now + (c.absence_seconds - (now - last_seen[p]))

(* Faulty variant: only the timers of the remaining people are touched. *)
KeepsOverdue(c) == [p \in Persons |-> p \in Kept(c)]

StillPresent(c) == [p \in Persons |-> p \in Kept(c) \ Overdue(c)]

(* async_apply: people who are gone lose state and timer, whoever is       *)
(* overdue under the new delay leaves at once, everyone else's timer is    *)
(* set again.                                                              *)
Apply ==
  /\ applying # <<>>
  /\ LET c == Head(applying) IN
       /\ states' = states \cap c.people
       /\ present' = StillPresent(c)
       /\ armed' = Kept(c) \ Overdue(c)
       /\ deadline' = [p \in Persons |->
            IF p \in Kept(c) \ Overdue(c) THEN Remaining(p, c) ELSE deadline[p]]
  /\ applying' = Tail(applying)
  /\ missed' = FALSE
  /\ UNCHANGED <<config, last_seen, stopped, now, saves>>

(* Whoever leaves is announced at once.  If the entity of a person without *)
(* a state hears of it, the states grow while they are gone through: that  *)
(* raises, and those after the one who left keep the timers they had.      *)
ApplyBreaks ==
  /\ applying # <<>>
  /\ LET c == Head(applying) IN
       \E gone \in Overdue(c), before \in SUBSET (Kept(c) \ Overdue(c)) :
         /\ \E new \in SUBSET (config.people \ (states \cap c.people)) :
              new # {} /\ states' = (states \cap c.people) \cup new
         /\ present' = [p \in Persons |-> p \in Kept(c) \ {gone}]
         /\ armed' = ((armed \cap c.people) \ {gone}) \cup before
         /\ deadline' = [p \in Persons |->
              IF p \in before THEN Remaining(p, c) ELSE deadline[p]]
  /\ applying' = Tail(applying)
  /\ missed' = TRUE
  /\ UNCHANGED <<config, last_seen, stopped, now, saves>>

(* The recorder's async_apply raises, and async_set_config ends with it. *)
RecorderFails ==
  /\ applying # <<>>
  /\ applying' = Tail(applying)
  /\ missed' = TRUE
  /\ UNCHANGED <<config, personVars, stopped, now, saves>>

(* async_stop: no timer is left, and what is known stays as it is. *)
Stop ==
  /\ ~stopped
  /\ stopped' = TRUE
  /\ armed' = {}
  /\ UNCHANGED <<config, applying, missed, states, present, last_seen, deadline, now, saves>>

(* The integration is loaded again: a new tracker, which knows nothing. *)
Restart ==
  /\ stopped
  /\ stopped' = FALSE
  /\ applying' = <<>> /\ missed' = FALSE
  /\ states' = {}
  /\ present' = [p \in Persons |-> FALSE]
  /\ last_seen' = [p \in Persons |-> 0]
  /\ armed' = {}
  /\ deadline' = [p \in Persons |-> 0]
  /\ UNCHANGED <<config, now, saves>>

Tick ==
  /\ now < MaxTime
  /\ now' = now + 1
  /\ UNCHANGED <<config, applying, missed, personVars, stopped, saves>>

Next ==
  \/ \E p \in Persons : Seen(p) \/ Expire(p) \/ Look(p)
  \/ \E c \in Configs : Save(c)
  \/ Apply \/ ApplyBreaks \/ RecorderFails \/ Stop \/ Restart \/ Tick

Spec == Init /\ [][Next]_vars

-----------------------------------------------------------------------------
(* Properties *)

(* No timer is set further ahead than the longest delay. *)
TypeOK ==
  /\ config \in Configs /\ applying \in Seq(Configs)
  /\ states \in SUBSET Persons /\ armed \subseteq states
  /\ present \in [Persons -> BOOLEAN]
  /\ last_seen \in [Persons -> Nat] /\ \A p \in Persons : last_seen[p] <= now
  /\ armed \in SUBSET Persons
  /\ deadline \in [Persons -> Nat]
  /\ \A p \in armed : \E c \in Configs : deadline[p] <= now + c.absence_seconds
  /\ stopped \in BOOLEAN /\ missed \in BOOLEAN
  /\ now \in Nat /\ saves \in Nat

(* There is never "an on that nothing is left to turn off": whoever is     *)
(* present has a timer running, through every change of the configuration, *)
(* deletion and return, and sightings that arrive late.                    *)
PresenceEnds == ~stopped => \A p \in Persons : present[p] => p \in armed

(* Once the saves have arrived, every running timer ends exactly the       *)
(* configured delay after the person's last sighting, whatever delays it   *)
(* was armed with before; unless the newest one was kept from arriving by  *)
(* the recorder, or broke off because somebody new was looked at while it  *)
(* went through the people.                                                *)
TimersFollow ==
  ~stopped /\ ~missed /\ applying = <<>> =>
    \A p \in armed : deadline[p] = last_seen[p] + config.absence_seconds

(* "Only the configured Abklingzeit after the last sighting switches a     *)
(* person to absent": a configured person leaves no sooner after it than   *)
(* a delay that is or was last in force, and a restart aside.              *)
NeverEarly ==
  [][\A p \in Persons :
       present[p] /\ ~present'[p] /\ ~stopped =>
         \/ \E c \in Configs :
              /\ c.absence_seconds <= now - last_seen[p]
              /\ applying = <<>> /\ ~missed => c = config
         \/ applying # <<>> /\ p \notin Head(applying).people]_vars
=============================================================================
