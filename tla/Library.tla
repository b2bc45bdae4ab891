-------------------------------- MODULE Library --------------------------------
(***************************************************************************)
(* The configuration and what hangs on it: requests of the panel (api.py)  *)
(* that each replace the whole of it, the save that brings it to the disk, *)
(* the entity registry, the recorder and the platforms                     *)
(* (coordinator.py), the reference pictures it names, and the sweep of     *)
(* those it does not (core/references.py).                                 *)
(*                                                                         *)
(* A camera has at most one profile, with one question here: the domain of *)
(* its entity and the pictures it names.  People name pictures, too.       *)
(* Left out: views, endpoints and storage, which other edits replace in    *)
(* the same way; what the recorder, the runner and the tracker do with a   *)
(* configuration, which is in their modules; and people's entities, which  *)
(* are never removed.                                                      *)
(***************************************************************************)
EXTENDS Naturals, Sequences, Functions

CONSTANTS
  Cameras, People, Pictures,
  Tasks,                            \* requests that can be under way at once
  Absent,                           \* no such file, or never
  REFERENCE_ORPHAN_GRACE_SECONDS,
  MaxTime,                          \* bound on the clock
  MaxCalls,                         \* bound on requests
  MaxRestarts

ASSUME BoundsAssumption ==
  {REFERENCE_ORPHAN_GRACE_SECONDS, MaxTime, MaxCalls, MaxRestarts} \subseteq Nat
ASSUME AbsentAssumption == Absent \notin Nat

VARIABLES
  config,      \* coordinator.config, and the one on disk: [cameras, vision, people]
  saving,      \* requests in CamwatchStore.async_save, [task, config], in order
  applying,    \* requests in RecorderManager.async_apply, in order
  publishing,  \* requests in async_publish_state
  registry,    \* question entities: <<domain, camera>>
  known,       \* what the platforms believe they provide
  dropped,     \* what they believe of a question that a save has removed since
  files,       \* by picture: when its file was written, or Absent
  sweeps,      \* jobs of prune_unreferenced: [referenced, now]
  deletions,   \* pictures ws_delete_reference has found unused
  since,       \* by picture: since when config names it, or Absent
  now, calls, restarts

configVars == <<config, since>>
requestVars == <<saving, applying, publishing>>
entityVars == <<registry, known, dropped>>
fileVars == <<files, sweeps, deletions>>
boundVars == <<now, calls, restarts>>

Domains == {"binary_sensor", "sensor"}
Profile == [domain : Domains, pictures : SUBSET Pictures]
Without(f, x) == Restrict(f, DOMAIN f \ {x})
With(f, x, v) == [y \in DOMAIN f \cup {x} |-> IF y = x THEN v ELSE f[y]]

Empty == [cameras |-> {}, vision |-> <<>>, people |-> <<>>]

LibraryInit ==
  /\ config = Empty
  /\ saving = <<>> /\ applying = <<>> /\ publishing = {}
  /\ registry = {} /\ known = {} /\ dropped = {}
  /\ files = [p \in Pictures |-> Absent]
  /\ sweeps = {} /\ deletions = {}
  /\ since = [p \in Pictures |-> Absent]
  /\ now = 0 /\ calls = 0 /\ restarts = 0

-----------------------------------------------------------------------------
(* The edits of CamwatchConfig, with the handlers' conditions *)

WithCamera(c) == {[config EXCEPT !.cameras = @ \cup {c}]}

WithoutCamera(c) ==
  IF c \in config.cameras
  THEN {[config EXCEPT !.cameras = @ \ {c}, !.vision = Without(@, c)]} ELSE {}

WithVision(c) ==
  IF c \in config.cameras
  THEN {[config EXCEPT !.vision = With(@, c, p)] : p \in Profile} ELSE {}

WithoutVision(c) ==
  IF c \in DOMAIN config.vision
  THEN {[config EXCEPT !.vision = Without(@, c)]} ELSE {}

WithPerson(n) == {[config EXCEPT !.people = With(@, n, P)] : P \in SUBSET Pictures}

WithoutPerson(n) ==
  IF n \in DOMAIN config.people
  THEN {[config EXCEPT !.people = Without(@, n)]} ELSE {}

Edits ==
  UNION {WithCamera(c) \cup WithoutCamera(c) \cup WithVision(c) \cup WithoutVision(c) :
         c \in Cameras}
  \cup UNION {WithPerson(n) \cup WithoutPerson(n) : n \in People}

-----------------------------------------------------------------------------
(* async_set_config, from one await to the next *)

Busy(t) ==
  \/ \E i \in DOMAIN saving : saving[i].task = t
  \/ \E i \in DOMAIN applying : applying[i] = t
  \/ t \in publishing

Request(t) ==
  /\ ~Busy(t)
  /\ calls < MaxCalls /\ calls' = calls + 1
  /\ \E new \in Edits : saving' = Append(saving, [task |-> t, config |-> new])
  /\ UNCHANGED <<configVars, applying, publishing, entityVars, fileVars, now, restarts>>

(* referenced_asset_ids and baseline_asset_ids *)
Named(cfg) ==
  UNION ({cfg.vision[c].pictures : c \in DOMAIN cfg.vision}
         \cup {cfg.people[n] : n \in DOMAIN cfg.people})

Noted(cfg) ==
  since' = [p \in Pictures |-> IF p \notin Named(cfg) THEN Absent
                               ELSE IF since[p] = Absent THEN now ELSE since[p]]

ExpectedEntities(cfg) == {<<cfg.vision[c].domain, c>> : c \in DOMAIN cfg.vision}

(* Faulty variant: only the entities of cameras with a profile are looked at. *)
PrunedByProfile(cfg) ==
  {e \in registry : e[2] \in DOMAIN cfg.vision => e \in ExpectedEntities(cfg)}

(* async_prune_observation_entities *)
Pruned(cfg) ==
  {e \in registry : e[2] \in cfg.cameras => e \in ExpectedEntities(cfg)}

(* The file is written: the configuration takes effect, *)
Stored ==
  LET r == Head(saving) IN
  /\ saving # <<>>
  /\ saving' = Tail(saving) /\ applying' = Append(applying, r.task)
  /\ config' = r.config /\ Noted(r.config)
  /\ registry' = Pruned(r.config)
  /\ dropped' = dropped \cup (known \ ExpectedEntities(r.config))
  /\ UNCHANGED <<publishing, known, fileVars, boundVars>>

(* Faulty variant: people are forgotten. *)
SweepOfQuestions(cfg) ==
  [referenced |-> UNION {cfg.vision[c].pictures : c \in DOMAIN cfg.vision}, now |-> now]

(* async_prune_references: what is named when it is scheduled *)
ScheduledSweep(cfg) == [referenced |-> Named(cfg), now |-> now]

(* the recorder has applied it, or raised, which ends the request, *)
Applied ==
  /\ applying # <<>>
  /\ applying' = Tail(applying)
  /\ \/ /\ publishing' = publishing \cup {Head(applying)}
        /\ sweeps' = sweeps \cup {ScheduledSweep(config)}
     \/ UNCHANGED <<publishing, sweeps>>
  /\ UNCHANGED <<configVars, saving, entityVars, files, deletions, boundVars>>

(* Faulty variant: what was once provided is known for good. *)
SyncOfAllEverKnown ==
  /\ registry' = registry \cup (ExpectedEntities(config) \ known)
  /\ known' = known \cup ExpectedEntities(config)
  /\ dropped' = dropped \cap ExpectedEntities(config)

(* _sync of both platforms: what they know they do not add.  A question    *)
(* that is gone is forgotten, unless it has been asked again meanwhile.    *)
Sync ==
  /\ registry' = registry \cup (ExpectedEntities(config) \ known)
  /\ known' = ExpectedEntities(config)
  /\ dropped' = dropped \cap ExpectedEntities(config)

(* and the entities are told. *)
Published(t) ==
  /\ t \in publishing
  /\ publishing' = publishing \ {t}
  /\ Sync
  /\ UNCHANGED <<configVars, saving, applying, fileVars, boundVars>>

(* The update cycle, or a recording that starts or dies, tells them, too. *)
Publish ==
  /\ Sync
  /\ UNCHANGED <<configVars, requestVars, fileVars, boundVars>>

-----------------------------------------------------------------------------
(* Reference pictures *)

(* write_asset: "An existing file already holds exactly these bytes" *)
Upload(p) ==
  /\ files' = [files EXCEPT ![p] = IF @ = Absent THEN now ELSE @]
  /\ UNCHANGED <<configVars, requestVars, entityVars, sweeps, deletions, boundVars>>

Fallen(s) ==
  {p \in Pictures \ s.referenced :
     files[p] # Absent /\ s.now > files[p] + REFERENCE_ORPHAN_GRACE_SECONDS}

(* prune_unreferenced, in the executor *)
Sweep(s) ==
  /\ s \in sweeps /\ sweeps' = sweeps \ {s}
  /\ files' = [p \in Pictures |-> IF p \in Fallen(s) THEN Absent ELSE files[p]]
  /\ UNCHANGED <<configVars, requestVars, entityVars, deletions, boundVars>>

(* ws_delete_reference looks, *)
AskDelete(p) ==
  /\ p \notin Named(config) /\ p \notin deletions
  /\ calls < MaxCalls /\ calls' = calls + 1
  /\ deletions' = deletions \cup {p}
  /\ UNCHANGED <<configVars, requestVars, entityVars, files, sweeps, now, restarts>>

(* and deletes when the executor gets to it. *)
Delete(p) ==
  /\ p \in deletions /\ deletions' = deletions \ {p}
  /\ files' = [files EXCEPT ![p] = Absent]
  /\ UNCHANGED <<configVars, requestVars, entityVars, sweeps, boundVars>>

-----------------------------------------------------------------------------
(* Home Assistant is restarted, or dies; the save it was at may have       *)
(* reached the disk.  async_start sweeps, prunes, and sets up the entities.*)
Restart ==
  /\ restarts < MaxRestarts /\ restarts' = restarts + 1
  /\ \E cfg \in {config} \cup {saving[i].config : i \in DOMAIN saving \cap {1}} :
       /\ config' = cfg /\ Noted(cfg)
       /\ sweeps' = {ScheduledSweep(cfg)}
       /\ registry' = Pruned(cfg) \cup ExpectedEntities(cfg)
       /\ known' = ExpectedEntities(cfg)
  /\ dropped' = {}
  /\ saving' = <<>> /\ applying' = <<>> /\ publishing' = {} /\ deletions' = {}
  /\ UNCHANGED <<files, now, calls>>

Tick ==
  /\ now < MaxTime /\ now' = now + 1
  /\ UNCHANGED <<configVars, requestVars, entityVars, fileVars, calls, restarts>>

LibraryNext ==
  \/ \E t \in Tasks : Request(t) \/ Published(t)
  \/ Stored \/ Applied \/ Publish
  \/ \E p \in Pictures : Upload(p) \/ AskDelete(p) \/ Delete(p)
  \/ \E s \in sweeps : Sweep(s)
  \/ Restart \/ Tick

libraryVars == <<configVars, requestVars, entityVars, fileVars, boundVars>>
LibrarySpec == LibraryInit /\ [][LibraryNext]_libraryVars

-----------------------------------------------------------------------------
(* Properties *)

(* Every configuration has cameras for its profiles. *)
Config ==
  {cfg \in [cameras : SUBSET Cameras,
            vision : UNION {[C -> Profile] : C \in SUBSET Cameras},
            people : UNION {[N -> SUBSET Pictures] : N \in SUBSET People}] :
     DOMAIN cfg.vision \subseteq cfg.cameras}

LibraryTypeOK ==
  /\ config \in Config
  /\ saving \in Seq([task : Tasks, config : Config])
  /\ applying \in Seq(Tasks) /\ publishing \subseteq Tasks
  /\ registry \cup known \cup dropped \subseteq Domains \X Cameras
  /\ files \in [Pictures -> (0 .. now) \cup {Absent}]
  /\ since \in [Pictures -> (0 .. now) \cup {Absent}]
  /\ sweeps \subseteq [referenced : SUBSET Pictures, now : 0 .. now]
  /\ deletions \subseteq Pictures

(* "A question that is deleted, or whose answer type moved it to another   *)
(* entity domain, must not leave a dead entity behind", and "forgetting a  *)
(* key [...] lets the question come back later": through deletions and     *)
(* returns, overlapping saves, applies that raise, late publications and   *)
(* restarts, a camera has no entity of a question it does not ask, and has *)
(* that of every question it asks once the platforms have looked.          *)
(* Two cases are excepted, in which the code does not keep its word: the   *)
(* entities of a camera that is no longer configured, which stay until it  *)
(* returns, and a question that is asked again before a platform has seen  *)
(* it gone, which has no entity until it is known to be gone, or restarted.*)
EntitiesFollow ==
  \A e \in Domains \X Cameras :
    e[2] \in config.cameras =>
      /\ e \in registry => e \in ExpectedEntities(config)
      /\ e \in known \cap ExpectedEntities(config) => e \in registry \cup dropped

(* "A file survives while its id appears in the configuration OR while it  *)
(* is younger than the grace period": nothing but a request deletes a      *)
(* younger picture, or one that was saved while it was younger and has     *)
(* been named ever since, however late a sweep comes to run and whatever   *)
(* was saved meanwhile.  Excepted is the case in which the sentence is not *)
(* true: a picture first named when it was beyond the grace period already *)
(* is deleted, named as it is, by a sweep scheduled before that save.      *)
PicturesKept ==
  [][\A p \in Pictures :
       files[p] # Absent /\ files'[p] = Absent /\ deletions' = deletions =>
         /\ now > files[p] + REFERENCE_ORPHAN_GRACE_SECONDS
         /\ since[p] # Absent => since[p] > files[p] + REFERENCE_ORPHAN_GRACE_SECONDS]_libraryVars
=============================================================================
