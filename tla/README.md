# Kustos Vision: a verification project

Kustos Vision is a Home Assistant integration. It records cameras with ffmpeg,
keeps the recordings within a budget, lets vision models answer questions about
them, and brings a panel to look at all of it. This directory holds TLA+ models
of the parts where order, overlap, failure and limits decide whether that works,
the TLC configurations that check them, and TLAPS proofs of what matters most.

Paths are relative to `src/custom_components/kustos_vision/` unless they begin
with `frontend/`, which is `src/frontend/`.

## The system

One asyncio event loop runs everything of the integration; a step of the models
is what happens between two awaits of the code. What runs beside the loop are
executor jobs (files, SQLite), ffmpeg processes, network shares and models. The
panel is a browser application that talks to the loop through WebSocket
commands.

| Part | State | Operations | Talks to |
|---|---|---|---|
| Stream supervision, `recorder.py` `StreamProcess` | the process, the supervisor task, the stopping flag, the status | start, stop, supervise with backoff, kill | ffmpeg |
| Recorder manager, `recorder.py` `RecorderManager` | the table of streams, the unresolved ones and their listener, the latest configuration, the pauses | apply, retry, stop all | stream supervision, camera entities |
| Coordinator, `coordinator.py`, `supervisor_mount.py` | the configuration, the storage error, ready, backoff of the reconnects | cycle, save, pause, reconnect | everything below |
| Housekeeping, `maintenance.py` | a lock and the last result | scan, previews, retention, pruning | index, files, ffmpeg |
| Index, `core/index.py` | one SQLite row per segment | upsert, forget, clear, queries, incremental scan | files |
| Retention, `core/retention.py` | none | plan, budget, headroom | – |
| Paths, `core/paths.py` | none | names, day directories, local time | files |
| Vision runner, `vision_runner.py`, `capture.py` | a state and a lock per camera, frame and mark files | analyse, apply, subscribe, prune | providers, cameras |
| Providers, `vision/` | none | ask a model | HTTP, AI tasks |
| Person presence, `persons.py` | who is present, last seen, timers | seen, expire, apply, stop | runner, entities |
| Configuration, `core/config.py`, `storage.py` | one immutable value, saved as JSON | edits, validation, load, save | panel API |
| Panel API, `api.py`, `services.py` | none | one handler per command | coordinator |
| References, `core/references.py` | picture files | upload, delete, sweep | configuration |
| Observations and entities, `observation_registry.py`, `core/observations.py`, platforms | the entity registry | expected entities, pruning, conversion of answers | configuration, runner |
| Export, `export.py`, `http_views.py`, `core/mp4.py` | temporary files | join and cut recordings | index, files, ffmpeg |
| Panel, `frontend/src/` | live sessions, the player's buffer, unsaved edits | start and stop a live tile, play, seek, edit | panel API |

What makes each part correct:

- *Supervision*: one ffmpeg per stream, none left after a stop, no gap that
  nobody will end.
- *Manager*: what runs is what was configured last; one process per stream, all
  of them known; a camera that answers again is recorded again.
- *Storage*: recording stops and is reported when the location is gone, and
  resumes by itself.
- *Housekeeping*: never deletes what is written; the index ends up with the
  files; previews exist.
- *Retention*: the cameras have room to write until the next pass, nothing is
  deleted that could have been kept, and deleting does not call for more of it.
- *Export*: a download that ends as a whole has the whole range, the clock in it
  is right, a torn tail does not break it, and nothing is left behind.
- *Vision*: one analysis at a time, within a budget; the answers shown are the
  newest, and the picture beside an entry is the one that was analysed.
- *Asking*: sensors and presence follow only what was asked and answered; one
  bad field costs no other; the pictures that are sent belong to the questions.
- *Presence*: present while seen, absent the configured delay later, never
  stuck.
- *Configuration*: profiles have cameras; no entity of a question nobody asks,
  and one of each that is asked; pictures that are named exist.
- *Player and tile*: late answers of an earlier session change nothing, and what is
  not on screen is not streamed.

The hard behaviours are those of overlapping coroutines that read state before
an await and use it afterwards, and of a world (cameras, shares, processes,
clocks) that changes in between. `PROJECT.json` lists them one by one under
"hazards", each at its line.

## Modules

### RecordedStream and StreamProcess

`RecordedStream` is the promise: a stream is off, on or closing; at most one
writer; launches only while on; off means no writer. It has one gap: while the
stream is on, a writer may go astray, and the stream no longer answers for it.
`StreamProcess` is
`recorder.py:79-263`. `pc` is the await the supervisor is suspended at (making
directories, spawning, running, sleeping), `stopPc` the await each overlapping
`async_stop` is suspended at. Cancellation is delivered at the next resumption
of the supervisor, as asyncio does. Process identities are reused once reaped.
A run ends because ffmpeg has gone, or because the reader of its messages
raised while it lives (`DrainRaises`): `lost` has the processes the object forgot
that way. The refinement maps "closing" to any call of `async_stop` under way,
the writers to the live processes that are not lost, and the strays to the lost.

### RecorderManager

`recorder.py:266-477` with its callers in the coordinator. `task` holds the
coroutines that are in the manager, with the locals they keep across an await;
`queue` is the FIFO lock. `async_apply` is `Enter`, `Resolve` per stream, and the
stops and starts of `Finish` and `Launch`; `Taken`/`StopAll` is
`async_stop_all`, which takes no lock. A `StreamProcess` appears as
`RecordedStream` describes it. The objects of a stream have slots: a new one
takes a slot in which no process is left and that no coroutine still holds, as
Python would not reuse an object that something refers to.

### StorageReconcile

`coordinator.py:241-337`. The update cycle, a save, a pause, a reconnect and a
refresh overlap at the probe, the mount lookup, the reload and the recorder's
lock. The share can be unmounted and its server unreachable; `Usable` is
`prepare_storage`. `latest` is the recorder's `_latest`, which the apply that
enters the lock sets and a stop of everything clears. A cycle ends with a retry of
cameras that could not be resolved, and a camera that announces itself causes one
(`Retry`); it passes on `latest` as it is when it is called, and waits. Whether a
camera is unresolved is left open. `overtaken` is a history variable: whether
`_latest` was set by a retry that is older than what was applied before it.

### Maintenance

`maintenance.py`, with the parts of `core/index.py` and `core/retention.py` it
uses. `pass` is the housekeeping pass with its locals, one action per executor
job; a scan goes through the day directories one by one. Segments are numbered
in the order they are opened. From a segment no frame can be read if its process
died or, as `maintenance.py:222` has it, the camera sent a broken keyframe
(`torn`). How many segments a retention run deletes is left open, so every budget
and every age limit is included.

### Retention

The amounts that Maintenance leaves open: `core/retention.py` and the callers of
it in `maintenance.py`. A pass is the scan in two steps, the previews, the look
at the free space and the deletions; between any two of them cameras open
segments and write on in the newest, other data on the disk comes and goes, and
`statfs` may fail. The disk has what is written of every segment (`files`), the
index what the last scan that looked at it saw (`rows`), so that the newest
segment of a stream, and one that was finished while a scan went on, are in it
with less than their size; and `statfs` knows nothing of what is still to be
written. Previews take space that the index does not count. `roomy` is a history
variable: the last deletions made the whole headroom they meant to, for segments
no larger than they knew of, and no stream has gone beyond what it was made for.
Without it the code promises nothing: on a disk that other data fills, or with
segments that suddenly grow, the cameras may run out of space, and then write as
far as there is room.

### Recordings and Export

`Recordings` has the definitions of a file's boxes (`core/mp4.py`), of local time
(`core/paths.py`), of the index's rows and queries (`core/index.py`) and of the
cut of an export (`export.py`). `Export` is a download on top of them: `pc` is
the await the request is suspended at, `prepare_inputs` has a step for every look
it takes at the disk, and ffmpeg yields one input per chunk. A segment ended with
its process (in the head of a fragment, behind it, or in its samples) or is
intact, and the newest may grow, fragment by fragment, half of a fragment at a
time. A fragment is one second, and which of them begin with a keyframe belongs to
the layout: a clip that is encoded anew begins where it is cut, a raw one at the
keyframe at or before it. Real fragments are as long as the camera's interval of
keyframes, and the last may hold nothing but sound; it then counts for how far
the file may be read, and is no target to seek to (`core/mp4.py:305`), which the
model does not tell apart. The local clock goes back in the middle of the
recordings; the names of the files are local times. A client that leaves while
something is written to it only drops the generator that reads from ffmpeg; the
loop closes it later (`Finalised`). The executor's jobs go on when the request is
gone (`OrphanMakes`, `OrphanPrepares`, `OrphanLists`).

What the model shows and no property forbids, because the code promises nothing
about it: a file that retention deletes between two looks at it fails the whole
export (`export.py:238`), while one deleted later shortens the download without
a word; a stamped export with a torn segment ends late,
because its length is reckoned from the index; a segment that grows while it is
read is not cut; and of a raw export of two streams only the first and the last
segment are cut. Segments whose local names coincide in the repeated hour are
not in the layout: the later one overwrites the earlier one's file, and its row
keeps the old start.

### VisionRunner

`vision_runner.py` for one camera. A run is its position in `runs`; a file is
the run it shows. Profiles can be switched off, deleted and created again
between any two awaits of an analysis; each `VisionState` has a generation. An
analysis ends with its answers, with a failure (`VisionError`), which is stamped
and recorded, or broken off by any other exception, which is neither; `broken`
counts those that had taken a frame by then. Every exception but `VisionError`
leaves `last_run` as it was before the answers came, so a trigger may start the
next analysis at once: the cooldown (`CooledDown`, `MayRun`) is in the model as a
guard, and nothing is stated of it beyond that. A save whose `recorder.async_apply`
raises never reaches the runner (`missed`).

### Asking

What `VisionRunner` takes for granted of an analysis: `vision/` with
`core/observations.py`, the people of `core/persons.py` and `core/marks.py`. An
analysis reads its fields, people and pictures from the configuration when it
begins and waits once or twice for a model: for the answers, and, with a
backend of its own for marks, for the boxes of the objects that were named
(`pc` "ask" and "locate"). Meanwhile the configuration may become any of
`Setups`, in which a question may also have become one of another type. A model
answers with any values for any fields, asked or not; a runner
that enforces the schema (Home Assistant's AI tasks, and the second request)
only with what the schema allows. Of a value matter its form (a boolean, a number, a
text, nothing, or another), the word it is and the number it can be read as; a
boolean is taken from the listed words and from real numbers only, so that the
text "2" answers a question for a number and none for a yes or no. A person is asked for even when the budget of pictures has no
room for their photos; the code has it so.

### PersonPresence

`persons.py`, with saves that arrive later in the order they were made, or not
at all if the recorder raises in the middle of one. Timers fire at or after
their deadlines. `states` are the persons `_states` holds: an entity or the panel
that shows a configured person (`Look`, `person_entity.py:59`) makes a state as
well. When an arriving save finds somebody overdue, the entities are told at once,
and one that makes a state then ends the loop over the states with an exception
(`ApplyBreaks`).

### Library

The panel's edits of cameras, profiles and people (`api.py`, `core/config.py`),
and what hangs on the configuration: the entity registry
(`observation_registry.py`, `vision_entity.py`) and the reference pictures
(`core/references.py`, `http_views.py`). A request computes the whole new
configuration from the one it sees, then waits in three places, as
`async_set_config` does: for the disk (`saving`), for the recorder (`applying`),
both first come, first served, and for the state to be built (`publishing`).
`config` changes and the registry is pruned when the save is stored; the
platforms add entities when a state is published. A sweep takes the
configuration's names when it is scheduled and deletes when the executor gets to
it. A recorder that raises ends the request before either. `since` and `dropped`
are history variables: since when the configuration has named a picture, and the
entities whose question a save removed while the platforms knew them and have
not seen go. Adding an entity is one step with the publication that causes it: Home
Assistant starts `async_add_entities` at once, and nothing it awaits for these
entities suspends.

Two things the model shows and no property forbids, because the code promises
nothing about them: a request that read the configuration before a neighbour's
was stored undoes it; a picture uploaded again after it was orphaned keeps its
old file, and its old age.

### LiveTile

`frontend/src/components/live-stream.ts`: the observer's reports, a change of
camera, and removal from the page, against the awaits of the one `start()` that
can be under way (`pc`). `starts` numbers the negotiations; `open` and `sessions`
are the connections that exist, `peer` and `unsubscribe` the ones the tile still
knows of.

## Runs

| Run | Instance | Shows |
|---|---|---|
| `StreamProcess` | two stops, three process identities, backoff 1 to 60 | one writer, nothing left by a stop, but for a process lost by a raising reader; gaps and stops end, the abstract stream is implemented |
| `RecorderManager` | two streams, three configurations, three slots per stream, three tasks, three calls, one camera flip | one process per stream, all known, nothing forgotten, neighbours undisturbed, everything wanted records in the end |
| `StorageReconcile` | a share, a local disk, two requests or announcements, two faults, backoff cap 2 | ready means recording, recording resumes, a lost location is reported |
| `Maintenance` | two streams, three segments, one midnight, two faults, rebuilds or deletions by hand | never deletes what is written, forgets only what is gone, facts settle, the index converges and previews are made |
| `Retention` | two streams of segments of one or two units, a disk of twelve, other data of none or two, three policies, archives of five or nine units, two intervals of headroom, two previews, time to 7 | the headroom lasts, nothing is deleted needlessly, a pass settles at once |
| `Export` | three segments of two streams around a clock change, one of them torn, one growing, one deletion | the range, its clock and the timeline are right, torn tails are cut, nothing is left but by an executor job, exports end |
| `VisionRunner` | two callers, two slots, three analyses, budget 2, one change of day, two saves | within budget, answers never older, pictures and triggers match |
| `VisionRunner_budget` | one slow day change | *violated*: the count starts over with the day |
| `Asking` | two questions, one person, four setups, four pictures, three marks, two analyses | only what was asked counts, every recognisable answer stands and no other, marks fit, names are unique, pictures belong |
| `PersonPresence` | three people, three configurations, two saves, time to 4 | presence ends, timers follow, nobody leaves early |
| `Library` | one camera, one person, one picture, two overlapping requests of four, grace 1, time to 2, one restart | entities follow the questions, young pictures and those named in time stay |
| `LiveTile` | two cameras, three starts | *violated*: a tile off the screen opens no stream |

The bounds are the smallest at which the interesting cases occur: two of
whatever must not interfere (streams, stops, callers, people, slots), one more
than the ring, the batch or the backoff cap needs to be exceeded, and enough
calls, faults and saves that one can fall into each await of another. Three
identities of processes let one be lost, one be alive beside it, and one dead one
be remembered; with all three lost the stream waits for one of them to end.
In `VisionRunner` the two callers are symmetric, and the run has
no liveness property. `Maintenance` runs with a batch of one preview per stream;
its third segment makes one stream have a finished segment before and after
midnight. Two mishaps suffice for a preview that stays out of the index: a rebuild
that a scan already past the first day takes part in, so that the first segment,
which cannot be read, joins the queue late, and a pass that fails after the second
one's preview was made. In `Retention` the disk is small enough that
the half of it that caps the headroom, a shortfall and a full disk all occur, and
with the archive to begin with a pass must delete to make room; the headroom is
that of the code, two intervals, so that streams write on while a pass is under
way, and the third segment of a stream since the look at the disk exceeds it.
`Export`'s layout has a gap within a stream, a
second stream beside it, a segment without a keyframe where a range begins in it,
and a name that two moments share; of the ranges two
begin or end within segments, one is too long and one reversed, which are
refused, but drawn by the timeline. `Asking`'s setups
have questions of all four types, two of which change with a save; its values are a
word of assent and the text of a number, which are options, a false, nothing, and a number
beyond every float; its lists of objects and boxes hold repetitions, blanks, a name already numbered, more than
fit, and boxes that leave the frame, are reversed, or have no extent.

`CHECK_DEADLOCK FALSE` stands where a bound on time, calls or segments may be
used up and everything is at rest; `StreamProcess` and `StorageReconcile` are
checked for deadlock.

### What the violated runs mean

- `VisionRunner_budget`: `budget_day` is set before `count_for` compares with it
  (`vision_runner.py:360`), so the count never starts over.
- `LiveTile`: `stop()` does not end the `start()` under way
  (`frontend/src/components/live-stream.ts:540`), which then opens its stream off
  screen; the session and the peer connection it leaves in `this.unsubscribe` and
  `this.peer` are overwritten by the next start, and nothing ends them any more.
  The same model shows that a start asked for while one is under way is dropped
  (line 521), so that a tile switched to another camera goes on to show the
  previous one, or nothing; and that a tile that is taken out of the page and put
  back shows nothing until it has left the screen once, because `visible` is
  still set (line 237).

### What the code does otherwise than it says

The models show more divergences, which are no runs of their own. The
properties of the passing runs are stated so that they hold nevertheless.

- `readline` raises for a line of more than 64 KiB (`recorder.py:237`). The
  `finally` forgets the process, which lives, the exception counts as one more
  failed attempt, and a second ffmpeg is started beside the first. It writes the
  same file names, though the module promises "One process per recorded stream"
  (`recorder.py:3`), and no `async_stop` can reach the first one any more: it is
  left "still writing into files that nothing tracks any more"
  (`recorder.py:128`), until it ends by itself or blocks because nobody reads its
  messages. `OneWriter`, `StoppedIsDead` and `RecordedStream` except the processes
  lost in this way, and no others.
- `async_stop_all` neither waits for nor ends an apply (`recorder.py:448`), which
  then starts ffmpeg after the shutdown.
- A pause or a save applies the configuration whatever the storage
  (`coordinator.py:217`); since `_storage_ready` is already false, no cycle stops
  the recordings again while the location is gone.
- Segments no frame can be read from are retried in every batch of previews
  (`maintenance.py:172`); as many of them as a batch holds block all later ones,
  also those whose preview is on disk because a pass failed before it wrote the
  row, though the factor of the batch "works off any backlog" (line 60).
  `IndexConverges` excepts the segments behind such a batch.
- A deleted camera leaves the entities of its questions in the registry, because
  the prefixes by which they are found are those of the cameras there are
  (`observation_registry.py:79`), though "a question that is deleted [...] must not
  leave a dead entity behind" (line 6) and "nothing is left behind as unavailable"
  (`vision_entity.py:99`). They stay until a camera of that name returns, and go
  then unless it asks the same. `EntitiesFollow` speaks of the cameras there are.
- A question that one save deletes and an overlapping one brings back before the
  first is published is still `known` to its platform (`vision_entity.py:122`),
  though its registry entry is gone and "forgetting a key [...] lets the question
  come back later" (line 105); it has no entity until it has been deleted once
  more and that was published, or the integration is reloaded. `EntitiesFollow`
  excepts these, and no others.
- A sweep takes the names of the configuration when it is scheduled
  (`coordinator.py:200`) and may run after a later save. A picture which that save
  names for the first time, and which is older than the grace period, is then
  deleted while the configuration names it, though "a file survives while its id
  appears in the configuration OR while it is younger than the grace period"
  (`core/references.py:207`). `PicturesKept` speaks of pictures named in time.
- `async_retry_unresolved` passes on `self._latest` as it was before it waited
  for the lock (`recorder.py:414`), so a retry queued behind a save re-applies the
  older configuration. `EventuallyRecording` therefore speaks of the one applied
  last. If the save moved the recording location, the recordings go back to the
  previous one while the coordinator probes and shows the new one, and nothing
  applies the new one again until the next save, pause or transition, though the
  panel's change of the location says "recording simply continues in the new
  place" (`api.py:393`). `ReadyRecords` and `RecordsAgain` except this, and
  nothing else.
- Of the two intervals of the headroom "one interval covers the growth between two
  runs; the second covers a run that was missed" (`core/retention.py:28`), with at
  most one segment of each stream between two runs, but it is measured while segments are under
  way, and `statfs` does not see what is still to be written of them. Two segments
  of each stream do not fit in it then, only one and the rest of those under way.
  It "also absorbs the preview images" (line 58) out of the same space, so that
  what they take is missing for the segments. `NeverFull` says what is left, and
  leaves the previews out of it.
- `round(float(value))` raises `OverflowError` for a number that JSON reads as
  infinity (`core/observations.py:347`), and nothing on the way catches it, so
  every other answer of the analysis is lost, though "a model getting one field
  wrong must not discard the others"; `core/marks.py:281` has the same for a
  coordinate. `AnswersStand` excepts the two.
- Such an analysis, or one whose stale marked copy cannot be removed
  (`vision_runner.py:481`), has turned the ring of frames (line 491) and leaves no
  entry. From then on the oldest entries of a full history show the frames of
  later analyses, though an entry names "The exact picture the model saw" (line
  591): as many entries as analyses have broken off since. `PicturesMatch` speaks
  of the others. The first kind is not stamped, either, and does not count for
  the cooldown.
- A save is stored before the recorder is told, and a recorder that raises keeps
  it from the runner and the tracker (`coordinator.py:184`): the triggers and the
  timers stay those of the configuration before, until the next save.
  `TriggersFollow` and `TimersFollow` say so.
- A client that leaves while the executor creates the scratch directory, copies
  into it or writes the list leaves the directory behind, with what is in it: the
  request ends, or removes the directory, before the job does (`export.py:364`,
  231, 439). The module promises "nothing to clean up afterwards, and no second
  copy of footage" (line 7). `NothingLeft` excepts these three, and no others.
- A raw cut "lands on the keyframe at or before the moment" (`export.py:326`), so
  a download may begin before its range; `DeliversTheRange` says how far.
- `async_apply` of the presence tracker goes through its states while whoever is
  overdue is announced (`persons.py:80`); an entity that shows a person without a
  state then adds one, the loop raises, and the people after it keep the timers of
  the old delay, though a changed delay "re-arms every running timer against the
  new value" (line 70). `TimersFollow` excepts a save that broke off, until the
  next one.

## Fairness

- *Supervisor, stops, applies, reconciliations, passes*: coroutines of the loop
  that are ready are resumed, and executor jobs end; weak fairness of each.
- *SIGKILL*: a process that was sent it dies. Nothing is assumed of SIGTERM, of
  the camera, or of ffmpeg living or dying otherwise.
- *Update cycle*: Home Assistant calls it again and again; the cycle of
  housekeeping likewise.
- *Exports*: the request's coroutine, its executor jobs and the death of a killed
  ffmpeg; nothing is assumed of ffmpeg otherwise, nor of the client. A client that
  neither reads nor leaves keeps its export waiting, and `EveryExportEnds` says so.
- *Nothing* is assumed of users, cameras, shares or servers; where recording can
  only resume if the server answers, the property says so.

Fairness is only used by the runs with `FairSpec`; invariants and action
properties hold without it.

## Proofs

`StreamAndLibraryProofs` on `StreamProcess`, for any set of processes and stoppers
and any backoff limits:

- `TypeCorrect`, with the backoff within its limits.
- `NeverTwoWriters`, `StopLeavesNothing`, `StopIsNotACrash` and `StatusIsTrue` (a
  stream shown as running is supervised, unless it is being stopped). None of
  them is inductive: whether a launch can make a second writer depends on who
  holds the first one. `Coordination` (in `StreamProcess`) says who may hold the
  process at each await: a kill only takes it from a supervisor that sits in its
  run, the stopping flag is up until that supervisor is cancelled or has ended,
  and a cancelled supervisor owns nothing any more. What it says of processes it
  says of those that are not lost, and that no stop is killing a lost one.
- `Implementation`: the initial states are those of `RecordedStream`, and every
  step is one of its steps or a stutter.

`AskingAndPresenceProofs` on `PersonPresence`, for any people and configurations:

- `TypeCorrect`, `PresenceAlwaysEnds`, `TimersFollowConfig` and `AbsenceIsTimed`.
  The inductive invariant adds that the deadline of every timer is some
  configured delay after the last sighting, that the newest save on its way is
  the coordinator's configuration, and that whoever is present has a state.
  Without the second, the deadline of a timer could not be tied to the
  configuration that arrives last; without the third, an arrival could leave a
  timer to somebody it forgets.

`AskingAndPresenceProofs` on `Asking` (the two specifications share nothing), for any
questions, people, pictures, setups and limits, and whatever a model answers:

- `MarksAlwaysFit` (`MarksFit`, which includes the types), `PicturesAlwaysBelong`
  (`PicturesBelong`), `AnswersAreAskedFor` (`OnlyWhatWasAsked`), `AnswersAlwaysStand`
  (`AnswersStand`) and `EachHasItsSlot` (`OneSlotEach`). The configuration may have
  changed many times since an analysis began, so the inductive invariant
  `AskingInv` keeps what the request was read from: some setup, some kind of
  analysis and some missing pictures of its plan (`RequestIsRead`). It also says
  what is heard while an analysis waits, and that the marks of a result are those
  parsed from the boxes that were claimed last. `UsableIs` shows that what
  `coerce_answer` takes is what can be recognised, by type and form; `ConcludeIs` is about the end of
  an analysis; the rest follows from what the functions return:
- `PlanIs` and `LoadIs`: a plan names no picture twice, has only those of what is
  asked, and has them all or exceeds the room, as the budget is cut twice; what
  is loaded of it lacks nothing but what exceeds the room or is missing.
- `MarksAre`: what is kept of any boxes is upright, in the frame and without
  repetition, and the rest are copies or cannot be drawn, as long as there is
  room. `NamesAre`: the names are as many as were given, up to the most there may
  be, and distinct, since among one number more than there are names taken one
  is free (`NextFreeIs`).
- `UsableStands`, `UselessIs`: a value that can be used stands for what
  `StandsFor` says, and one that cannot has a reason not to.

`StreamAndLibraryProofs` on `Library` (the two specifications share nothing), for any
cameras, people, pictures, requests and grace period:

- `EntitiesAlwaysFollow` (`EntitiesFollow`). `EntitiesInv` says of everything the
  platforms know that it is asked and registered, or was dropped, also when its
  camera is gone.
- `PicturesSavedInTimeStay` (`PicturesKept`) needs to know what a scheduled sweep
  may have missed: a picture that the configuration names and the sweep does not
  was named after the sweep was scheduled (`SweepsMissTheNew`). The file of such
  a picture was beyond its grace period when the name came.

`VisionRunnerProofs`, for any number of callers, any ring, budget, cooldown and
day length, and any bounds:

- `TypeCorrect`, `BudgetKept` (`WithinBudget`), `PicturesAreTheirOwn`
  (`PicturesMatch`), `TriggersAreThoseSaved` (`TriggersFollow`) and
  `NewestAnswersStand` (`NewestAnswerStays`). `OneAtATime` is the lock: a state has
  one analysis at a time, and `AnswersInOrder` that the sensors show none later
  than that one.
  For the budget, `Counted` says that a state has counted every analysis begun
  under it since its day began, and that none is of a later day. For the
  pictures, `Ring` says how many captures ago the slot of every entry of the
  history was written: at most as many as entries were put before it and
  analyses have broken off since, so that the counter has not come round to it
  (`RingMoves` and `NewEntry` are how a place in that count changes).
  `FramesCounted` bounds the counter by
  the analyses, and `Arriving` says that the save that arrives last is the one
  made last.

`RecorderManagerProofs`, for any streams, configurations, callers and bounds:

- `TypeCorrect`, `NothingRunsUntracked`, `NeverTwoProcesses`, `NoStreamIsForgotten`
  and `NeighboursAreLeftAlone` (`NeighbourKeepsRecording`). `OneHolder` says who
  may be inside the lock, `Plans` that its holder goes by the configuration applied
  last, unless a stop of everything came since, `Processes` that every process is
  listed or being stopped by somebody, who holds on to one of a stream at most,
  and `Covered` that every stream that should record has its process or will be
  seen to: by the holder, in whatever it has still to do (`Due`), or by an apply
  that waits behind it.

`MaintenanceProofs`, for any streams, batch factor and bounds:

- `TypeCorrect`, `FactsAreSettled` (`FactsSettle`), `WhatIsWrittenStays`
  (`NeverDeletesWhatIsWritten`) and `OnlyWhatIsGoneIsForgotten`
  (`ForgetsOnlyWhatIsGone`). The rows a pass has in its hands may be older than
  the index and the index older than the disk, so the invariant speaks of both:
  `Segments` that what a stream writes is its newest segment; `Hands` that what a
  pass is about to delete has a later segment of its stream, and what it is about
  to forget is gone, if the location was there all the time; `Truth` that a row
  with a later row of its stream is final, or its file is gone, or a segment of a
  later day explains it, also once what is in hand has been written.

`StorageReconcileProofs`, for any locations, requests and backoff cap:

- `TypeCorrect`, with the backoff within its cap, and `ReadyMeansRecording`
  (`ReadyRecords`). The recorder's lock serves its callers in turn, so what counts
  is the last apply in line: `Latest` says that it is not cut if the coordinator
  takes the location for ready, and that `_latest` is what entered last unless
  everything was stopped since. `Meant` makes the exception precise: whatever is in
  line is of the configured location, or a retry that is known to be older, or
  followed by an apply of another location. `Queue` and `Coroutines` say that every
  apply in line has a coroutine of its own that waits for it.

`ExportProofs`, for any layout of segments, any ranges, and any number of dead
processes and deletions:

- `TypeCorrect`; `TornTailsNeverEndAJoin` (`TornTailsAreCut`): every file on disk is
  at every moment a header and fragments of which at most the last is unpaired
  or cut (`Shape`), so the playable part of one that is not written ends with a
  whole fragment, and the inputs remember that (`Inputs`). A file is looked at in
  two steps; between them only the one being written changes.
- `NothingStaysBehind` (`NothingLeft`): what there is of scratch files and of
  ffmpeg, await by await (`Scratch`, `Join`).
- `StampedClockIsTrue` (`ClockIsTrue`), under the hypothesis `ReadsBack`. It rests
  on what the queries return (`InOrder`: sorting by rank yields each row once;
  `FoundOverlaps`: only rows that overlap the range), on the cut
  (`CutLeavesSomething`: where the cut takes something off the first file, it
  leaves something of the whole, so that `-t` and `-ss` are either both there or
  both not needed), and on the names (`NameReadBack`). `ReadsBack` says that a
  segment that begins in the hour before the clock is set back ends before the
  same local time comes again; the modification time cannot tell the two hours
  apart otherwise. The default segment is five minutes long, but the
  configuration only demands `segment_seconds > 0` (`core/config.py:739`), so it
  is a hypothesis of the theorem and no assumption of the module. `MCExport`
  assumes it of its segments, which TLC confirms.
- `TimelineShowsWhatIsThere` (`TimelineIsTrue`), also under `ReadsBack`, and also for
  segments that overlap. `Draws` says what the blocks of the first segments
  cover, and that the last block begins and ends where segments do, so that a
  gap that is bridged is never drawn further than the tolerance behind the end
  of a segment; `OneMoreSegment` keeps it, and `BlocksDraw` concludes for all of
  them, stream by stream. From the segments to their footage leads `Backed`: until
  the query, up to which the property looks because nothing later changes the
  index, a row claims no more than the file has, but the fragment in which its
  process died (`KilledHas`), and `EndingsShort` that no file has more footage
  than its segment is long.
- `DownloadsAreWhole` (`DeliversTheRange`), under `ReadsBack` and `Apart`. The
  argument follows the seconds from the files to the client. `Written`: files only
  grow, what is written stays short of its segment, and so what the index may know
  of a segment (`Holds`) never changes. `Queue`: from the query on, every row the
  range wants waits to be looked at or is an input, both in the order of their
  footage, and a part that was copied has all that the index knows of
  (`PlayableHasAll`, `CopyHasSeconds`). `Stages`: what is joined, and how it is cut, is
  settled before ffmpeg starts. `Sent`, input by input: every second that is out is
  one of an input that was joined (`Placed`), later than those of its stream before
  it (`Ascending`); what the range has of an input is out (`Covered`); a stamped
  clip, whose length bounds the whole, has used up no more than its inputs' share
  (`Spared`), so that enough is left for the next one (`CoversIt`); and if all
  segments are intact it has used up just that, so that nothing behind the range
  comes through, and before it only what lies behind the last keyframe that is not
  behind the start (`Trimmed`, `TrimsIt`; `Begun` and `InpointIs` for where the
  first input begins). `OnlyTheLast` is why the length reckoned
  from the rows is no longer than the files: of one stream only the last segment
  is still written. `Apart` says that the segments of a stream do not overlap and
  are numbered in their order: one ffmpeg process writes a stream's segments one
  after the other (`core/recorder.py:167`), and there is no second one
  (`StreamAndLibraryProofs`). Where they did overlap, a
  second would be sent twice. `MCExport` assumes it of its segments, too.

`RetentionProofs`, for any finite set of streams, any sizes of segments, disk, limits
and headroom:

- `HeadroomLasts` (`NeverFull`, which includes the types), `DeletionsSettle`
  (`SettlesAtOnce`) and `NothingIsDeletedNeedlessly` (`NothingNeedless`). What is
  short of the room that was made must be what was written since, so the invariant
  says that the free space, with what previews made since have taken, is no less
  than `Due`, what the streams may still write of what the deletions reckoned with
  (`Room`), and that a measured ceiling is that of the free space there is and what
  was written since, at most the largest segments of those opened and what is
  written of the newest (`Measured`, `Opened`). Due and written together are the
  headroom (`DueAndOpened`). Of the deletions it needs that the index never knows
  more of a segment than there is, so that they free at least what they take off
  its sum, and that the segments being written are not among them
  (`DeletingFrees`). That a plan settles is `Calm`:
  with nothing changed the plan of the ceiling just measured is empty, because
  what a plan spares it spares again when what it deleted is gone
  (`RetainingSettles`: the newest stay the newest, the oldest went first, the
  budget is no smaller), and an unknown ceiling only raises the budget
  (`LargerSpares`).
- The sums are those of the community modules, defined by a recursive function
  on sets. `SumsExist` shows that there is one, by the least number of elements
  for which there were none; `SumTakes` that any element may be taken off first;
  and `SumSplits`, `SumAtMost` and `SumShares` what the proofs need of sums over
  parts, smaller summands, and shares of a number of everything.

They rest on the named assumptions of the modules alone: the constants' types;
that the first backoff does not exceed the largest; that `Absent` is no time,
`Nowhere` no location and `NoConfig` no configuration; that a configuration
speaks of each stream once; that the tolerance of the timeline is not negative,
which the code refuses (`core/index.py:361`); that the streams are finitely many
and other data alone fits on the disk; that the segments of an archive are finitely
many and no larger than segments grow; that the keys of a profile and the ids of
the people do not repeat (`core/config.py:622`, `core/config.py:977`) and have no name
in common (an underscore marks a person's field, `core/persons.py:108`), nor the tag
this model gives a baseline; that the range of a number is not empty
(`core/observations.py:104`) and nothing cannot be read as a number (line 348); that a request has room for a frame and a picture for a
mark; that a box that a model claims is four integers or none; and,
for `RecorderManager`, that a stream has as many slots as there are coroutines,
without which a new process might find none. A bound on processes that the
program does not have must not keep the model from starting one. TLC evaluates
all of them in the runs.

Where a definition was written with a fold, or sorted with an operator the
provers cannot expand, it is written so that it can be reasoned about: rows are
sorted by rank (`Place`), and a total and the blocks of a timeline are recursive
functions whose existence `SumsExist` and `CollapsingExists` prove by the least
length for which it would fail. Folds of the community modules over a sequence
(`FoldLeft`, `FlattenSeq`) choose a function on the sets of positions; `FoldExists`
shows that there is one for any step, and the lemmas `FlattenInSteps`,
`MarksInSteps` and `NamesInSteps` turn it into one value per position. The same way
of arguing, from a least counterexample, replaces induction wherever it is needed
(`Greatest`, `TotalAtLeast`, `BlocksDraw`, `EveryIndex`).

Only model-checked are the liveness properties and the fairness part of the
refinement: liveness under fairness and ENABLED are out of the prover's reach.
Every invariant and every action property of the passing runs is proved.

## Not modelled

`PROJECT.json` lists every part. Left out for good: text (command lines, prompts,
messages, markup), drawing and pointer handling, the bundle and its version
comparison, the entity platforms, which only read state, and the Supervisor's
HTTP calls, which are their outcomes here. Of what is modelled, the models leave
out status texts and counters that nothing reads back, and the directories of
the recordings. The player of the panel is left for later.

## Plan

Done so far, in this order:

1. `RecordedStream`, `StreamProcess` and their proofs.
2. `RecorderManager` over the abstract stream.
3. `PersonPresence` and its proofs.
4. `VisionRunner`.
5. `StorageReconcile`.
6. `Maintenance`.
7. `Library` and its proofs: the configuration with its edits, overlapping
   requests, the entity registry and the sweep of reference pictures.
8. `Recordings` and `Export`: files, names, rows, and a download made of them.
9. `Retention`: budget, ceiling, headroom and plan against their purposes.
10. `Asking`: questions, people, pictures, marks, and what becomes of answers; and
    `LiveTile`. Then the proofs about `VisionRunner`, `RecorderManager`,
    `Maintenance`, `StorageReconcile`, `Retention` and `Asking`.
11. Proofs about `Export`, at last that a whole download has the whole range.

Still to come:

12. Views, endpoints and several questions per profile in `Library`.
13. Directories and their pruning in `Maintenance` (`core/paths.py:217`).
14. `Player`: its generations against late answers, the buffer, the way over a gap.
