------------------------------ MODULE Maintenance ------------------------------
(***************************************************************************)
(* Housekeeping (maintenance.py) over the recordings on disk and the index *)
(* of them (core/index.py): the scan, the previews and the retention of    *)
(* one pass, one executor job after the other, while ffmpeg goes on to the *)
(* next segments, the recording location disappears, the user deletes      *)
(* files or has the index rebuilt, and passes fail half way.               *)
(*                                                                         *)
(* One camera with several streams.  Segments are numbered in the order    *)
(* they are opened, which is also the order of their start times.  Of a    *)
(* segment's size and duration the index either has the final ones or not. *)
(* How much a retention run deletes depends on limits and free space; here *)
(* it is any number of the oldest segments it may delete.  The directories *)
(* are left out.                                                           *)
(***************************************************************************)
EXTENDS Naturals, Sequences, FiniteSets, FiniteSetsExt

CONSTANTS
  Streams,
  THUMBNAIL_BATCH_FACTOR,
  MaxSegments,   \* bound on the segments ever opened
  MaxDay,        \* bound on midnights
  MaxFaults      \* bound on whatever goes wrong, and on rebuilds of the index
                 \* and deletions by hand, together

ASSUME FactorAssumption == THUMBNAIL_BATCH_FACTOR \in Nat \ {0}
ASSUME DayAssumption == MaxDay \in Nat

VARIABLES
  stream, day,   \* of every segment ever opened
  torn,          \* the segments no frame can be read from
  writing,       \* by stream: the segment ffmpeg writes, or 0
  files,         \* the segments on disk
  previews,      \* the segments with a preview image on disk
  visible,       \* the recording location is there
  index,         \* the rows: segment -> [final, has_thumbnail]
  pass,          \* the housekeeping pass
  blind,         \* the location was away at some time of this pass
  today, faults

diskVars == <<stream, day, torn, writing, files, previews, visible>>
vars == <<diskVars, index, pass, blind, today, faults>>

Idle == [pc |-> "idle"]
Rows == DOMAIN index
Restricted(f, S) == [x \in DOMAIN f \cap S |-> f[x]]

(* What is upserted takes the place of the rows of the same segments. *)
Upserted(rows, new) ==
  [f \in DOMAIN rows \cup DOMAIN new |-> IF f \in DOMAIN new THEN new[f] ELSE rows[f]]

Init ==
  /\ stream = <<>> /\ day = <<>> /\ torn = {}
  /\ writing = [s \in Streams |-> 0]
  /\ files = {} /\ previews = {} /\ visible = TRUE
  /\ index = <<>>
  /\ pass = Idle /\ blind = FALSE
  /\ today = 0 /\ faults = 0

(* Something goes wrong, or somebody interferes. *)
Mishap == faults < MaxFaults /\ faults' = faults + 1

-----------------------------------------------------------------------------
(* ffmpeg *)

DayDirectory == today

(* A recording starts, or goes on to its next segment.  From the one it    *)
(* ends no frame can be read if the camera sent a broken keyframe.         *)
NextSegment(s) ==
  LET f == Len(stream) + 1 IN
  /\ visible /\ f <= MaxSegments
  /\ stream' = Append(stream, s) /\ day' = Append(day, DayDirectory)
  /\ files' = files \cup {f}
  /\ writing' = [writing EXCEPT ![s] = f]
  /\ torn' \in IF writing[s] = 0 THEN {torn} ELSE {torn, torn \cup {writing[s]}}
  /\ UNCHANGED <<previews, visible, index, pass, blind, today, faults>>

(* The process dies, and may leave a segment nothing can be read from. *)
Dies(s) ==
  /\ Mishap
  /\ writing[s] # 0
  /\ writing' = [writing EXCEPT ![s] = 0]
  /\ torn' \in {torn, torn \cup {writing[s]}}
  /\ UNCHANGED <<stream, day, files, previews, visible, index, pass, blind,
                 today>>

Midnight ==
  /\ today < MaxDay /\ today' = today + 1
  /\ UNCHANGED <<diskVars, index, pass, blind, faults>>

-----------------------------------------------------------------------------
(* _async_run_once, job by job *)

NewestPerStream(S) == {f \in S : \A g \in S : stream[g] = stream[f] => g <= f}

(* The lock is free: known is read, *)
Begin ==
  /\ pass = Idle
  /\ pass' = [pc |-> "growing", known |-> Rows]
  /\ blind' = ~visible
  /\ UNCHANGED <<diskVars, index, today, faults>>

(* and what is still growing. *)
ReadGrowing ==
  /\ pass.pc = "growing"
  /\ pass' = [pc |-> "scan", known |-> pass.known, growing |-> NewestPerStream(Rows),
              day |-> 0, seen |-> {}, changed |-> <<>>]
  /\ UNCHANGED <<diskVars, index, blind, today, faults>>

(* Faulty variant: what is known is not looked at again. *)
OnlyUnknown(there) == there \ pass.known

Refreshed(there) == there \ (pass.known \ pass.growing)

(* scan_segment: the file's facts of this moment *)
Facts(f) ==
  [final |-> \A s \in Streams : writing[s] # f, has_thumbnail |-> f \in previews]

(* Faulty variant: what a scan does not find stays in the index. *)
Nothing(known, seen) == {}

Vanished(known, seen) == known \ seen

(* scan_incremental, one day directory after the other *)
ScanDay ==
  LET there == IF visible THEN {f \in files : day[f] = pass.day} ELSE {}
      seen  == pass.seen \cup there
      found == Upserted(pass.changed, [f \in Refreshed(there) |-> Facts(f)])
  IN
  /\ pass.pc = "scan"
  /\ pass' =
       IF pass.day < MaxDay
       THEN [pass EXCEPT !.day = @ + 1, !.seen = seen, !.changed = found]
       ELSE [pc |-> "upsert", changed |-> found, vanished |-> Vanished(pass.known, seen)]
  /\ UNCHANGED <<diskVars, index, blind, today, faults>>

UpsertScanned ==
  /\ pass.pc = "upsert"
  /\ index' = Upserted(index, pass.changed)
  /\ pass' = [pc |-> "forget", vanished |-> pass.vanished]
  /\ UNCHANGED <<diskVars, blind, today, faults>>

ForgetVanished ==
  /\ pass.pc = "forget"
  /\ index' = Restricted(index, Rows \ pass.vanished)
  /\ pass' = [pc |-> "previews"]
  /\ UNCHANGED <<diskVars, blind, today, faults>>

Pending == {f \in Rows \ NewestPerStream(Rows) : ~index[f].has_thumbnail}

(* The oldest of them, as many as a run makes *)
Batch ==
  LET streams == Cardinality(NewestPerStream(Rows))
      budget  == THUMBNAIL_BATCH_FACTOR * (IF streams = 0 THEN 1 ELSE streams)
  IN {f \in Pending : Cardinality({g \in Pending : g < f}) < budget}

ReadPending ==
  /\ pass.pc = "previews"
  /\ pass' = IF Batch = {} THEN [pc |-> "plan"]
             ELSE [pc |-> "extract", todo |-> Batch,
                   rows |-> Restricted(index, Batch), made |-> {}]
  /\ UNCHANGED <<diskVars, index, blind, today, faults>>

(* _async_extract_frame, for one segment after the other *)
Extract ==
  /\ pass.pc = "extract" /\ pass.todo # {}
  /\ LET f == Min(pass.todo)
         readable == visible /\ f \in files /\ f \notin torn
     IN \/ /\ readable
           /\ previews' = previews \cup {f}
           /\ pass' = [pass EXCEPT !.todo = @ \ {f}, !.made = @ \cup {f}]
           /\ UNCHANGED faults
        \/ /\ IF readable THEN Mishap
              ELSE UNCHANGED faults
           /\ pass' = [pass EXCEPT !.todo = @ \ {f}]
           /\ UNCHANGED previews
  /\ UNCHANGED <<stream, day, torn, writing, files, visible, index, blind, today>>

(* The rows go back as they were read, with their preview. *)
UpsertPreviews ==
  /\ pass.pc = "extract" /\ pass.todo = {}
  /\ index' = Upserted(index, [f \in pass.made |-> [pass.rows[f] EXCEPT !.has_thumbnail = TRUE]])
  /\ pass' = [pc |-> "plan"]
  /\ UNCHANGED <<diskVars, blind, today, faults>>

(* Faulty variant: nothing is protected. *)
AnySegment == Rows

Deletable == Rows \ NewestPerStream(Rows)

(* plan_retention: the oldest of what may be deleted, up to some segment *)
Plan ==
  /\ pass.pc = "plan"
  /\ \E k \in 1 .. Len(stream) + 1 :
       LET doomed == {f \in Deletable : f < k} IN
       pass' = IF doomed = {} THEN Idle ELSE [pc |-> "delete", doomed |-> doomed]
  /\ UNCHANGED <<diskVars, index, blind, today, faults>>

(* Faulty variant: the index drops what could not be deleted, too. *)
AllOf(doomed, failed) == doomed

Removed(doomed, failed) == doomed \ failed

(* _delete_files: a file that resists is skipped, one that is not there    *)
(* counts as deleted, and where the location is away none is there.        *)
DeleteFiles ==
  /\ pass.pc = "delete"
  /\ \E failed \in SUBSET (pass.doomed \cap files) :
       LET gone == pass.doomed \ failed IN
       /\ IF failed = {} THEN UNCHANGED faults
          ELSE visible /\ Mishap
       /\ files' = IF visible THEN files \ gone ELSE files
       /\ previews' = IF visible THEN previews \ gone ELSE previews
       /\ pass' = [pc |-> "drop", removed |-> Removed(pass.doomed, failed)]
  /\ UNCHANGED <<stream, day, torn, writing, visible, index, blind, today>>

ForgetRemoved ==
  /\ pass.pc = "drop"
  /\ index' = Restricted(index, Rows \ pass.removed)
  /\ pass' = Idle
  /\ UNCHANGED <<diskVars, blind, today, faults>>

(* A job raises, or Home Assistant dies: async_run catches the one, and    *)
(* after the other the next pass works with the same index.                *)
PassFails ==
  /\ pass # Idle
  /\ Mishap
  /\ pass' = Idle
  /\ UNCHANGED <<diskVars, index, blind, today>>

-----------------------------------------------------------------------------
(* ws_rebuild_index: SegmentIndex.clear, and a refresh that finds the lock *)
(* taken or begins the next pass.                                          *)
Clear ==
  /\ Mishap
  /\ index' = <<>>
  /\ UNCHANGED <<diskVars, pass, blind, today>>

(* A share is lost and comes back; a file is deleted by hand. *)
LocationGoes ==
  /\ visible /\ Mishap
  /\ visible' = FALSE /\ blind' = TRUE
  /\ UNCHANGED <<stream, day, torn, writing, files, previews, index, pass, today>>

LocationComes ==
  /\ ~visible /\ visible' = TRUE
  /\ UNCHANGED <<stream, day, torn, writing, files, previews, index, pass, blind,
                 today, faults>>

DeletedByHand(f) ==
  /\ visible /\ Mishap
  /\ files' = files \ {f}
  /\ UNCHANGED <<stream, day, torn, writing, previews, visible, index, pass, blind,
                 today>>

PassStep ==
  \/ Begin \/ ReadGrowing \/ ScanDay \/ UpsertScanned \/ ForgetVanished
  \/ ReadPending \/ Extract \/ UpsertPreviews \/ Plan \/ DeleteFiles \/ ForgetRemoved

Next ==
  \/ PassStep \/ PassFails \/ Clear
  \/ \E s \in Streams : NextSegment(s) \/ Dies(s)
  \/ Midnight \/ LocationGoes \/ LocationComes
  \/ \E f \in files : DeletedByHand(f)

Spec == Init /\ [][Next]_vars

(* Every cycle calls for a pass, and its jobs end. *)
FairSpec == Spec /\ WF_vars(PassStep)

-----------------------------------------------------------------------------
(* Properties *)

Opened == 1 .. Len(stream)

TypeOK ==
  /\ stream \in Seq(Streams) /\ Len(day) = Len(stream)
  /\ \A f \in Opened : day[f] \in 0 .. today
  /\ \A s \in Streams : writing[s] # 0 => stream[writing[s]] = s
  /\ torn \cup files \cup previews \cup Rows \subseteq Opened
  /\ \A f \in Rows : index[f].final \in BOOLEAN /\ index[f].has_thumbnail \in BOOLEAN
  /\ pass.pc \in {"idle", "growing", "scan", "upsert", "forget", "previews",
                  "extract", "plan", "delete", "drop"}

(* "Deleting it would make ffmpeg write into a file that no longer exists":*)
(* however old the rows a plan was made from, retention never deletes the  *)
(* segment a recording writes.                                             *)
NeverDeletesWhatIsWritten ==
  [][pass.pc = "delete" /\ pass' # pass =>
       \A s \in Streams : writing[s] \in files => writing[s] \in files']_vars

(* "Files go before the index does": a pass that saw the location all the  *)
(* time never makes the index forget a file that is still on disk.         *)
ForgetsOnlyWhatIsGone ==
  [][pass.pc \in {"forget", "drop"} /\ pass' # pass /\ ~blind =>
       \A f \in Rows \ DOMAIN index' : f \notin files']_vars

(* Within a day nothing finished keeps the size and duration it had while  *)
(* it grew, once the index has a later segment of its stream.  At midnight *)
(* it can: a scan that is past a day's directory then sees the first       *)
(* segment of the next one and does not look at the old day's again.       *)
(* Everything also has its type.                                           *)
FactsSettle ==
  /\ TypeOK
  /\ \A f \in (Rows \cap files) \ NewestPerStream(Rows) :
    \/ index[f].final
    \/ \E g \in Opened : stream[g] = stream[f] /\ day[g] > day[f]

(* f has its preview in the index, or there is a whole batch of earlier    *)
(* segments that no frame can be read from.                                *)
Served(f) == index[f].has_thumbnail \/ (f \notin Batch /\ Batch \subseteq torn)

(* Once the location stays and everything else has settled, the index has  *)
(* exactly the files and no preview that is not there; and every finished  *)
(* segment that can be read has its preview, in the index as on disk,      *)
(* unless a whole batch of unreadable ones comes before it.  Whatever      *)
(* rebuilds, failed passes, lost locations and deletions there were before.*)
IndexConverges ==
  <>[]visible =>
    <>[](/\ Rows = files
         /\ \A f \in files :
              /\ index[f].has_thumbnail => f \in previews
              /\ f \in previews \/ f \notin torn \cup NewestPerStream(files) => Served(f))
=============================================================================
