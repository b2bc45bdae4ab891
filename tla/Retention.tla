------------------------------ MODULE Retention -------------------------------
(***************************************************************************)
(* How much retention deletes (core/retention.py, maintenance.py           *)
(* async_ceiling to _delete_files, the sums of core/index.py): the scan,   *)
(* the previews, the look at the free space, and the plan and its          *)
(* deletions, while the cameras go on writing, other data comes and goes,  *)
(* and statfs fails.  Maintenance has the steps of a pass that are left    *)
(* out here, and leaves the amounts open.                                  *)
(*                                                                         *)
(* A segment is [stream, start]; sizes and space are in one unit.  On disk *)
(* it has what is written by now, in the index what the last scan that     *)
(* looked at it saw, and the free space is what statfs would report: it    *)
(* knows nothing of what is still to be written.                           *)
(***************************************************************************)
EXTENDS Integers, FiniteSets, FiniteSetsExt, Functions

CONSTANTS
  Streams, Cameras,
  Camera,             \* of every stream
  Sizes,              \* by stream, what a segment of it may grow to
  PreviewSize,        \* of the preview of a segment
  Volume,             \* the size of the disk
  MINIMUM_HEADROOM_BYTES, HEADROOM_INTERVALS,
  Policies,           \* the limits that may be configured: [total, age]
  OtherData,          \* amounts of other data on the disk
  Archives,           \* what may be recorded and indexed already
  MaxTime,            \* bound on the segments ever opened
  MaxPreviews,        \* bound on the previews on disk
  MaxChanges          \* bound on the changes of the other data

NoLimit == -1
Unknown == -1

ASSUME DiskAssumption ==
  /\ IsFiniteSet(Streams)
  /\ OtherData \subseteq 0 .. Volume
ASSUME ArchivesAssumption ==
  \A a \in Archives :
    /\ IsFiniteSet(DOMAIN a) /\ DOMAIN a \subseteq [stream : Streams, start : Nat]
    /\ a \in [DOMAIN a -> Nat] /\ \A s \in DOMAIN a : a[s] <= Sizes[s.stream]
ASSUME LimitsAssumption ==
  /\ Camera \in [Streams -> Cameras]
  /\ Sizes \in [Streams -> Nat \ {0}] /\ Volume \in Nat /\ PreviewSize \in Nat
  /\ MINIMUM_HEADROOM_BYTES \in Nat /\ HEADROOM_INTERVALS \in Nat
  /\ Policies \subseteq [total : (Nat \ {0}) \cup {NoLimit},
                         age : [Cameras -> (Nat \ {0}) \cup {NoLimit}]]

VARIABLES
  files,     \* the segments on disk: what is written of each
  previews,  \* the segments that have a preview
  rows,      \* the index: the size it knows of every segment it has
  other,     \* what else is on the disk
  policy,    \* [total, age]; age is by camera
  now,
  pass,      \* "idle", "scanning", "scanned", or "measured"
  ceiling,   \* what was measured, if it could be
  fresh,     \* by stream, the segments opened since the last look at the
  since,     \* disk, and since the one the last deletions were based on
  roomy,     \* the last deletions could make all the room they meant to, and
             \* the cameras have kept within what they reckoned with:
  largest,   \* by stream, the largest segment
  made,      \* the previews made since
  seen,      \* what has changed since the look at the disk
  settled,   \* nothing has changed since the last deletions
  changes

growthVars == <<fresh, since, roomy, largest, made>>
vars == <<files, previews, rows, other, policy, now, pass, ceiling, growthVars, seen, settled, changes>>

-----------------------------------------------------------------------------
(* Sums and maxima over the index *)

Files == DOMAIN files
Rows == DOMAIN rows
Written == SumFunction(files)
Indexed(S) == SumFunctionOnSet(rows, S)
Free == Volume - other - Written - PreviewSize * Cardinality(previews)

OfStream(S, k) == {s \in S : s.stream = k}
Newest(S) == {s \in S : \A t \in OfStream(S, s.stream) : t.start <= s.start}

total_bytes == Indexed(Rows)

largest_segment_by_stream ==
  [k \in Streams |-> Max({0} \cup {rows[s] : s \in OfStream(Rows, k)})]

(* Faulty variant: the largest segment of all, once. *)
LargestOnly(by_stream, capacity) ==
  Max({MINIMUM_HEADROOM_BYTES, HEADROOM_INTERVALS * Max({by_stream[k] : k \in Streams})})

measured_headroom(by_stream) ==
  Max({MINIMUM_HEADROOM_BYTES,
       HEADROOM_INTERVALS * SumFunction(by_stream)})

headroom_bytes(by_stream, capacity) ==
  IF capacity > 0 THEN Min({measured_headroom(by_stream), capacity \div 2})
  ELSE measured_headroom(by_stream)

usable_capacity(free, used) == Max({0, free}) + Max({0, used})

effective_budget(configured, capacity, headroom) ==
  LET top == Max({0, capacity - headroom}) IN
  IF configured = NoLimit THEN top ELSE Min({configured, top})

async_ceiling(free) ==
  LET capacity == usable_capacity(free, total_bytes) IN
  effective_budget(NoLimit, capacity, headroom_bytes(largest_segment_by_stream, capacity))

(* Faulty variant: space that cannot be read is taken for none. *)
UnknownIsFull(top) ==
  LET known == IF top = Unknown THEN async_ceiling(0) ELSE top
  IN Max({1, effective_budget(policy.total, known, 0)})

(* Without a known ceiling only a configured limit applies, and a limit of *)
(* nothing becomes one of a single unit.                                   *)
async_budget(top) ==
  IF top = Unknown THEN policy.total
  ELSE Max({1, effective_budget(policy.total, top, 0)})

-----------------------------------------------------------------------------
(* plan_retention *)

Older(s, t) == s.start < t.start

(* Faulty variant: what age deletes is not taken off the sum first. *)
AgeNotCounted(aged) == Rows

RemainingAfter(aged) == Rows \ aged

ByAge ==
  {s \in Rows \ Newest(Rows) :
     /\ policy.age[Camera[s.stream]] # NoLimit
     /\ s.start < now - policy.age[Camera[s.stream]]}

(* The oldest first, as long as what is left exceeds the budget *)
BySize(budget) ==
  LET remaining == RemainingAfter(ByAge)
      candidates == remaining \ (ByAge \cup Newest(Rows))
  IN IF budget = NoLimit THEN {}
     ELSE {s \in candidates :
             Indexed(remaining) - Indexed({t \in candidates : Older(t, s)}) > budget}

Doomed(budget) == ByAge \cup BySize(budget)

Shortfall(budget) ==
  IF budget = NoLimit THEN 0 ELSE Max({0, Indexed(Rows \ Doomed(budget)) - budget})

-----------------------------------------------------------------------------

Init ==
  /\ files \in Archives /\ rows = files /\ previews = {}
  /\ now = Max({0} \cup {s.start + 1 : s \in Files})
  /\ other \in OtherData /\ Free >= 0
  /\ policy \in Policies
  /\ pass = "idle" /\ ceiling = Unknown
  /\ fresh = [k \in Streams |-> 0] /\ since = fresh
  /\ roomy = FALSE /\ largest = fresh /\ made = 0
  /\ seen = "nothing" /\ settled = FALSE /\ changes = 0

Counted(n) == Min({n + 1, HEADROOM_INTERVALS})

Grows == seen' = (IF seen = "nothing" THEN "segments" ELSE seen) /\ settled' = FALSE

(* A camera goes on to its next segment.                                   *)
Opens(k) ==
  /\ now < MaxTime /\ now' = now + 1
  /\ LET new == [stream |-> k, start |-> now]
     IN files' = [s \in Files \cup {new} |-> IF s = new THEN 0 ELSE files[s]]
  /\ fresh' = [fresh EXCEPT ![k] = Counted(@)]
  /\ since' = [since EXCEPT ![k] = Counted(@)]
  /\ roomy' = (roomy /\ since[k] + 1 < HEADROOM_INTERVALS)
  /\ Grows
  /\ UNCHANGED <<previews, rows, other, policy, pass, ceiling, largest, made, changes>>

(* It writes on in its newest segment, if the disk has room.               *)
Writes(k) ==
  \E s \in OfStream(Newest(Files), k) :
    /\ files[s] < Sizes[k] /\ Free >= 1
    /\ files' = [files EXCEPT ![s] = @ + 1]
    /\ roomy' = (roomy /\ files[s] + 1 <= largest[k])
    /\ Grows
    /\ UNCHANGED <<previews, rows, other, policy, now, pass, ceiling, fresh, since, largest,
                   made, changes>>

(* Other data comes or goes: room that was made may be taken. *)
OtherChanges ==
  /\ changes < MaxChanges /\ changes' = changes + 1
  /\ \E n \in OtherData : n # other /\ other' = n /\ n <= other + Free
  /\ roomy' = FALSE /\ seen' = "other" /\ settled' = FALSE
  /\ UNCHANGED <<files, previews, rows, policy, now, pass, ceiling, fresh, since, largest, made>>

(* scan_incremental: a look at every segment that is new to the index or   *)
(* the newest of its stream in it.  What is seen is stored when the scan   *)
(* is over, and not read before.                                           *)
Scan ==
  /\ pass = "idle" /\ Files # {} /\ pass' = "scanning"
  /\ rows' = [s \in Files |-> IF s \in Rows \ Newest(Rows) THEN rows[s] ELSE files[s]]
  /\ settled' = (settled /\ rows' = rows)
  /\ UNCHANGED <<files, previews, other, policy, now, ceiling, growthVars, seen, changes>>

(* Segments opened during the scan are found too if their directory, that  *)
(* of the next day, was still to be listed.                                *)
ScanRest ==
  /\ pass = "scanning" /\ pass' = "scanned"
  /\ \E late \in SUBSET (Files \ Rows) :
       rows' = [s \in Rows \cup late |-> IF s \in late THEN files[s] ELSE rows[s]]
  /\ settled' = (settled /\ rows' = rows)
  /\ UNCHANGED <<files, previews, other, policy, now, ceiling, growthVars, seen, changes>>

(* _async_make_thumbnails: a segment that is not being written gets its    *)
(* preview, if the disk has room.                                          *)
Shoots ==
  /\ pass = "scanned" /\ Free >= PreviewSize /\ Cardinality(previews) < MaxPreviews
  /\ \E s \in Rows \ (Newest(Rows) \cup previews) : previews' = previews \cup {s}
  /\ made' = made + 1 /\ settled' = FALSE
  /\ UNCHANGED <<files, rows, other, policy, now, pass, ceiling, fresh, since, roomy, largest,
                 seen, changes>>

(* async_ceiling: the free space, or none to be had *)
Measure ==
  /\ pass = "scanned" /\ pass' = "measured"
  /\ ceiling' \in {async_ceiling(Free), Unknown}
  /\ fresh' = [k \in Streams |-> 0] /\ seen' = "nothing"
  /\ UNCHANGED <<files, previews, rows, other, policy, now, since, roomy, largest, made,
                 settled, changes>>

(* _async_apply_retention: the plan, the files with their previews, and    *)
(* then their rows.  All the room is made if the sizes of the segments     *)
(* were known, the space was, and half of it is enough.                    *)
Retain ==
  LET budget == async_budget(ceiling)
      doomed == Doomed(budget)
      wanted == measured_headroom(largest_segment_by_stream)
  IN
  /\ pass = "measured" /\ pass' = "idle"
  /\ files' = Restrict(files, Files \ doomed)
  /\ previews' = previews \ doomed
  /\ rows' = Restrict(rows, Rows \ doomed)
  /\ since' = fresh
  /\ largest' = largest_segment_by_stream /\ made' = 0
  /\ roomy' = (/\ ceiling # Unknown /\ Shortfall(budget) = 0
               /\ seen # "other"
               /\ \A s \in Files : files[s] <= largest_segment_by_stream[s.stream]
               /\ \A k \in Streams : fresh[k] < HEADROOM_INTERVALS
               /\ 2 * wanted <= usable_capacity(Free, total_bytes))
  /\ settled' = (ceiling # Unknown /\ seen = "nothing")
  /\ ceiling' = Unknown
  /\ UNCHANGED <<other, policy, now, fresh, seen, changes>>

Next ==
  \/ Scan \/ ScanRest \/ Shoots \/ Measure \/ Retain \/ OtherChanges
  \/ \E k \in Streams : Opens(k) \/ Writes(k)

Spec == Init /\ [][Next]_vars

-----------------------------------------------------------------------------
(* Properties *)

TypeOK ==
  /\ \A s \in Files : s.stream \in Streams /\ s.start < now /\ files[s] \in 0 .. Sizes[s.stream]
  /\ Rows \subseteq Files /\ previews \subseteq Files
  /\ \A s \in Rows : rows[s] \in 0 .. files[s]
  /\ ceiling \in Nat \cup {Unknown}
  /\ \A k \in Streams : fresh[k] <= since[k] /\ since[k] <= HEADROOM_INTERVALS

(* What is written of the segment a stream is in, and what the stream has  *)
(* still to write of it and of all but one of the segments the headroom    *)
(* was made for                                                            *)
Current(k) == Max({0} \cup {files[s] : s \in OfStream(Newest(Files), k)})
DueOf(k) == (HEADROOM_INTERVALS - since[k]) * largest[k] - Current(k)
Due == SumFunction([k \in Streams |-> DueOf(k)])

(* The headroom lasts: after deletions that could make all of it, and with *)
(* nothing else on the disk growing, the cameras never run out of space:   *)
(* from the look at the disk the deletions were based on until the next    *)
(* deletions are over, there is room for the rest of the segments being    *)
(* written and for a further one of each stream for every interval of the  *)
(* headroom but one, of the sizes reckoned with; only the previews made    *)
(* meanwhile may have taken their size of it.  (Everything also has its    *)
(* type.)                                                                  *)
NeverFull ==
  /\ TypeOK
  /\ roomy => Free + PreviewSize * made >= Due

(* Deleting does not call for more deleting: a pass that finds everything  *)
(* as the one before has left it deletes nothing, whatever statfs says.    *)
SettlesAtOnce ==
  [][pass = "measured" /\ pass' = "idle" /\ settled => files' = files]_vars

(* Nothing is deleted needlessly: what is deleted is older than its        *)
(* camera's limit, or keeping it (and what is newer) would exceed a budget *)
(* that is configured or measured; of what size deletes, nothing older is  *)
(* kept but the newest of a stream; and a space that cannot be read never  *)
(* deletes anything.                                                       *)
NothingNeedless ==
  [][pass = "measured" /\ pass' = "idle" =>
       LET gone    == Files \ Files'
           expired == {s \in gone : LET age == policy.age[Camera[s.stream]] IN
                                      age # NoLimit /\ s.start + age < now}
           kept    == Rows \cap Files'
       IN \A s \in gone \ expired :
            /\ ceiling # Unknown \/ policy.total # NoLimit
            /\ LET younger == {t \in gone \ expired : ~Older(t, s)} IN
                 Indexed(kept) + Indexed(younger) >
                   (IF ceiling = Unknown \/ (policy.total # NoLimit /\ policy.total < ceiling)
                    THEN policy.total ELSE ceiling)
            /\ \A t \in kept \ Newest(Rows) : Older(s, t)]_vars
=============================================================================
