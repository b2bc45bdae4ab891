-------------------------------- MODULE Export --------------------------------
(***************************************************************************)
(* The download of a time range (http_views.py ExportView, export.py): the *)
(* segments are queried, looked at one by one, joined by ffmpeg and        *)
(* streamed, while retention deletes segments, the recorder goes on        *)
(* writing the newest one, ffmpeg fails or stalls, and the client stops    *)
(* reading or leaves.  pc is the await the request is suspended at.        *)
(*                                                                         *)
(* How a segment ended, and which of them is still written, is chosen at   *)
(* the start; the index was scanned then.  ffmpeg yields one entry of the  *)
(* join per chunk.                                                         *)
(***************************************************************************)
EXTENDS Recordings

CONSTANTS
  Layout,            \* the segments, by number: [stream, began, length,
                     \* keyframes], the last by their distance from the start
  Ranges,            \* the ranges that are asked for
  MAX_EXPORT_SECONDS,
  MaxGap,            \* the timeline's tolerance
  MaxKilled,         \* bound on the segments whose process died
  MaxDeletes         \* bound on what retention deletes meanwhile

ASSUME LayoutAssumption ==
  /\ Layout \in Seq([stream : Streams, began : Nat, length : Nat \ {0}, keyframes : SUBSET Nat])
  /\ Ranges \subseteq Nat \X Nat
ASSUME GapAssumption == MaxGap \in Nat

Ids == DOMAIN Layout
Newest == Len(Layout)

VARIABLES
  content,   \* of every segment's file
  there,     \* the segments on disk
  rows,      \* the index
  writing,   \* the segment being written, or 0
  request, pc,
  stamp,     \* whether the clock is burnt in
  segments,  \* still to be looked at
  keep,      \* the playable length of the first of them, once known
  prepared,  \* the inputs of the join: [row, copy, part]
  clip,      \* lead and duration
  tmp, copies,   \* the scratch directory and what is in it
  orphan,    \* the executor job nobody waits for any more
  ffmpeg,
  reached,   \* how many inputs ffmpeg has worked through
  out,       \* the seconds sent: [stream, at, clock]
  end,       \* how it ended
  leftAt     \* where the client left

diskVars == <<content, there, rows, writing>>
inputVars == <<stamp, segments, keep, prepared, clip>>
scratchVars == <<tmp, copies, orphan>>
joinVars == <<ffmpeg, reached, out>>
vars == <<diskVars, request, pc, inputVars, scratchVars, joinVars, end, leftAt>>

None == -1
ListFile == 0

-----------------------------------------------------------------------------
(* Segments and how they end *)

Pairs(n) == [i \in 1 .. 2 * n |-> IF i % 2 = 1 THEN "moof" ELSE "mdat"]
Header == <<"ftyp", "moov">>

Whole(n) == [boxes |-> Header \o Pairs(n) \o <<"mfra">>, cut |-> FALSE]

(* The process died in the last fragment: in its head, between the head    *)
(* and the samples, or in a sample.                                        *)
Killed(n) ==
  { [boxes |-> Header \o Pairs(n - 1) \o <<"moof">>, cut |-> cut] : cut \in BOOLEAN }
  \cup { [boxes |-> Header \o Pairs(n), cut |-> TRUE] }

Open(n) == [boxes |-> Header \o Pairs(n - 1), cut |-> FALSE]

Endings(i) ==
  {Whole(Layout[i].length)} \cup
    (IF i = Newest THEN {Open(Layout[i].length)} ELSE Killed(Layout[i].length))

(* The index has what scan_segment saw at the start. *)
Scanned(i) ==
  LET l == Layout[i]
      mtime == l.began + (IF i = writing THEN l.length - 1 ELSE l.length)
  IN scan_segment(i, l.stream, Local(l.began), mtime)

Init ==
  /\ content \in {f \in [Ids -> UNION {Endings(i) : i \in Ids}] :
                    /\ \A i \in Ids : f[i] \in Endings(i)
                    /\ Cardinality({i \in Ids : f[i] \in Killed(Layout[i].length)}) <= MaxKilled}
  /\ there = Ids
  /\ writing = IF content[Newest] = Open(Layout[Newest].length) THEN Newest ELSE 0
  /\ rows = {Scanned(i) : i \in Ids}
  /\ request = [from |-> None] /\ pc = "idle" /\ stamp = FALSE
  /\ segments = <<>> /\ keep = None /\ prepared = <<>>
  /\ clip = [lead |-> 0, duration |-> 0]
  /\ tmp = "none" /\ copies = {} /\ orphan = "none"
  /\ ffmpeg = "none" /\ reached = 0 /\ out = <<>>
  /\ end = "none" /\ leftAt = "none"

-----------------------------------------------------------------------------
(* Beside the export *)

UnderWay == pc \notin {"idle", "waiting", "cleaning", "removing", "over"}

(* The recorder writes a fragment: its head, a part of its samples, the    *)
(* rest of them.                                                           *)
Writes ==
  LET f == content[writing] IN
  /\ UnderWay /\ writing # 0
  /\ \/ /\ ~f.cut /\ Last(f.boxes) # "moof"
        /\ FileSize(f) < FileSize(Whole(Layout[writing].length)) - 1
        /\ content' = [content EXCEPT ![writing].boxes = Append(@, "moof")]
     \/ /\ Last(f.boxes) = "moof"
        /\ content' = [content EXCEPT ![writing] = [boxes |-> Append(f.boxes, "mdat"), cut |-> TRUE]]
     \/ /\ f.cut /\ content' = [content EXCEPT ![writing].cut = FALSE]
  /\ UNCHANGED <<there, rows, writing, request, pc, inputVars, scratchVars, joinVars,
                 end, leftAt>>

(* Retention deletes a file, and forgets its row, which only the query     *)
(* looks at, sooner or later.                                              *)
Deleted(i) ==
  /\ UnderWay /\ Cardinality(Ids \ there) < MaxDeletes /\ i # writing
  /\ there' = there \ {i}
  /\ rows' \in {rows} \cup (IF pc = "querying" THEN {{r \in rows : r.id # i}} ELSE {})
  /\ UNCHANGED <<content, writing, request, pc, inputVars, scratchVars, joinVars,
                 end, leftAt>>

-----------------------------------------------------------------------------
(* The request *)

Valid(r) == r.from < r.to /\ r.to - r.from <= MAX_EXPORT_SECONDS

Ask(r) ==
  /\ pc = "idle" /\ Valid(r)
  /\ request' = r /\ pc' = "querying"
  /\ UNCHANGED <<diskVars, inputVars, scratchVars, joinVars, end, leftAt>>

(* Nothing recorded is an answer of its own; a stamped export takes the    *)
(* stream with the most footage.                                           *)
Query ==
  LET found == in_range(rows, request.from, request.to, request.stream) IN
  /\ pc = "querying"
  /\ IF found = <<>>
     THEN pc' = "over" /\ end' = "nothing" /\ UNCHANGED <<stamp, segments>>
     ELSE /\ pc' = "making" /\ stamp' = request.stamp /\ UNCHANGED end
          /\ segments' = IF request.stamp THEN dominant_stream(found) ELSE found
  /\ UNCHANGED <<diskVars, request, keep, prepared, clip, scratchVars, joinVars, leftAt>>

MakeScratch ==
  /\ pc = "making"
  /\ tmp' = "made" /\ pc' = "preparing"
  /\ UNCHANGED <<diskVars, request, inputVars, copies, orphan, joinVars, end, leftAt>>

-----------------------------------------------------------------------------
(* prepare_inputs, in the executor *)

Current == Head(segments).id

(* playable_length; a file that cannot be read is left out. *)
Look ==
  /\ pc = "preparing" /\ segments # <<>> /\ keep = None
  /\ IF Current \in there
     THEN keep' = playable_length(content[Current]) /\ UNCHANGED segments
     ELSE segments' = Tail(segments) /\ UNCHANGED keep
  /\ UNCHANGED <<diskVars, request, pc, stamp, prepared, clip, scratchVars, joinVars, end, leftAt>>

Fail ==
  /\ pc' = "cleaning" /\ end' = "failed"
  /\ UNCHANGED <<diskVars, request, inputVars, scratchVars, joinVars, leftAt>>

(* The file is gone when its size is asked for. *)
CompareFails ==
  /\ pc = "preparing" /\ keep # None /\ Current \notin there
  /\ Fail

(* The file itself, nothing, or a copy of its playable part *)
Input ==
  LET f == content[Current] IN
  IF keep = FileSize(f) THEN {[row |-> Head(segments), copy |-> FALSE, part |-> f]}
  ELSE IF keep = 0 THEN {}
  ELSE {[row |-> Head(segments), copy |-> TRUE,
         part |-> [boxes |-> SubSeq(f.boxes, 1, keep), cut |-> FALSE]]}

Compare ==
  /\ pc = "preparing" /\ keep # None /\ Current \in there
  /\ prepared' = prepared \o SetToSeq(Input)
  /\ copies' = copies \cup {x.row.id : x \in {y \in Input : y.copy}}
  /\ segments' = Tail(segments) /\ keep' = None
  /\ UNCHANGED <<diskVars, request, pc, stamp, clip, tmp, orphan, joinVars, end, leftAt>>

(* The cut is measured on what is left. *)
Prepared ==
  /\ pc = "preparing" /\ segments = <<>>
  /\ IF prepared = <<>>
     THEN pc' = "cleaning" /\ end' = "nothing" /\ UNCHANGED clip
     ELSE /\ clip' = clip_bounds([i \in DOMAIN prepared |-> prepared[i].row],
                                 request.from, request.to)
          /\ pc' = IF stamp THEN "probing" ELSE "listing"
          /\ UNCHANGED end
  /\ UNCHANGED <<diskVars, request, stamp, segments, keep, prepared, scratchVars, joinVars, leftAt>>

-----------------------------------------------------------------------------
(* The join *)

Readable(i) == prepared[i].copy \/ prepared[i].row.id \in there

(* video_size and has_audio_track: without a readable track header a       *)
(* stamped export becomes a raw one, of the same stream.                   *)
Probe ==
  /\ pc = "probing" /\ Readable(1)
  /\ \/ pc' = "spawning" /\ UNCHANGED stamp /\ \A i \in DOMAIN prepared : Readable(i)
     \/ pc' = "listing" /\ stamp' = FALSE
  /\ UNCHANGED <<diskVars, request, segments, keep, prepared, clip, scratchVars, joinVars, end, leftAt>>

ProbeFails ==
  /\ pc = "probing"
  /\ \E i \in DOMAIN prepared : ~Readable(i)
  /\ Fail

WriteList ==
  /\ pc = "listing"
  /\ copies' = copies \cup {ListFile} /\ pc' = "spawning"
  /\ UNCHANGED <<diskVars, request, inputVars, tmp, orphan, joinVars, end, leftAt>>

(* A stamped join opens every input at once, a raw one when it gets to it. *)
Spawn ==
  /\ pc = "spawning"
  /\ pc' = "reading"
  /\ ffmpeg' = IF stamp /\ \E i \in DOMAIN prepared : ~Readable(i)
               THEN "failed" ELSE "running"
  /\ UNCHANGED <<diskVars, request, inputVars, scratchVars, reached, out, end, leftAt>>

SpawnFails == pc = "spawning" /\ Fail

(* What ffmpeg reads of an input: a copy does not change any more. *)
FileOf(i) == IF prepared[i].copy THEN prepared[i].part ELSE content[prepared[i].row.id]

(* Where the first input begins: -ss is exact where the picture is made    *)
(* anew; an inpoint lands on the keyframe at or before the moment.         *)
Inpoint(i) ==
  LET n        == Seconds(FileOf(i), FileSize(FileOf(i)))
      possible == {q \in Layout[prepared[i].row.id].keyframes : q <= clip.lead /\ q < n}
  IN IF i = 1 /\ clip.duration > 0
     THEN IF stamp THEN clip.lead ELSE Max({0} \cup possible)
     ELSE 0

(* Where the last input of a raw join ends: outpoint *)
Outpoint(i) ==
  LET row == prepared[i].row
      n   == Seconds(FileOf(i), FileSize(FileOf(i)))
  IN IF ~stamp /\ i = Len(prepared) /\ clip.duration > 0 /\ request.to < row.end
     THEN Min({n, request.to - row.start}) ELSE n

(* Faulty variant: the epoch of the file although its head is cut off. *)
EpochOfFile(i) == prepared[i].row.start

(* The clock a stamped input begins with *)
Epoch(i) == prepared[i].row.start + (IF i = 1 THEN clip.lead ELSE 0)

(* The seconds an input contributes; -t bounds those of a stamped export.  *)
Contribution(i) ==
  LET row    == prepared[i].row
      length == Max({0, Outpoint(i) - Inpoint(i)})
      limit  == IF stamp /\ clip.duration > 0
                THEN Max({0, clip.duration - Len(out)}) ELSE length
  IN [k \in 1 .. Min({length, limit}) |->
        [stream |-> row.stream, at |-> Layout[row.id].began + Inpoint(i) + k - 1,
         clock |-> IF stamp THEN Epoch(i) + k - 1 ELSE None]]

(* One more input is joined.  A raw join breaks off where a file is gone,  *)
(* and each where one ends in the middle of a fragment.                    *)
Chunk ==
  LET i == reached + 1 IN
  /\ pc = "reading" /\ ffmpeg = "running" /\ i <= Len(prepared)
  /\ IF stamp \/ Readable(i)
     THEN /\ out' = out \o Contribution(i) /\ reached' = i /\ pc' = "sending"
          /\ ffmpeg' = IF Broken(FileOf(i)) THEN "torn" ELSE "running"
     ELSE /\ ffmpeg' = "failed" /\ UNCHANGED <<out, reached, pc>>
  /\ UNCHANGED <<diskVars, request, inputVars, scratchVars, end, leftAt>>

(* ffmpeg fails by itself. *)
Breaks ==
  /\ ffmpeg = "running" /\ pc \in {"reading", "sending", "dropped"}
  /\ ffmpeg' = "failed"
  /\ UNCHANGED <<diskVars, request, pc, inputVars, scratchVars, reached, out, end, leftAt>>

(* The client takes the chunk; a write has no time limit. *)
Taken ==
  /\ pc = "sending" /\ pc' = "reading"
  /\ UNCHANGED <<diskVars, request, inputVars, scratchVars, joinVars, end, leftAt>>

EndOfFile ==
  /\ pc = "reading"
  /\ ffmpeg \in {"failed", "torn"} \/ reached = Len(prepared)
  /\ end' = IF ffmpeg = "running" THEN "whole" ELSE "short"
  /\ ffmpeg' = "killed" /\ pc' = "waiting"
  /\ UNCHANGED <<diskVars, request, inputVars, scratchVars, reached, out, leftAt>>

(* Faulty variant: an ffmpeg that yields nothing is waited for. *)
WaitsForIt == FALSE /\ UNCHANGED vars

(* Nothing came for STALL_TIMEOUT_SECONDS. *)
Stalled ==
  /\ pc = "reading"
  /\ end' = "short" /\ ffmpeg' = "killed" /\ pc' = "waiting"
  /\ UNCHANGED <<diskVars, request, inputVars, scratchVars, reached, out, leftAt>>

Waited ==
  /\ pc = "waiting"
  /\ ffmpeg' = "ended" /\ pc' = "cleaning"
  /\ UNCHANGED <<diskVars, request, inputVars, scratchVars, reached, out, end, leftAt>>

-----------------------------------------------------------------------------
(* rmtree: first what is in the directory, then the directory, if nothing  *)
(* has come into it meanwhile                                              *)

Clean ==
  /\ pc = "cleaning"
  /\ copies' = {} /\ pc' = "removing"
  /\ UNCHANGED <<diskVars, request, inputVars, tmp, orphan, joinVars, end, leftAt>>

RemoveScratch ==
  /\ pc = "removing"
  /\ tmp' = IF copies = {} THEN "gone" ELSE tmp
  /\ pc' = "over"
  /\ UNCHANGED <<diskVars, request, inputVars, copies, orphan, joinVars, end, leftAt>>

-----------------------------------------------------------------------------
(* The client leaves: the request is cancelled at its await.  An executor  *)
(* job that has begun goes on.  At a write, the generator that reads from  *)
(* ffmpeg is only dropped, and closed when the loop finalises it.          *)

(* Faulty variant: only an export that is read to its end is cleaned up. *)
NoFinally ==
  CASE pc \in {"querying", "making"} -> "over"
    [] pc \in {"preparing", "probing", "listing", "spawning"} -> "cleaning"
    [] OTHER -> "over"

Jobs == {"making", "preparing", "listing"}

After ==
  CASE pc \in {"querying", "making"} -> "over"
    [] pc \in {"preparing", "probing", "listing", "spawning"} -> "cleaning"
    [] pc = "reading" -> "waiting"
    [] pc = "sending" -> "dropped"

Leaves ==
  /\ pc \notin {"idle", "dropped", "waiting", "cleaning", "removing", "over"}
  /\ leftAt' = pc /\ end' = "left" /\ pc' = After
  /\ orphan' \in {"none"} \cup ({pc} \cap Jobs)
  /\ ffmpeg' = IF pc = "reading" THEN "killed" ELSE ffmpeg
  /\ UNCHANGED <<diskVars, request, inputVars, tmp, copies, reached, out>>

Finalised ==
  /\ pc = "dropped" /\ pc' = "waiting"
  /\ ffmpeg' = "killed"
  /\ UNCHANGED <<diskVars, request, inputVars, scratchVars, reached, out, end, leftAt>>

(* mkdtemp ends after all. *)
OrphanMakes ==
  /\ orphan = "making"
  /\ tmp' = "made" /\ orphan' = "none"
  /\ UNCHANGED <<diskVars, request, pc, inputVars, copies, joinVars, end, leftAt>>

(* prepare_inputs goes on, and raises where there is no directory left to  *)
(* copy to.                                                                *)
OrphanPrepares ==
  /\ orphan = "preparing"
  /\ \/ /\ segments # <<>> /\ tmp = "made"
        /\ copies' \in {copies} \cup {copies \cup {i} : i \in {Current} \cap there}
        /\ segments' = Tail(segments) /\ UNCHANGED orphan
     \/ /\ segments = <<>> \/ tmp # "made"
        /\ orphan' = "none" /\ UNCHANGED <<copies, segments>>
  /\ UNCHANGED <<diskVars, request, pc, stamp, keep, prepared, clip, tmp, joinVars, end, leftAt>>

(* So does write_text. *)
OrphanLists ==
  /\ orphan = "listing" /\ orphan' = "none"
  /\ copies' = IF tmp = "made" THEN copies \cup {ListFile} ELSE copies
  /\ UNCHANGED <<diskVars, request, pc, inputVars, tmp, joinVars, end, leftAt>>

Step ==
  \/ Query \/ MakeScratch \/ Look \/ Compare \/ CompareFails \/ Prepared
  \/ Probe \/ ProbeFails \/ WriteList \/ Spawn \/ SpawnFails
  \/ EndOfFile \/ Stalled \/ Waited \/ Clean \/ RemoveScratch
  \/ Finalised \/ OrphanMakes \/ OrphanPrepares \/ OrphanLists

Requests ==
  [from : {r[1] : r \in Ranges}, to : {r[2] : r \in Ranges},
   stream : Streams \cup {AnyStream}, stamp : BOOLEAN]

Next ==
  \/ Step \/ Chunk \/ Breaks \/ Taken \/ Leaves
  \/ \E r \in Requests : <<r.from, r.to>> \in Ranges /\ Ask(r)
  \/ Writes \/ \E i \in there : Deleted(i)

Spec == Init /\ [][Next]_vars

(* The coroutine is resumed, executor jobs end, a killed process dies.     *)
(* Nothing is assumed of ffmpeg or of the client.                          *)
FairSpec == Spec /\ WF_vars(Step)

-----------------------------------------------------------------------------
(* Properties *)

(* A segment that begins in the hour before the clock is set back ends     *)
(* before the same local time comes again.  Segments are minutes long, but *)
(* nothing in the configuration bounds segment_seconds from above; the     *)
(* theorem about the clock has this for its hypothesis.                    *)
ReadsBack ==
  \A i \in Ids : LET l == Layout[i] IN
    l.began < ClockBack /\ ClockBack <= l.began + Hour => l.length < Hour

(* The segments of a stream follow one another: one recorder process       *)
(* writes a stream, and starts the next segment when it closes the last.   *)
(* The theorem about what a download delivers has this for its hypothesis. *)
Apart ==
  \A i, j \in Ids :
    i < j /\ Layout[i].stream = Layout[j].stream =>
      Layout[i].began + Layout[i].length <= Layout[j].began

TypeOK ==
  /\ content \in [Ids -> Files] /\ there \subseteq Ids /\ writing \in Ids \cup {0}
  /\ keep \in Nat \cup {None}
  /\ copies \subseteq Ids \cup {ListFile}
  /\ tmp \in {"none", "made", "gone"} /\ orphan \in {"none"} \cup Jobs
  /\ ffmpeg \in {"none", "running", "failed", "torn", "killed", "ended"}
  /\ reached \in 0 .. Len(prepared)
  /\ end \in {"none", "nothing", "failed", "short", "whole", "left"}

(* The footage a segment's file has, by the second *)
Footage(i) ==
  {Layout[i].began + k : k \in 0 .. Seconds(content[i], FileSize(content[i])) - 1}

Asked(t) == request.from <= t /\ t < request.to

(* No keyframe of the first input lies behind t and not behind the start   *)
(* of the range.                                                           *)
LeadsIn(t) ==
  LET first == prepared[1].row IN
  \A q \in Layout[first.id].keyframes :
    t < first.start + q => request.from < first.start + q

(* A download that ended as a whole has every second of the range, in      *)
(* order and each once, that the index knew of and whose file was still    *)
(* there when it was looked at: "nothing that was asked for is missing".   *)
(* If all of it is of one stream and intact, it has nothing behind the     *)
(* range, and before it nothing but, in a raw one, what a copy must take   *)
(* from the last keyframe on: a cut lands on it.  (A torn segment makes a  *)
(* stamped export end late, since its length is reckoned from the rows; a  *)
(* segment that grew since its scan is not cut; of two streams only the    *)
(* first and the last segment of both are.)                                *)
DeliversTheRange ==
  LET joined   == {prepared[i].row : i \in DOMAIN prepared}
      wanted   == {r \in rows : /\ r.id \in there
                                /\ \/ r.stream = request.stream
                                   \/ request.stream = AnyStream /\ ~request.stamp}
      sent(s)  == {out[k].at : k \in {j \in DOMAIN out : out[j].stream = s}}
      intact   == \A r \in joined : content[r.id] = Whole(Layout[r.id].length)
      streams  == {out[k].stream : k \in DOMAIN out}
  IN end = "whole" =>
       /\ \A r \in joined \cup wanted : \A t \in Footage(r.id) :
            Asked(t) /\ t < r.end => t \in sent(r.stream)
       /\ \A j, k \in DOMAIN out :
            j < k /\ out[j].stream = out[k].stream => out[j].at < out[k].at
       /\ intact /\ Cardinality(streams) = 1 => \A k \in DOMAIN out :
            /\ out[k].at < request.to
            /\ out[k].at < request.from => ~stamp /\ LeadsIn(out[k].at)
       /\ request.stamp => Cardinality(streams) <= 1

(* A segment that was torn when its process died does not end the join:    *)
(* what is handed to ffmpeg ends with a fragment, and so does what the     *)
(* player is told it may fetch.  Only a segment that grows while it is     *)
(* read can be caught in the middle of one.  (Everything also has its      *)
(* type.)                                                                  *)
TornTailsAreCut ==
  /\ TypeOK
  /\ ffmpeg = "torn" => prepared[reached].row.id = writing
  /\ pc = "idle" => \A i \in Ids : LET index == fragment_index(content[i]) IN
       /\ index.fragments = {} <=> playable_length(content[i]) = 0
       /\ index.fragments # {} => index.data_end = playable_length(content[i])

(* The clock burnt into a stamped export is the time of the picture, also  *)
(* behind a gap, behind a cut-off head, and, as far as names read back, in *)
(* the hour that comes twice.                                              *)
ClockIsTrue ==
  \A k \in DOMAIN out : out[k].clock # None => out[k].clock = out[k].at

(* How much of segment i its row may claim beyond the footage: the         *)
(* fragment its process died in                                            *)
Lost(i) == IF content[i] \in Killed(Layout[i].length) THEN 1 ELSE 0

(* In every range, of one stream or of both: what the timeline draws as    *)
(* recorded is footage of that stream, up to its tolerance and the         *)
(* fragment that the death of a process cost, and it draws all footage     *)
(* that was there when the index looked.  (The index changes up to the     *)
(* query, and footage only grows.)                                         *)
TimelineIsTrue ==
  pc \in {"idle", "querying"} =>
  \A w \in Ranges, asked \in Streams \cup {AnyStream} :
    LET found  == in_range(rows, w[1], w[2], asked)
        blocks == blocks_from_segments(found, MaxGap)
        drawn(s, t) == \E b \in DOMAIN blocks :
                         blocks[b].stream = s /\ blocks[b].start <= t /\ t < blocks[b].end
        known  == {r.id : r \in rows} \ {writing}
    IN \A s \in Streams, t \in w[1] .. w[2] - 1 :
         /\ drawn(s, t) => \E i \in Ids : LET l == Layout[i] IN
              /\ l.stream = s /\ l.began <= t
              /\ t < l.began + Cardinality(Footage(i)) + Lost(i) + MaxGap
         /\ asked \in {s, AnyStream} => \A i \in known :
              Layout[i].stream = s /\ t \in Footage(i) => drawn(s, t)

(* An export that is over has left neither ffmpeg nor files behind, however*)
(* it ended.  Only a client that leaves while the executor makes or fills  *)
(* the directory can leave that one, and without footage if it was written *)
(* its list.                                                               *)
NothingLeft ==
  pc = "over" /\ orphan = "none" =>
    /\ ffmpeg \in {"none", "ended"}
    /\ leftAt \notin Jobs => tmp # "made" /\ copies = {}
    /\ leftAt = "listing" => copies \subseteq {ListFile}

(* Every export ends, whatever ffmpeg does, unless its client neither      *)
(* reads nor leaves.                                                       *)
EveryExportEnds == pc # "idle" ~> pc \in {"over", "sending"}
=============================================================================
