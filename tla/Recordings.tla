------------------------------ MODULE Recordings ------------------------------
(***************************************************************************)
(* What the recordings are and how the code looks at them: the boxes of a  *)
(* fragmented MP4 (core/mp4.py), the local time in a file's name           *)
(* (core/paths.py), the rows of the index with its queries (core/index.py) *)
(* and the arithmetic of an export's cut (export.py).  Definitions only;   *)
(* Export uses them.                                                       *)
(*                                                                         *)
(* One camera.  Time is in seconds, one fragment holds one second, and a   *)
(* box is one unit long.  Every fragment has video: the last one of a file *)
(* may hold nothing but sound, which extends data_end like any other and   *)
(* is only no target to seek to.                                           *)
(***************************************************************************)
EXTENDS Integers, Sequences, FiniteSets, FiniteSetsExt, SequencesExt

CONSTANTS
  Streams,   \* the stream keys, numbered in alphabetical order
  ClockBack, \* when the local clock is set back,
  Hour       \* and by how much

ASSUME CalendarAssumption == Streams \subseteq Nat /\ ClockBack \in Nat /\ Hour \in Nat \ {0}

-----------------------------------------------------------------------------
(* core/mp4.py: a file is a sequence of boxes, and cut if the last of them *)
(* declares more than is there.                                            *)

Kinds == {"ftyp", "moov", "moof", "mdat", "mfra"}
Files == [boxes : Seq(Kinds), cut : BOOLEAN]

FileSize(f) == Len(f.boxes)
Complete(f, i) == f.cut => i < FileSize(f)

(* Where a whole moof is followed by its whole mdat *)
PairEnds(f) ==
  {i \in 2 .. FileSize(f) : /\ f.boxes[i] = "mdat" /\ Complete(f, i)
                            /\ f.boxes[i - 1] = "moof" /\ Complete(f, i - 1)}

LastPairEnd(f) == Max(PairEnds(f) \cup {0})

DanglingMoof(f) ==
  \E i \in 1 .. FileSize(f) : i > LastPairEnd(f) /\ f.boxes[i] = "moof"

(* Faulty variant: a file whose boxes are all complete counts as intact. *)
CutOnly(f) == f.cut

Torn(f) == f.cut \/ DanglingMoof(f)

playable_length(f) ==
  IF LastPairEnd(f) = 0 THEN 0
  ELSE IF Torn(f) THEN LastPairEnd(f) ELSE FileSize(f)

(* What the player is told of a file, or no fragments *)
fragment_index(f) ==
  LET moov == {i \in 1 .. FileSize(f) : f.boxes[i] = "moov" /\ Complete(f, i)} IN
  IF moov = {} \/ PairEnds(f) = {}
  THEN [fragments |-> {}]
  ELSE [fragments |-> {i - 1 : i \in PairEnds(f)}, init_end |-> Min(moov),
        data_end |-> IF Torn(f) THEN LastPairEnd(f) ELSE FileSize(f)]

(* What a demuxer stumbles over: a head without all of its samples *)
Broken(f) ==
  f.cut \/ \E i \in 1 .. FileSize(f) : f.boxes[i] = "moof" /\ i + 1 \notin PairEnds(f)

(* The seconds of footage in the first n units of a file *)
Seconds(f, n) == Cardinality({i \in PairEnds(f) : i <= n})

-----------------------------------------------------------------------------
(* core/paths.py: names carry the local time, which passes the hour before *)
(* it is set back twice.                                                   *)

Local(t) == IF t < ClockBack THEN t ELSE t - Hour

(* Faulty variant: the file's modification time is not looked at. *)
EarlierReading(name, mtime) == Min({t \in {name, name + Hour} : Local(t) = name})

local_start_to_utc(name, mtime) ==
  LET candidates == {t \in {name, name + Hour} : Local(t) = name}
      plausible  == {t \in candidates : t <= mtime}
  IN IF plausible # {} THEN Max(plausible) ELSE Min(candidates)

(* scan_segment: what the index gets to know of a file *)
scan_segment(id, stream, name, mtime) ==
  LET start == local_start_to_utc(name, mtime) IN
  [id |-> id, stream |-> stream, start |-> start, end |-> mtime]

-----------------------------------------------------------------------------
(* core/index.py: the queries, over a set of rows *)

Duration(row) == row.end - row.start

Earlier(a, b) == a.start < b.start \/ (a.start = b.start /\ a.id < b.id)
Place(rows, r) == Cardinality({q \in rows : Earlier(q, r)}) + 1

ByStart(rows) == [k \in 1 .. Cardinality(rows) |-> CHOOSE r \in rows : Place(rows, r) = k]

AnyStream == -1

(* Faulty variant: what begins before the window is left out. *)
BeginsInside(rows, from, to, stream) ==
  ByStart({r \in rows : /\ r.start < to /\ r.start >= from
                        /\ stream \in {r.stream, AnyStream}})

in_range(rows, from, to, stream) ==
  ByStart({r \in rows : /\ r.start < to /\ r.end > from
                        /\ stream \in {r.stream, AnyStream}})

(* The timeline's blocks: a segment continues the last block if that is of *)
(* its stream and not too far back.                                        *)
Continues(blocks, s, max_gap) ==
  /\ blocks # <<>>
  /\ Last(blocks).stream = s.stream
  /\ s.start - Last(blocks).end <= max_gap

WithSegment(blocks, s, max_gap) ==
  IF Continues(blocks, s, max_gap)
  THEN [blocks EXCEPT ![Len(blocks)].end = Max({@, s.end})]
  ELSE Append(blocks, [stream |-> s.stream, start |-> s.start, end |-> s.end])

blocks_from_segments(segments, max_gap) ==
  LET blocks[n \in 0 .. Len(segments)] ==
        IF n = 0 THEN <<>> ELSE WithSegment(blocks[n - 1], segments[n], max_gap)
  IN blocks[Len(segments)]

-----------------------------------------------------------------------------
(* export.py: what a download is made from *)

TotalDuration(segments) ==
  LET sum[n \in 0 .. Len(segments)] ==
        IF n = 0 THEN 0 ELSE sum[n - 1] + Duration(segments[n])
  IN sum[Len(segments)]

OfStream(segments, key) == ByStart({s \in ToSet(segments) : s.stream = key})

dominant_stream(segments) ==
  LET keys == {segments[i].stream : i \in DOMAIN segments}
      totals(k) == MapThenSumSet(Duration, {s \in ToSet(segments) : s.stream = k})
      longest == {k \in keys : \A other \in keys : totals(k) >= totals(other)}
  IN OfStream(segments, Min(longest))

(* Where the range lies on the joined timeline *)
clip_bounds(segments, from, to) ==
  LET lead == Max({0, from - segments[1].start})
      tail == Max({0, Last(segments).end - to})
  IN [lead |-> lead, duration |-> Max({0, TotalDuration(segments) - lead - tail})]
=============================================================================
