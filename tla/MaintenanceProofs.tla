--------------------------- MODULE MaintenanceProofs ---------------------------
(***************************************************************************)
(* Proofs about Maintenance, for any streams, batch sizes and bounds.  The *)
(* inductive invariant says what the rows on their way to the index may    *)
(* still hold, what a pass may yet forget or delete, and that the segment  *)
(* a stream writes is its newest.                                          *)
(***************************************************************************)
EXTENDS Maintenance, WellFoundedInduction, TLAPS

Row == [final : BOOLEAN, has_thumbnail : BOOLEAN]

(* A later segment of the same stream; one of a later day *)
Sibling(f, g) == stream[f] = stream[g] /\ f < g
Later(f) == \E g \in Opened : stream[g] = stream[f] /\ day[g] > day[f]

Segments ==
  /\ stream \in Seq(Streams) /\ day \in Seq(Nat) /\ Len(day) = Len(stream)
  /\ today \in 0 .. MaxDay
  /\ \A f, g \in Opened : f <= g => day[f] <= day[g]
  /\ \A f \in Opened : day[f] <= today
  /\ writing \in [Streams -> Nat]
  /\ \A s \in Streams : writing[s] # 0 =>
       /\ writing[s] \in Opened /\ stream[writing[s]] = s
       /\ \A g \in Opened : stream[g] = s => g <= writing[s]
  /\ torn \subseteq Opened /\ files \subseteq Opened /\ previews \subseteq Opened
  /\ visible \in BOOLEAN /\ blind \in BOOLEAN
  /\ ~blind => visible

(* What a pass has in its hands is of segments that were opened, and what  *)
(* it is about to forget or to delete is gone or not the newest.           *)
Hands ==
  /\ pass.pc = "idle" => pass = Idle
  /\ pass.pc = "growing" =>
       pass = [pc |-> "growing", known |-> pass.known] /\ pass.known \subseteq Opened
  /\ pass.pc = "scan" =>
       /\ pass = [pc |-> "scan", known |-> pass.known, growing |-> pass.growing,
                  day |-> pass.day, seen |-> pass.seen, changed |-> pass.changed]
       /\ pass.known \subseteq Opened /\ pass.day \in 0 .. MaxDay
       /\ pass.changed \in [DOMAIN pass.changed -> Row]
       /\ DOMAIN pass.changed \subseteq Opened
       /\ \A f \in DOMAIN pass.changed : day[f] < pass.day
       /\ ~blind => \A f \in pass.known \cap files : day[f] < pass.day => f \in pass.seen
  /\ pass.pc = "upsert" =>
       /\ pass.changed \in [DOMAIN pass.changed -> Row]
       /\ DOMAIN pass.changed \subseteq Opened
  /\ pass.pc \in {"upsert", "forget"} =>
       pass.vanished \subseteq Opened /\ (~blind => pass.vanished \cap files = {})
  /\ pass.pc = "extract" =>
       /\ pass = [pc |-> "extract", todo |-> pass.todo, rows |-> pass.rows, made |-> pass.made]
       /\ pass.rows \in [DOMAIN pass.rows -> Row] /\ DOMAIN pass.rows \subseteq Opened
       /\ pass.todo \cup pass.made \subseteq DOMAIN pass.rows
  /\ pass.pc = "delete" =>
       /\ pass.doomed \subseteq Opened
       /\ \A f \in pass.doomed : \E g \in Opened : Sibling(f, g)
  /\ pass.pc = "drop" =>
       pass.removed \subseteq Opened /\ (~blind => pass.removed \cap files = {})
  /\ pass.pc \in {"idle", "growing", "scan", "upsert", "forget", "previews",
                  "extract", "plan", "delete", "drop"}

(* What a row says of a file is final, or the midnight after it explains.  *)
Settled(f, row) == f \in files => row.final \/ Later(f)
SettledRows(rows) == \A f, g \in DOMAIN rows : Sibling(f, g) => Settled(f, rows[f])

(* The index is settled, and will be with the rows that are coming.        *)
Truth ==
  /\ index \in [Rows -> Row] /\ Rows \subseteq Opened
  /\ SettledRows(index)
  /\ pass.pc \in {"scan", "upsert"} => SettledRows(Upserted(index, pass.changed))
  /\ pass.pc = "scan" => \A f \in Rows : f \in pass.growing \/ Settled(f, index[f])
  /\ pass.pc = "extract" =>
       /\ \A f \in DOMAIN pass.rows : Settled(f, pass.rows[f])
       /\ SettledRows(Upserted(index, pass.rows))
       /\ \A f \in Rows \cap DOMAIN pass.rows : index[f] = pass.rows[f]

IInv == Segments /\ Hands /\ Truth

-----------------------------------------------------------------------------
(* What time does: segments are added, and no file comes back.             *)
Onward ==
  /\ Opened \subseteq Opened'
  /\ \A f \in Opened : stream'[f] = stream[f] /\ day'[f] = day[f]
  /\ files' \cap Opened \subseteq files

LEMMA SettledStays ==
  ASSUME Onward, NEW f \in Opened, NEW row, Settled(f, row)
  PROVE  Settled(f, row)'
  BY DEF Onward, Settled, Later

LEMMA SiblingsStay ==
  ASSUME Onward, NEW f \in Opened, NEW g \in Opened
  PROVE  Sibling(f, g)' <=> Sibling(f, g)
  BY DEF Onward, Sibling

LEMMA RowsStay ==
  ASSUME Onward, NEW rows, DOMAIN rows \subseteq Opened, SettledRows(rows)
  PROVE  SettledRows(rows)'
<1> SUFFICES ASSUME NEW f \in DOMAIN rows, NEW g \in DOMAIN rows, Sibling(f, g)'
             PROVE  Settled(f, rows[f])'
  BY DEF SettledRows
<1> QED
  BY SettledStays, SiblingsStay DEF SettledRows

(* Only the later of two segments of a stream may be of the later day.     *)
LEMMA LaterDay ==
  ASSUME Segments, NEW f \in Opened, NEW g \in Opened, Sibling(f, g)
  PROVE  day[f] < day[g] => Later(f)
  BY DEF Sibling, Later

LEMMA Newest ==
  ASSUME NEW S, S \subseteq Opened, NEW f \in S, f \notin NewestPerStream(S)
  PROVE  \E g \in S : Sibling(f, g)
<1>1. PICK g \in S : stream[g] = stream[f] /\ ~(g <= f)
  BY DEF NewestPerStream
<1>2. f \in Nat /\ g \in Nat
  BY DEF Opened
<1> QED
  BY <1>1, <1>2 DEF Sibling

(* The next pass has done nothing yet, and others' work does no harm.      *)
LEMMA HandsStay ==
  ASSUME Segments, Hands, Onward, pass' = pass, ~blind' => ~blind
  PROVE  Hands'
<1>1. \A S : S \subseteq Opened => S \subseteq Opened'
  BY DEF Onward
<1>2. \A S : S \subseteq Opened /\ S \cap files = {} => S \cap files' = {}
  BY DEF Onward
<1>3. \A f, g \in Opened : Sibling(f, g) => f \in Opened' /\ g \in Opened' /\ Sibling(f, g)'
  BY SiblingsStay DEF Onward
<1>4. CASE pass.pc = "scan"
  <2>1. \A f \in DOMAIN pass.changed : day'[f] < pass.day
    BY <1>4 DEF Hands, Onward
  <2>2. ~blind' => \A f \in pass.known \cap files' : day'[f] < pass.day => f \in pass.seen
    BY <1>4 DEF Hands, Onward
  <2> QED
    BY <1>1, <1>4, <2>1, <2>2 DEF Hands
<1>5. CASE pass.pc = "delete"
  <2>1. \A f \in pass.doomed : \E g \in Opened' : Sibling(f, g)'
    BY <1>3, <1>5 DEF Hands
  <2> QED
    BY <1>1, <1>5, <2>1 DEF Hands
<1>6. CASE pass.pc \in {"idle", "growing", "previews", "plan", "extract"}
  BY <1>1, <1>6 DEF Hands
<1>7. CASE pass.pc \in {"upsert", "forget", "drop"}
  BY <1>1, <1>2, <1>7 DEF Hands
<1> QED
  BY <1>4, <1>5, <1>6, <1>7 DEF Hands

LEMMA TruthStays ==
  ASSUME Segments, Hands, Truth, Onward, pass' = pass, index' = index
  PROVE  Truth'
<1>1. index' \in [DOMAIN index' -> Row] /\ DOMAIN index' \subseteq Opened'
  BY DEF Truth, Onward
<1>2. SettledRows(index)'
  BY RowsStay DEF Truth
<1>3. CASE pass.pc \in {"scan", "upsert"}
  <2>1. DOMAIN Upserted(index, pass.changed) \subseteq Opened
    BY <1>3 DEF Hands, Truth, Upserted, Rows
  <2>2. SettledRows(Upserted(index, pass.changed))'
    <3> PICK rows : rows = Upserted(index, pass.changed)
      OBVIOUS
    <3>1. SettledRows(rows)'
      BY <1>3, <2>1, RowsStay DEF Truth
    <3> QED
      BY <3>1 DEF SettledRows
  <2>3. pass.pc = "scan" => \A f \in Rows : f \in pass.growing \/ Settled(f, index[f])'
    BY SettledStays DEF Truth
  <2> QED
    BY <1>1, <1>2, <1>3, <2>2, <2>3 DEF Truth, Rows
<1>4. CASE pass.pc = "extract"
  <2>1. DOMAIN Upserted(index, pass.rows) \subseteq Opened
    BY <1>4 DEF Hands, Truth, Upserted, Rows
  <2>2. SettledRows(Upserted(index, pass.rows))'
    <3> PICK rows : rows = Upserted(index, pass.rows)
      OBVIOUS
    <3>1. SettledRows(rows)'
      BY <1>4, <2>1, RowsStay DEF Truth
    <3> QED
      BY <3>1 DEF SettledRows
  <2>3. \A f \in DOMAIN pass.rows : Settled(f, pass.rows[f])'
    BY <1>4, SettledStays DEF Hands, Truth
  <2> QED
    BY <1>1, <1>2, <1>4, <2>2, <2>3 DEF Truth, Rows
<1> QED
  BY <1>1, <1>2, <1>3, <1>4 DEF Truth, Rows

-----------------------------------------------------------------------------
(* The invariant: at first, and while ffmpeg and the world go on           *)

LEMMA InvInit == Init => IInv
<1> SUFFICES ASSUME Init PROVE IInv
  OBVIOUS
<1>1. /\ stream = <<>> /\ day = <<>> /\ torn = {} /\ writing = [s \in Streams |-> 0]
      /\ files = {} /\ previews = {} /\ visible = TRUE /\ index = <<>>
      /\ pass = Idle /\ blind = FALSE /\ today = 0
  BY DEF Init
<1>2. Opened = {} /\ Len(day) = Len(stream) /\ stream \in Seq(Streams) /\ day \in Seq(Nat)
  BY <1>1 DEF Opened
<1>3. Segments
  <2>1. today \in 0 .. MaxDay /\ writing \in [Streams -> Nat] /\ \A s \in Streams : writing[s] = 0
    BY <1>1, DayAssumption
  <2>2. visible \in BOOLEAN /\ blind \in BOOLEAN /\ (~blind => visible)
    BY <1>1
  <2>3. torn \subseteq Opened /\ files \subseteq Opened /\ previews \subseteq Opened
    BY <1>1
  <2> QED
    BY <1>2, <2>1, <2>2, <2>3 DEF Segments
<1>4. Hands
  BY <1>1 DEF Hands, Idle
<1>5. Rows = {} /\ index \in [Rows -> Row]
  BY <1>1 DEF Rows
<1>6. Truth
  BY <1>1, <1>5 DEF Truth, SettledRows, Idle, Rows
<1> QED
  BY <1>3, <1>4, <1>6 DEF IInv

LEMMA NextSegmentKeeps ==
  ASSUME IInv, NEW s \in Streams, NextSegment(s)
  PROVE  IInv'
<1>1. Segments /\ Hands /\ Truth
  BY DEF IInv
<1>0. today \in Nat /\ \A g \in Opened : day[g] \in Nat /\ day[g] <= today
  BY <1>1, DayAssumption DEF Segments, Opened
<1> PICK f : f = Len(stream) + 1
  OBVIOUS
<1>2. /\ stream' = Append(stream, s) /\ day' = Append(day, today)
      /\ files' = files \cup {f} /\ writing' = [writing EXCEPT ![s] = f]
      /\ UNCHANGED <<previews, visible, index, pass, blind, today>>
      /\ torn' = torn \/ (writing[s] # 0 /\ torn' = torn \cup {writing[s]})
  BY DEF NextSegment, DayDirectory
<1>3. /\ Opened' = Opened \cup {f} /\ f \notin Opened /\ f \in Nat \ {0}
      /\ \A g \in Opened : g < f /\ g \in Nat
  BY <1>1, <1>2 DEF Segments, Opened
<1>4. /\ \A g \in Opened : stream'[g] = stream[g] /\ day'[g] = day[g]
      /\ stream'[f] = s /\ day'[f] = today
      /\ stream' \in Seq(Streams) /\ day' \in Seq(Nat) /\ Len(day') = Len(stream')
  BY <1>1, <1>2 DEF Segments, Opened
<1>5. Onward
  BY <1>1, <1>2, <1>3, <1>4 DEF Onward, Segments
<1>6. Segments'
  <2>1. \A g, h \in Opened' : g <= h => day'[g] <= day'[h]
    <3> SUFFICES ASSUME NEW g \in Opened', NEW h \in Opened', g <= h
                 PROVE  day'[g] <= day'[h]
      OBVIOUS
    <3>1. CASE h = f
      <4>1. today \in Nat /\ day'[h] = today
        BY <1>4, <1>0, <3>1
      <4>2. CASE g = f
        BY <1>4, <4>1, <4>2
      <4>3. CASE g \in Opened
        BY <1>0, <1>4, <4>1, <4>3
      <4> QED
        BY <1>3, <4>2, <4>3
    <3>2. CASE h \in Opened
      <4>1. g \in Opened
        BY <1>3, <3>2
      <4> QED
        BY <1>1, <1>4, <3>2, <4>1 DEF Segments
    <3> QED
      BY <1>3, <3>1, <3>2
  <2>2. \A g \in Opened' : day'[g] <= today
    <3> TAKE g \in Opened'
    <3>1. CASE g = f
      BY <1>0, <1>4, <3>1
    <3>2. CASE g \in Opened
      BY <1>0, <1>4, <3>2
    <3> QED
      BY <1>3, <3>1, <3>2
  <2>3. \A r \in Streams : writing'[r] # 0 =>
          /\ writing'[r] \in Opened' /\ stream'[writing'[r]] = r
          /\ \A g \in Opened' : stream'[g] = r => g <= writing'[r]
    <3> SUFFICES ASSUME NEW r \in Streams, writing'[r] # 0
                 PROVE  /\ writing'[r] \in Opened' /\ stream'[writing'[r]] = r
                        /\ \A g \in Opened' : stream'[g] = r => g <= writing'[r]
      OBVIOUS
    <3>1. CASE r = s
      <4>1. writing'[r] = f
        BY <1>1, <1>2, <3>1 DEF Segments
      <4> QED
        BY <1>3, <1>4, <3>1, <4>1
    <3>2. CASE r # s
      <4>1. writing'[r] = writing[r]
        BY <1>1, <1>2, <3>2 DEF Segments
      <4> QED
        BY <1>1, <1>3, <1>4, <3>2, <4>1 DEF Segments
    <3> QED
      BY <3>1, <3>2
  <2>4. writing' \in [Streams -> Nat]
    BY <1>1, <1>2, <1>3 DEF Segments
  <2>6. torn' \subseteq Opened
    BY <1>1, <1>2 DEF Segments
  <2>5. /\ torn' \subseteq Opened' /\ files' \subseteq Opened' /\ previews' \subseteq Opened'
        /\ today' \in 0 .. MaxDay /\ visible' \in BOOLEAN /\ blind' \in BOOLEAN
        /\ ~blind' => visible'
    BY <1>1, <1>2, <1>3, <2>6 DEF Segments
  <2> QED
    BY <1>2, <1>4, <2>1, <2>2, <2>3, <2>4, <2>5 DEF Segments
<1>7. Hands' /\ Truth'
  BY <1>1, <1>2, <1>5, HandsStay, TruthStays
<1> QED
  BY <1>6, <1>7 DEF IInv

(* ffmpeg dies, a day ends, the location goes or comes, a file is deleted. *)
LEMMA WorldKeeps ==
  ASSUME IInv,
         \/ \E s \in Streams : Dies(s)
         \/ Midnight \/ LocationGoes \/ LocationComes
         \/ \E f \in files : DeletedByHand(f)
         \/ UNCHANGED vars
  PROVE  IInv'
<1>1. Segments /\ Hands /\ Truth
  BY DEF IInv
<1>2. /\ UNCHANGED <<stream, day, previews, index, pass>>
      /\ files' \subseteq files /\ torn' \subseteq Opened
      /\ today' \in Nat /\ today <= today' /\ today' <= MaxDay
      /\ \A s \in Streams : writing'[s] \in {0, writing[s]}
      /\ writing' \in [Streams -> Nat]
      /\ visible' \in BOOLEAN /\ blind' \in BOOLEAN
      /\ (~blind' => visible') /\ (~blind' => ~blind)
  <2>0. today \in Nat /\ today <= MaxDay
    BY <1>1, DayAssumption DEF Segments
  <2>1. ASSUME NEW s \in Streams, Dies(s)
        PROVE  /\ UNCHANGED <<stream, day, previews, index, pass, files, today, visible, blind>>
               /\ torn' \subseteq Opened
               /\ \A r \in Streams : writing'[r] \in {0, writing[r]}
               /\ writing' \in [Streams -> Nat]
    BY <1>1, <2>1 DEF Dies, Segments
  <2>2. CASE Midnight
    BY <1>1, <2>2, DayAssumption DEF Midnight, Segments, diskVars
  <2>3. ASSUME LocationGoes
        PROVE  /\ UNCHANGED <<stream, day, previews, index, pass, torn, writing, files, today>>
               /\ visible' \in BOOLEAN /\ blind' = TRUE
    BY <2>3 DEF LocationGoes
  <2>4. CASE LocationComes
    BY <1>1, <2>4 DEF LocationComes, Segments
  <2>5. ASSUME NEW f \in files, DeletedByHand(f)
        PROVE  /\ UNCHANGED <<stream, day, previews, index, pass, torn, writing, today,
                              visible, blind>>
               /\ files' \subseteq files
    BY <1>1, <2>5 DEF DeletedByHand
  <2>6. CASE UNCHANGED vars
    BY <1>1, <2>6 DEF vars, diskVars, Segments
  <2>7. CASE \E s \in Streams : Dies(s)
    BY <1>1, <2>0, <2>1, <2>7 DEF Segments
  <2>8. CASE LocationGoes
    <3>1. UNCHANGED <<writing, torn, files, today>> /\ writing \in [Streams -> Nat]
      BY <1>1, <2>3, <2>8 DEF Segments
    <3> QED
      BY <1>1, <2>0, <2>3, <2>8, <3>1 DEF Segments
  <2>9. CASE \E f \in files : DeletedByHand(f)
    BY <1>1, <2>0, <2>5, <2>9 DEF Segments
  <2> QED
    BY <2>2, <2>4, <2>6, <2>7, <2>8, <2>9
<1>3. Onward /\ Opened' = Opened
  BY <1>2 DEF Onward, Opened
<1>4. Segments'
  <2>1. \A f \in Opened : day[f] <= today'
    BY <1>1, <1>2 DEF Segments, Opened
  <2> QED
    BY <1>1, <1>2, <1>3, <2>1 DEF Segments
<1>5. Hands' /\ Truth'
  BY <1>1, <1>2, <1>3, HandsStay, TruthStays
<1> QED
  BY <1>4, <1>5 DEF IInv

-----------------------------------------------------------------------------
(* The invariant, job by job.  Most jobs leave the disk as it is.          *)

LEMMA DiskStays ==
  ASSUME Segments, UNCHANGED <<stream, day, torn, writing, visible, blind, today>>,
         files' \subseteq files, previews' \subseteq previews \cup files
  PROVE  Segments' /\ Onward /\ Opened' = Opened
<1>1. Opened' = Opened /\ Onward
  BY DEF Opened, Onward
<1> QED
  BY <1>1 DEF Segments

LEMMA SameFiles ==
  ASSUME UNCHANGED <<stream, day, files>>
  PROVE  /\ \A f, row : Settled(f, row)' <=> Settled(f, row)
         /\ \A f, g : Sibling(f, g)' <=> Sibling(f, g)
         /\ \A rows : SettledRows(rows)' <=> SettledRows(rows)
<1>1. \A f, row : Settled(f, row)' <=> Settled(f, row)
  BY DEF Settled, Later, Opened
<1>2. \A f, g : Sibling(f, g)' <=> Sibling(f, g)
  BY DEF Sibling
<1> QED
  BY <1>1, <1>2 DEF SettledRows

(* Fewer rows are no less settled. *)
LEMMA FewerRows ==
  ASSUME Truth, NEW S
  PROVE  /\ SettledRows(Restricted(index, Rows \ S))
         /\ Restricted(index, Rows \ S) \in
              [DOMAIN Restricted(index, Rows \ S) -> Row]
         /\ DOMAIN Restricted(index, Rows \ S) = Rows \ S
<1>1. /\ DOMAIN Restricted(index, Rows \ S) = Rows \ S
      /\ \A f \in Rows \ S : Restricted(index, Rows \ S)[f] = index[f]
  BY DEF Restricted, Rows
<1>2. SettledRows(Restricted(index, Rows \ S))
  BY <1>1 DEF Truth, SettledRows, Rows
<1>3. Restricted(index, Rows \ S) \in [Rows \ S -> Row]
  BY DEF Truth, Restricted, Rows
<1> QED
  BY <1>1, <1>2, <1>3

LEMMA ClearKeeps == IInv /\ Clear => IInv'
<1> SUFFICES ASSUME IInv, Clear PROVE IInv'
  OBVIOUS
<1>1. Segments /\ Hands /\ Truth
  BY DEF IInv
<1>2. index' = <<>> /\ UNCHANGED <<diskVars, pass, blind, today>>
  BY DEF Clear
<1>3. UNCHANGED <<stream, day, torn, writing, files, previews, visible>>
  BY <1>2 DEF diskVars
<1>4. Segments' /\ Onward /\ Opened' = Opened
  BY <1>1, <1>2, <1>3, DiskStays
<1>5. Hands'
  BY <1>1, <1>2, <1>4, HandsStay
<1>6. Rows' = {} /\ index' \in [Rows' -> Row]
  BY <1>2 DEF Rows
<1>7. SettledRows(index)'
  BY <1>6 DEF SettledRows, Rows
<1>8. ASSUME NEW new, SettledRows(Upserted(index, new))
      PROVE  SettledRows(Upserted(index, new))'
  <2> PICK none : none = index'
    OBVIOUS
  <2>1. /\ DOMAIN Upserted(none, new) = DOMAIN new
        /\ DOMAIN new \subseteq DOMAIN Upserted(index, new)
        /\ \A f \in DOMAIN new : Upserted(none, new)[f] = new[f]
        /\ \A f \in DOMAIN new : Upserted(index, new)[f] = new[f]
    BY <1>6 DEF Upserted, Rows
  <2>2. SettledRows(Upserted(none, new))
    BY <1>8, <2>1 DEF SettledRows
  <2>3. SettledRows(Upserted(none, new))'
    BY <1>3, <2>2, SameFiles
  <2> QED
    BY <2>3
<1>9. pass.pc \in {"scan", "upsert"} => SettledRows(Upserted(index, pass.changed))'
  <2> HAVE pass.pc \in {"scan", "upsert"}
  <2> PICK new : new = pass.changed
    OBVIOUS
  <2>1. SettledRows(Upserted(index, new))'
    BY <1>1, <1>8 DEF Truth
  <2> QED
    BY <1>2, <2>1
<1>10. pass.pc = "extract" =>
         /\ \A f \in DOMAIN pass.rows : Settled(f, pass.rows[f])'
         /\ SettledRows(Upserted(index, pass.rows))'
  <2> HAVE pass.pc = "extract"
  <2> PICK new : new = pass.rows
    OBVIOUS
  <2>1. SettledRows(Upserted(index, new))' /\ \A f \in DOMAIN new : Settled(f, new[f])'
    BY <1>1, <1>3, <1>8, SameFiles DEF Truth
  <2> QED
    BY <1>2, <2>1
<1>11. Truth'
  BY <1>2, <1>6, <1>7, <1>9, <1>10 DEF Truth, Rows
<1> QED
  BY <1>4, <1>5, <1>11 DEF IInv

(* Between the scan and the previews, and after them, the index is all     *)
(* that has to be true.                                                    *)
LEMMA TrueAgain ==
  ASSUME NEW rows, index' = rows, rows \in [DOMAIN rows -> Row], DOMAIN rows \subseteq Opened',
         SettledRows(rows)', pass'.pc \notin {"scan", "upsert", "extract"}
  PROVE  Truth'
<1>1. SettledRows(index)'
  <2>1. SettledRows(rows)' => \A f, g \in DOMAIN rows : Sibling(f, g)' => Settled(f, rows[f])'
    BY DEF SettledRows
  <2> QED
    BY <2>1 DEF SettledRows
<1> QED
  BY <1>1 DEF Truth, Rows

LEMMA SameIndex ==
  ASSUME Truth, UNCHANGED <<stream, day, files, index>>,
         pass'.pc \notin {"scan", "upsert", "extract"}
  PROVE  Truth'
<1> PICK rows : rows = index
  OBVIOUS
<1>1. SettledRows(rows)' /\ Opened' = Opened
  BY SameFiles DEF Truth, Opened
<1> QED
  BY <1>1, TrueAgain DEF Truth, Rows

LEMMA BeginKeeps == IInv /\ Begin => IInv'
<1> SUFFICES ASSUME IInv, Begin PROVE IInv'
  OBVIOUS
<1>1. Segments /\ Hands /\ Truth
  BY DEF IInv
<1>2. /\ pass' = [pc |-> "growing", known |-> Rows] /\ blind' = ~visible
      /\ UNCHANGED <<stream, day, torn, writing, files, previews, visible, index, today>>
  BY DEF Begin, diskVars
<1>3. Opened' = Opened
  BY <1>2 DEF Opened
<1>4. blind' \in BOOLEAN /\ visible' \in BOOLEAN /\ (~blind' => visible')
  BY <1>1, <1>2 DEF Segments
<1>5. Segments'
  BY <1>1, <1>2, <1>3, <1>4 DEF Segments
<1>6. Hands'
  BY <1>1, <1>2, <1>3 DEF Hands, Truth
<1>7. Truth'
  BY <1>1, <1>2, SameIndex
<1> QED
  BY <1>5, <1>6, <1>7 DEF IInv

LEMMA ReadGrowingKeeps == IInv /\ ReadGrowing => IInv'
<1> SUFFICES ASSUME IInv, ReadGrowing PROVE IInv'
  OBVIOUS
<1>1. Segments /\ Hands /\ Truth
  BY DEF IInv
<1>2. /\ pass.pc = "growing"
      /\ pass' = [pc |-> "scan", known |-> pass.known, growing |-> NewestPerStream(Rows),
                  day |-> 0, seen |-> {}, changed |-> <<>>]
      /\ UNCHANGED <<stream, day, torn, writing, files, previews, visible, index, blind, today>>
  BY DEF ReadGrowing, diskVars
<1>3. Segments' /\ Opened' = Opened
  BY <1>1, <1>2, DiskStays
<1>4. Hands'
  <2>1. DOMAIN pass'.changed = {} /\ pass'.changed \in [DOMAIN pass'.changed -> Row]
    BY <1>2
  <2>2. \A f \in pass'.known \cap files' : ~(day'[f] < pass'.day)
    BY <1>1, <1>2 DEF Hands, Segments, Opened
  <2>3. pass'.known \subseteq Opened' /\ pass'.day \in 0 .. MaxDay
    BY <1>1, <1>2, <1>3, DayAssumption DEF Hands
  <2> QED
    BY <1>2, <2>1, <2>2, <2>3 DEF Hands
<1>5. \A f \in Rows : f \in NewestPerStream(Rows) \/ Settled(f, index[f])
  <2> SUFFICES ASSUME NEW f \in Rows, f \notin NewestPerStream(Rows) PROVE Settled(f, index[f])
    OBVIOUS
  <2>1. PICK g \in Rows : Sibling(f, g)
    BY <1>1, Newest DEF Truth
  <2> QED
    BY <1>1, <2>1 DEF Truth, SettledRows, Rows
<1>6. Truth'
  <2> PICK rows, new : rows = index /\ new = pass'.changed
    OBVIOUS
  <2>1. Upserted(rows, new) = rows
    BY <1>1, <1>2 DEF Upserted, Truth, Rows
  <2>2. SettledRows(rows)' /\ SettledRows(Upserted(rows, new))'
    BY <1>1, <1>2, <2>1, SameFiles DEF Truth
  <2>3. \A f \in Rows : f \in NewestPerStream(Rows) \/ Settled(f, rows[f])'
    BY <1>2, <1>5, SameFiles
  <2> QED
    BY <1>1, <1>2, <1>3, <2>2, <2>3 DEF Truth, Rows
<1> QED
  BY <1>3, <1>4, <1>6 DEF IInv

(* What a day's directory shows is final or is being written, and then     *)
(* nothing after it has been opened.                                       *)
LEMMA ScanDayKeeps == IInv /\ ScanDay => IInv'
<1> SUFFICES ASSUME IInv, ScanDay PROVE IInv'
  OBVIOUS
<1>1. Segments /\ Hands /\ Truth
  BY DEF IInv
<1> PICK there, seen, fresh, found :
      /\ there = IF visible THEN {f \in files : day[f] = pass.day} ELSE {}
      /\ seen = pass.seen \cup there
      /\ fresh = [f \in Refreshed(there) |-> Facts(f)]
      /\ found = Upserted(pass.changed, fresh)
  OBVIOUS
<1>2. /\ pass.pc = "scan"
      /\ pass' = IF pass.day < MaxDay
                 THEN [pass EXCEPT !.day = @ + 1, !.seen = seen, !.changed = found]
                 ELSE [pc |-> "upsert", changed |-> found, vanished |-> Vanished(pass.known, seen)]
      /\ UNCHANGED <<stream, day, torn, writing, files, previews, visible, index, blind, today>>
  BY DEF ScanDay, diskVars
<1>3. Segments' /\ Opened' = Opened
  BY <1>1, <1>2, DiskStays
<1> PICK known, growing, d, changed, idx :
      /\ known = pass.known /\ growing = pass.growing
      /\ d = pass.day /\ changed = pass.changed /\ idx = index
  OBVIOUS
<1>4. /\ known \subseteq Opened /\ d \in 0 .. MaxDay
      /\ changed \in [DOMAIN changed -> Row] /\ DOMAIN changed \subseteq Opened
      /\ \A f \in DOMAIN changed : day[f] < d
      /\ ~blind => \A f \in known \cap files : day[f] < d => f \in pass.seen
      /\ pass = [pc |-> "scan", known |-> known, growing |-> growing,
                 day |-> d, seen |-> pass.seen, changed |-> changed]
  BY <1>1, <1>2 DEF Hands
<1>5. /\ idx \in [DOMAIN idx -> Row] /\ DOMAIN idx \subseteq Opened
      /\ SettledRows(idx) /\ SettledRows(Upserted(idx, changed))
      /\ \A f \in DOMAIN idx : f \in growing \/ Settled(f, idx[f])
  BY <1>1, <1>2 DEF Truth, Rows
<1>6. /\ there \subseteq files /\ files \subseteq Opened
      /\ \A f \in there : visible /\ day[f] = d
      /\ visible => \A f \in files : day[f] = d => f \in there
      /\ \A f \in Opened : f \in Nat /\ day[f] \in Nat
  BY <1>1 DEF Segments, Opened
<1>6a. d \in Nat /\ MaxDay \in Nat /\ d <= MaxDay /\ \A f \in Opened : day[f] <= MaxDay
  BY <1>1, <1>4, <1>6, DayAssumption DEF Segments
<1>7. /\ DOMAIN fresh = there \ (known \ growing)
      /\ \A f \in DOMAIN fresh : fresh[f] = Facts(f)
  BY DEF Refreshed
<1>8. \A f \in DOMAIN fresh : fresh[f] \in Row
  BY <1>7 DEF Facts, Row
<1>9. /\ DOMAIN found = DOMAIN changed \cup DOMAIN fresh
      /\ \A f \in DOMAIN fresh : found[f] = fresh[f]
      /\ \A f \in DOMAIN changed \ DOMAIN fresh : found[f] = changed[f]
      /\ found \in [DOMAIN found -> Row]
  BY <1>4, <1>8 DEF Upserted
(* the fresh facts *)
<1>10. ASSUME NEW f \in DOMAIN fresh, NEW g \in Opened, Sibling(f, g) PROVE fresh[f].final
  <2>1. f \in Opened /\ fresh[f].final = \A s \in Streams : writing[s] # f
    BY <1>6, <1>7, <1>10 DEF Facts
  <2>2. /\ f # 0 /\ f \in Nat /\ g \in Nat /\ f < g /\ stream[g] = stream[f]
        /\ \A s \in Streams : writing[s] = f => stream[f] = s /\ g <= f
    BY <1>1, <1>10, <2>1 DEF Segments, Sibling, Opened
  <2>3. \A s \in Streams : writing[s] # f
    BY <2>2
  <2> QED
    BY <2>1, <2>3, Zenon
(* the index as it will be *)
<1>11. SettledRows(Upserted(idx, found))
  <2> SUFFICES ASSUME NEW f \in DOMAIN idx \cup DOMAIN found,
                      NEW g \in DOMAIN idx \cup DOMAIN found, Sibling(f, g)
               PROVE  Settled(f, Upserted(idx, found)[f])
    BY DEF SettledRows, Upserted
  <2>0. f \in Opened /\ g \in Opened
    BY <1>4, <1>5, <1>6, <1>7, <1>9
  <2>1. f \in Opened /\ g \in Opened /\ f < g /\ day[f] <= day[g]
    BY <1>1, <1>6, <2>0 DEF Sibling, Segments
  <2>2. CASE f \in DOMAIN fresh
    <3>1. Upserted(idx, found)[f] = fresh[f]
      BY <1>9, <2>2 DEF Upserted
    <3>2. fresh[f].final
      BY <1>10, <2>1, <2>2
    <3> QED
      BY <3>1, <3>2, Zenon DEF Settled
  <2>3. CASE f \notin DOMAIN fresh /\ g \notin DOMAIN fresh
    <3>1. f \in DOMAIN Upserted(idx, changed) /\ g \in DOMAIN Upserted(idx, changed)
      BY <1>9, <2>3 DEF Upserted
    <3>2. Upserted(idx, found)[f] = Upserted(idx, changed)[f]
      BY <1>9, <2>3 DEF Upserted
    <3> QED
      BY <1>5, <3>1, <3>2 DEF SettledRows
  <2>4. CASE f \notin DOMAIN fresh /\ g \in DOMAIN fresh
    <3>1. visible /\ day[g] = d
      BY <1>6, <1>7, <2>4
    <3>2. CASE f \notin files
      BY <3>2 DEF Settled
    <3>3. CASE day[f] < day[g]
      <4>1. Later(f)
        BY <1>1, <2>1, <3>3, LaterDay
      <4> QED
        BY <4>1 DEF Settled
    <3>4. CASE f \in files /\ day[f] = d
      <4>1. f \in there /\ f \in known /\ f \notin growing
        BY <1>6, <1>7, <2>4, <3>1, <3>4
      <4>2. f \notin DOMAIN changed
        BY <1>4, <1>6, <2>1, <3>4
      <4>3. f \in DOMAIN idx /\ Upserted(idx, found)[f] = idx[f]
        BY <1>9, <2>4, <4>2 DEF Upserted
      <4> QED
        BY <1>5, <4>1, <4>3
    <3> QED
      BY <1>6, <2>1, <3>1, <3>2, <3>3, <3>4
  <2> QED
    BY <2>2, <2>3, <2>4
<1>12. ~blind => \A f \in known \cap files : day[f] < d + 1 => f \in seen
  <2> SUFFICES ASSUME ~blind, NEW f \in known \cap files, day[f] < d + 1 PROVE f \in seen
    OBVIOUS
  <2>1. visible
    BY <1>1 DEF Segments
  <2>2. day[f] < d \/ day[f] = d
    BY <1>4, <1>6
  <2> QED
    BY <1>4, <1>6, <2>1, <2>2
<1>13. SettledRows(idx)' /\ SettledRows(Upserted(idx, found))'
  BY <1>2, <1>5, <1>11, SameFiles
<1>14. CASE d < MaxDay
  <2>1. pass' = [pc |-> "scan", known |-> known, growing |-> growing,
                 day |-> d + 1, seen |-> seen, changed |-> found]
    BY <1>2, <1>4, <1>14
  <2>2. d + 1 \in 0 .. MaxDay /\ \A f \in DOMAIN found : day[f] < d + 1
    <3>1. \A f \in DOMAIN changed : f \in Opened /\ day[f] < d
      BY <1>4
    <3>2. \A f \in DOMAIN fresh : f \in Opened /\ day[f] = d
      BY <1>6, <1>7
    <3>3. \A f \in DOMAIN found : f \in Opened /\ (day[f] < d \/ day[f] = d)
      BY <1>9, <3>1, <3>2
    <3>4. \A f \in DOMAIN found : day[f] < d + 1
      <4> TAKE f \in DOMAIN found
      <4>1. day[f] \in Nat /\ (day[f] < d \/ day[f] = d)
        BY <1>6, <3>3
      <4>2. d \in Nat
        BY <1>6a
      <4> QED
        BY <4>1, <4>2
    <3>5. d \in Nat /\ MaxDay \in Nat /\ d < MaxDay
      BY <1>6a, <1>14
    <3>6. d + 1 \in 0 .. MaxDay
      BY <3>5
    <3> QED
      BY <3>4, <3>6
  <2>3. DOMAIN found \subseteq Opened
    BY <1>4, <1>6, <1>7, <1>9
  <2>4. Hands'
    <3>1. /\ pass'.pc = "scan" /\ pass'.known = known /\ pass'.growing = growing
          /\ pass'.day = d + 1 /\ pass'.seen = seen /\ pass'.changed = found
      BY <2>1
    <3>2. pass' = [pc |-> "scan", known |-> pass'.known, growing |-> pass'.growing,
                   day |-> pass'.day, seen |-> pass'.seen, changed |-> pass'.changed]
      BY <2>1, <3>1
    <3>3. ~blind' => \A f \in pass'.known \cap files' : day'[f] < pass'.day => f \in pass'.seen
      BY <1>2, <1>12, <3>1
    <3>4. \A f \in DOMAIN pass'.changed : day'[f] < pass'.day
      BY <1>2, <2>2, <3>1
    <3>5. /\ pass'.known \subseteq Opened' /\ pass'.day \in 0 .. MaxDay
          /\ pass'.changed \in [DOMAIN pass'.changed -> Row]
          /\ DOMAIN pass'.changed \subseteq Opened'
      BY <1>3, <1>4, <1>9, <2>2, <2>3, <3>1
    <3> QED
      BY <3>1, <3>2, <3>3, <3>4, <3>5 DEF Hands
  <2>5. \A f \in DOMAIN idx : f \in growing \/ Settled(f, idx[f])'
    BY <1>2, <1>5, SameFiles
  <2>6. Truth'
    BY <1>2, <1>3, <1>5, <1>13, <2>1, <2>5 DEF Truth, Rows
  <2> QED
    BY <1>3, <2>4, <2>6 DEF IInv
<1>15. CASE ~(d < MaxDay)
  <2>1. pass' = [pc |-> "upsert", changed |-> found, vanished |-> known \ seen]
    BY <1>2, <1>15 DEF Vanished
  <2>2. ~blind => (known \ seen) \cap files = {}
    <3> SUFFICES ASSUME ~blind, NEW f \in known \cap files PROVE f \in seen
      OBVIOUS
    <3>1. day[f] < d + 1
      BY <1>4, <1>6, <1>15, <1>6a
    <3> QED
      BY <1>12, <3>1
  <2>3. DOMAIN found \subseteq Opened
    BY <1>4, <1>6, <1>7, <1>9
  <2>4. Hands'
    <3>1. pass'.pc = "upsert" /\ pass'.changed = found /\ pass'.vanished = known \ seen
      BY <2>1
    <3>2. /\ pass'.changed \in [DOMAIN pass'.changed -> Row]
          /\ DOMAIN pass'.changed \subseteq Opened' /\ pass'.vanished \subseteq Opened'
      BY <1>3, <1>4, <1>9, <2>3, <3>1
    <3>3. ~blind' => pass'.vanished \cap files' = {}
      BY <1>2, <2>2, <3>1
    <3> QED
      BY <3>1, <3>2, <3>3 DEF Hands
  <2>5. Truth'
    <3>1. pass'.pc = "upsert" /\ pass'.changed = found
      BY <2>1
    <3>2. index' = idx
      BY <1>2
    <3> QED
      BY <1>3, <1>5, <1>13, <3>1, <3>2 DEF Truth, Rows
  <2> QED
    BY <1>3, <2>4, <2>5 DEF IInv
<1> QED
  BY <1>14, <1>15

LEMMA UpsertScannedKeeps == IInv /\ UpsertScanned => IInv'
<1> SUFFICES ASSUME IInv, UpsertScanned PROVE IInv'
  OBVIOUS
<1>1. Segments /\ Hands /\ Truth
  BY DEF IInv
<1> PICK rows : rows = Upserted(index, pass.changed)
  OBVIOUS
<1>2. /\ pass.pc = "upsert" /\ index' = rows
      /\ pass' = [pc |-> "forget", vanished |-> pass.vanished]
      /\ UNCHANGED <<stream, day, torn, writing, files, previews, visible, blind, today>>
  BY DEF UpsertScanned, diskVars
<1>3. Segments' /\ Opened' = Opened
  BY <1>1, <1>2, DiskStays
<1>4. Hands'
  BY <1>1, <1>2, <1>3 DEF Hands
<1>5. rows \in [DOMAIN rows -> Row] /\ DOMAIN rows \subseteq Opened
  BY <1>1, <1>2 DEF Hands, Truth, Upserted, Rows
<1>6. SettledRows(rows)'
  BY <1>1, <1>2, SameFiles DEF Truth
<1>7. Truth'
  BY <1>2, <1>3, <1>5, <1>6, TrueAgain
<1> QED
  BY <1>3, <1>4, <1>7 DEF IInv

(* What vanished or was removed leaves the index, and nothing else does. *)
LEMMA ForgetKeeps == IInv /\ (ForgetVanished \/ ForgetRemoved) => IInv'
<1> SUFFICES ASSUME IInv, ForgetVanished \/ ForgetRemoved PROVE IInv'
  OBVIOUS
<1>1. Segments /\ Hands /\ Truth
  BY DEF IInv
<1> PICK gone : gone = IF ForgetVanished THEN pass.vanished ELSE pass.removed
  OBVIOUS
<1> PICK rows : rows = Restricted(index, Rows \ gone)
  OBVIOUS
<1>2. /\ index' = rows
      /\ pass' \in {[pc |-> "previews"], Idle}
      /\ UNCHANGED <<stream, day, torn, writing, files, previews, visible, blind, today>>
  BY DEF ForgetVanished, ForgetRemoved, diskVars
<1>3. Segments' /\ Opened' = Opened
  BY <1>1, <1>2, DiskStays
<1>4. Hands'
  BY <1>2 DEF Hands, Idle
<1>5. rows \in [DOMAIN rows -> Row] /\ DOMAIN rows \subseteq Opened /\ SettledRows(rows)
  <2>1. /\ SettledRows(rows) /\ rows \in [DOMAIN rows -> Row]
        /\ DOMAIN rows = Rows \ gone
    BY <1>1, FewerRows
  <2> QED
    BY <1>1, <2>1 DEF Truth
<1>6. SettledRows(rows)'
  BY <1>2, <1>5, SameFiles
<1>7. Truth'
  BY <1>2, <1>3, <1>5, <1>6, TrueAgain DEF Idle
<1> QED
  BY <1>3, <1>4, <1>7 DEF IInv

LEMMA ReadPendingKeeps == IInv /\ ReadPending => IInv'
<1> SUFFICES ASSUME IInv, ReadPending PROVE IInv'
  OBVIOUS
<1>1. Segments /\ Hands /\ Truth
  BY DEF IInv
<1> PICK idx, rows, batch :
      idx = index /\ rows = Restricted(index, Batch) /\ batch = Batch
  OBVIOUS
<1>2. /\ pass.pc = "previews" /\ index' = idx
      /\ pass' = IF batch = {} THEN [pc |-> "plan"]
                 ELSE [pc |-> "extract", todo |-> batch, rows |-> rows, made |-> {}]
      /\ UNCHANGED <<stream, day, torn, writing, files, previews, visible, blind, today>>
  BY DEF ReadPending, diskVars
<1>3. Segments' /\ Opened' = Opened
  BY <1>1, <1>2, DiskStays
<1>4. batch \subseteq DOMAIN idx /\ \A f \in batch : f \notin NewestPerStream(Rows)
  BY DEF Batch, Pending, Rows
<1>5. /\ DOMAIN rows = batch /\ rows \in [batch -> Row]
      /\ \A f \in batch : rows[f] = idx[f]
  BY <1>1, <1>4 DEF Restricted, Truth, Rows
<1>6. \A f \in batch : Settled(f, rows[f])
  <2> TAKE f \in batch
  <2>1. PICK g \in Rows : Sibling(f, g)
    BY <1>1, <1>4, Newest DEF Truth, Rows
  <2> QED
    BY <1>1, <1>4, <1>5, <2>1 DEF Truth, SettledRows, Rows
<1>7. Upserted(idx, rows) = idx
  BY <1>1, <1>4, <1>5 DEF Upserted, Truth, Rows
<1>8. /\ SettledRows(idx)' /\ SettledRows(Upserted(idx, rows))'
      /\ \A f \in batch : Settled(f, rows[f])'
  BY <1>1, <1>2, <1>6, <1>7, SameFiles DEF Truth
<1>9. CASE batch = {}
  <2>1. pass' = [pc |-> "plan"]
    BY <1>2, <1>9
  <2>2. Hands'
    BY <2>1 DEF Hands
  <2>3. Truth'
    BY <1>1, <1>2, <2>1, SameIndex
  <2> QED
    BY <1>3, <2>2, <2>3 DEF IInv
<1>10. CASE batch # {}
  <2>1. pass' = [pc |-> "extract", todo |-> batch, rows |-> rows, made |-> {}]
    BY <1>2, <1>10
  <2>2. Hands'
    <3>1. rows \in [DOMAIN rows -> Row] /\ DOMAIN rows \subseteq Opened'
      BY <1>1, <1>3, <1>4, <1>5 DEF Truth, Rows
    <3> QED
      BY <1>5, <2>1, <3>1 DEF Hands
  <2>3. Truth'
    BY <1>1, <1>2, <1>3, <1>5, <1>8, <2>1 DEF Truth, Rows
  <2> QED
    BY <1>3, <2>2, <2>3 DEF IInv
<1> QED
  BY <1>9, <1>10

LEMMA LeastOf ==
  ASSUME NEW S \in SUBSET Nat, S # {}
  PROVE  Min(S) \in S
<1>1. PICK m \in S : \A k \in S : ~ (<<k, m>> \in OpToRel(<, Nat))
  BY NatLessThanWellFounded, WFMin, Zenon
<1>2. \A k \in S : ~ (k < m)
  BY <1>1 DEF OpToRel
<1>3. \E n \in S : \A k \in S : n <= k
  BY <1>2
<1> QED
  BY <1>3 DEF Min

LEMMA OneMore ==
  ASSUME NEW p, NEW q, NEW f,
         p = [pc |-> "extract", todo |-> p.todo, rows |-> p.rows, made |-> p.made],
         q = [p EXCEPT !.todo = @ \ {f}, !.made = @ \cup {f}]
  PROVE  /\ q = [pc |-> q.pc, todo |-> q.todo, rows |-> q.rows, made |-> q.made]
         /\ q.pc = "extract" /\ q.rows = p.rows
         /\ q.todo = p.todo \ {f} /\ q.made = p.made \cup {f}
<1>1. /\ q.pc = "extract" /\ q.rows = p.rows
      /\ q.todo = p.todo \ {f} /\ q.made = p.made \cup {f}
  OBVIOUS
<1>2. q = [pc |-> q.pc, todo |-> q.todo, rows |-> q.rows, made |-> q.made]
  OBVIOUS
<1> QED
  BY <1>1, <1>2

LEMMA ExtractKeeps == IInv /\ Extract => IInv'
<1> SUFFICES ASSUME IInv, Extract PROVE IInv'
  OBVIOUS
<1>1. Segments /\ Hands /\ Truth
  BY DEF IInv
<1> PICK f, rows : f = Min(pass.todo) /\ rows = pass.rows
  OBVIOUS
<1>2. /\ pass.pc = "extract" /\ pass.todo # {}
      /\ previews' \in {previews, previews \cup {f}} /\ (previews' # previews => f \in files)
      /\ pass' = [pass EXCEPT !.todo = @ \ {f}, !.made = @ \cup {f}]
         \/ pass' = [pass EXCEPT !.todo = @ \ {f}]
      /\ UNCHANGED <<stream, day, torn, writing, files, visible, index, blind, today>>
  BY DEF Extract
<1>3. Segments' /\ Opened' = Opened
  BY <1>1, <1>2, DiskStays
<1>4. /\ pass = [pc |-> "extract", todo |-> pass.todo, rows |-> rows, made |-> pass.made]
      /\ rows \in [DOMAIN rows -> Row] /\ DOMAIN rows \subseteq Opened
      /\ pass.todo \subseteq DOMAIN rows /\ pass.made \subseteq DOMAIN rows
  BY <1>1, <1>2 DEF Hands
<1>5. f \in pass.todo
  <2>1. pass.todo \in SUBSET Nat
    BY <1>4 DEF Opened
  <2> QED
    BY <1>2, <2>1, LeastOf
<1>6. /\ pass' = [pc |-> "extract", todo |-> pass'.todo, rows |-> rows, made |-> pass'.made]
      /\ pass'.pc = "extract" /\ pass'.rows = rows
      /\ pass'.todo \cup pass'.made \subseteq DOMAIN rows
  <2>1. CASE pass' = [pass EXCEPT !.todo = @ \ {f}, !.made = @ \cup {f}]
    <3>1. /\ pass' = [pc |-> pass'.pc, todo |-> pass'.todo, rows |-> pass'.rows,
                      made |-> pass'.made]
          /\ pass'.pc = "extract" /\ pass'.rows = rows
          /\ pass'.todo = pass.todo \ {f} /\ pass'.made = pass.made \cup {f}
      BY <1>4, <2>1, OneMore
    <3> QED
      BY <1>4, <1>5, <3>1
  <2>2. CASE pass' = [pass EXCEPT !.todo = @ \ {f}]
    <3>1. pass' = [pc |-> "extract", todo |-> pass.todo \ {f}, rows |-> rows,
                   made |-> pass.made]
      BY <1>4, <2>2
    <3> QED
      BY <1>4, <1>5, <3>1
  <2> QED
    BY <1>2, <2>1, <2>2
<1>7. Hands'
  BY <1>3, <1>4, <1>6 DEF Hands
<1>8. Truth'
  <2>1. /\ \A g \in DOMAIN rows : Settled(g, rows[g])'
        /\ SettledRows(index)'
        /\ SettledRows(Upserted(index, rows))'
    <3> PICK idx : idx = index
      OBVIOUS
    <3>1. /\ \A g \in DOMAIN rows : Settled(g, rows[g])'
          /\ SettledRows(idx)'
          /\ SettledRows(Upserted(idx, rows))'
      BY <1>1, <1>2, SameFiles DEF Truth
    <3> QED
      BY <1>2, <3>1
  <2> QED
    BY <1>1, <1>2, <1>3, <1>6, <2>1 DEF Truth, Rows
<1> QED
  BY <1>3, <1>7, <1>8 DEF IInv

(* The rows that go back are those that were read, as true as they were.   *)
LEMMA UpsertPreviewsKeeps == IInv /\ UpsertPreviews => IInv'
<1> SUFFICES ASSUME IInv, UpsertPreviews PROVE IInv'
  OBVIOUS
<1>1. Segments /\ Hands /\ Truth
  BY DEF IInv
<1> PICK idx, rows, made :
      idx = index /\ rows = pass.rows /\ made = pass.made
  OBVIOUS
<1> DEFINE back == [f \in made |-> [rows[f] EXCEPT !.has_thumbnail = TRUE]]
           new  == Upserted(idx, back)
<1>2. /\ pass.pc = "extract" /\ index' = new /\ pass' = [pc |-> "plan"]
      /\ UNCHANGED <<stream, day, torn, writing, files, previews, visible, blind, today>>
  BY DEF UpsertPreviews, diskVars
<1>3. Segments' /\ Opened' = Opened
  BY <1>1, <1>2, DiskStays
<1>4. /\ rows \in [DOMAIN rows -> Row] /\ DOMAIN rows \subseteq Opened
      /\ made \subseteq DOMAIN rows
  BY <1>1, <1>2 DEF Hands
<1>5. /\ idx \in [DOMAIN idx -> Row] /\ DOMAIN idx \subseteq Opened
      /\ SettledRows(Upserted(idx, rows))
      /\ \A f \in DOMAIN rows : Settled(f, rows[f])
      /\ \A f \in DOMAIN idx \cap DOMAIN rows : idx[f] = rows[f]
  BY <1>1, <1>2 DEF Truth, Rows
<1>6. \A f \in made : back[f] \in Row /\ (rows[f].final => back[f].final)
  <2> TAKE f \in made
  <2>1. rows[f] \in Row
    BY <1>4
  <2>2. \A r \in Row : [r EXCEPT !.has_thumbnail = TRUE] \in Row
    BY DEF Row
  <2>3. \A r \in Row : [r EXCEPT !.has_thumbnail = TRUE].final = r.final
    BY DEF Row
  <2>4. back[f] = [rows[f] EXCEPT !.has_thumbnail = TRUE]
    OBVIOUS
  <2> HIDE DEF back
  <2> QED
    BY <2>1, <2>2, <2>3, <2>4, Zenon
<1>7. DOMAIN back = made
  OBVIOUS
<1> HIDE DEF back
<1>8. /\ DOMAIN new = DOMAIN idx \cup made
      /\ \A f \in made : new[f] = back[f]
      /\ \A f \in DOMAIN idx \ made : new[f] = idx[f]
  BY <1>7 DEF Upserted
<1>9. new \in [DOMAIN new -> Row] /\ DOMAIN new \subseteq Opened
  <2>1. \A f \in DOMAIN new : new[f] \in Row
    BY <1>5, <1>6, <1>8
  <2>2. new = [f \in DOMAIN new |-> new[f]]
    BY DEF Upserted
  <2> HIDE DEF new
  <2> QED
    BY <1>4, <1>5, <1>8, <2>1, <2>2
<1>10. SettledRows(new)
  <2> SUFFICES ASSUME NEW f \in DOMAIN new, NEW g \in DOMAIN new, Sibling(f, g)
               PROVE  Settled(f, new[f])
    BY DEF SettledRows
  <2>1. CASE f \in made
    <3>1. Settled(f, rows[f]) /\ (rows[f].final => new[f].final)
      BY <1>4, <1>5, <1>6, <1>8, <2>1
    <3> QED
      BY <3>1, Zenon DEF Settled
  <2>2. CASE f \notin made
    <3>1. f \in DOMAIN idx /\ new[f] = idx[f]
      BY <1>8, <2>2
    <3>2. /\ f \in DOMAIN Upserted(idx, rows) /\ g \in DOMAIN Upserted(idx, rows)
          /\ Upserted(idx, rows)[f] = idx[f]
      BY <1>4, <1>5, <1>8, <3>1 DEF Upserted
    <3> QED
      BY <1>5, <3>1, <3>2 DEF SettledRows
  <2> QED
    BY <2>1, <2>2
<1>11. SettledRows(new)'
  <2> PICK same : same = new
    OBVIOUS
  <2>1. SettledRows(same)'
    BY <1>2, <1>10, SameFiles
  <2> QED
    BY <2>1
<1>12. Truth'
  BY <1>2, <1>3, <1>9, <1>11, TrueAgain
<1>13. Hands'
  BY <1>2 DEF Hands
<1> QED
  BY <1>3, <1>12, <1>13 DEF IInv

LEMMA PlanKeeps == IInv /\ Plan => IInv'
<1> SUFFICES ASSUME IInv, Plan PROVE IInv'
  OBVIOUS
<1>1. Segments /\ Hands /\ Truth
  BY DEF IInv
<1>2. PICK k \in 1 .. Len(stream) + 1 :
        pass' = IF {f \in Deletable : f < k} = {} THEN Idle
                ELSE [pc |-> "delete", doomed |-> {f \in Deletable : f < k}]
  BY DEF Plan
<1> PICK doomed : doomed = {f \in Deletable : f < k}
  OBVIOUS
<1>3. UNCHANGED <<stream, day, torn, writing, files, previews, visible, index, blind, today>>
  BY DEF Plan, diskVars
<1>4. Segments' /\ Opened' = Opened
  BY <1>1, <1>3, DiskStays
<1>5. doomed \subseteq Opened /\ \A f \in doomed : \E g \in Opened : Sibling(f, g)
  <2>1. doomed \subseteq Rows \ NewestPerStream(Rows) /\ Rows \subseteq Opened
    BY <1>1 DEF Deletable, Truth
  <2>2. ASSUME NEW f \in doomed PROVE \E g \in Rows : Sibling(f, g)
    BY <2>1, Newest
  <2> QED
    BY <2>1, <2>2
<1>6. pass' \in {Idle, [pc |-> "delete", doomed |-> doomed]}
  BY <1>2
<1>7. Hands'
  BY <1>3, <1>4, <1>5, <1>6, SameFiles DEF Hands, Idle
<1>8. Truth'
  BY <1>1, <1>3, <1>6, SameIndex DEF Idle
<1> QED
  BY <1>4, <1>7, <1>8 DEF IInv

LEMMA DeleteFilesKeeps == IInv /\ DeleteFiles => IInv'
<1> SUFFICES ASSUME IInv, DeleteFiles PROVE IInv'
  OBVIOUS
<1>1. Segments /\ Hands /\ Truth
  BY DEF IInv
<1>2. PICK failed \in SUBSET (pass.doomed \cap files) :
        /\ files' = IF visible THEN files \ (pass.doomed \ failed) ELSE files
        /\ previews' = IF visible THEN previews \ (pass.doomed \ failed) ELSE previews
        /\ pass' = [pc |-> "drop", removed |-> pass.doomed \ failed]
  BY DEF DeleteFiles, Removed
<1>3. pass.pc = "delete" /\ UNCHANGED <<stream, day, torn, writing, visible, index, blind, today>>
  BY DEF DeleteFiles
<1>4. Segments' /\ Onward /\ Opened' = Opened
  BY <1>1, <1>2, <1>3, DiskStays
<1>5. Hands'
  BY <1>1, <1>2, <1>3, <1>4 DEF Hands, Segments
<1>6. Truth'
  <2> PICK rows : rows = index
    OBVIOUS
  <2>1. SettledRows(rows)' /\ rows \in [DOMAIN rows -> Row] /\ DOMAIN rows \subseteq Opened
    BY <1>1, <1>4, RowsStay DEF Truth, Rows
  <2> QED
    BY <1>2, <1>3, <1>4, <2>1, TrueAgain
<1> QED
  BY <1>4, <1>5, <1>6 DEF IInv

LEMMA PassFailsKeeps == IInv /\ PassFails => IInv'
<1> SUFFICES ASSUME IInv, PassFails PROVE IInv'
  OBVIOUS
<1>1. Segments /\ Hands /\ Truth
  BY DEF IInv
<1>2. /\ pass' = Idle
      /\ UNCHANGED <<stream, day, torn, writing, files, previews, visible, index, blind, today>>
  BY DEF PassFails, diskVars
<1>3. Segments'
  BY <1>1, <1>2, DiskStays
<1>4. Hands'
  BY <1>2 DEF Hands, Idle
<1>5. Truth'
  BY <1>1, <1>2, SameIndex DEF Idle
<1> QED
  BY <1>3, <1>4, <1>5 DEF IInv

LEMMA InvStep == IInv /\ [Next]_vars => IInv'
<1> SUFFICES ASSUME IInv, [Next]_vars PROVE IInv'
  OBVIOUS
<1>1. PassStep => IInv'
  BY BeginKeeps, ReadGrowingKeeps, ScanDayKeeps, UpsertScannedKeeps, ForgetKeeps,
     ReadPendingKeeps, ExtractKeeps, UpsertPreviewsKeeps, PlanKeeps, DeleteFilesKeeps
  DEF PassStep
<1>2. PassFails \/ Clear => IInv'
  BY PassFailsKeeps, ClearKeeps
<1>3. ASSUME NEW s \in Streams, NextSegment(s) PROVE IInv'
  BY <1>3, NextSegmentKeeps
<1>4. ASSUME \/ \E s \in Streams : Dies(s)
             \/ Midnight \/ LocationGoes \/ LocationComes
             \/ \E f \in files : DeletedByHand(f)
             \/ UNCHANGED vars
      PROVE  IInv'
  BY <1>4, WorldKeeps
<1> QED
  BY <1>1, <1>2, <1>3, <1>4 DEF Next

-----------------------------------------------------------------------------
(* The index and a pass always have their types; in particular no row and  *)
(* no list a pass works through is of a segment that was never opened.     *)
THEOREM TypeCorrect == Spec => []TypeOK
<1>1. IInv => TypeOK
  BY DEF IInv, Segments, Hands, Truth, TypeOK, Row, Opened
<1> QED
  BY <1>1, InvInit, InvStep, PTL DEF Spec

(* Nothing finished keeps the size and the duration it had while it grew   *)
(* once a later segment of its stream and day is known (core/index.py:     *)
(* scan_incremental), whatever passes fail, locations vanish and rebuilds  *)
(* come in between.                                                        *)
THEOREM FactsAreSettled == Spec => []FactsSettle
<1>1. IInv => \A f \in (Rows \cap files) \ NewestPerStream(Rows) :
                \/ index[f].final
                \/ \E g \in Opened : stream[g] = stream[f] /\ day[g] > day[f]
  <2> SUFFICES ASSUME IInv, NEW f \in Rows, f \in files, f \notin NewestPerStream(Rows)
               PROVE  index[f].final \/ Later(f)
    BY DEF Later
  <2>1. PICK g \in Rows : Sibling(f, g)
    BY Newest DEF IInv, Truth
  <2>2. Settled(f, index[f])
    BY <2>1 DEF IInv, Truth, SettledRows, Rows
  <2> QED
    BY <2>2 DEF Settled
<1>2. IInv /\ TypeOK => FactsSettle
  BY <1>1, Zenon DEF FactsSettle
<1>3. Spec => []IInv
  BY InvInit, InvStep, PTL DEF Spec
<1> QED
  BY <1>2, <1>3, TypeCorrect, PTL

(* Retention never deletes the segment ffmpeg writes, though its list was  *)
(* made from an index that may have been out of date, and is worked        *)
(* through while ffmpeg goes on (core/index.py: newest_per_stream).        *)
THEOREM WhatIsWrittenStays == Spec => NeverDeletesWhatIsWritten
<1>1. IInv /\ [Next]_vars =>
        [pass.pc = "delete" /\ pass' # pass =>
           \A s \in Streams : writing[s] \in files => writing[s] \in files']_vars
  <2> SUFFICES ASSUME IInv, Next, pass.pc = "delete", pass' # pass,
                      NEW s \in Streams, writing[s] \in files
               PROVE  writing[s] \in files'
    OBVIOUS
  <2>1. DeleteFiles \/ PassFails
    BY DEF Next, PassStep, Begin, ReadGrowing, ScanDay, UpsertScanned, ForgetVanished,
           ReadPending, Extract, UpsertPreviews, Plan, ForgetRemoved, Clear, NextSegment,
           Dies, Midnight, LocationGoes, LocationComes, DeletedByHand, Idle
  <2>2. CASE PassFails
    BY <2>2 DEF PassFails, diskVars
  <2>3. CASE DeleteFiles
    <3>1. files' = files \/ \E gone \in SUBSET pass.doomed : files' = files \ gone
      BY <2>3 DEF DeleteFiles
    <3>2. writing[s] \notin pass.doomed
      <4> SUFFICES ASSUME writing[s] \in pass.doomed PROVE FALSE
        OBVIOUS
      <4>1. PICK g \in Opened : Sibling(writing[s], g)
        BY DEF IInv, Hands
      <4>2. writing[s] \in Opened
        BY DEF IInv, Segments
      <4>3. writing[s] \in Nat /\ writing[s] # 0 /\ g \in Nat
        BY <4>2 DEF Opened
      <4>4. stream[writing[s]] = s /\ (stream[g] = s => g <= writing[s])
        BY <4>3 DEF IInv, Segments
      <4> QED
        BY <4>1, <4>3, <4>4 DEF Sibling
    <3> QED
      BY <3>1, <3>2
  <2> QED
    BY <2>1, <2>2, <2>3
<1> QED
  BY <1>1, InvInit, InvStep, PTL DEF Spec, NeverDeletesWhatIsWritten

(* A pass during which the location was there all the time never makes the *)
(* index forget a file that is still on disk (maintenance.py: "Files go    *)
(* before the index does").                                                *)
THEOREM OnlyWhatIsGoneIsForgotten == Spec => ForgetsOnlyWhatIsGone
<1>1. IInv /\ [Next]_vars =>
        [pass.pc \in {"forget", "drop"} /\ pass' # pass /\ ~blind =>
           \A f \in Rows \ DOMAIN index' : f \notin files']_vars
  <2> SUFFICES ASSUME IInv, Next, pass.pc \in {"forget", "drop"}, pass' # pass, ~blind,
                      NEW f \in Rows \ DOMAIN index'
               PROVE  f \notin files'
    OBVIOUS
  <2>1. ForgetVanished \/ ForgetRemoved \/ PassFails
    BY DEF Next, PassStep, Begin, ReadGrowing, ScanDay, UpsertScanned, DeleteFiles,
           ReadPending, Extract, UpsertPreviews, Plan, Clear, NextSegment,
           Dies, Midnight, LocationGoes, LocationComes, DeletedByHand, Idle
  <2>2. CASE PassFails
    BY <2>2 DEF PassFails, Rows
  <2>3. CASE ForgetVanished
    BY <2>3 DEF ForgetVanished, diskVars, Restricted, Rows, IInv, Hands
  <2>4. CASE ForgetRemoved
    BY <2>4 DEF ForgetRemoved, diskVars, Restricted, Rows, IInv, Hands
  <2> QED
    BY <2>1, <2>2, <2>3, <2>4
<1> QED
  BY <1>1, InvInit, InvStep, PTL DEF Spec, ForgetsOnlyWhatIsGone
=============================================================================
