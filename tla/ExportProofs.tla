----------------------------- MODULE ExportProofs -----------------------------
(***************************************************************************)
(* Proofs about Export, for any layout of segments, any ranges and any     *)
(* number of dead processes and deletions: what the boxes of a recording   *)
(* look like at any moment, what an export hands to ffmpeg, which of its   *)
(* files are there at which await, what the timeline draws, and what a     *)
(* download delivers.                                                      *)
(***************************************************************************)
EXTENDS Export, FiniteSetTheorems, SequenceTheorems, WellFoundedInduction, TLAPS

(* A head, and behind it fragments of which only the last can be unpaired  *)
Shape(f) ==
  /\ f \in Files
  /\ FileSize(f) >= 2 /\ f.boxes[1] = "ftyp" /\ f.boxes[2] = "moov"
  /\ \A i \in 1 .. FileSize(f) - 1 : f.boxes[i] = "moof" => f.boxes[i + 1] = "mdat"

-----------------------------------------------------------------------------
(* The boxes of a file                                                     *)

LEMMA Greatest ==
  ASSUME NEW n \in Nat, NEW S \in SUBSET (0 .. n), S # {}
  PROVE  Max(S) \in S /\ \A k \in S : k <= Max(S)
<1> DEFINE T == {n - k : k \in S}
<1>1. T \in SUBSET Nat /\ T # {}
  <2>1. \A k \in S : k \in 0 .. n
    OBVIOUS
  <2>2. \A k \in S : n - k \in Nat
    BY <2>1
  <2> QED
    BY <2>2
<1>2. PICK m \in T : \A k \in T : ~ (<<k, m>> \in OpToRel(<, Nat))
  BY <1>1, NatLessThanWellFounded, WFMin, Zenon
<1>3. \A k \in T : ~ (k < m)
  BY <1>1, <1>2 DEF OpToRel
<1>4. PICK x \in S : m = n - x
  OBVIOUS
<1>5. \A k \in S : n - k \in T
  OBVIOUS
<1> HIDE DEF T
<1>6. \A k \in S : x >= k
  BY <1>3, <1>4, <1>5
<1> QED
  BY <1>6 DEF Max

LEMMA Pairing ==
  ASSUME NEW f \in Files
  PROVE  /\ FileSize(f) \in Nat /\ DOMAIN f.boxes = 1 .. FileSize(f) /\ f.cut \in BOOLEAN
         /\ PairEnds(f) \subseteq 2 .. FileSize(f)
         /\ LastPairEnd(f) \in PairEnds(f) \cup {0}
         /\ \A i \in PairEnds(f) : i <= LastPairEnd(f)
         /\ LastPairEnd(f) \in 0 .. FileSize(f)
<1>1. FileSize(f) \in Nat /\ DOMAIN f.boxes = 1 .. FileSize(f) /\ f.cut \in BOOLEAN
  BY DEF Files, FileSize
<1>2. PairEnds(f) \subseteq 2 .. FileSize(f)
  BY DEF PairEnds
<1>3. PairEnds(f) \cup {0} \in SUBSET (0 .. FileSize(f)) /\ PairEnds(f) \cup {0} # {}
  BY <1>1, <1>2
<1>4. /\ LastPairEnd(f) \in PairEnds(f) \cup {0}
      /\ \A i \in PairEnds(f) \cup {0} : i <= LastPairEnd(f)
  BY <1>1, <1>3, Greatest DEF LastPairEnd
<1> QED
  BY <1>1, <1>2, <1>3, <1>4

LEMMA PlayableIsNat ==
  ASSUME NEW f \in Files
  PROVE  playable_length(f) \in Nat
  BY Pairing DEF playable_length

(* A file none of which is cut off ends with a whole fragment.             *)
LEMMA IntactIsWhole ==
  ASSUME NEW f, Shape(f), playable_length(f) = FileSize(f)
  PROVE  ~Broken(f)
<1> f \in Files
  BY DEF Shape
<1>1. /\ FileSize(f) \in Nat /\ FileSize(f) >= 2 /\ f.cut \in BOOLEAN
      /\ LastPairEnd(f) \in PairEnds(f) \cup {0} /\ LastPairEnd(f) \in 0 .. FileSize(f)
      /\ \A i \in PairEnds(f) : i <= LastPairEnd(f)
  BY Pairing DEF Shape
<1>2. \A i \in PairEnds(f) : f.cut => i < FileSize(f)
  BY DEF PairEnds, Complete
<1>3. ~f.cut /\ ~DanglingMoof(f)
  BY <1>1, <1>2 DEF playable_length, Torn, DanglingMoof
<1>4. ASSUME NEW i \in 1 .. FileSize(f), f.boxes[i] = "moof"
      PROVE  i + 1 \in PairEnds(f)
  <2>1. i < FileSize(f)
    <3> SUFFICES ASSUME i = FileSize(f)
                 PROVE  FALSE
      BY <1>1
    <3>1. \A j \in PairEnds(f) : f.boxes[j] = "mdat"
      BY DEF PairEnds
    <3>2. LastPairEnd(f) # i
      BY <1>1, <1>4, <3>1
    <3>3. i > LastPairEnd(f)
      BY <1>1, <3>2
    <3> QED
      BY <1>3, <1>4, <3>3 DEF DanglingMoof
  <2>2. i + 1 \in 2 .. FileSize(f) /\ (i + 1) - 1 = i
    BY <1>1, <2>1
  <2>3. f.boxes[i + 1] = "mdat"
    BY <1>1, <1>4, <2>1 DEF Shape
  <2> QED
    BY <1>3, <1>4, <2>2, <2>3 DEF PairEnds, Complete
<1> QED
  BY <1>3, <1>4 DEF Broken

(* What is copied of a torn one does, too.                                 *)
LEMMA CopyIsWhole ==
  ASSUME NEW f, Shape(f), playable_length(f) # 0, NEW g,
         g = [boxes |-> SubSeq(f.boxes, 1, playable_length(f)), cut |-> FALSE],
         playable_length(f) # FileSize(f)
  PROVE  ~Broken(g)
<1>0. PICK n : n = playable_length(f)
  OBVIOUS
<1> f \in Files
  BY DEF Shape
<1>1. /\ FileSize(f) \in Nat /\ FileSize(f) >= 2 /\ f.cut \in BOOLEAN
      /\ n = LastPairEnd(f) /\ n \in PairEnds(f)
      /\ n \in 2 .. FileSize(f) /\ f.boxes \in Seq(Kinds)
  BY <1>0, Pairing DEF Shape, playable_length, Files
<1>2. f.boxes[n] = "mdat"
  BY <1>1 DEF PairEnds
<1>3. g.cut = FALSE /\ g.boxes = SubSeq(f.boxes, 1, n)
  BY <1>0
<1>4. FileSize(g) = n /\ \A i \in 1 .. n : g.boxes[i] = f.boxes[i]
  <2>1. \A i \in 1 .. n : f.boxes[i] \in Kinds
    BY <1>1 DEF FileSize
  <2>2. n \in Int /\ 1 \in Int /\ 1 <= n
    BY <1>1
  <2>3. /\ Len(SubSeq(f.boxes, 1, n)) = n
        /\ \A i \in 1 .. n : SubSeq(f.boxes, 1, n)[i] = f.boxes[i]
    <3>1. /\ Len(SubSeq(f.boxes, 1, n)) = IF 1 <= n THEN n - 1 + 1 ELSE 0
          /\ \A i \in 1 .. n - 1 + 1 : SubSeq(f.boxes, 1, n)[i] = f.boxes[1 + i - 1]
      BY <2>1, <2>2, SubSeqProperties
    <3> QED
      BY <2>2, <3>1
  <2> QED
    BY <1>3, <2>3 DEF FileSize
<1>5. ASSUME NEW i \in 1 .. FileSize(g), g.boxes[i] = "moof"
      PROVE  i + 1 \in PairEnds(g)
  <2>0. i \in 1 .. n /\ n \in Nat /\ f.boxes[i] = "moof"
    <3>1. n \in Nat
      BY <1>1
    <3>2. i \in 1 .. n
      BY <1>4
    <3>3. f.boxes[i] = g.boxes[i]
      BY <1>4, <3>2
    <3> QED
      BY <1>5, <3>1, <3>2, <3>3
  <2>1. i < n
    BY <1>2, <2>0
  <2>2. f.boxes[i + 1] = "mdat"
    <3>1. i \in 1 .. FileSize(f) - 1
      BY <1>1, <2>0, <2>1
    <3> QED
      BY <2>0, <3>1 DEF Shape
  <2>3. i + 1 \in 2 .. FileSize(g) /\ (i + 1) - 1 = i /\ g.boxes[i + 1] = "mdat"
    <3>1. i + 1 \in 1 .. n /\ i + 1 \in 2 .. n /\ (i + 1) - 1 = i
      BY <2>0, <2>1
    <3>2. g.boxes[i + 1] = f.boxes[i + 1]
      BY <1>4, <3>1
    <3> QED
      BY <1>4, <2>2, <3>1, <3>2
  <2> QED
    BY <1>3, <1>5, <2>3 DEF PairEnds, Complete
<1> QED
  BY <1>3, <1>5 DEF Broken

(* The player and the export agree on where a file ends.                   *)
LEMMA PlayerAgrees ==
  ASSUME NEW f, Shape(f)
  PROVE  LET index == fragment_index(f) IN
         /\ index.fragments = {} <=> playable_length(f) = 0
         /\ index.fragments # {} => index.data_end = playable_length(f)
<1> f \in Files
  BY DEF Shape
<1>1. /\ FileSize(f) \in Nat /\ FileSize(f) >= 2 /\ f.cut \in BOOLEAN
      /\ LastPairEnd(f) \in PairEnds(f) \cup {0}
      /\ PairEnds(f) \subseteq 2 .. FileSize(f)
      /\ \A i \in PairEnds(f) : i <= LastPairEnd(f)
  BY Pairing DEF Shape
<1>2. CASE PairEnds(f) = {}
  BY <1>1, <1>2 DEF fragment_index, playable_length
<1>3. CASE PairEnds(f) # {}
  <2>1. PICK j \in PairEnds(f) : TRUE
    BY <1>3
  <2>2. j # 2
    BY <1>1, <2>1 DEF Shape, PairEnds
  <2>3. Complete(f, 2)
    BY <1>1, <2>1, <2>2 DEF Complete
  <2>4. 2 \in {i \in 1 .. FileSize(f) : f.boxes[i] = "moov" /\ Complete(f, i)}
    BY <1>1, <2>3 DEF Shape
  <2>5. fragment_index(f).fragments = {i - 1 : i \in PairEnds(f)}
    BY <1>3, <2>4 DEF fragment_index
  <2>6. fragment_index(f).data_end = IF Torn(f) THEN LastPairEnd(f) ELSE FileSize(f)
    BY <1>3, <2>4 DEF fragment_index
  <2>7. LastPairEnd(f) # 0
    BY <1>1, <2>1
  <2>8. playable_length(f) = IF Torn(f) THEN LastPairEnd(f) ELSE FileSize(f)
    BY <2>7 DEF playable_length
  <2>9. playable_length(f) # 0
    BY <1>1, <2>7, <2>8
  <2> QED
    BY <1>3, <2>5, <2>6, <2>8, <2>9
<1> QED
  BY <1>2, <1>3

-----------------------------------------------------------------------------
(* How a segment can end has that shape, and what is written keeps it.     *)

LEMMA PairsOf ==
  ASSUME NEW n \in Nat
  PROVE  /\ Pairs(n) \in Seq(Kinds) /\ Len(Pairs(n)) = 2 * n
         /\ \A i \in 1 .. 2 * n : Pairs(n)[i] = IF i % 2 = 1 THEN "moof" ELSE "mdat"
<1>1. \A i \in 1 .. 2 * n : (IF i % 2 = 1 THEN "moof" ELSE "mdat") \in Kinds
  BY DEF Kinds
<1> QED
  BY <1>1 DEF Pairs

LEMMA Boxes ==
  ASSUME NEW n \in Nat
  PROVE  /\ Header \o Pairs(n) \in Seq(Kinds) /\ Len(Header \o Pairs(n)) = 2 * n + 2
         /\ (Header \o Pairs(n))[1] = "ftyp" /\ (Header \o Pairs(n))[2] = "moov"
         /\ \A i \in 3 .. 2 * n + 2 :
              (Header \o Pairs(n))[i] = IF i % 2 = 1 THEN "moof" ELSE "mdat"
<1>1. Header \in Seq(Kinds) /\ Len(Header) = 2 /\ Header[1] = "ftyp" /\ Header[2] = "moov"
  BY DEF Header, Kinds
<1>2. \A i \in 3 .. 2 * n + 2 : i - 2 \in 1 .. 2 * n /\ (i - 2) % 2 = i % 2
  OBVIOUS
<1>3. /\ Header \o Pairs(n) \in Seq(Kinds) /\ Len(Header \o Pairs(n)) = 2 * n + 2
      /\ \A i \in 1 .. 2 * n + 2 :
           (Header \o Pairs(n))[i] = IF i <= 2 THEN Header[i] ELSE Pairs(n)[i - 2]
  <2>1. PICK p : p = Pairs(n)
    OBVIOUS
  <2>2. p \in Seq(Kinds) /\ Len(p) = 2 * n
    BY <2>1, PairsOf
  <2>3. PICK h : h = Header
    OBVIOUS
  <2>4. h \in Seq(Kinds) /\ Len(h) = 2
    BY <1>1, <2>3
  <2>5. /\ h \o p \in Seq(Kinds) /\ Len(h \o p) = Len(h) + Len(p)
        /\ \A i \in 1 .. Len(h) + Len(p) :
             (h \o p)[i] = IF i <= Len(h) THEN h[i] ELSE p[i - Len(h)]
    BY <2>2, <2>4, ConcatProperties
  <2>6. 2 + 2 * n = 2 * n + 2
    OBVIOUS
  <2> QED
    BY <2>1, <2>2, <2>3, <2>4, <2>5, <2>6
<1>4. \A i \in 3 .. 2 * n + 2 :
        (Header \o Pairs(n))[i] = IF i % 2 = 1 THEN "moof" ELSE "mdat"
  <2> TAKE i \in 3 .. 2 * n + 2
  <2>1. i - 2 \in 1 .. 2 * n /\ (i - 2) % 2 = i % 2
    BY <1>2
  <2>2. i \in 1 .. 2 * n + 2 /\ ~(i <= 2)
    OBVIOUS
  <2>3. (Header \o Pairs(n))[i] = Pairs(n)[i - 2]
    BY <1>3, <2>2
  <2>4. Pairs(n)[i - 2] = IF (i - 2) % 2 = 1 THEN "moof" ELSE "mdat"
    BY <2>1, PairsOf
  <2> QED
    BY <2>1, <2>3, <2>4
<1>5. (Header \o Pairs(n))[1] = "ftyp" /\ (Header \o Pairs(n))[2] = "moov"
  <2>1. 1 \in 1 .. 2 * n + 2 /\ 2 \in 1 .. 2 * n + 2
    OBVIOUS
  <2>2. /\ (Header \o Pairs(n))[1] = IF 1 <= 2 THEN Header[1] ELSE Pairs(n)[1 - 2]
        /\ (Header \o Pairs(n))[2] = IF 2 <= 2 THEN Header[2] ELSE Pairs(n)[2 - 2]
    BY <1>3, <2>1, Zenon
  <2> QED
    BY <1>1, <2>2
<1> QED
  BY <1>1, <1>3, <1>4, <1>5

LEMMA Fragments ==
  ASSUME NEW n \in Nat, NEW cut \in BOOLEAN
  PROVE  Shape([boxes |-> Header \o Pairs(n), cut |-> cut])
<1>1. PICK b : b = Header \o Pairs(n)
  OBVIOUS
<1>2. /\ b \in Seq(Kinds) /\ Len(b) = 2 * n + 2 /\ b[1] = "ftyp" /\ b[2] = "moov"
      /\ \A i \in 3 .. 2 * n + 2 : b[i] = IF i % 2 = 1 THEN "moof" ELSE "mdat"
  BY <1>1, Boxes
<1>3. ASSUME NEW i \in 1 .. Len(b) - 1, b[i] = "moof"
      PROVE  b[i + 1] = "mdat"
  <2>1. i # 1 /\ i # 2
    BY <1>2, <1>3
  <2>2. i \in 3 .. 2 * n + 2 /\ i + 1 \in 3 .. 2 * n + 2
    BY <1>2, <2>1
  <2>3. i % 2 = 1
    BY <1>2, <1>3, <2>2
  <2>4. (i + 1) % 2 = 0
    BY <2>2, <2>3
  <2> QED
    BY <1>2, <2>2, <2>4
<1>4. PICK f : f = [boxes |-> b, cut |-> cut]
  OBVIOUS
<1>5. f \in Files /\ f.boxes = b
  BY <1>2, <1>4 DEF Files
<1>6. Shape(f)
  BY <1>2, <1>3, <1>5 DEF Shape, FileSize
<1> QED
  BY <1>1, <1>4, <1>6

(* A box is written behind the others; behind a moof only its samples.     *)
LEMMA OneMoreBox ==
  ASSUME NEW f, Shape(f), NEW k \in Kinds, f.boxes[Len(f.boxes)] = "moof" => k = "mdat",
         NEW cut \in BOOLEAN
  PROVE  Shape([boxes |-> Append(f.boxes, k), cut |-> cut])
<1>1. PICK b : b = f.boxes
  OBVIOUS
<1>2. PICK c : c = Append(b, k)
  OBVIOUS
<1>3. /\ b \in Seq(Kinds) /\ Len(b) >= 2 /\ b[1] = "ftyp" /\ b[2] = "moov"
      /\ \A i \in 1 .. Len(b) - 1 : b[i] = "moof" => b[i + 1] = "mdat"
  BY <1>1 DEF Shape, Files, FileSize
<1>4. Len(b) \in Nat
  BY <1>3
<1>5. /\ c \in Seq(Kinds) /\ Len(c) = Len(b) + 1 /\ c[Len(b) + 1] = k
      /\ \A i \in 1 .. Len(b) : c[i] = b[i]
  BY <1>2, <1>3, AppendProperties
<1>6. ASSUME NEW i \in 1 .. Len(c) - 1, c[i] = "moof"
      PROVE  c[i + 1] = "mdat"
  <2>1. i \in 1 .. Len(b) /\ b[i] = "moof"
    BY <1>4, <1>5, <1>6
  <2>2. CASE i = Len(b)
    BY <1>1, <1>5, <2>1, <2>2
  <2>3. CASE i # Len(b)
    <3>1. i \in 1 .. Len(b) - 1 /\ i + 1 \in 1 .. Len(b)
      BY <1>4, <2>1, <2>3
    <3> QED
      BY <1>3, <1>5, <2>1, <3>1
  <2> QED
    BY <2>2, <2>3
<1>7. PICK g : g = [boxes |-> c, cut |-> cut]
  OBVIOUS
<1>8. g \in Files /\ g.boxes = c
  BY <1>5, <1>7 DEF Files
<1>9. 1 \in 1 .. Len(b) /\ 2 \in 1 .. Len(b)
  BY <1>3, <1>4
<1>10. c[1] = "ftyp" /\ c[2] = "moov" /\ Len(c) >= 2
  BY <1>3, <1>4, <1>5, <1>9
<1>11. Shape(g)
  BY <1>6, <1>8, <1>10 DEF Shape, FileSize
<1> QED
  BY <1>1, <1>2, <1>7, <1>11

LEMMA EndingsShaped ==
  ASSUME NEW i \in Ids, NEW f \in Endings(i)
  PROVE  Shape(f)
<1>1. PICK n : n = Layout[i].length
  OBVIOUS
<1>2. n \in Nat \ {0} /\ n - 1 \in Nat
  <2> DEFINE S == [stream : Streams, began : Nat, length : Nat \ {0}, keyframes : SUBSET Nat]
  <2>1. Layout[i] \in S
    <3>1. Layout \in Seq(S) /\ i \in DOMAIN Layout
      BY LayoutAssumption DEF Ids
    <3> HIDE DEF S
    <3>2. i \in 1 .. Len(Layout)
      BY <3>1
    <3> QED
      BY <3>1, <3>2, ElementOfSeq
  <2>2. n \in Nat \ {0}
    BY <1>1, <2>1
  <2> QED
    BY <2>2
<1>3. ASSUME NEW m \in Nat, NEW k \in {"moof", "mfra"}, NEW cut \in BOOLEAN
      PROVE  Shape([boxes |-> Header \o Pairs(m) \o <<k>>, cut |-> cut])
  <2>1. PICK b : b = Header \o Pairs(m)
    OBVIOUS
  <2>2. /\ b \in Seq(Kinds) /\ Len(b) = 2 * m + 2 /\ b[1] = "ftyp" /\ b[2] = "moov"
        /\ \A j \in 3 .. 2 * m + 2 : b[j] = IF j % 2 = 1 THEN "moof" ELSE "mdat"
    BY <2>1, Boxes
  <2>3. b[Len(b)] # "moof"
    <3>1. CASE m = 0
      BY <2>2, <3>1
    <3>2. CASE m # 0
      <4>1. 2 * m + 2 \in 3 .. 2 * m + 2 /\ (2 * m + 2) % 2 = 0
        BY <3>2
      <4> QED
        BY <2>2, <4>1
    <3> QED
      BY <3>1, <3>2
  <2>4. PICK g : g = [boxes |-> b, cut |-> FALSE]
    OBVIOUS
  <2>5. g.boxes = b /\ Shape(g)
    BY <2>1, <2>4, Fragments
  <2>6. k \in Kinds
    BY DEF Kinds
  <2>7. Append(b, k) = b \o <<k>>
    BY <2>2, <2>6, AppendIsConcat
  <2>8. Shape([boxes |-> Append(b, k), cut |-> cut])
    BY <2>3, <2>5, <2>6, OneMoreBox
  <2> QED
    BY <2>1, <2>7, <2>8
<1>4. \/ f = Whole(n) \/ f = Open(n)
      \/ f = [boxes |-> Header \o Pairs(n), cut |-> TRUE]
      \/ \E cut \in BOOLEAN : f = [boxes |-> Header \o Pairs(n - 1) \o <<"moof">>, cut |-> cut]
  BY <1>1 DEF Endings, Killed
<1> HIDE DEF Header, Pairs
<1>5. Shape(Whole(n))
  BY <1>2, <1>3 DEF Whole
<1>6. Shape(Open(n))
  BY <1>2, Fragments DEF Open
<1>7. Shape([boxes |-> Header \o Pairs(n), cut |-> TRUE])
  BY <1>2, Fragments
<1>8. \A cut \in BOOLEAN : Shape([boxes |-> Header \o Pairs(n - 1) \o <<"moof">>, cut |-> cut])
  BY <1>2, <1>3
<1> QED
  BY <1>4, <1>5, <1>6, <1>7, <1>8

-----------------------------------------------------------------------------
(* The inductive invariant                                                 *)

Disk ==
  /\ content \in [Ids -> Files] /\ \A i \in Ids : Shape(content[i])
  /\ there \subseteq Ids /\ writing \in Ids \cup {0}

Early == {"idle", "querying", "making"}
Before == {"preparing", "probing", "listing", "spawning"}
Joining == {"reading", "sending"}
Ending == {"dropped", "waiting", "cleaning", "removing", "over"}

(* What there is of scratch files at which await.  An executor job that    *)
(* nobody waits for is that of the await the client left at.               *)
Scratch ==
  /\ pc \in Early \cup Before \cup Joining \cup Ending
  /\ tmp \in {"none", "made", "gone"} /\ orphan \in {"none"} \cup Jobs
  /\ copies \subseteq Ids \cup {ListFile}
  /\ pc \notin Ending => leftAt = "none"
  /\ orphan # "none" => leftAt = orphan
  /\ pc \in Early => tmp = "none" /\ copies = {}
  /\ leftAt \notin Jobs =>
       /\ pc \in {"removing", "over"} => copies = {}
       /\ pc = "over" => tmp # "made"
  /\ leftAt = "listing" /\ pc \in {"removing", "over"} => copies \subseteq {ListFile}

(* What is known of ffmpeg at which await *)
Join ==
  /\ pc \in Early \cup Before => ffmpeg = "none" /\ reached = 0
  /\ pc \in Joining \cup {"dropped"} => ffmpeg \in {"running", "failed", "torn"}
  /\ pc = "waiting" => ffmpeg = "killed"
  /\ pc \in {"cleaning", "removing", "over"} => ffmpeg \in {"none", "ended"}
  /\ end \in {"none", "nothing", "failed", "short", "whole", "left"}
  /\ reached \in 0 .. Len(prepared)

Intact(i) == prepared[i].row.id = writing \/ ~Broken(FileOf(i))

(* The length that was found is that of the file, unless it is written;    *)
(* and the inputs chosen with it end with a whole fragment.                *)
Inputs ==
  /\ keep \in Nat \cup {None} /\ (pc \in Early => keep = None)
  /\ pc = "preparing" /\ keep # None /\ Current # writing /\ Current \in Ids =>
       keep = playable_length(content[Current])
  /\ prepared \in Seq({prepared[i] : i \in DOMAIN prepared})
  /\ \A i \in DOMAIN prepared : prepared[i].row.id \in Ids /\ Intact(i)
  /\ ffmpeg = "torn" => reached > 0 /\ prepared[reached].row.id = writing

IInv == Disk /\ Scratch /\ Join /\ Inputs

LEMMA AtStart ==
  ASSUME Init
  PROVE  IInv
<1>1. Disk
  <2>1. \A i \in Ids : content[i] \in Endings(i)
    BY DEF Init
  <2>2. \A i \in Ids : Shape(content[i])
    BY <2>1, EndingsShaped
  <2>3. DOMAIN content = Ids /\ content = [i \in Ids |-> content[i]]
    BY DEF Init
  <2>4. content \in [Ids -> Files]
    BY <2>2, <2>3 DEF Shape
  <2>5. writing \in Ids \cup {0}
    BY LayoutAssumption DEF Init, Ids, Newest
  <2> QED
    BY <2>2, <2>4, <2>5 DEF Init, Disk
<1>2. Scratch
  BY DEF Init, Scratch, Early, Before, Joining, Ending
<1>3. prepared = <<>> /\ DOMAIN prepared = {} /\ Len(prepared) = 0
  BY DEF Init
<1>4. Join
  BY <1>3 DEF Init, Join, Early, Before, Joining, Ending
<1>5. Inputs
  BY <1>3 DEF Init, Inputs, None, Early
<1> QED
  BY <1>1, <1>2, <1>4, <1>5 DEF IInv

-----------------------------------------------------------------------------
(* The disk                                                                *)

LEMMA WritesKeepsShape ==
  ASSUME Disk, Writes
  PROVE  Disk' /\ (\A i \in Ids : i # writing => content'[i] = content[i])
<1> DEFINE f == content[writing]
<1>1. writing \in Ids /\ f \in Files /\ Shape(f)
  BY DEF Writes, Disk
<1>2. f = [boxes |-> f.boxes, cut |-> f.cut] /\ f.boxes \in Seq(Kinds) /\ f.cut \in BOOLEAN
  BY <1>1 DEF Files
<1>3. UNCHANGED <<there, writing>>
  BY DEF Writes
<1>4. PICK g : Shape(g) /\ content' = [content EXCEPT ![writing] = g]
  <2>1. CASE /\ ~f.cut /\ Last(f.boxes) # "moof"
             /\ content' = [content EXCEPT ![writing].boxes = Append(@, "moof")]
    <3>1. content' = [content EXCEPT ![writing] = [f EXCEPT !.boxes = Append(@, "moof")]]
      BY <2>1
    <3>2. [f EXCEPT !.boxes = Append(@, "moof")] = [boxes |-> Append(f.boxes, "moof"), cut |-> f.cut]
      <4> HIDE DEF f
      <4> QED
        BY SMTT(30), <1>2
    <3>3. "moof" \in Kinds /\ f.boxes[Len(f.boxes)] # "moof"
      BY <2>1 DEF Kinds, Last
    <3>4. Shape([boxes |-> Append(f.boxes, "moof"), cut |-> f.cut])
      BY <1>1, <1>2, <3>3, OneMoreBox
    <3> QED
      BY <3>1, <3>2, <3>4
  <2>2. CASE content' = [content EXCEPT ![writing] = [boxes |-> Append(f.boxes, "mdat"), cut |-> TRUE]]
    <3>1. "mdat" \in Kinds
      BY DEF Kinds
    <3>2. Shape([boxes |-> Append(f.boxes, "mdat"), cut |-> TRUE])
      BY <1>1, <3>1, OneMoreBox
    <3> QED
      BY <2>2, <3>2
  <2>3. CASE content' = [content EXCEPT ![writing].cut = FALSE]
    <3>1. content' = [content EXCEPT ![writing] = [f EXCEPT !.cut = FALSE]]
      BY <2>3
    <3>2. PICK g : g = [f EXCEPT !.cut = FALSE]
      OBVIOUS
    <3>3. g.boxes = f.boxes /\ g \in Files
      BY <1>2, <3>2 DEF Files
    <3>4. Shape(g)
      BY <1>1, <3>3 DEF Shape, FileSize
    <3> QED
      BY <3>1, <3>2, <3>4
  <2> QED
    BY <2>1, <2>2, <2>3 DEF Writes
<1>5. g \in Files
  BY <1>4 DEF Shape
<1> QED
  BY <1>1, <1>3, <1>4, <1>5 DEF Disk

LEMMA DiskKept ==
  ASSUME Disk, [Next]_vars
  PROVE  /\ Disk' /\ writing' = writing
         /\ \A i \in Ids : i # writing => content'[i] = content[i]
<1>1. CASE Writes
  BY <1>1, WritesKeepsShape DEF Writes
<1>2. ASSUME NEW i \in there, Deleted(i)
      PROVE  Disk' /\ UNCHANGED <<content, writing>>
  BY <1>2 DEF Deleted, Disk
<1>3. CASE Step
  <2>1. UNCHANGED diskVars
    BY <1>3 DEF Step, Query, MakeScratch, Look, Compare, CompareFails, Prepared, Probe,
       ProbeFails, WriteList, Spawn, SpawnFails, EndOfFile, Stalled, Waited, Clean,
       RemoveScratch, Finalised, OrphanMakes, OrphanPrepares, OrphanLists, Fail
  <2> QED
    BY <2>1 DEF Disk, diskVars
<1>4. CASE \/ Chunk \/ Breaks \/ Taken \/ Leaves \/ UNCHANGED vars
           \/ \E r \in Requests : <<r.from, r.to>> \in Ranges /\ Ask(r)
  <2>1. UNCHANGED diskVars
    BY <1>4 DEF Chunk, Breaks, Taken, Leaves, Ask, vars
  <2> QED
    BY <2>1 DEF Disk, diskVars
<1> QED
  BY <1>1, <1>2, <1>3, <1>4 DEF Next

-----------------------------------------------------------------------------
(* The scratch directory                                                   *)

LEMMA InputOf ==
  ASSUME NEW x \in Input
  PROVE  /\ x.row.id = Current
         /\ IF keep = FileSize(content[Current]) THEN x.copy = FALSE
            ELSE /\ keep # 0 /\ x.copy = TRUE
                 /\ x.part = [boxes |-> SubSeq(content[Current].boxes, 1, keep), cut |-> FALSE]
<1>1. CASE keep = FileSize(content[Current])
  <2>1. x = [row |-> Head(segments), copy |-> FALSE, part |-> content[Current]]
    BY <1>1 DEF Input
  <2> QED
    BY <1>1, <2>1 DEF Current
<1>2. CASE keep # FileSize(content[Current])
  <2>1. /\ keep # 0
        /\ x = [row |-> Head(segments), copy |-> TRUE,
                part |-> [boxes |-> SubSeq(content[Current].boxes, 1, keep), cut |-> FALSE]]
    BY <1>2 DEF Input
  <2>2. x.row = Head(segments) /\ x.copy = TRUE
    BY <2>1
  <2>3. x.part = [boxes |-> SubSeq(content[Current].boxes, 1, keep), cut |-> FALSE]
    BY <2>1
  <2> QED
    BY <1>2, <2>1, <2>2, <2>3 DEF Current
<1> QED
  BY <1>1, <1>2

(* Where nothing of it changes, only the await has to be looked at.        *)
LEMMA SameScratch ==
  ASSUME Scratch, UNCHANGED <<tmp, copies, orphan, leftAt>>,
         pc' \in Early \cup Before \cup Joining \cup Ending,
         pc' \in Early => pc \in Early,
         pc' \notin Ending => pc \notin Ending,
         pc' \in {"removing", "over"} => pc = pc' \/ pc \in Early
  PROVE  Scratch'
<1> QED
  BY DEF Scratch, Early, Before, Joining, Ending

LEMMA ScratchKept ==
  ASSUME Disk, Scratch, [Next]_vars
  PROVE  Scratch'
<1> USE DEF Early, Before, Joining, Ending, Jobs
<1>1. CASE \/ Query \/ Look \/ Prepared \/ Probe \/ Spawn \/ EndOfFile \/ Stalled
           \/ Waited \/ Finalised
  <2>1. UNCHANGED <<tmp, copies, orphan, leftAt>>
    BY <1>1 DEF Query, Look, Prepared, Probe, Spawn, EndOfFile, Stalled, Waited, Finalised,
       scratchVars
  <2>2. CASE Query
    BY <2>1, <2>2, SameScratch DEF Query, Scratch
  <2>3. CASE Look
    BY <2>1, <2>3, SameScratch DEF Look, Scratch
  <2>4. CASE Prepared
    BY <2>1, <2>4, SameScratch DEF Prepared, Scratch
  <2>5. CASE Probe
    BY <2>1, <2>5, SameScratch DEF Probe, Scratch
  <2>6. CASE Spawn
    BY <2>1, <2>6, SameScratch DEF Spawn, Scratch
  <2>7. CASE EndOfFile \/ Stalled \/ Waited \/ Finalised
    BY <2>1, <2>7, SameScratch DEF EndOfFile, Stalled, Waited, Finalised, Scratch
  <2> QED
    BY <1>1, <2>2, <2>3, <2>4, <2>5, <2>6, <2>7
<1>2. CASE CompareFails \/ ProbeFails \/ SpawnFails
  <2>1. /\ pc \in Before /\ pc' = "cleaning"
        /\ UNCHANGED <<tmp, copies, orphan, leftAt>>
    BY <1>2 DEF CompareFails, ProbeFails, SpawnFails, Fail, scratchVars
  <2> QED
    BY <2>1, SameScratch DEF Scratch
<1>3. CASE Chunk \/ Breaks \/ Taken \/ Writes \/ UNCHANGED vars
  <2>1. UNCHANGED <<tmp, copies, orphan, leftAt>>
    BY <1>3 DEF Chunk, Breaks, Taken, Writes, vars, scratchVars
  <2>2. pc' = pc \/ (pc \in Joining /\ pc' \in Joining)
    BY <1>3 DEF Chunk, Breaks, Taken, Writes, vars
  <2> QED
    BY <2>1, <2>2, SameScratch DEF Scratch
<1>4. ASSUME NEW i \in there, Deleted(i)
      PROVE  Scratch'
  BY <1>4, SameScratch DEF Deleted, Scratch, scratchVars
<1>5. ASSUME NEW r \in Requests, Ask(r)
      PROVE  Scratch'
  BY <1>5, SameScratch DEF Ask, Scratch, scratchVars
<1>6. CASE MakeScratch
  BY <1>6 DEF MakeScratch, Scratch
<1>7. CASE Compare
  <2>1. {x.row.id : x \in {y \in Input : y.copy}} \subseteq Ids
    BY <1>7, InputOf DEF Compare, Disk
  <2> QED
    BY <1>7, <2>1 DEF Compare, Scratch
<1>8. CASE WriteList
  BY <1>8 DEF WriteList, Scratch
<1>9. CASE Clean
  BY <1>9 DEF Clean, Scratch
<1>10. CASE RemoveScratch
  BY <1>10 DEF RemoveScratch, Scratch
<1>11. CASE Leaves
  <2>1. /\ pc \notin {"idle"} \cup Ending /\ leftAt' = pc
        /\ pc' = After /\ orphan' \in {"none"} \cup ({pc} \cap Jobs)
        /\ UNCHANGED <<tmp, copies>>
    BY <1>11 DEF Leaves
  <2>2. pc \in Early => tmp = "none" /\ copies = {}
    BY DEF Scratch
  <2>3. pc \in (Early \ {"idle"}) \cup Before \cup Joining
    BY <2>1 DEF Scratch
  <2>4. /\ pc' \in {"over", "dropped", "waiting", "cleaning"}
        /\ pc' = "over" => pc \in {"querying", "making"}
    BY <2>1, <2>3 DEF After
  <2>5. copies \subseteq Ids \cup {ListFile} /\ tmp \in {"none", "made", "gone"}
    BY DEF Scratch
  <2> QED
    BY <2>1, <2>2, <2>4, <2>5 DEF Scratch
<1>12. CASE OrphanMakes
  BY <1>12 DEF OrphanMakes, Scratch
<1>13. CASE OrphanPrepares
  <2>1. UNCHANGED <<pc, tmp, leftAt>> /\ orphan = "preparing" /\ leftAt = "preparing"
    BY <1>13 DEF OrphanPrepares, Scratch
  <2>2. copies' \subseteq Ids \cup {ListFile} /\ orphan' \in {"none", "preparing"}
    <3>1. copies \subseteq Ids \cup {ListFile} /\ there \subseteq Ids
      BY DEF Scratch, Disk
    <3> QED
      BY <1>13, <3>1 DEF OrphanPrepares
  <2>3. pc \notin Early
    BY <2>1 DEF Scratch
  <2> QED
    BY <2>1, <2>2, <2>3 DEF Scratch
<1>14. CASE OrphanLists
  <2>1. /\ UNCHANGED <<pc, tmp, leftAt>> /\ orphan' = "none" /\ leftAt = "listing"
        /\ copies' \in {copies, copies \cup {ListFile}}
    BY <1>14 DEF OrphanLists, Scratch
  <2>2. pc \notin Early
    BY <2>1 DEF Scratch
  <2> QED
    BY <2>1, <2>2 DEF Scratch
<1> QED
  BY <1>1, <1>2, <1>3, <1>4, <1>5, <1>6, <1>7, <1>8, <1>9, <1>10, <1>11, <1>12, <1>13, <1>14
  DEF Next, Step

-----------------------------------------------------------------------------
(* ffmpeg                                                                  *)

LEMMA AsSequence ==
  /\ SetToSeq({}) = <<>>
  /\ \A x : SetToSeq({x}) = <<x>>
<1>1. SetToSeq({}) = <<>>
  <2>1. Cardinality({}) = 0 /\ 1 .. 0 = {}
    BY FS_EmptySet
  <2>2. PICK e : e = [i \in {} |-> i]
    OBVIOUS
  <2>3. e \in [{} -> {}] /\ IsInjective(e) /\ e = <<>>
    BY <2>2 DEF IsInjective
  <2>4. \A f \in [{} -> {}] : f = <<>>
    BY <2>2, <2>3
  <2> QED
    BY <2>1, <2>3, <2>4 DEF SetToSeq
<1>2. ASSUME NEW x
      PROVE  SetToSeq({x}) = <<x>>
  <2>1. Cardinality({x}) = 1 /\ 1 .. 1 = {1}
    BY FS_Singleton
  <2>2. <<x>> \in [{1} -> {x}] /\ IsInjective(<<x>>)
    BY DEF IsInjective
  <2>3. \A f \in [{1} -> {x}] : f = <<x>>
    OBVIOUS
  <2> QED
    BY <2>1, <2>2, <2>3 DEF SetToSeq
<1> QED
  BY <1>1, <1>2

LEMMA Compared ==
  ASSUME Inputs, Compare
  PROVE  \/ Input = {} /\ prepared' = prepared
         \/ \E x \in Input :
              /\ prepared' = Append(prepared, x) /\ Len(prepared') = Len(prepared) + 1
              /\ prepared' \in Seq({prepared'[i] : i \in DOMAIN prepared'})
              /\ \A i \in DOMAIN prepared' :
                   \/ i \in DOMAIN prepared /\ prepared'[i] = prepared[i]
                   \/ i = Len(prepared) + 1 /\ prepared'[i] = x
<1> DEFINE R == {prepared[i] : i \in DOMAIN prepared}
<1>1. prepared \in Seq(R) /\ prepared' = prepared \o SetToSeq(Input)
  BY DEF Inputs, Compare
<1>2. Input = {} \/ \E x : Input = {x}
  BY DEF Input
<1>3. CASE Input = {}
  BY <1>1, <1>3, AsSequence, ConcatEmptySeq
<1>4. ASSUME NEW x, Input = {x}
      PROVE  /\ prepared' = Append(prepared, x) /\ Len(prepared') = Len(prepared) + 1
             /\ prepared' \in Seq({prepared'[i] : i \in DOMAIN prepared'})
             /\ \A i \in DOMAIN prepared' :
                  \/ i \in DOMAIN prepared /\ prepared'[i] = prepared[i]
                  \/ i = Len(prepared) + 1 /\ prepared'[i] = x
  <2> DEFINE S == R \cup {x}
  <2>1. prepared \in Seq(S) /\ x \in S
    BY <1>1
  <2> HIDE DEF R, S
  <2>2. prepared' = Append(prepared, x)
    <3>1. SetToSeq(Input) = <<x>>
      BY <1>4, AsSequence
    <3>2. Append(prepared, x) = prepared \o <<x>>
      BY <2>1, AppendIsConcat
    <3> QED
      BY <1>1, <3>1, <3>2
  <2>3. /\ prepared' \in Seq(S) /\ Len(prepared') = Len(prepared) + 1
        /\ \A i \in 1 .. Len(prepared) : prepared'[i] = prepared[i]
        /\ prepared'[Len(prepared) + 1] = x
    BY <2>1, <2>2, AppendProperties
  <2>4. DOMAIN prepared = 1 .. Len(prepared) /\ Len(prepared) \in Nat
    BY <2>1
  <2>5. DOMAIN prepared' = 1 .. Len(prepared) + 1
    BY <2>3
  <2>6. prepared' \in Seq({prepared'[i] : i \in DOMAIN prepared'})
    BY <2>3
  <2> QED
    BY <2>2, <2>3, <2>4, <2>5, <2>6
<1> QED
  BY <1>2, <1>3, <1>4

LEMMA JoinKept ==
  ASSUME Join, Scratch, Inputs, [Next]_vars
  PROVE  Join'
<1> USE DEF Early, Before, Joining, Ending
<1>1. pc \in Early \cup Before \cup Joining \cup Ending
  BY DEF Scratch
<1>2. CASE Query \/ MakeScratch \/ Look \/ WriteList \/ Prepared \/ Probe
  <2>1. UNCHANGED <<ffmpeg, reached>> /\ end' \in {end, "nothing"}
    BY <1>2 DEF Query, MakeScratch, Look, WriteList, Prepared, Probe, joinVars
  <2>2. /\ pc \in Early \cup Before
        /\ pc' \in Early \cup Before \cup {"cleaning", "over"}
    BY <1>2 DEF Query, MakeScratch, Look, WriteList, Prepared, Probe
  <2>3. prepared' = prepared
    BY <1>2 DEF Query, MakeScratch, Look, WriteList, Prepared, Probe, inputVars
  <2> QED
    BY <2>1, <2>2, <2>3 DEF Join
<1>3. CASE Compare
  <2>1. /\ pc \in Before /\ pc' = pc /\ UNCHANGED <<ffmpeg, reached, end>>
    BY <1>3 DEF Compare, joinVars
  <2>2. Len(prepared) \in Nat
    BY DEF Inputs
  <2>3. Len(prepared') \in Nat
    BY <1>3, <2>2, Compared
  <2> QED
    BY <2>1, <2>3 DEF Join
<1>4. CASE CompareFails \/ ProbeFails \/ SpawnFails
  <2>1. /\ pc \in Before /\ pc' = "cleaning" /\ end' = "failed"
        /\ UNCHANGED <<ffmpeg, reached, prepared>>
    BY <1>4 DEF CompareFails, ProbeFails, SpawnFails, Fail, joinVars, inputVars
  <2> QED
    BY <2>1 DEF Join
<1>5. CASE Spawn
  BY <1>5 DEF Spawn, Join, inputVars
<1>6. CASE EndOfFile \/ Stalled
  BY <1>6 DEF EndOfFile, Stalled, Join, inputVars
<1>7. CASE Waited \/ Finalised
  BY <1>7 DEF Waited, Finalised, Join, inputVars
<1>8. CASE Clean \/ RemoveScratch
  BY <1>8 DEF Clean, RemoveScratch, Join, inputVars, joinVars
<1>9. CASE OrphanMakes \/ OrphanPrepares \/ OrphanLists
  <2>1. UNCHANGED <<pc, ffmpeg, reached, end, prepared>>
    BY <1>9 DEF OrphanMakes, OrphanPrepares, OrphanLists, joinVars, inputVars
  <2> QED
    BY <2>1 DEF Join
<1>10. CASE Chunk
  <2>1. /\ pc \in Joining /\ pc' \in Joining /\ UNCHANGED <<end, prepared>>
        /\ ffmpeg' \in {"running", "failed", "torn"}
        /\ reached' = reached \/ (reached' = reached + 1 /\ reached + 1 <= Len(prepared))
    BY <1>10 DEF Chunk, inputVars
  <2> QED
    BY <2>1 DEF Join
<1>11. CASE Breaks \/ Taken
  BY <1>11 DEF Breaks, Taken, Join, inputVars, joinVars
<1>12. CASE Leaves
  <2>1. /\ pc \notin {"idle"} \cup Ending /\ pc' = After /\ end' = "left"
        /\ ffmpeg' = IF pc = "reading" THEN "killed" ELSE ffmpeg
        /\ UNCHANGED <<reached, prepared>>
    BY <1>12 DEF Leaves, inputVars
  <2>2. pc \in {"reading", "sending"} \/ (pc \in Early \cup Before /\ pc' \in {"over", "cleaning"})
    BY <1>1, <2>1 DEF After
  <2> QED
    BY <2>1, <2>2 DEF Join, After
<1>13. CASE Writes \/ UNCHANGED vars
  BY <1>13 DEF Writes, vars, Join, inputVars, joinVars
<1>14. ASSUME NEW i \in there, Deleted(i)
       PROVE  Join'
  BY <1>14 DEF Deleted, Join, inputVars, joinVars
<1>15. ASSUME NEW r \in Requests, Ask(r)
       PROVE  Join'
  BY <1>15 DEF Ask, Join, inputVars, joinVars
<1> QED
  BY <1>2, <1>3, <1>4, <1>5, <1>6, <1>7, <1>8, <1>9, <1>10, <1>11, <1>12, <1>13, <1>14, <1>15
  DEF Next, Step

-----------------------------------------------------------------------------
(* What is handed to ffmpeg                                                *)

(* What a step leaves of the inputs, and what it finds out about a file    *)
LEMMA SameInputs ==
  ASSUME Disk, Inputs, Disk', writing' = writing,
         \A i \in Ids : i # writing => content'[i] = content[i],
         prepared' = prepared, keep' \in {keep, None},
         pc' \in Early => pc \in Early /\ keep' = keep,
         pc' = "preparing" /\ keep' # None => UNCHANGED <<pc, keep, segments>>,
         ffmpeg' = "torn" => ffmpeg = "torn" /\ reached' = reached
  PROVE  Inputs'
<1>1. ASSUME NEW i \in DOMAIN prepared
      PROVE  prepared'[i].row.id \in Ids /\ Intact(i)'
  BY <1>1 DEF Inputs, Intact, FileOf
<1>2. keep' \in Nat \cup {None} /\ (pc' \in Early => keep' = None)
  BY DEF Inputs
<1>3. ASSUME pc' = "preparing", keep' # None, Current' # writing', Current' \in Ids
      PROVE  keep' = playable_length(content'[Current'])
  BY <1>3 DEF Inputs, Current
<1> QED
  BY <1>1, <1>2, <1>3 DEF Inputs

LEMMA CompareKeeps ==
  ASSUME Disk, Inputs, Join, Compare
  PROVE  Inputs'
<1>1. /\ pc = "preparing" /\ keep # None /\ Current \in there
      /\ keep' = None /\ UNCHANGED <<content, there, writing, pc, ffmpeg, reached>>
  BY DEF Compare, diskVars, joinVars
<1>2. ffmpeg' # "torn"
  BY <1>1 DEF Join, Before
<1>3. ASSUME NEW x \in Input
      PROVE  /\ x.row.id \in Ids
             /\ x.row.id = writing
                \/ ~Broken(IF x.copy THEN x.part ELSE content[x.row.id])
  <2>1. x.row.id = Current /\ Current \in Ids /\ Shape(content[Current])
    BY <1>1, InputOf DEF Disk
  <2>2. SUFFICES ASSUME Current # writing
                 PROVE  ~Broken(IF x.copy THEN x.part ELSE content[Current])
    BY <2>1
  <2>3. keep = playable_length(content[Current])
    BY <1>1, <2>1, <2>2 DEF Inputs
  <2>4. CASE keep = FileSize(content[Current])
    BY <2>1, <2>3, <2>4, InputOf, IntactIsWhole
  <2>5. CASE keep # FileSize(content[Current])
    <3>1. /\ keep # 0 /\ x.copy = TRUE
          /\ x.part = [boxes |-> SubSeq(content[Current].boxes, 1, keep), cut |-> FALSE]
      BY <2>5, InputOf
    <3>2. ~Broken(x.part)
      BY <2>1, <2>3, <2>5, <3>1, CopyIsWhole
    <3> QED
      BY <3>1, <3>2
  <2> QED
    BY <2>4, <2>5
<1>4. keep' \in Nat \cup {None} /\ (pc' \in Early => keep' = None)
  BY <1>1
<1>5. CASE prepared' = prepared
  BY <1>1, <1>2, <1>4, <1>5 DEF Inputs, Intact, FileOf
<1>6. ASSUME NEW x \in Input,
             prepared' \in Seq({prepared'[i] : i \in DOMAIN prepared'}),
             \A i \in DOMAIN prepared' :
                \/ i \in DOMAIN prepared /\ prepared'[i] = prepared[i]
                \/ i = Len(prepared) + 1 /\ prepared'[i] = x
      PROVE  Inputs'
  <2>1. ASSUME NEW i \in DOMAIN prepared'
        PROVE  prepared'[i].row.id \in Ids /\ Intact(i)'
    <3>1. CASE i \in DOMAIN prepared /\ prepared'[i] = prepared[i]
      BY <1>1, <3>1 DEF Inputs, Intact, FileOf
    <3>2. CASE prepared'[i] = x
      BY <1>1, <1>3, <3>2 DEF Intact, FileOf
    <3> QED
      BY <1>6, <2>1, <3>1, <3>2
  <2> QED
    BY <1>1, <1>2, <1>4, <1>6, <2>1 DEF Inputs
<1> QED
  BY <1>5, <1>6, Compared

LEMMA InputsKept ==
  ASSUME IInv, [Next]_vars
  PROVE  Inputs'
<1> USE DEF IInv
<1>1. /\ Disk' /\ writing' = writing
      /\ \A i \in Ids : i # writing => content'[i] = content[i]
  BY DiskKept
<1>2. CASE Query \/ Prepared \/ Probe \/ WriteList \/ Spawn \/ EndOfFile \/ Stalled
           \/ Waited \/ Clean \/ RemoveScratch \/ Finalised \/ OrphanMakes \/ OrphanLists
  <2>1. prepared' = prepared /\ keep' = keep
    BY <1>2 DEF Query, Prepared, Probe, WriteList, Spawn, EndOfFile, Stalled, Waited,
       Clean, RemoveScratch, Finalised, OrphanMakes, OrphanLists, inputVars
  <2>2. /\ pc' \in Early => pc \in Early
        /\ pc' = "preparing" => UNCHANGED <<pc, segments>>
    BY <1>2 DEF Query, Prepared, Probe, WriteList, Spawn, EndOfFile, Stalled, Waited,
       Clean, RemoveScratch, Finalised, OrphanMakes, OrphanLists, Early, inputVars
  <2>3. ffmpeg' = "torn" => ffmpeg = "torn" /\ reached' = reached
    BY <1>2 DEF Query, Prepared, Probe, WriteList, Spawn, EndOfFile, Stalled, Waited,
       Clean, RemoveScratch, Finalised, OrphanMakes, OrphanLists, joinVars
  <2> QED
    BY <1>1, <2>1, <2>2, <2>3, SameInputs
<1>3. CASE CompareFails \/ ProbeFails \/ SpawnFails
  <2>1. pc' = "cleaning" /\ UNCHANGED <<prepared, keep, ffmpeg, reached>>
    BY <1>3 DEF CompareFails, ProbeFails, SpawnFails, Fail, inputVars, joinVars
  <2> QED
    BY <1>1, <2>1, SameInputs DEF Early
<1>4. CASE MakeScratch
  <2>1. keep = None /\ keep' = keep /\ prepared' = prepared /\ pc' = "preparing"
    BY <1>4 DEF MakeScratch, Inputs, Early, inputVars
  <2>2. UNCHANGED <<ffmpeg, reached>>
    BY <1>4 DEF MakeScratch, joinVars
  <2> QED
    BY <1>1, <2>1, <2>2, SameInputs DEF Early
<1>5. CASE Look
  <2>1. /\ pc = "preparing" /\ keep = None
        /\ UNCHANGED <<content, writing, pc, prepared, ffmpeg, reached>>
    BY <1>5 DEF Look, diskVars, joinVars
  <2>2. CASE Current \in there /\ keep' = playable_length(content[Current]) /\ UNCHANGED segments
    <3>1. Current \in Ids /\ content[Current] \in Files
      BY <2>2 DEF Disk
    <3>2. keep' \in Nat
      BY <2>2, <3>1, PlayableIsNat
    <3>3. keep' = playable_length(content'[Current'])
      BY <2>1, <2>2 DEF Current
    <3>4. \A i \in DOMAIN prepared : prepared'[i].row.id \in Ids /\ Intact(i)'
      BY <2>1 DEF Inputs, Intact, FileOf
    <3> QED
      BY <2>1, <3>2, <3>3, <3>4 DEF Inputs, Early
  <2>3. CASE keep' = keep
    BY <1>1, <2>1, <2>3, SameInputs DEF Early
  <2> QED
    BY <1>5, <2>2, <2>3 DEF Look
<1>6. CASE Compare
  BY <1>6, CompareKeeps
<1>7. CASE OrphanPrepares
  <2>1. pc \notin {"preparing"} \cup Early
    BY <1>7 DEF OrphanPrepares, Scratch, Early, Ending
  <2>2. UNCHANGED <<pc, keep, prepared, ffmpeg, reached>>
    BY <1>7 DEF OrphanPrepares, joinVars
  <2> QED
    BY <1>1, <2>1, <2>2, SameInputs
<1>8. CASE Chunk
  <2>1. /\ pc \in Joining /\ pc' \in Joining
        /\ UNCHANGED <<content, writing, prepared, keep, segments>>
    BY <1>8 DEF Chunk, Joining, inputVars, diskVars
  <2>2. CASE ffmpeg' = "torn"
    <3>1. /\ reached + 1 <= Len(prepared) /\ reached' = reached + 1
          /\ Broken(FileOf(reached + 1))
      BY <1>8, <2>2 DEF Chunk
    <3>2. reached \in Nat /\ reached + 1 \in DOMAIN prepared
      BY <3>1 DEF Join, Inputs
    <3>3. prepared[reached + 1].row.id = writing
      BY <3>1, <3>2 DEF Inputs, Intact
    <3>4. \A i \in DOMAIN prepared : prepared'[i].row.id \in Ids /\ Intact(i)'
      BY <2>1 DEF Inputs, Intact, FileOf
    <3>5. reached' > 0 /\ prepared'[reached'].row.id = writing'
      BY <2>1, <3>1, <3>2, <3>3
    <3> QED
      BY <2>1, <3>4, <3>5 DEF Inputs, Early, Joining
  <2>3. CASE ffmpeg' # "torn"
    BY <1>1, <2>1, <2>3, SameInputs DEF Early, Joining
  <2> QED
    BY <2>2, <2>3
<1>9. CASE Breaks \/ Taken \/ Writes \/ UNCHANGED vars
  <2>1. /\ UNCHANGED <<prepared, keep, segments>>
        /\ pc' = pc \/ pc' = "reading"
        /\ ffmpeg' = "torn" => ffmpeg = "torn" /\ reached' = reached
    BY <1>9 DEF Breaks, Taken, Writes, vars, inputVars, joinVars
  <2> QED
    BY <1>1, <2>1, SameInputs DEF Early
<1>10. CASE Leaves
  <2>1. /\ UNCHANGED <<prepared, keep, reached>> /\ pc' = After
        /\ ffmpeg' = "torn" => ffmpeg = "torn"
    BY <1>10 DEF Leaves, inputVars
  <2>2. pc' \in {"over", "cleaning", "waiting", "dropped"}
    BY <1>10, <2>1 DEF Leaves, After, Scratch, Early, Before, Joining, Ending
  <2> QED
    BY <1>1, <2>1, <2>2, SameInputs DEF Early
<1>11. ASSUME NEW i \in there, Deleted(i)
       PROVE  Inputs'
  <2>1. UNCHANGED <<prepared, keep, segments, pc, ffmpeg, reached>>
    BY <1>11 DEF Deleted, inputVars, joinVars
  <2> QED
    BY <1>1, <2>1, SameInputs
<1>12. ASSUME NEW r \in Requests, Ask(r)
       PROVE  Inputs'
  <2>1. UNCHANGED <<prepared, keep, segments, ffmpeg, reached>> /\ pc = "idle" /\ pc' = "querying"
    BY <1>12 DEF Ask, inputVars, joinVars
  <2> QED
    BY <1>1, <2>1, SameInputs DEF Early
<1> QED
  BY <1>2, <1>3, <1>4, <1>5, <1>6, <1>7, <1>8, <1>9, <1>10, <1>11, <1>12 DEF Next, Step

-----------------------------------------------------------------------------
LEMMA Invariance == Spec => []IInv
<1>1. Init => IInv
  BY AtStart
<1>2. IInv /\ [Next]_vars => IInv'
  BY DiskKept, ScratchKept, JoinKept, InputsKept DEF IInv
<1> QED
  BY <1>1, <1>2, PTL DEF Spec

LEMMA FfmpegStates ==
  ASSUME Scratch, Join
  PROVE  ffmpeg \in {"none", "running", "failed", "torn", "killed", "ended"}
  BY DEF Scratch, Join, Early, Before, Joining, Ending

LEMMA Types ==
  ASSUME IInv
  PROVE  TypeOK
  BY FfmpegStates DEF IInv, TypeOK, Disk, Scratch, Join, Inputs, Jobs

(* Everything an export keeps has its type, for any segments, ranges and   *)
(* bounds.                                                                 *)
THEOREM TypeCorrect == Spec => []TypeOK
  BY Invariance, Types, PTL

(* Whatever processes died and whatever retention deletes, all that ffmpeg *)
(* is given ends with a whole fragment, but what is still being written;   *)
(* and the player is told of the same end as the export.                   *)
THEOREM TornTailsNeverEndAJoin == Spec => []TornTailsAreCut
<1>1. IInv => TornTailsAreCut
  BY Types, PlayerAgrees DEF IInv, TornTailsAreCut, Disk, Inputs
<1> QED
  BY <1>1, Invariance, PTL

(* However an export ends, it leaves neither ffmpeg nor files behind; only *)
(* a client that leaves while the directory is made or filled can leave    *)
(* that, and at the list nothing else in it.                               *)
THEOREM NothingStaysBehind == Spec => []NothingLeft
<1>1. IInv => NothingLeft
  BY DEF IInv, NothingLeft, Scratch, Join
<1> QED
  BY <1>1, Invariance, PTL

-----------------------------------------------------------------------------
(* The clock                                                               *)

LEMMA LayoutOf ==
  ASSUME NEW i \in Ids
  PROVE  /\ Layout[i].began \in Nat /\ Layout[i].length \in Nat \ {0}
         /\ Layout[i].stream \in Streams /\ Layout[i].keyframes \subseteq Nat
<1> DEFINE S == [stream : Streams, began : Nat, length : Nat \ {0}, keyframes : SUBSET Nat]
<1>1. Layout \in Seq(S) /\ i \in DOMAIN Layout
  BY LayoutAssumption DEF Ids
<1>2. Layout[i] \in S
  <2> HIDE DEF S
  <2>1. i \in 1 .. Len(Layout)
    BY <1>1
  <2> QED
    BY <1>1, <2>1, ElementOfSeq
<1> QED
  BY <1>2

LEMMA NameReadBack ==
  ASSUME NEW b \in Nat, NEW mtime \in Nat, b <= mtime,
         b < ClockBack /\ ClockBack <= b + Hour => mtime < b + Hour
  PROVE  local_start_to_utc(Local(b), mtime) = b
<1> DEFINE name       == Local(b)
           candidates == {t \in {name, name + Hour} : Local(t) = name}
           plausible  == {t \in candidates : t <= mtime}
<1> USE CalendarAssumption
<1>1. name \in Int /\ b \in candidates
  BY DEF Local
<1>2. b \in plausible
  BY <1>1
<1>3. ASSUME NEW t \in plausible
      PROVE  t \in Int /\ t <= b
  <2>1. t \in {name, name + Hour} /\ Local(t) = name /\ t <= mtime
    OBVIOUS
  <2>2. CASE b < ClockBack
    BY <2>1, <2>2 DEF Local
  <2>3. CASE ~(b < ClockBack)
    BY <2>1, <2>3 DEF Local
  <2> QED
    BY <2>2, <2>3
<1>4. local_start_to_utc(name, mtime) = Max(plausible)
  BY <1>2 DEF local_start_to_utc
<1> HIDE DEF plausible
<1>5. Max(plausible) = b
  <2>1. \A t \in plausible : b >= t
    BY <1>3
  <2>2. \A x \in plausible : (\A t \in plausible : x >= t) => x = b
    BY <1>2, <1>3
  <2> QED
    BY <1>2, <2>1, <2>2 DEF Max
<1> QED
  BY <1>4, <1>5

LEMMA ScannedIs ==
  ASSUME ReadsBack, NEW i \in Ids
  PROVE  /\ Scanned(i).id = i /\ Scanned(i).start = Layout[i].began
         /\ Scanned(i).stream = Layout[i].stream
         /\ Scanned(i).start \in Nat /\ Scanned(i).end \in Nat
         /\ Scanned(i).start <= Scanned(i).end
         /\ Scanned(i).end <= Layout[i].began + Layout[i].length
         /\ Scanned(i).end = Layout[i].began
              + (IF i = writing THEN Layout[i].length - 1 ELSE Layout[i].length)
         /\ i # writing => Scanned(i).end = Layout[i].began + Layout[i].length
<1> DEFINE l     == Layout[i]
           mtime == l.began + (IF i = writing THEN l.length - 1 ELSE l.length)
<1>1. l.began \in Nat /\ l.length \in Nat \ {0}
  BY LayoutOf
<1>2. mtime \in Nat /\ l.began <= mtime /\ mtime <= l.began + l.length
  BY <1>1
<1>3. l.began < ClockBack /\ ClockBack <= l.began + Hour => mtime < l.began + Hour
  BY <1>1, <1>2, CalendarAssumption DEF ReadsBack
<1>4. Scanned(i) = [id |-> i, stream |-> l.stream,
                    start |-> local_start_to_utc(Local(l.began), mtime), end |-> mtime]
  BY DEF Scanned, scan_segment
<1> HIDE DEF l, mtime
<1>5. local_start_to_utc(Local(l.began), mtime) = l.began
  BY <1>1, <1>2, <1>3, NameReadBack
<1>6. /\ Scanned(i).id = i /\ Scanned(i).start = l.began /\ Scanned(i).end = mtime
      /\ Scanned(i).stream = l.stream
  BY <1>4, <1>5
<1>7. i # writing => mtime = l.began + l.length
  BY DEF mtime
<1>8. mtime = l.began + (IF i = writing THEN l.length - 1 ELSE l.length)
  BY DEF mtime
<1> QED
  BY <1>1, <1>2, <1>6, <1>7, <1>8 DEF l

-----------------------------------------------------------------------------
(* The queries                                                             *)

(* The places of n rows are the numbers from 1 to n.                       *)
LEMMA InOrder ==
  ASSUME NEW R, IsFiniteSet(R),
         \A r \in R : r.start \in Int /\ r.id \in Int,
         \A q, r \in R : q.id = r.id => q = r
  PROVE  /\ ByStart(R) \in Seq(R)
         /\ \A r \in R : \E k \in DOMAIN ByStart(R) : ByStart(R)[k] = r
         /\ \A j, k \in DOMAIN ByStart(R) : j <= k => ByStart(R)[j].start <= ByStart(R)[k].start
         /\ \A j, k \in DOMAIN ByStart(R) : ByStart(R)[j] = ByStart(R)[k] => j = k
<1> DEFINE before(r) == {q \in R : Earlier(q, r)}
           n         == Cardinality(R)
           place     == [r \in R |-> Place(R, r)]
<1>1. n \in Nat /\ IsFiniteSet(1 .. n) /\ Cardinality(1 .. n) = n
  BY FS_CardinalityType, FS_Interval
<1>2. ASSUME NEW r \in R
      PROVE  /\ IsFiniteSet(before(r)) /\ Cardinality(before(r)) \in Nat
             /\ Cardinality(before(r)) < n
  <2>1. before(r) \in SUBSET R /\ r \notin before(r)
    BY DEF Earlier
  <2>2. /\ IsFiniteSet(before(r)) /\ Cardinality(before(r)) <= n
        /\ Cardinality(before(r)) # n
    BY <2>1, FS_Subset
  <2>3. Cardinality(before(r)) \in Nat
    BY <2>2, FS_CardinalityType
  <2> QED
    BY <1>1, <2>2, <2>3
<1>3. ASSUME NEW q \in R, NEW r \in R, Earlier(q, r)
      PROVE  Cardinality(before(q)) < Cardinality(before(r))
  <2>1. before(q) \in SUBSET before(r) /\ q \in before(r) /\ q \notin before(q)
    BY <1>3 DEF Earlier
  <2>2. /\ Cardinality(before(q)) <= Cardinality(before(r))
        /\ Cardinality(before(q)) # Cardinality(before(r))
    BY <1>2, <2>1, FS_Subset
  <2> HIDE DEF before
  <2> QED
    BY <1>2, <2>2
<1>4. \A r \in R : place[r] = Cardinality(before(r)) + 1
  BY DEF Place
<1>5. \A r \in R : place[r] \in 1 .. n
  <2> HIDE DEF before, place, n
  <2> QED
    BY <1>1, <1>2, <1>4
<1>6. ASSUME NEW q \in R, NEW r \in R, place[q] = place[r]
      PROVE  q = r
  <2>1. q = r \/ Earlier(q, r) \/ Earlier(r, q)
    BY DEF Earlier
  <2>2. Cardinality(before(q)) = Cardinality(before(r))
    <3> HIDE DEF before, place
    <3> QED
      BY <1>2, <1>4, <1>6
  <2>3. ~Earlier(q, r) /\ ~Earlier(r, q)
    <3> HIDE DEF before, place
    <3> QED
      BY <1>2, <1>3, <2>2
  <2> QED
    BY <2>1, <2>3
<1>7. place \in Injection(R, 1 .. n)
  BY <1>5, <1>6 DEF Injection, IsInjective
<1>8. place \in Surjection(R, 1 .. n)
  <2> HIDE DEF place, n
  <2> QED
    BY <1>1, <1>7, FS_Injection DEF n
<1>9. ASSUME NEW k \in 1 .. n
      PROVE  /\ (CHOOSE r \in R : Place(R, r) = k) \in R
             /\ Place(R, CHOOSE r \in R : Place(R, r) = k) = k
  <2>1. PICK r \in R : place[r] = k
    BY <1>8 DEF Surjection
  <2>2. Place(R, r) = k
    BY <2>1
  <2> QED
    BY <2>2
<1>10. PICK b : b = [k \in 1 .. n |-> CHOOSE r \in R : Place(R, r) = k]
  OBVIOUS
<1>11. b \in [1 .. n -> R] /\ \A k \in 1 .. n : place[b[k]] = k
  BY <1>9, <1>10
<1>12. ByStart(R) = b
  BY <1>10 DEF ByStart
<1> HIDE DEF n, place
<1>13. b \in Seq(R) /\ DOMAIN b = 1 .. n
  BY <1>1, <1>11
<1>14. \A r \in R : b[place[r]] = r
  BY <1>5, <1>6, <1>11
<1>15. ASSUME NEW j \in 1 .. n, NEW k \in 1 .. n, j <= k
       PROVE  b[j].start <= b[k].start
  <2>1. b[j] \in R /\ b[k] \in R /\ place[b[j]] = j /\ place[b[k]] = k
    BY <1>11
  <2>2. CASE Earlier(b[k], b[j])
    <3>1. Cardinality(before(b[k])) < Cardinality(before(b[j]))
      BY <1>3, <2>1, <2>2
    <3>2. /\ k = Cardinality(before(b[k])) + 1 /\ j = Cardinality(before(b[j])) + 1
          /\ Cardinality(before(b[k])) \in Nat /\ Cardinality(before(b[j])) \in Nat
      BY <1>2, <1>4, <2>1
    <3> HIDE DEF before
    <3> QED
      BY <1>15, <3>1, <3>2
  <2>3. CASE ~Earlier(b[k], b[j])
    BY <2>1, <2>3 DEF Earlier
  <2> QED
    BY <2>2, <2>3
<1>16. \A j, k \in 1 .. n : b[j] = b[k] => j = k
  BY <1>11
<1> QED
  BY <1>5, <1>12, <1>13, <1>14, <1>15, <1>16

(* The records of what was scanned, and of that what a query finds         *)
Scans == {Scanned(i) : i \in Ids}

LEMMA ScansAreRows ==
  ASSUME ReadsBack
  PROVE  /\ IsFiniteSet(Scans)
         /\ \A r \in Scans : /\ r.start \in Nat /\ r.end \in Nat /\ r.start <= r.end
                             /\ r.id \in Ids /\ r.id \in Int
                             /\ r.start = Layout[r.id].began
         /\ \A q, r \in Scans : q.id = r.id => q = r
<1>1. IsFiniteSet(Ids)
  <2>1. Ids = 1 .. Len(Layout) /\ Len(Layout) \in Nat
    BY LayoutAssumption DEF Ids
  <2> QED
    BY <2>1, FS_Interval
<1>2. IsFiniteSet(Scans)
  <2>1. [i \in Ids |-> Scanned(i)] \in Surjection(Ids, Scans)
    BY DEF Surjection, Scans
  <2> QED
    BY <1>1, <2>1, FS_Surjection
<1>3. Ids \subseteq Int
  BY LayoutAssumption DEF Ids
<1> QED
  BY <1>2, <1>3, ScannedIs DEF Scans

LEMMA Sorted ==
  ASSUME ReadsBack, NEW R \in SUBSET Scans
  PROVE  /\ ByStart(R) \in Seq(R)
         /\ \A r \in R : \E k \in DOMAIN ByStart(R) : ByStart(R)[k] = r
         /\ \A j, k \in DOMAIN ByStart(R) : j <= k => ByStart(R)[j].start <= ByStart(R)[k].start
         /\ \A j, k \in DOMAIN ByStart(R) : ByStart(R)[j] = ByStart(R)[k] => j = k
<1>1. IsFiniteSet(R)
  BY ScansAreRows, FS_Subset
<1>2. /\ \A r \in R : r.start \in Int /\ r.id \in Int
      /\ \A q, r \in R : q.id = r.id => q = r
  BY ScansAreRows
<1> QED
  BY <1>1, <1>2, InOrder

(* Every row a query finds overlaps the window, and so does what is kept   *)
(* of them for one stream.                                                 *)
LEMMA FoundOverlaps ==
  ASSUME ReadsBack, rows \subseteq Scans, NEW from, NEW to, NEW stream,
         NEW found, found = in_range(rows, from, to, stream)
  PROVE  /\ found \in Seq({r \in Scans : r.start < to /\ r.end > from})
         /\ dominant_stream(found) \in Seq({r \in Scans : r.start < to /\ r.end > from})
<1> DEFINE O == {r \in Scans : r.start < to /\ r.end > from}
           F == {r \in rows : /\ r.start < to /\ r.end > from
                              /\ stream \in {r.stream, AnyStream}}
<1>1. F \in SUBSET Scans /\ F \subseteq O
  OBVIOUS
<1>2. found = ByStart(F)
  BY DEF in_range
<1> HIDE DEF F
<1>3. found \in Seq(F)
  BY <1>1, <1>2, Sorted
<1>4. ASSUME NEW key
      PROVE  OfStream(found, key) \in Seq(O)
  <2> DEFINE K == {s \in ToSet(found) : s.stream = key}
  <2>1. K \in SUBSET Scans /\ K \subseteq O
    BY <1>1, <1>3 DEF ToSet
  <2>2. OfStream(found, key) = ByStart(K)
    BY DEF OfStream
  <2> HIDE DEF K, O
  <2> QED
    BY <2>1, <2>2, Sorted, SeqMonotonic
<1>5. \E key : dominant_stream(found) = OfStream(found, key)
  BY DEF dominant_stream
<1> HIDE DEF O
<1>6. found \in Seq(O) /\ dominant_stream(found) \in Seq(O)
  BY <1>1, <1>3, <1>4, <1>5, SeqMonotonic
<1> QED
  BY <1>6 DEF O

-----------------------------------------------------------------------------
(* The cut                                                                 *)

LEMMA Larger ==
  ASSUME NEW a \in Int, NEW b \in Int
  PROVE  Max({a, b}) = (IF a >= b THEN a ELSE b) /\ Min({a, b}) = (IF a <= b THEN a ELSE b)
<1>1. \A x \in {a, b} : (\A y \in {a, b} : x >= y) <=> x = (IF a >= b THEN a ELSE b)
  OBVIOUS
<1>2. \A x \in {a, b} : (\A y \in {a, b} : x <= y) <=> x = (IF a <= b THEN a ELSE b)
  OBVIOUS
<1>3. (IF a >= b THEN a ELSE b) \in {a, b} /\ (IF a <= b THEN a ELSE b) \in {a, b}
  OBVIOUS
<1>4. Max({a, b}) = IF a >= b THEN a ELSE b
  BY <1>1, <1>3 DEF Max
<1>5. Min({a, b}) = IF a <= b THEN a ELSE b
  BY <1>2, <1>3 DEF Min
<1> QED
  BY <1>4, <1>5

(* Summing up what lasts is defined, by the least length for which it      *)
(* would not be.                                                           *)
Sums(segs, g, n) ==
  g \in [0 .. n -> Int] /\ g[0] = 0 /\ \A k \in 1 .. n : g[k] = g[k - 1] + Duration(segs[k])

LEMMA SumsExist ==
  ASSUME NEW segs, NEW n \in Nat, \A k \in 1 .. n : Duration(segs[k]) \in Int
  PROVE  \E g : Sums(segs, g, n)
<1> DEFINE Bad == {m \in 0 .. n : ~ \E g : Sums(segs, g, m)}
<1>1. SUFFICES ASSUME Bad # {}
               PROVE  FALSE
  OBVIOUS
<1>2. Bad \in SUBSET Nat
  OBVIOUS
<1>3. PICK m \in Bad : \A k \in Bad : ~ (<<k, m>> \in OpToRel(<, Nat))
  <2> HIDE DEF Bad
  <2> QED
    BY <1>1, <1>2, NatLessThanWellFounded, WFMin, Zenon
<1>4. \A k \in Bad : ~ (k < m)
  <2> HIDE DEF Bad
  <2> QED
    BY <1>2, <1>3 DEF OpToRel
<1>5. m \in 0 .. n /\ ~ \E g : Sums(segs, g, m)
  OBVIOUS
<1>6. m # 0
  <2>1. Sums(segs, [k \in 0 .. 0 |-> 0], 0)
    BY DEF Sums
  <2> QED
    BY <1>5, <2>1
<1>7. m - 1 \in 0 .. n /\ m - 1 < m
  BY <1>5, <1>6
<1>8. PICK g : Sums(segs, g, m - 1)
  BY <1>4, <1>7
<1>9. PICK d \in Int : d = Duration(segs[m])
  BY <1>5, <1>6
<1>10. PICK h : h = [k \in 0 .. m |-> IF k = m THEN g[m - 1] + d ELSE g[k]]
  OBVIOUS
<1> HIDE DEF Bad
<1>11. h \in [0 .. m -> Int] /\ h[0] = 0
  BY <1>5, <1>6, <1>8, <1>10 DEF Sums
<1>12. ASSUME NEW k \in 1 .. m
       PROVE  h[k] = h[k - 1] + Duration(segs[k])
  <2>1. CASE k = m
    <3>1. h[m] = g[m - 1] + d /\ h[m - 1] = g[m - 1]
      BY <1>5, <1>6, <1>10
    <3> QED
      BY <1>9, <2>1, <3>1
  <2>2. CASE k # m
    <3>1. h[k] = g[k] /\ h[k - 1] = g[k - 1] /\ k \in 1 .. m - 1
      BY <1>5, <1>6, <1>10, <2>2
    <3> QED
      BY <1>8, <3>1 DEF Sums
  <2> QED
    BY <2>1, <2>2
<1> QED
  BY <1>5, <1>11, <1>12 DEF Sums

LEMMA TotalIs ==
  ASSUME NEW segs, Len(segs) \in Nat, \A k \in 1 .. Len(segs) : Duration(segs[k]) \in Nat
  PROVE  \E s : /\ TotalDuration(segs) = s[Len(segs)] /\ s[0] = 0
                /\ \A k \in 1 .. Len(segs) : s[k] = s[k - 1] + Duration(segs[k])
<1> DEFINE n    == Len(segs)
           F(s) == [k \in 0 .. n |-> IF k = 0 THEN 0 ELSE s[k - 1] + Duration(segs[k])]
           sum  == CHOOSE s : s = F(s)
<1>1. PICK g : Sums(segs, g, n)
  BY SumsExist
<1>2. g = F(g)
  BY <1>1 DEF Sums
<1>3. sum = F(sum)
  <2> HIDE DEF F
  <2> QED
    BY <1>2
<1>4. TotalDuration(segs) = sum[n]
  BY DEF TotalDuration
<1>5. \A k \in 0 .. n : sum[k] = IF k = 0 THEN 0 ELSE sum[k - 1] + Duration(segs[k])
  <2> DEFINE t == F(sum)
  <2>1. \A k \in 0 .. n : t[k] = IF k = 0 THEN 0 ELSE sum[k - 1] + Duration(segs[k])
    OBVIOUS
  <2>2. sum = t
    BY <1>3
  <2> HIDE DEF sum, t
  <2> QED
    BY <2>1, <2>2
<1> HIDE DEF sum
<1>6. \A k \in 1 .. n : k \in 0 .. n /\ k # 0
  OBVIOUS
<1> QED
  BY <1>4, <1>5, <1>6

LEMMA TotalAtLeast ==
  ASSUME NEW segs, Len(segs) \in Nat \ {0},
         \A k \in 1 .. Len(segs) : Duration(segs[k]) \in Nat
  PROVE  /\ TotalDuration(segs) \in Nat
         /\ TotalDuration(segs) >= Duration(segs[Len(segs)])
         /\ Len(segs) > 1 =>
              TotalDuration(segs) >= Duration(segs[1]) + Duration(segs[Len(segs)])
<1>1. PICK n : n = Len(segs)
  OBVIOUS
<1>2. PICK s : /\ TotalDuration(segs) = s[n] /\ s[0] = 0
               /\ \A k \in 1 .. n : s[k] = s[k - 1] + Duration(segs[k])
  BY <1>1, TotalIs
<1> DEFINE Fine(k) == s[k] \in Nat /\ (k > 0 => s[k] >= Duration(segs[1]))
           Bad     == {k \in 0 .. n : ~Fine(k)}
<1>3. Bad = {}
  <2>1. SUFFICES ASSUME Bad # {}
                 PROVE  FALSE
    OBVIOUS
  <2>2. Bad \in SUBSET Nat
    OBVIOUS
  <2>3. PICK m \in Bad : \A k \in Bad : ~ (<<k, m>> \in OpToRel(<, Nat))
    <3> HIDE DEF Bad
    <3> QED
      BY <2>1, <2>2, NatLessThanWellFounded, WFMin, Zenon
  <2>4. \A k \in Bad : ~ (k < m)
    <3> HIDE DEF Bad
    <3> QED
      BY <2>2, <2>3 DEF OpToRel
  <2>5. m \in 0 .. n /\ ~Fine(m) /\ m # 0
    BY <1>2
  <2>6. m - 1 \in 0 .. n /\ m - 1 < m /\ m \in 1 .. n
    BY <1>1, <2>5
  <2>7. Fine(m - 1)
    BY <2>4, <2>6
  <2>8. s[m] = s[m - 1] + Duration(segs[m]) /\ Duration(segs[m]) \in Nat
    BY <1>1, <1>2, <2>6
  <2>9. CASE m = 1
    BY <1>2, <2>5, <2>8, <2>9
  <2>10. CASE m # 1
    BY <2>5, <2>6, <2>7, <2>8, <2>10
  <2> QED
    BY <2>9, <2>10
<1>4. n \in 1 .. n /\ n - 1 \in 0 .. n
  BY <1>1
<1>5. Fine(n - 1)
  BY <1>3, <1>4
<1>6. s[n] = s[n - 1] + Duration(segs[n]) /\ Duration(segs[n]) \in Nat
  BY <1>1, <1>2, <1>4
<1>7. n > 1 => n - 1 > 0 /\ Duration(segs[1]) \in Nat
  BY <1>1, <1>4
<1> QED
  BY <1>1, <1>2, <1>5, <1>6, <1>7

(* A cut that takes something off the beginning leaves something.          *)
LEMMA CutLeavesSomething ==
  ASSUME NEW segs, Len(segs) \in Nat \ {0}, NEW from \in Int, NEW to \in Int, from < to,
         \A k \in 1 .. Len(segs) :
            /\ segs[k].start \in Int /\ segs[k].end \in Int /\ segs[k].start <= segs[k].end
            /\ segs[k].start < to /\ segs[k].end > from
  PROVE  LET c == clip_bounds(segs, from, to) IN
           /\ c.lead \in Int /\ c.duration \in Int
           /\ c.lead = 0 \/ c.duration > 0
<1> DEFINE first == segs[1]
           last  == segs[Len(segs)]
           lead  == Max({0, from - first.start})
           tail  == Max({0, last.end - to})
           total == TotalDuration(segs)
<1>1. /\ first.start \in Int /\ first.end \in Int /\ first.start <= first.end
      /\ first.start < to /\ first.end > from
  OBVIOUS
<1>2. /\ last.start \in Int /\ last.end \in Int /\ last.start <= last.end
      /\ last.start < to /\ last.end > from
  OBVIOUS
<1>3. \A k \in 1 .. Len(segs) : Duration(segs[k]) \in Nat
  BY DEF Duration
<1>4. /\ total \in Nat /\ total >= last.end - last.start
      /\ Len(segs) > 1 => total >= (first.end - first.start) + (last.end - last.start)
  BY <1>3, TotalAtLeast DEF Duration
<1>5. /\ lead = (IF 0 >= from - first.start THEN 0 ELSE from - first.start)
      /\ tail = (IF 0 >= last.end - to THEN 0 ELSE last.end - to)
  <2> HIDE DEF first, last
  <2>1. 0 \in Int /\ from - first.start \in Int /\ last.end - to \in Int
    BY <1>1, <1>2
  <2> QED
    BY <2>1, Larger
<1>6. Len(segs) = 1 => first = last
  OBVIOUS
<1>7. clip_bounds(segs, from, to) = [lead |-> lead, duration |-> Max({0, total - lead - tail})]
  BY DEF clip_bounds, Last
<1> HIDE DEF first, last, lead, tail, total
<1>8. lead \in Int /\ tail \in Int
  BY <1>1, <1>2, <1>5
<1>9. lead # 0 => total - lead - tail > 0
  <2>1. CASE Len(segs) = 1
    BY <1>1, <1>2, <1>4, <1>5, <1>6, <2>1
  <2>2. CASE Len(segs) # 1
    <3>1. Len(segs) > 1
      <4>1. PICK n \in Nat \ {0} : n = Len(segs)
        OBVIOUS
      <4>2. n > 1
        BY <2>2, <4>1
      <4> QED
        BY <4>1, <4>2
    <3>2. total >= (first.end - first.start) + (last.end - last.start)
      BY <1>4, <3>1
    <3>3. lead # 0 => first.end - first.start - lead > 0
      BY <1>1, <1>5
    <3>4. last.end - last.start - tail >= 0
      BY <1>2, <1>5
    <3> QED
      BY SMTT(30), <1>1, <1>2, <1>4, <1>8, <3>2, <3>3, <3>4
  <2> QED
    BY <2>1, <2>2
<1>10. Max({0, total - lead - tail}) = IF 0 >= total - lead - tail THEN 0 ELSE total - lead - tail
  BY <1>4, <1>8, Larger
<1>11. PICK d : d = Max({0, total - lead - tail})
  OBVIOUS
<1>12. d \in Int /\ (lead = 0 \/ d > 0)
  BY <1>4, <1>8, <1>9, <1>10, <1>11
<1>13. PICK c : c = clip_bounds(segs, from, to)
  OBVIOUS
<1>14. c.lead = lead /\ c.duration = d
  BY <1>7, <1>11, <1>13
<1> QED
  BY <1>8, <1>12, <1>13, <1>14

-----------------------------------------------------------------------------
(* What a request works on: rows that were scanned, a range that is one,   *)
(* and segments that overlap it                                            *)

Overlapping == {r \in Scans : r.start < request.to /\ r.end > request.from}

Queried ==
  /\ rows \subseteq Scans
  /\ pc = "idle" => segments = <<>> /\ prepared = <<>>
  /\ pc # "idle" =>
       /\ request.from \in Nat /\ request.to \in Nat /\ request.from < request.to
       /\ segments \in Seq(Overlapping)
       /\ \A i \in DOMAIN prepared :
            prepared[i].row \in Overlapping /\ FileSize(prepared[i].part) \in Nat
  /\ pc = "preparing" /\ keep # None => segments # <<>>

Cut == clip.lead \in Int /\ clip.duration \in Int /\ (clip.lead = 0 \/ clip.duration > 0)

Clocks == (\E S : out \in Seq(S)) /\ ClockIsTrue

LEMMA ClockAtStart ==
  ASSUME Init
  PROVE  Queried /\ Cut /\ Clocks
<1>1. rows = Scans /\ pc = "idle" /\ segments = <<>> /\ prepared = <<>>
  BY DEF Init, Scans
<1>2. clip.lead = 0 /\ clip.duration = 0 /\ out = <<>>
  BY DEF Init
<1>3. out \in Seq({})
  BY <1>2
<1> QED
  BY <1>1, <1>2, <1>3 DEF Queried, Cut, Clocks, ClockIsTrue

(* Nothing that is asked for changes.                                      *)
LEMMA SameQuery ==
  ASSUME Queried, writing' = writing, rows' \subseteq rows, UNCHANGED <<request, prepared>>,
         pc' = "idle" <=> pc = "idle",
         \/ segments' = segments
         \/ pc # "idle" /\ segments # <<>> /\ segments' = Tail(segments),
         pc' = "preparing" /\ keep' # None => segments' # <<>>
  PROVE  Queried'
<1>1. Scans' = Scans /\ Overlapping' = Overlapping
  BY DEF Scans, Scanned, Overlapping
<1>2. pc # "idle" => segments' \in Seq(Overlapping)
  <2>1. CASE segments' = segments
    BY <2>1 DEF Queried
  <2>2. CASE pc # "idle" /\ segments # <<>> /\ segments' = Tail(segments)
    BY <2>2, HeadTailProperties DEF Queried
  <2> QED
    BY <2>1, <2>2
<1>3. pc' = "idle" => segments' = <<>> /\ prepared' = <<>>
  BY DEF Queried
<1> QED
  BY <1>1, <1>2, <1>3 DEF Queried

LEMMA InputRow ==
  ASSUME Disk, Current \in Ids, keep \in Nat, NEW x \in Input
  PROVE  x.row = Head(segments) /\ FileSize(x.part) \in Nat
<1> DEFINE f == content[Current]
           b == SubSeq(f.boxes, 1, keep)
<1>1. f \in Files
  BY DEF Disk
<1>2. CASE x = [row |-> Head(segments), copy |-> FALSE, part |-> f]
  <2>1. x.row = Head(segments) /\ x.part = f
    BY <1>2
  <2> QED
    BY <1>1, <2>1 DEF Files, FileSize
<1>3. CASE x = [row |-> Head(segments), copy |-> TRUE, part |-> [boxes |-> b, cut |-> FALSE]]
  <2>1. x.row = Head(segments) /\ x.part.boxes = b
    BY <1>3
  <2>2. PICK g : g = f.boxes
    OBVIOUS
  <2> DEFINE S == {g[i] : i \in 1 .. keep}
  <2>3. \A i \in 1 .. keep : g[i] \in S
    OBVIOUS
  <2> HIDE DEF S
  <2>4. SubSeq(g, 1, keep) \in Seq(S)
    BY <2>3, SubSeqProperties
  <2>5. Len(b) \in Nat
    BY <2>2, <2>4
  <2> QED
    BY <2>1, <2>5 DEF FileSize
<1> QED
  BY <1>2, <1>3 DEF Input

LEMMA QueryKeeps ==
  ASSUME ReadsBack, Queried, Query
  PROVE  Queried'
<1> DEFINE found == in_range(rows, request.from, request.to, request.stream)
<1>1. /\ pc = "querying" /\ pc' \notin {"idle", "preparing"}
      /\ UNCHANGED <<rows, writing, request, prepared>>
  BY DEF Query, diskVars
<1>2. Scans' = Scans /\ Overlapping' = Overlapping
  BY <1>1 DEF Query, Scans, Scanned, Overlapping
<1>3. found \in Seq(Overlapping) /\ dominant_stream(found) \in Seq(Overlapping)
  <2> HIDE DEF found
  <2>1. found = in_range(rows, request.from, request.to, request.stream)
    BY DEF found
  <2> QED
    BY <2>1, FoundOverlaps DEF Queried, Overlapping
<1>4. segments' \in {segments, found, dominant_stream(found)}
  BY DEF Query
<1>5. segments' \in Seq(Overlapping)
  <2> HIDE DEF found
  <2> QED
    BY <1>1, <1>3, <1>4 DEF Queried
<1> QED
  BY <1>1, <1>2, <1>5 DEF Queried

LEMMA CompareKeepsQuery ==
  ASSUME ReadsBack, Disk, Inputs, Queried, Compare
  PROVE  Queried'
<1>1. /\ pc = "preparing" /\ keep \in Nat /\ Current \in Ids
      /\ UNCHANGED <<rows, writing, request, pc>> /\ segments' = Tail(segments)
  BY DEF Compare, Inputs, Disk, diskVars
<1>2. Scans' = Scans /\ Overlapping' = Overlapping
  BY <1>1 DEF Scans, Scanned, Overlapping
<1>3. segments \in Seq(Overlapping)
  BY <1>1 DEF Queried
<1>4. Head(segments) \in Overlapping /\ segments' \in Seq(Overlapping)
  BY <1>1, <1>3, HeadTailProperties DEF Queried, Compare
<1>5. ASSUME NEW x \in Input
      PROVE  x.row \in Overlapping /\ FileSize(x.part) \in Nat
  BY <1>1, <1>4, InputRow
<1>6. ASSUME NEW i \in DOMAIN prepared'
      PROVE  prepared'[i].row \in Overlapping /\ FileSize(prepared'[i].part) \in Nat
  <2>1. CASE prepared' = prepared
    BY <1>1, <1>6, <2>1 DEF Queried
  <2>2. ASSUME NEW x \in Input,
               \/ i \in DOMAIN prepared /\ prepared'[i] = prepared[i]
               \/ i = Len(prepared) + 1 /\ prepared'[i] = x
        PROVE  prepared'[i].row \in Overlapping /\ FileSize(prepared'[i].part) \in Nat
    BY <1>1, <1>5, <2>2 DEF Queried
  <2> QED
    BY <1>6, <2>1, <2>2, Compared
<1>7. keep' = None
  BY DEF Compare
<1> QED
  BY <1>1, <1>2, <1>4, <1>6, <1>7 DEF Queried

LEMMA QueriedKept ==
  ASSUME ReadsBack, IInv, Queried, [Next]_vars
  PROVE  Queried'
<1> USE DEF IInv
<1>1. writing' = writing
  BY DiskKept
<1>2. CASE Query
  BY <1>2, QueryKeeps
<1>3. CASE Compare
  BY <1>3, CompareKeepsQuery
<1>4. CASE Look
  <2>1. /\ UNCHANGED <<rows, request, prepared, pc>> /\ pc # "idle" /\ segments # <<>>
        /\ \/ segments' = segments
           \/ segments' = Tail(segments) /\ keep' = None
    BY <1>4 DEF Look, diskVars
  <2> QED
    BY <1>1, <2>1, SameQuery
<1>5. CASE OrphanPrepares
  <2>1. /\ pc \notin {"idle", "preparing"}
        /\ \/ segments' = segments
           \/ segments # <<>> /\ segments' = Tail(segments)
    BY <1>5 DEF OrphanPrepares, Scratch, Ending
  <2>2. UNCHANGED <<rows, request, prepared, pc>>
    BY <1>5 DEF OrphanPrepares, diskVars
  <2> QED
    BY <1>1, <2>1, <2>2, SameQuery
<1>6. CASE MakeScratch
  <2>1. keep' = None /\ pc # "idle" /\ pc' # "idle" /\ UNCHANGED <<rows, request, prepared, segments>>
    BY <1>6 DEF MakeScratch, Inputs, Early, diskVars, inputVars
  <2> QED
    BY <1>1, <2>1, SameQuery
<1>7. CASE \/ Prepared \/ Probe \/ ProbeFails \/ WriteList \/ Spawn \/ SpawnFails
           \/ EndOfFile \/ Stalled \/ Waited \/ Finalised \/ Clean \/ RemoveScratch \/ CompareFails
  <2>1. UNCHANGED <<rows, request, prepared, segments>>
    BY <1>7 DEF Prepared, Probe, ProbeFails, WriteList, Spawn, SpawnFails, EndOfFile,
       Stalled, Waited, Finalised, Clean, RemoveScratch, CompareFails, Fail, diskVars, inputVars
  <2>2. pc # "idle" /\ pc' \notin {"idle", "preparing"}
    BY <1>7 DEF Prepared, Probe, ProbeFails, WriteList, Spawn, SpawnFails, EndOfFile,
       Stalled, Waited, Finalised, Clean, RemoveScratch, CompareFails, Fail
  <2> QED
    BY <1>1, <2>1, <2>2, SameQuery
<1>8. CASE OrphanMakes \/ OrphanLists \/ Writes \/ UNCHANGED vars
  <2>1. UNCHANGED <<rows, request, prepared, segments, pc, keep>>
    BY <1>8 DEF OrphanMakes, OrphanLists, Writes, vars, diskVars, inputVars
  <2> QED
    BY <1>1, <2>1, SameQuery DEF Queried
<1>9. CASE Chunk \/ Breaks \/ Taken
  <2>1. UNCHANGED <<rows, request, prepared, segments, keep>>
    BY <1>9 DEF Chunk, Breaks, Taken, diskVars, inputVars
  <2>2. pc' = pc \/ (pc # "idle" /\ pc' \notin {"idle", "preparing"})
    BY <1>9 DEF Chunk, Breaks, Taken
  <2> QED
    BY <1>1, <2>1, <2>2, SameQuery DEF Queried
<1>10. CASE Leaves
  <2>1. UNCHANGED <<rows, request, prepared, segments>>
    BY <1>10 DEF Leaves, diskVars, inputVars
  <2>2. pc # "idle" /\ pc' \notin {"idle", "preparing"}
    BY <1>10 DEF Leaves, After, Scratch, Early, Before, Joining, Ending
  <2> QED
    BY <1>1, <2>1, <2>2, SameQuery
<1>11. ASSUME NEW i \in there, Deleted(i)
       PROVE  Queried'
  <2>1. UNCHANGED <<request, prepared, segments, pc, keep>> /\ rows' \subseteq rows
    BY <1>11 DEF Deleted, inputVars
  <2> QED
    BY <1>1, <2>1, SameQuery DEF Queried
<1>12. ASSUME NEW r \in Requests, <<r.from, r.to>> \in Ranges, Ask(r)
       PROVE  Queried'
  <2>1. /\ UNCHANGED <<rows, segments, prepared>> /\ pc = "idle" /\ pc' = "querying"
        /\ request' = r /\ r.from < r.to
    BY <1>12 DEF Ask, Valid, diskVars, inputVars
  <2>2. r.from \in Nat /\ r.to \in Nat
    BY <1>12, LayoutAssumption
  <2>3. segments' \in Seq(Overlapping') /\ DOMAIN prepared' = {}
    BY <2>1 DEF Queried
  <2>4. Scans' = Scans
    BY <1>1 DEF Scans, Scanned
  <2> QED
    BY <2>1, <2>2, <2>3, <2>4 DEF Queried
<1> QED
  BY <1>2, <1>3, <1>4, <1>5, <1>6, <1>7, <1>8, <1>9, <1>10, <1>11, <1>12 DEF Next, Step

LEMMA CutKept ==
  ASSUME ReadsBack, IInv, Queried, Cut, [Next]_vars
  PROVE  Cut'
<1>1. CASE UNCHANGED clip
  BY <1>1 DEF Cut
<1>2. CASE /\ Prepared /\ prepared # <<>>
           /\ clip' = clip_bounds([i \in DOMAIN prepared |-> prepared[i].row],
                                  request.from, request.to)
  <2>1. PICK segs : segs = [i \in DOMAIN prepared |-> prepared[i].row]
    OBVIOUS
  <2>2. pc = "preparing"
    BY <1>2 DEF Prepared
  <2>3. /\ request.from \in Int /\ request.to \in Int /\ request.from < request.to
        /\ \A i \in DOMAIN prepared : prepared[i].row \in Overlapping
    BY <2>2 DEF Queried
  <2>4. DOMAIN prepared = 1 .. Len(prepared) /\ Len(prepared) \in Nat \ {0}
    BY <1>2 DEF IInv, Inputs
  <2>5. Len(segs) = Len(prepared) /\ \A k \in 1 .. Len(segs) : segs[k] \in Overlapping
    BY <2>1, <2>3, <2>4
  <2>6. ASSUME NEW k \in 1 .. Len(segs)
        PROVE  /\ segs[k].start \in Int /\ segs[k].end \in Int /\ segs[k].start <= segs[k].end
               /\ segs[k].start < request.to /\ segs[k].end > request.from
    <3>1. segs[k] \in Scans /\ segs[k].start < request.to /\ segs[k].end > request.from
      BY <2>5 DEF Overlapping
    <3>2. segs[k].start \in Nat /\ segs[k].end \in Nat /\ segs[k].start <= segs[k].end
      BY <3>1, ScansAreRows
    <3> QED
      BY <3>1, <3>2
  <2>7. Len(segs) \in Nat \ {0}
    BY <2>4, <2>5
  <2>8. clip' = clip_bounds(segs, request.from, request.to)
    BY <1>2, <2>1
  <2> QED
    BY <2>3, <2>6, <2>7, <2>8, CutLeavesSomething DEF Cut
<1>3. Prepared => \/ UNCHANGED clip
                  \/ /\ prepared # <<>>
                     /\ clip' = clip_bounds([i \in DOMAIN prepared |-> prepared[i].row],
                                            request.from, request.to)
  BY DEF Prepared
<1>4. ~Prepared => UNCHANGED clip
  BY DEF Next, Step, Query, MakeScratch, Look, Compare, CompareFails, Probe, ProbeFails,
     WriteList, Spawn, SpawnFails, EndOfFile, Stalled, Waited, Clean, RemoveScratch,
     Finalised, OrphanMakes, OrphanPrepares, OrphanLists, Fail, Chunk, Breaks, Taken,
     Leaves, Ask, Writes, Deleted, vars, inputVars
<1> QED
  BY <1>1, <1>2, <1>3, <1>4

(* The first input begins with the cut where the picture is made anew, and *)
(* at the last keyframe before it where it is copied.                      *)
LEMMA InpointIs ==
  ASSUME NEW i, NEW n \in Nat, n = Seconds(FileOf(i), FileSize(FileOf(i))),
         prepared[i].row.id \in Ids, clip.lead \in Int, clip.lead = 0 \/ clip.duration > 0
  PROVE  /\ Inpoint(i) \in Int
         /\ ~(i = 1 /\ clip.duration > 0) => Inpoint(i) = 0
         /\ stamp => Inpoint(i) = IF i = 1 THEN clip.lead ELSE 0
         /\ clip.lead >= 0 => 0 <= Inpoint(i) /\ Inpoint(i) <= clip.lead
         /\ i = 1 => \A q \in Layout[prepared[i].row.id].keyframes :
                       q <= clip.lead /\ q < n => q <= Inpoint(i)
<1> DEFINE keyframes == Layout[prepared[i].row.id].keyframes
           possible == {q \in keyframes : q <= clip.lead /\ q < n}
<1>1. keyframes \subseteq Nat
  BY LayoutOf
<1>2. {0} \cup possible \in SUBSET (0 .. n) /\ {0} \cup possible # {}
  BY <1>1
<1>3. /\ Max({0} \cup possible) \in {0} \cup possible
      /\ \A q \in {0} \cup possible : q <= Max({0} \cup possible)
  <2> HIDE DEF possible
  <2> QED
    BY <1>2, Greatest
<1>4. PICK p : p = Max({0} \cup possible)
  OBVIOUS
<1>5. /\ p \in Int /\ 0 <= p /\ (p = 0 \/ p <= clip.lead)
      /\ \A q \in keyframes : q <= clip.lead /\ q < n => q <= p
  BY <1>1, <1>3, <1>4
<1>6. Inpoint(i) = IF i = 1 /\ clip.duration > 0 THEN IF stamp THEN clip.lead ELSE p ELSE 0
  BY <1>4 DEF Inpoint
<1> HIDE DEF keyframes
<1>7. CASE i = 1 /\ clip.duration > 0 /\ stamp
  BY <1>1, <1>6, <1>7
<1>8. CASE i = 1 /\ clip.duration > 0 /\ ~stamp
  BY <1>5, <1>6, <1>8 DEF keyframes
<1>9. CASE ~(i = 1 /\ clip.duration > 0)
  BY <1>1, <1>6, <1>9
<1> QED
  BY <1>7, <1>8, <1>9 DEF keyframes

(* Every second an input contributes bears the time it was taken at.       *)
LEMMA ContributionTells ==
  ASSUME ReadsBack, IInv, Queried, Cut, \E S : out \in Seq(S), pc = "reading",
         NEW i \in 1 .. Len(prepared)
  PROVE  \E T : /\ Contribution(i) \in Seq(T)
                /\ \A e \in T : e.clock # None => e.clock = e.at
<1>1. Len(prepared) \in Nat /\ DOMAIN prepared = 1 .. Len(prepared)
  BY DEF IInv, Inputs
<1>2. PICK row : row = prepared[i].row
  OBVIOUS
<1>3. /\ row \in Overlapping /\ FileSize(prepared[i].part) \in Nat
      /\ request.from \in Int /\ request.to \in Int
  BY <1>1, <1>2 DEF Queried
<1>4. /\ row.start \in Int /\ row.end \in Int /\ row.id \in Ids /\ row.start = Layout[row.id].began
  BY <1>3, ScansAreRows DEF Overlapping
<1>5. Seconds(FileOf(i), FileSize(FileOf(i))) \in Nat
  <2>1. PICK f : f = FileOf(i)
    OBVIOUS
  <2>2. FileSize(f) \in Nat
    <3>1. content[row.id] \in Files
      BY <1>4 DEF IInv, Disk
    <3>2. FileSize(content[row.id]) \in Nat
      BY <3>1 DEF Files, FileSize
    <3> QED
      BY <1>2, <1>3, <2>1, <3>2 DEF FileOf
  <2> DEFINE P == {j \in PairEnds(f) : j <= FileSize(f)}
  <2>3. P \in SUBSET (2 .. FileSize(f))
    BY DEF PairEnds
  <2>4. IsFiniteSet(2 .. FileSize(f))
    BY <2>2, FS_Interval
  <2>5. Cardinality(P) \in Nat
    <3> HIDE DEF P
    <3> QED
      BY <2>3, <2>4, FS_Subset, FS_CardinalityType
  <2> QED
    BY <2>1, <2>5 DEF Seconds
<1>6. Outpoint(i) \in Int
  <2>1. PICK n \in Int : n = Seconds(FileOf(i), FileSize(FileOf(i)))
    BY <1>5
  <2>2. PICK t \in Int : t = request.to - row.start
    BY <1>3, <1>4
  <2>3. Min({n, t}) \in Int
    BY Larger, Zenon
  <2> QED
    BY <1>2, <2>1, <2>2, <2>3 DEF Outpoint
<1>7. Inpoint(i) \in Int /\ (stamp => Inpoint(i) = IF i = 1 THEN clip.lead ELSE 0)
  BY <1>2, <1>4, <1>5, InpointIs DEF Cut
<1>8. stamp => Epoch(i) = row.start + Inpoint(i)
  BY <1>2, <1>7 DEF Epoch
<1> DEFINE length == Max({0, Outpoint(i) - Inpoint(i)})
           limit  == IF stamp /\ clip.duration > 0
                     THEN Max({0, clip.duration - Len(out)}) ELSE length
           second(k) == [stream |-> row.stream, at |-> Layout[row.id].began + Inpoint(i) + k - 1,
                         clock |-> IF stamp THEN Epoch(i) + k - 1 ELSE None]
<1>9. length \in Int
  <2>1. PICK d \in Int : d = Outpoint(i) - Inpoint(i)
    BY <1>6, <1>7
  <2> QED
    BY <2>1, Larger
<1>10. limit \in Int
  <2>1. Len(out) \in Nat
    OBVIOUS
  <2>2. PICK d \in Int : d = clip.duration - Len(out)
    BY <2>1 DEF Cut
  <2>3. Max({0, d}) \in Int
    BY Larger
  <2> QED
    BY <1>9, <2>2, <2>3
<1> HIDE DEF length, limit
<1>11. PICK m \in Int : m = Min({length, limit})
  BY <1>9, <1>10, Larger
<1>12. Contribution(i) = [k \in 1 .. m |-> second(k)]
  BY <1>2, <1>11 DEF Contribution, length, limit
<1> DEFINE T == {second(k) : k \in 1 .. m}
<1>13. Contribution(i) \in Seq(T)
  <2> HIDE DEF second
  <2>1. CASE m >= 0
    BY <1>12, <2>1
  <2>2. CASE m < 0
    <3>1. 1 .. m = 1 .. 0
      BY <2>2
    <3> QED
      BY <1>12, <3>1
  <2> QED
    BY <2>1, <2>2
<1>14. ASSUME NEW k \in 1 .. m, second(k).clock # None
       PROVE  second(k).clock = second(k).at
  <2>1. /\ second(k).clock = IF stamp THEN Epoch(i) + k - 1 ELSE None
        /\ second(k).at = Layout[row.id].began + Inpoint(i) + k - 1
    OBVIOUS
  <2> HIDE DEF second
  <2>2. stamp /\ second(k).clock = Epoch(i) + k - 1
    BY <1>14, <2>1
  <2> QED
    BY <1>4, <1>8, <2>1, <2>2
<1> QED
  BY <1>13, <1>14

LEMMA ClocksKept ==
  ASSUME ReadsBack, IInv, Queried, Cut, Clocks, [Next]_vars
  PROVE  Clocks'
<1>1. CASE out' = out
  BY <1>1 DEF Clocks, ClockIsTrue
<1>2. CASE pc = "reading" /\ reached + 1 <= Len(prepared) /\ out' = out \o Contribution(reached + 1)
  <2>1. reached + 1 \in 1 .. Len(prepared)
    BY <1>2 DEF IInv, Join, Inputs
  <2>2. PICK S : out \in Seq(S)
    BY DEF Clocks
  <2>3. PICK c : c = Contribution(reached + 1)
    OBVIOUS
  <2>4. PICK T : c \in Seq(T) /\ \A e \in T : e.clock # None => e.clock = e.at
    BY <1>2, <2>1, <2>2, <2>3, ContributionTells
  <2>5. out \in Seq(S \cup T) /\ c \in Seq(S \cup T)
    BY <2>2, <2>4
  <2>6. /\ out' \in Seq(S \cup T) /\ Len(out') = Len(out) + Len(c)
        /\ \A k \in 1 .. Len(out) + Len(c) :
             out'[k] = IF k <= Len(out) THEN out[k] ELSE c[k - Len(out)]
    BY <1>2, <2>3, <2>5, ConcatProperties
  <2>7. ASSUME NEW k \in DOMAIN out', out'[k].clock # None
        PROVE  out'[k].clock = out'[k].at
    <3>1. Len(out) \in Nat /\ Len(c) \in Nat /\ k \in 1 .. Len(out) + Len(c)
      BY <2>5, <2>6
    <3>2. CASE k <= Len(out)
      <4>1. k \in DOMAIN out /\ out'[k] = out[k]
        BY <2>5, <2>6, <3>1, <3>2
      <4> QED
        BY <2>7, <4>1 DEF Clocks, ClockIsTrue
    <3>3. CASE ~(k <= Len(out))
      <4>1. k - Len(out) \in 1 .. Len(c) /\ out'[k] = c[k - Len(out)]
        BY <2>6, <3>1, <3>3
      <4>2. c[k - Len(out)] \in T
        BY <2>4, <4>1
      <4> QED
        BY <2>4, <2>7, <4>1, <4>2
    <3> QED
      BY <3>2, <3>3
  <2> QED
    BY <2>6, <2>7 DEF Clocks, ClockIsTrue
<1>3. CASE Chunk
  BY <1>1, <1>2, <1>3 DEF Chunk
<1>4. ~Chunk => out' = out
  BY DEF Next, Step, Query, MakeScratch, Look, Compare, CompareFails, Prepared, Probe,
     ProbeFails, WriteList, Spawn, SpawnFails, EndOfFile, Stalled, Waited, Clean,
     RemoveScratch, Finalised, OrphanMakes, OrphanPrepares, OrphanLists, Fail, Breaks,
     Taken, Leaves, Ask, Writes, Deleted, vars, joinVars
<1> QED
  BY <1>1, <1>3, <1>4

(* The clock burnt into a stamped export is the time of the picture,       *)
(* behind gaps and cut-off heads and in the hour that comes twice, as long *)
(* as names can be told apart by how long a segment is.                    *)
THEOREM StampedClockIsTrue ==
  ASSUME ReadsBack
  PROVE  Spec => []ClockIsTrue
<1> DEFINE Inv == IInv /\ Queried /\ Cut /\ Clocks
<1>1. Init => Inv
  BY AtStart, ClockAtStart
<1>2. Inv /\ [Next]_vars => Inv'
  BY DiskKept, ScratchKept, JoinKept, InputsKept, QueriedKept, CutKept, ClocksKept DEF IInv
<1>3. Inv => ClockIsTrue
  BY DEF Clocks
<1> QED
  BY <1>1, <1>2, <1>3, PTL DEF Spec

-----------------------------------------------------------------------------
(* The timeline                                                            *)

(* Segments in the order they began                                        *)
InTime(segs) ==
  /\ segs \in Seq({segs[k] : k \in DOMAIN segs})
  /\ \A k \in DOMAIN segs :
       segs[k].start \in Int /\ segs[k].end \in Int /\ segs[k].start <= segs[k].end
  /\ \A j, k \in DOMAIN segs : j <= k => segs[j].start <= segs[k].start

Block(segs) ==
  [stream : {segs[k].stream : k \in DOMAIN segs}, start : Int, end : Int]

(* What the blocks of the first n segments cover, and what the last of     *)
(* them is made of                                                         *)
Draws(blocks, segs, n, gap) ==
  /\ blocks \in Seq(Block(segs))
  /\ \A t \in Int : \A b \in DOMAIN blocks :
       blocks[b].start <= t /\ t < blocks[b].end =>
         \E k \in 1 .. n : /\ segs[k].stream = blocks[b].stream
                           /\ segs[k].start <= t /\ t < segs[k].end + gap
  /\ \A k \in 1 .. n : \E b \in DOMAIN blocks :
       /\ blocks[b].stream = segs[k].stream
       /\ blocks[b].start <= segs[k].start /\ segs[k].end <= blocks[b].end
  /\ blocks # <<>> => \E j, k \in 1 .. n :
       /\ blocks[Len(blocks)].start = segs[j].start
       /\ blocks[Len(blocks)].end = segs[k].end
       /\ blocks[Len(blocks)].stream = segs[k].stream

LEMMA OneMoreSegment ==
  ASSUME NEW segs, InTime(segs), NEW gap \in Nat, NEW m \in 1 .. Len(segs),
         NEW blocks, Draws(blocks, segs, m - 1, gap)
  PROVE  Draws(WithSegment(blocks, segs[m], gap), segs, m, gap)
<1> DEFINE s == segs[m]
           B == Block(segs)
           n == Len(blocks)
<1>1. DOMAIN segs = 1 .. Len(segs) /\ Len(segs) \in Nat /\ 1 .. m - 1 \subseteq 1 .. m
  BY DEF InTime
<1>2. /\ s.start \in Int /\ s.end \in Int /\ s.start <= s.end
      /\ \A k \in 1 .. m - 1 : segs[k].start <= s.start
      /\ \A k \in 1 .. m : segs[k].start \in Int /\ segs[k].end \in Int
                           /\ segs[k].start <= segs[k].end
  <2>1. \A k \in 1 .. m : k \in DOMAIN segs /\ k <= m /\ m \in DOMAIN segs
    BY <1>1
  <2>2. \A k \in 1 .. m : /\ segs[k].start \in Int /\ segs[k].end \in Int
                          /\ segs[k].start <= segs[k].end /\ segs[k].start <= segs[m].start
    BY <2>1 DEF InTime
  <2>3. m \in 1 .. m
    BY <1>1
  <2> QED
    BY <1>1, <2>2, <2>3
<1>3. blocks \in Seq(B) /\ n \in Nat /\ DOMAIN blocks = 1 .. n
  BY DEF Draws
<1>4. \A e \in B : e.start \in Int /\ e.end \in Int
  BY DEF Block
<1>5. \A b \in 1 .. n : blocks[b] \in B /\ blocks[b].start \in Int /\ blocks[b].end \in Int
  BY <1>3, <1>4
<1>6. CASE Continues(blocks, s, gap)
  <2> DEFINE last == blocks[n]
             e    == Max({last.end, s.end})
             more == [blocks EXCEPT ![n] = [last EXCEPT !.end = e]]
  <2>1. n \in 1 .. n /\ s.start - last.end <= gap /\ last.stream = s.stream
    BY <1>3, <1>6 DEF Continues, Last
  <2>2. /\ last \in B /\ last.start \in Int /\ last.end \in Int
        /\ \E j, k \in 1 .. m - 1 : /\ last.start = segs[j].start /\ last.end = segs[k].end
                                    /\ last.stream = segs[k].stream
    BY <1>3, <1>5, <2>1 DEF Draws
  <2>3. e \in Int /\ e >= last.end /\ e >= s.end /\ (e = last.end \/ e = s.end)
    <3> HIDE DEF last, s
    <3>1. e = IF last.end >= s.end THEN last.end ELSE s.end
      BY <1>2, <2>2, Larger
    <3> QED
      BY <1>2, <2>2, <3>1
  <2>4. WithSegment(blocks, s, gap) = more
    BY <1>6 DEF WithSegment
  <2>5. /\ [last EXCEPT !.end = e] \in B
        /\ [last EXCEPT !.end = e].start = last.start /\ [last EXCEPT !.end = e].end = e
        /\ [last EXCEPT !.end = e].stream = last.stream
    <3> HIDE DEF e, last
    <3> QED
      BY <2>2, <2>3 DEF Block
  <2> HIDE DEF e, last, s, B
  <2>6. /\ more \in Seq(B) /\ Len(more) = n /\ DOMAIN more = 1 .. n
        /\ \A b \in 1 .. n : b # n => more[b] = blocks[b]
        /\ more[n] = [last EXCEPT !.end = e]
    BY <1>3, <2>1, <2>5
  <2>7. more[n].start = last.start /\ more[n].end = e /\ more[n].stream = s.stream
    BY <2>1, <2>5, <2>6
  <2> HIDE DEF more
  <2>8. ASSUME NEW t \in Int, NEW b \in 1 .. n, more[b].start <= t, t < more[b].end
        PROVE  \E k \in 1 .. m : /\ segs[k].stream = more[b].stream
                                 /\ segs[k].start <= t /\ t < segs[k].end + gap
    <3>1. CASE b # n \/ t < last.end
      <4>1. /\ blocks[b].start <= t /\ t < blocks[b].end /\ blocks[b].stream = more[b].stream
        BY <2>1, <2>6, <2>7, <2>8, <3>1 DEF last
      <4>2. PICK k \in 1 .. m - 1 : /\ segs[k].stream = blocks[b].stream
                                    /\ segs[k].start <= t /\ t < segs[k].end + gap
        BY <1>3, <4>1 DEF Draws
      <4>3. k \in 1 .. m
        BY <1>1
      <4> QED
        BY <4>1, <4>2, <4>3
    <3>2. CASE b = n /\ last.end <= t /\ s.start <= t
      <4>1. t < s.end + gap
        BY SMTT(30), <1>2, <2>2, <2>3, <2>7, <2>8, <3>2
      <4> QED
        BY <2>7, <3>2, <4>1 DEF s
    <3>3. CASE b = n /\ last.end <= t /\ t < s.start
      <4>1. PICK k \in 1 .. m - 1 : last.end = segs[k].end /\ last.stream = segs[k].stream
        BY <2>2
      <4>2. k \in 1 .. m /\ segs[k].start <= segs[k].end /\ segs[k].start \in Int
        BY <1>1, <1>2, <4>1
      <4>3. segs[k].start <= t /\ t < segs[k].end + gap
        BY SMTT(30), <1>2, <2>1, <2>2, <3>3, <4>1, <4>2
      <4> QED
        BY <2>1, <2>7, <3>3, <4>1, <4>2, <4>3
    <3> QED
      BY SMTT(30), <1>2, <2>2, <2>8, <3>1, <3>2, <3>3
  <2>9. ASSUME NEW k \in 1 .. m
        PROVE  \E b \in 1 .. n : /\ more[b].stream = segs[k].stream
                                 /\ more[b].start <= segs[k].start /\ segs[k].end <= more[b].end
    <3>1. CASE k = m
      <4>1. PICK j \in 1 .. m - 1 : last.start = segs[j].start
        BY <2>2
      <4>2. last.start <= s.start
        BY <1>2, <4>1
      <4>3. /\ more[n].start <= segs[k].start /\ segs[k].end <= more[n].end
            /\ more[n].stream = segs[k].stream
        BY <2>3, <2>7, <3>1, <4>2 DEF s
      <4> QED
        BY <2>1, <4>3
    <3>2. CASE k # m
      <4>1. k \in 1 .. m - 1
        BY <3>2
      <4>2. PICK b \in 1 .. n : /\ blocks[b].stream = segs[k].stream
                                /\ blocks[b].start <= segs[k].start /\ segs[k].end <= blocks[b].end
        BY <1>3, <4>1 DEF Draws
      <4>3. CASE b = n
        <5>1. last.start <= segs[k].start /\ segs[k].end <= e
          BY SMTT(30), <1>2, <2>2, <2>3, <4>2, <4>3 DEF last
        <5>2. more[n].stream = segs[k].stream
          BY <2>1, <2>7, <4>2, <4>3 DEF last
        <5> QED
          BY <2>1, <2>7, <5>1, <5>2
      <4>4. CASE b # n
        BY <2>6, <4>2, <4>4
      <4> QED
        BY <4>3, <4>4
    <3> QED
      BY <3>1, <3>2
  <2>10. \E j, k \in 1 .. m : /\ more[n].start = segs[j].start /\ more[n].end = segs[k].end
                              /\ more[n].stream = segs[k].stream
    <3>1. PICK j \in 1 .. m - 1, k \in 1 .. m - 1 :
            /\ last.start = segs[j].start /\ last.end = segs[k].end
            /\ last.stream = segs[k].stream
      BY <2>2
    <3>2. j \in 1 .. m /\ k \in 1 .. m /\ m \in 1 .. m
      BY <1>1, <3>1
    <3> QED
      BY <2>1, <2>3, <2>7, <3>1, <3>2 DEF s
  <2> QED
    BY <2>4, <2>6, <2>8, <2>9, <2>10 DEF Draws, s, B
<1>7. CASE ~Continues(blocks, s, gap)
  <2> DEFINE new  == [stream |-> s.stream, start |-> s.start, end |-> s.end]
             more == Append(blocks, new)
  <2>1. WithSegment(blocks, s, gap) = more
    BY <1>7 DEF WithSegment
  <2>2. new \in B /\ new.start = s.start /\ new.end = s.end /\ new.stream = s.stream
    BY <1>1, <1>2 DEF Block
  <2> HIDE DEF new, s, B
  <2>3. /\ more \in Seq(B) /\ Len(more) = n + 1 /\ DOMAIN more = 1 .. n + 1
        /\ \A b \in 1 .. n : more[b] = blocks[b]
        /\ more[n + 1] = new
    BY <1>3, <2>2, AppendProperties
  <2> HIDE DEF more
  <2>4. n + 1 \in 1 .. n + 1 /\ \A b \in 1 .. n + 1 : b = n + 1 \/ b \in 1 .. n
    BY <1>3
  <2>5. ASSUME NEW t \in Int, NEW b \in 1 .. n + 1, more[b].start <= t, t < more[b].end
        PROVE  \E k \in 1 .. m : /\ segs[k].stream = more[b].stream
                                 /\ segs[k].start <= t /\ t < segs[k].end + gap
    <3>1. CASE b = n + 1
      <4>1. s.start <= t /\ t < s.end + gap /\ s.stream = more[b].stream
        BY <1>2, <2>2, <2>3, <2>5, <3>1
      <4> QED
        BY <4>1 DEF s
    <3>2. CASE b \in 1 .. n
      <4>1. blocks[b].start <= t /\ t < blocks[b].end /\ blocks[b].stream = more[b].stream
        BY <2>3, <2>5, <3>2
      <4>2. PICK k \in 1 .. m - 1 : /\ segs[k].stream = blocks[b].stream
                                    /\ segs[k].start <= t /\ t < segs[k].end + gap
        BY <1>3, <3>2, <4>1 DEF Draws
      <4>3. k \in 1 .. m
        BY <1>1
      <4> QED
        BY <4>1, <4>2, <4>3
    <3> QED
      BY <2>4, <3>1, <3>2
  <2>6. ASSUME NEW k \in 1 .. m
        PROVE  \E b \in 1 .. n + 1 :
                 /\ more[b].stream = segs[k].stream
                 /\ more[b].start <= segs[k].start /\ segs[k].end <= more[b].end
    <3>1. CASE k = m
      <4>1. /\ more[n + 1].start <= segs[k].start /\ segs[k].end <= more[n + 1].end
            /\ more[n + 1].stream = segs[k].stream
        BY <1>2, <2>2, <2>3, <3>1 DEF s
      <4> QED
        BY <2>4, <4>1
    <3>2. CASE k # m
      <4>1. k \in 1 .. m - 1
        BY <3>2
      <4>2. PICK b \in 1 .. n : /\ blocks[b].stream = segs[k].stream
                                /\ blocks[b].start <= segs[k].start /\ segs[k].end <= blocks[b].end
        BY <1>3, <4>1 DEF Draws
      <4>3. b \in 1 .. n + 1
        BY <1>3
      <4> QED
        BY <2>3, <4>2, <4>3
    <3> QED
      BY <3>1, <3>2
  <2>7. \E j, k \in 1 .. m : /\ more[n + 1].start = segs[j].start
                             /\ more[n + 1].end = segs[k].end
                             /\ more[n + 1].stream = segs[k].stream
    <3>1. m \in 1 .. m
      BY <1>1
    <3> QED
      BY <2>2, <2>3, <3>1 DEF s
  <2>8. \A b \in DOMAIN more : b \in 1 .. n + 1
    BY <2>3
  <2>9. Draws(more, segs, m, gap)
    <3>1. more \in Seq(Block(segs))
      BY <2>3 DEF B
    <3>2. \E j, k \in 1 .. m : /\ more[Len(more)].start = segs[j].start
                              /\ more[Len(more)].end = segs[k].end
                              /\ more[Len(more)].stream = segs[k].stream
      BY <2>3, <2>7
    <3>3. DOMAIN more = 1 .. n + 1
      BY <2>3
    <3> HIDE DEF B
    <3> QED
      BY <2>5, <2>6, <3>1, <3>2, <3>3 DEF Draws
  <2> QED
    BY <2>1, <2>9 DEF s
<1> QED
  BY <1>6, <1>7

(* Collapsing n segments is defined, by the least n for which it would not *)
(* be.                                                                     *)
Collapsing(segs, gap, g, n) ==
  /\ g = [k \in 0 .. n |-> g[k]] /\ g[0] = <<>>
  /\ \A k \in 1 .. n : g[k] = WithSegment(g[k - 1], segs[k], gap)

LEMMA CollapsingExists ==
  ASSUME NEW segs, NEW gap, NEW n \in Nat
  PROVE  \E g : Collapsing(segs, gap, g, n)
<1> DEFINE Bad == {m \in 0 .. n : ~ \E g : Collapsing(segs, gap, g, m)}
<1>1. SUFFICES ASSUME Bad # {}
               PROVE  FALSE
  OBVIOUS
<1>2. Bad \in SUBSET Nat
  OBVIOUS
<1>3. PICK m \in Bad : \A k \in Bad : ~ (<<k, m>> \in OpToRel(<, Nat))
  <2> HIDE DEF Bad
  <2> QED
    BY <1>1, <1>2, NatLessThanWellFounded, WFMin, Zenon
<1>4. \A k \in Bad : ~ (k < m)
  <2> HIDE DEF Bad
  <2> QED
    BY <1>2, <1>3 DEF OpToRel
<1>5. m \in 0 .. n /\ ~ \E g : Collapsing(segs, gap, g, m)
  OBVIOUS
<1>6. m # 0
  <2>1. PICK g : g = [k \in 0 .. 0 |-> <<>>]
    OBVIOUS
  <2>2. Collapsing(segs, gap, g, 0)
    BY <2>1 DEF Collapsing
  <2> QED
    BY <1>5, <2>2
<1>7. m - 1 \in 0 .. n /\ m - 1 < m
  BY <1>5, <1>6
<1>8. PICK g : Collapsing(segs, gap, g, m - 1)
  BY <1>4, <1>7
<1>9. PICK x : x = WithSegment(g[m - 1], segs[m], gap)
  OBVIOUS
<1>10. PICK h : h = [k \in 0 .. m |-> IF k = m THEN x ELSE g[k]]
  OBVIOUS
<1> HIDE DEF Bad
<1>11. h = [k \in 0 .. m |-> h[k]] /\ h[0] = <<>>
  BY <1>5, <1>6, <1>8, <1>10 DEF Collapsing
<1>12. ASSUME NEW k \in 1 .. m
       PROVE  h[k] = WithSegment(h[k - 1], segs[k], gap)
  <2>1. CASE k = m
    <3>1. h[m] = x /\ h[m - 1] = g[m - 1]
      BY <1>5, <1>6, <1>10
    <3> QED
      BY <1>9, <2>1, <3>1
  <2>2. CASE k # m
    <3>1. h[k] = g[k] /\ h[k - 1] = g[k - 1] /\ k \in 1 .. m - 1
      BY <1>5, <1>6, <1>10, <2>2
    <3> QED
      BY <1>8, <3>1 DEF Collapsing
  <2> QED
    BY <2>1, <2>2
<1> QED
  BY <1>5, <1>11, <1>12 DEF Collapsing

(* The blocks of a timeline cover its segments, and beyond their ends no   *)
(* more than the tolerance.                                                *)
LEMMA BlocksDraw ==
  ASSUME NEW segs, InTime(segs), NEW gap \in Nat
  PROVE  Draws(blocks_from_segments(segs, gap), segs, Len(segs), gap)
<1> DEFINE n    == Len(segs)
           F(g) == [k \in 0 .. n |-> IF k = 0 THEN <<>> ELSE WithSegment(g[k - 1], segs[k], gap)]
           fold == CHOOSE g : g = F(g)
<1>1. n \in Nat
  BY DEF InTime
<1>2. PICK g : Collapsing(segs, gap, g, n)
  BY <1>1, CollapsingExists
<1>3. g = F(g)
  <2>1. \A k \in 0 .. n : g[k] = IF k = 0 THEN <<>> ELSE WithSegment(g[k - 1], segs[k], gap)
    BY SMTT(30), <1>1, <1>2 DEF Collapsing
  <2>2. [k \in 0 .. n |-> g[k]] = F(g)
    BY <2>1
  <2>3. g = [k \in 0 .. n |-> g[k]]
    BY <1>2 DEF Collapsing
  <2> HIDE DEF F, n
  <2> QED
    BY <2>2, <2>3
<1>4. fold = F(fold)
  <2> HIDE DEF F
  <2> QED
    BY <1>3
<1>5. blocks_from_segments(segs, gap) = fold[n]
  BY DEF blocks_from_segments
<1>6. \A k \in 0 .. n : fold[k] = IF k = 0 THEN <<>> ELSE WithSegment(fold[k - 1], segs[k], gap)
  <2> DEFINE t == F(fold)
  <2>1. \A k \in 0 .. n : t[k] = IF k = 0 THEN <<>> ELSE WithSegment(fold[k - 1], segs[k], gap)
    OBVIOUS
  <2>2. fold = t
    BY <1>4
  <2> HIDE DEF fold, t
  <2> QED
    BY <2>1, <2>2
<1> HIDE DEF fold
<1> DEFINE Bad == {k \in 0 .. n : ~Draws(fold[k], segs, k, gap)}
<1>7. Bad = {}
  <2>1. SUFFICES ASSUME Bad # {}
                 PROVE  FALSE
    OBVIOUS
  <2>2. Bad \in SUBSET Nat
    OBVIOUS
  <2>3. PICK m \in Bad : \A k \in Bad : ~ (<<k, m>> \in OpToRel(<, Nat))
    <3> HIDE DEF Bad
    <3> QED
      BY <2>1, <2>2, NatLessThanWellFounded, WFMin, Zenon
  <2>4. \A k \in Bad : ~ (k < m)
    <3> HIDE DEF Bad
    <3> QED
      BY <2>2, <2>3 DEF OpToRel
  <2>5. m \in 0 .. n /\ ~Draws(fold[m], segs, m, gap)
    OBVIOUS
  <2>6. m # 0
    <3>1. fold[0] = <<>>
      BY <1>1, <1>6
    <3>2. Draws(<<>>, segs, 0, gap)
      BY DEF Draws
    <3> QED
      BY <2>5, <3>1, <3>2
  <2>7. m \in 1 .. n /\ m - 1 \in 0 .. n /\ m - 1 < m
    BY <1>1, <2>5, <2>6
  <2>8. Draws(fold[m - 1], segs, m - 1, gap)
    BY <2>4, <2>7
  <2>9. fold[m] = WithSegment(fold[m - 1], segs[m], gap)
    BY <1>6, <2>6, <2>7
  <2> QED
    BY <2>5, <2>7, <2>8, <2>9, OneMoreSegment
<1>8. n \in 0 .. n
  BY <1>1
<1> QED
  BY <1>5, <1>7, <1>8

(* A file has no more seconds of footage than its segment is long.         *)
LEMMA FootageOfPairs ==
  ASSUME NEW n \in Nat, NEW f, FileSize(f) \in Nat,
         \A i \in 1 .. FileSize(f) : f.boxes[i] = "mdat" => i % 2 = 0 /\ i > 2 /\ i <= 2 * n + 2
  PROVE  Seconds(f, FileSize(f)) \in Nat /\ Seconds(f, FileSize(f)) <= n
<1> DEFINE T == {2 * j + 2 : j \in 1 .. n}
           P == {i \in PairEnds(f) : i <= FileSize(f)}
           h == [j \in 1 .. n |-> 2 * j + 2]
<1>1. h \in Surjection(1 .. n, T)
  BY DEF Surjection
<1>2. IsFiniteSet(1 .. n) /\ Cardinality(1 .. n) = n
  BY FS_Interval
<1>3. IsFiniteSet(T) /\ Cardinality(T) <= n
  <2> HIDE DEF h, T
  <2> QED
    BY <1>1, <1>2, FS_Surjection
<1>4. P \in SUBSET T
  <2>1. ASSUME NEW i \in P
        PROVE  i \in T
    <3>1. i \in 1 .. FileSize(f) /\ f.boxes[i] = "mdat"
      BY DEF PairEnds
    <3>2. i % 2 = 0 /\ i > 2 /\ i <= 2 * n + 2
      BY <3>1
    <3>3. PICK j \in Int : i = 2 * j
      BY <3>1, <3>2
    <3>4. j - 1 \in 1 .. n /\ i = 2 * (j - 1) + 2
      BY <3>2, <3>3
    <3> QED
      BY <3>4
  <2> QED
    BY <2>1
<1> HIDE DEF T, P
<1>5. Cardinality(P) \in Nat /\ Cardinality(T) \in Nat /\ Cardinality(P) <= Cardinality(T)
  BY <1>3, <1>4, FS_Subset, FS_CardinalityType
<1>6. Seconds(f, FileSize(f)) = Cardinality(P)
  BY DEF Seconds, P
<1> QED
  BY <1>3, <1>5, <1>6

LEMMA EndingsShort ==
  ASSUME NEW i \in Ids, NEW f \in Endings(i)
  PROVE  /\ Seconds(f, FileSize(f)) \in Nat
         /\ Seconds(f, FileSize(f)) <= Layout[i].length
<1>1. PICK n : n = Layout[i].length
  OBVIOUS
<1>2. n \in Nat \ {0} /\ n - 1 \in Nat
  BY <1>1, LayoutOf
<1>3. ASSUME NEW m \in Nat, m <= n, NEW k \in {"moof", "mfra"},
             \/ f.boxes = Header \o Pairs(m)
             \/ f.boxes = Header \o Pairs(m) \o <<k>>
      PROVE  Seconds(f, FileSize(f)) \in Nat /\ Seconds(f, FileSize(f)) <= n
  <2>1. PICK b : b = Header \o Pairs(m)
    OBVIOUS
  <2>2. /\ b \in Seq(Kinds) /\ Len(b) = 2 * m + 2 /\ b[1] = "ftyp" /\ b[2] = "moov"
        /\ \A j \in 3 .. 2 * m + 2 : b[j] = IF j % 2 = 1 THEN "moof" ELSE "mdat"
    BY <2>1, Boxes
  <2>3. ASSUME NEW j \in 1 .. 2 * m + 2, b[j] = "mdat"
        PROVE  j % 2 = 0 /\ j > 2 /\ j <= 2 * n + 2
    <3>1. j # 1 /\ j # 2
      BY <2>2, <2>3
    <3>2. j \in 3 .. 2 * m + 2
      BY <3>1
    <3>3. j % 2 # 1
      BY <2>2, <2>3, <3>2
    <3> QED
      BY <1>2, <1>3, <3>2, <3>3
  <2>4. PICK c : c = f.boxes
    OBVIOUS
  <2>5. /\ Len(c) \in Nat
        /\ \A j \in 1 .. Len(c) : c[j] = "mdat" => j \in 1 .. 2 * m + 2 /\ b[j] = "mdat"
    <3>1. CASE c = b
      BY <2>2, <3>1
    <3>2. CASE c = b \o <<k>>
      <4>1. k \in Kinds
        BY DEF Kinds
      <4>2. Append(b, k) = b \o <<k>>
        BY <2>2, <4>1, AppendIsConcat
      <4>3. /\ c \in Seq(Kinds) /\ Len(c) = 2 * m + 3 /\ c[2 * m + 3] = k
            /\ \A j \in 1 .. 2 * m + 2 : c[j] = b[j]
        <5>1. /\ c \in Seq(Kinds) /\ Len(c) = Len(b) + 1 /\ c[Len(b) + 1] = k
              /\ \A j \in 1 .. Len(b) : c[j] = b[j]
          BY <2>2, <3>2, <4>1, <4>2, AppendProperties
        <5> QED
          BY <2>2, <5>1
      <4>4. k # "mdat"
        OBVIOUS
      <4> QED
        BY <4>3, <4>4
    <3> QED
      BY <1>3, <2>1, <2>4, <3>1, <3>2
  <2>6. FileSize(f) = Len(c)
    BY <2>4 DEF FileSize
  <2>7. \A j \in 1 .. FileSize(f) : f.boxes[j] = "mdat" => j % 2 = 0 /\ j > 2 /\ j <= 2 * n + 2
    BY <2>3, <2>4, <2>5, <2>6
  <2> QED
    BY <1>2, <2>5, <2>6, <2>7, FootageOfPairs
<1>4. \/ f = Whole(n) \/ f = Open(n)
      \/ f = [boxes |-> Header \o Pairs(n), cut |-> TRUE]
      \/ \E cut \in BOOLEAN : f = [boxes |-> Header \o Pairs(n - 1) \o <<"moof">>, cut |-> cut]
  BY <1>1 DEF Endings, Killed
<1> HIDE DEF Header, Pairs
<1>5. \/ f.boxes = Header \o Pairs(n) \o <<"mfra">> \/ f.boxes = Header \o Pairs(n - 1)
      \/ f.boxes = Header \o Pairs(n) \/ f.boxes = Header \o Pairs(n - 1) \o <<"moof">>
  <2>1. PICK a, b, c, d : /\ a = Header \o Pairs(n) \o <<"mfra">> /\ b = Header \o Pairs(n - 1)
                          /\ c = Header \o Pairs(n) /\ d = Header \o Pairs(n - 1) \o <<"moof">>
    OBVIOUS
  <2>2. \/ f = [boxes |-> a, cut |-> FALSE] \/ f = [boxes |-> b, cut |-> FALSE]
        \/ f = [boxes |-> c, cut |-> TRUE] \/ \E cut \in BOOLEAN : f = [boxes |-> d, cut |-> cut]
    BY <1>4, <2>1, Zenon DEF Whole, Open
  <2>3. f.boxes \in {a, b, c, d}
    BY <2>2
  <2> QED
    BY <2>1, <2>3
<1>6. n <= n /\ n - 1 <= n
  BY <1>2
<1> QED
  BY <1>1, <1>2, <1>3, <1>5, <1>6

-----------------------------------------------------------------------------
(* What a download delivers                                                *)

(* Induction up to a number, for sets instead of predicates                *)
LEMMA EveryIndex ==
  ASSUME NEW n \in Nat, NEW G, 0 \in G, \A i \in 1 .. n : i - 1 \in G => i \in G
  PROVE  0 .. n \subseteq G
<1> DEFINE Bad == {m \in 0 .. n : m \notin G}
<1>1. SUFFICES ASSUME Bad # {}
               PROVE  FALSE
  OBVIOUS
<1>2. Bad \in SUBSET Nat
  OBVIOUS
<1>3. PICK m \in Bad : \A k \in Bad : ~ (<<k, m>> \in OpToRel(<, Nat))
  <2> HIDE DEF Bad
  <2> QED
    BY <1>1, <1>2, NatLessThanWellFounded, WFMin, Zenon
<1>4. \A k \in Bad : ~ (k < m)
  <2> HIDE DEF Bad
  <2> QED
    BY <1>2, <1>3 DEF OpToRel
<1>5. m \in 1 .. n /\ m - 1 \in 0 .. n /\ m - 1 < m
  OBVIOUS
<1>6. m - 1 \in G
  BY <1>4, <1>5
<1> QED
  BY <1>5, <1>6

(* Files with more of the fragments have more seconds.                     *)
LEMMA MoreSeconds ==
  ASSUME NEW f, NEW g, FileSize(f) \in Nat, FileSize(g) \in Nat, NEW m \in Nat, NEW n \in Nat,
         \A i \in PairEnds(f) : i <= m => i \in PairEnds(g) /\ i <= n
  PROVE  Seconds(f, m) \in Nat /\ Seconds(g, n) \in Nat /\ Seconds(f, m) <= Seconds(g, n)
<1> DEFINE F == {i \in PairEnds(f) : i <= m}
           G == {i \in PairEnds(g) : i <= n}
<1>1. F \in SUBSET (2 .. FileSize(f)) /\ G \in SUBSET (2 .. FileSize(g)) /\ F \in SUBSET G
  BY DEF PairEnds
<1>2. IsFiniteSet(2 .. FileSize(f)) /\ IsFiniteSet(2 .. FileSize(g))
  BY FS_Interval
<1>3. Seconds(f, m) = Cardinality(F) /\ Seconds(g, n) = Cardinality(G)
  BY DEF Seconds
<1> HIDE DEF F, G
<1>4. IsFiniteSet(F) /\ IsFiniteSet(G) /\ Cardinality(F) <= Cardinality(G)
  BY <1>1, <1>2, FS_Subset
<1> QED
  BY <1>3, <1>4, FS_CardinalityType

(* The playable part has all of them.                                      *)
LEMMA PlayableHasAll ==
  ASSUME NEW f \in Files
  PROVE  /\ playable_length(f) \in 0 .. FileSize(f)
         /\ Seconds(f, FileSize(f)) <= Seconds(f, playable_length(f))
<1>1. /\ FileSize(f) \in Nat /\ LastPairEnd(f) \in 0 .. FileSize(f)
      /\ \A i \in PairEnds(f) : i <= LastPairEnd(f)
      /\ PairEnds(f) \subseteq 2 .. FileSize(f)
  BY Pairing
<1>2. playable_length(f) \in {LastPairEnd(f), FileSize(f)}
  BY DEF playable_length
<1>3. \A i \in PairEnds(f) : i <= playable_length(f)
  BY <1>1, <1>2
<1>4. playable_length(f) \in 0 .. FileSize(f)
  BY <1>1, <1>2
<1> QED
  BY <1>1, <1>3, <1>4, MoreSeconds

(* A copy of the first boxes of a longer file                              *)
LEMMA CopyHasSeconds ==
  ASSUME NEW f \in Files, NEW n \in Nat, n < FileSize(f), NEW g,
         g = [boxes |-> SubSeq(f.boxes, 1, n), cut |-> FALSE]
  PROVE  /\ FileSize(g) = n
         /\ Seconds(f, n) <= Seconds(g, FileSize(g))
         /\ Seconds(g, FileSize(g)) <= Seconds(f, FileSize(f))
         /\ Seconds(g, FileSize(g)) \in Nat
<1>1. FileSize(f) \in Nat /\ f.boxes \in Seq(Kinds) /\ FileSize(f) = Len(f.boxes)
  BY DEF Files, FileSize
<1>2. g.cut = FALSE /\ g.boxes = SubSeq(f.boxes, 1, n)
  OBVIOUS
<1>3. /\ Len(SubSeq(f.boxes, 1, n)) = n
      /\ \A i \in 1 .. n : SubSeq(f.boxes, 1, n)[i] = f.boxes[i]
  <2>1. \A i \in 1 .. n : f.boxes[i] \in Kinds
    BY <1>1
  <2>2. PICK b : b = f.boxes
    OBVIOUS
  <2>3. /\ Len(SubSeq(b, 1, n)) = IF 1 <= n THEN n - 1 + 1 ELSE 0
        /\ \A i \in 1 .. n - 1 + 1 : SubSeq(b, 1, n)[i] = b[1 + i - 1]
    BY <2>1, <2>2, SubSeqProperties
  <2> QED
    BY <2>2, <2>3
<1>4. FileSize(g) = n /\ \A i \in 1 .. n : g.boxes[i] = f.boxes[i]
  BY <1>2, <1>3 DEF FileSize
<1>5. \A i \in 2 .. n : i \in 1 .. n /\ i - 1 \in 1 .. n
  OBVIOUS
<1>6. \A i \in 2 .. n : g.boxes[i] = f.boxes[i] /\ g.boxes[i - 1] = f.boxes[i - 1]
  BY <1>4, <1>5
<1>7. ASSUME NEW i \in PairEnds(f), i <= n
      PROVE  i \in PairEnds(g) /\ i <= FileSize(g)
  <2>1. i \in 2 .. n
    BY <1>7 DEF PairEnds
  <2> QED
    BY <1>2, <1>4, <1>6, <1>7, <2>1 DEF PairEnds, Complete
<1>8. ASSUME NEW i \in PairEnds(g), i <= FileSize(g)
      PROVE  i \in PairEnds(f) /\ i <= FileSize(f)
  <2>1. i \in 2 .. n /\ g.boxes[i] = "mdat" /\ g.boxes[i - 1] = "moof"
    BY <1>4 DEF PairEnds
  <2>2. i < FileSize(f) /\ i - 1 < FileSize(f) /\ i \in 2 .. FileSize(f)
    BY <1>1, <2>1
  <2> QED
    BY <1>6, <2>1, <2>2 DEF PairEnds, Complete
<1>9. Seconds(f, n) <= Seconds(g, FileSize(g))
  BY <1>1, <1>4, <1>7, MoreSeconds
<1>10. /\ Seconds(g, FileSize(g)) <= Seconds(f, FileSize(f))
       /\ Seconds(g, FileSize(g)) \in Nat
  BY ZenonT(60), <1>1, <1>4, <1>8, MoreSeconds
<1> QED
  BY <1>4, <1>9, <1>10

(* A file that begins with n whole fragments                               *)
LEMMA HasSeconds ==
  ASSUME NEW n \in Nat, NEW f, FileSize(f) \in Nat, FileSize(f) >= 2 * n + 2,
         f.cut => FileSize(f) > 2 * n + 2,
         \A i \in 3 .. 2 * n + 2 : f.boxes[i] = IF i % 2 = 1 THEN "moof" ELSE "mdat"
  PROVE  Seconds(f, FileSize(f)) \in Nat /\ n <= Seconds(f, FileSize(f))
<1> DEFINE h == [j \in 1 .. n |-> 2 * j + 2]
           P == {i \in PairEnds(f) : i <= FileSize(f)}
<1>1. ASSUME NEW j \in 1 .. n
      PROVE  h[j] \in P
  <2>1. /\ 2 * j + 2 \in 3 .. 2 * n + 2 /\ (2 * j + 2) - 1 \in 3 .. 2 * n + 2
        /\ (2 * j + 2) % 2 # 1 /\ ((2 * j + 2) - 1) % 2 = 1
        /\ 2 * j + 2 \in 2 .. FileSize(f) /\ 2 * j + 2 <= FileSize(f)
        /\ f.cut => 2 * j + 2 < FileSize(f) /\ (2 * j + 2) - 1 < FileSize(f)
    OBVIOUS
  <2>2. f.boxes[2 * j + 2] = "mdat" /\ f.boxes[(2 * j + 2) - 1] = "moof"
    BY <2>1
  <2>3. 2 * j + 2 \in PairEnds(f)
    BY <2>1, <2>2 DEF PairEnds, Complete
  <2> QED
    BY <2>1, <2>3
<1>2. \A j, k \in 1 .. n : h[j] = h[k] => j = k
  OBVIOUS
<1>3. h \in Injection(1 .. n, P)
  <2> HIDE DEF P
  <2>1. h \in [1 .. n -> P]
    BY <1>1
  <2> QED
    BY <1>2, <2>1 DEF Injection, IsInjective
<1>4. P \in SUBSET (2 .. FileSize(f))
  BY DEF PairEnds
<1>5. IsFiniteSet(2 .. FileSize(f)) /\ Cardinality(1 .. n) = n
  <2>1. IsFiniteSet(2 .. FileSize(f))
    BY FS_Interval
  <2>2. Cardinality(1 .. n) = n
    BY FS_Interval
  <2> QED
    BY <2>1, <2>2
<1>6. Seconds(f, FileSize(f)) = Cardinality(P)
  BY DEF Seconds
<1> HIDE DEF h, P
<1>7. IsFiniteSet(P)
  BY <1>4, <1>5, FS_Subset
<1>8. n <= Cardinality(P) /\ Cardinality(P) \in Nat
  BY <1>3, <1>5, <1>7, FS_Injection, FS_CardinalityType
<1> QED
  BY <1>6, <1>8

-----------------------------------------------------------------------------
(* How much there is in the files                                          *)

Secs(i) == Seconds(content[i], FileSize(content[i]))

(* What the index may know of a segment's footage, now and later           *)
Holds(i) == IF i = writing THEN Layout[i].length - 1 ELSE Secs(i)

(* A file of n fragments that has not been closed                          *)
Grows(f, n) ==
  /\ FileSize(f) <= 2 * n + 2
  /\ \A i \in 3 .. FileSize(f) : f.boxes[i] = IF i % 2 = 1 THEN "moof" ELSE "mdat"

Written ==
  /\ \A i \in Ids : /\ Secs(i) \in Nat /\ Secs(i) <= Layout[i].length
                    /\ Holds(i) \in Nat /\ Holds(i) <= Secs(i)
  /\ writing # 0 => writing = Newest /\ Grows(content[writing], Layout[writing].length)

LEMMA WholeHas ==
  ASSUME NEW n \in Nat
  PROVE  /\ n <= Seconds(Whole(n), FileSize(Whole(n)))
         /\ FileSize(Whole(n)) = 2 * n + 3
<1>1. PICK b : b = Header \o Pairs(n)
  OBVIOUS
<1>2. /\ b \in Seq(Kinds) /\ Len(b) = 2 * n + 2
      /\ \A j \in 3 .. 2 * n + 2 : b[j] = IF j % 2 = 1 THEN "moof" ELSE "mdat"
  BY <1>1, Boxes
<1>3. "mfra" \in Kinds
  BY DEF Kinds
<1>4. PICK c : c = Append(b, "mfra")
  OBVIOUS
<1>5. /\ Len(c) = 2 * n + 3 /\ \A j \in 1 .. 2 * n + 2 : c[j] = b[j]
  <2>1. Len(c) = Len(b) + 1 /\ \A j \in 1 .. Len(b) : c[j] = b[j]
    BY <1>2, <1>3, <1>4, AppendProperties
  <2> QED
    BY <1>2, <2>1
<1>6. Whole(n) = [boxes |-> c, cut |-> FALSE]
  BY <1>1, <1>2, <1>3, <1>4, AppendIsConcat DEF Whole
<1>7. PICK f : f = [boxes |-> c, cut |-> FALSE]
  OBVIOUS
<1>8. FileSize(f) = 2 * n + 3 /\ f.cut = FALSE /\ f.boxes = c
  BY <1>5, <1>7 DEF FileSize
<1>9. \A j \in 3 .. 2 * n + 2 : f.boxes[j] = IF j % 2 = 1 THEN "moof" ELSE "mdat"
  BY <1>2, <1>5, <1>8
<1>10. n <= Seconds(f, FileSize(f))
  BY <1>8, <1>9, HasSeconds
<1> QED
  BY <1>6, <1>7, <1>8, <1>10

LEMMA OpenHas ==
  ASSUME NEW n \in Nat \ {0}
  PROVE  n - 1 <= Seconds(Open(n), FileSize(Open(n))) /\ Grows(Open(n), n)
<1>1. PICK b : b = Header \o Pairs(n - 1)
  OBVIOUS
<1>0. PICK m \in Nat : m = n - 1
  OBVIOUS
<1>2. /\ n - 1 \in Nat /\ Len(b) = 2 * (n - 1) + 2
      /\ \A j \in 3 .. 2 * (n - 1) + 2 : b[j] = IF j % 2 = 1 THEN "moof" ELSE "mdat"
  <2>1. b = Header \o Pairs(m)
    BY <1>0, <1>1
  <2>2. /\ Len(b) = 2 * m + 2
        /\ \A j \in 3 .. 2 * m + 2 : b[j] = IF j % 2 = 1 THEN "moof" ELSE "mdat"
    BY <2>1, Boxes
  <2> QED
    BY <1>0, <2>2
<1>3. PICK f : f = [boxes |-> b, cut |-> FALSE]
  OBVIOUS
<1>4. FileSize(f) = 2 * (n - 1) + 2 /\ f.cut = FALSE /\ f.boxes = b
  BY <1>2, <1>3 DEF FileSize
<1>5. n - 1 <= Seconds(f, FileSize(f))
  BY <1>2, <1>4, HasSeconds
<1>6. Grows(f, n)
  BY <1>2, <1>4 DEF Grows
<1>7. Open(n) = f
  BY <1>1, <1>3 DEF Open
<1> QED
  BY <1>5, <1>6, <1>7

LEMMA WrittenAtStart ==
  ASSUME Init
  PROVE  Written
<1>1. \A i \in Ids : content[i] \in Endings(i) /\ Layout[i].length \in Nat \ {0}
  BY LayoutOf DEF Init
<1>2. \A i \in Ids : Secs(i) \in Nat /\ Secs(i) <= Layout[i].length
  BY <1>1, EndingsShort DEF Secs
<1>3. ASSUME writing # 0
      PROVE  writing = Newest /\ content[writing] = Open(Layout[writing].length)
  BY <1>3 DEF Init
<1>4. writing # 0 => writing \in Ids
  <2>1. writing \in Ids \cup {0}
    BY AtStart DEF IInv, Disk
  <2> QED
    BY <2>1
<1>5. writing # 0 => /\ Layout[writing].length - 1 <= Secs(writing)
                     /\ Grows(content[writing], Layout[writing].length)
  BY <1>1, <1>3, <1>4, OpenHas DEF Secs
<1>6. 0 \notin Ids
  BY LayoutAssumption DEF Ids
<1>7. ASSUME NEW i \in Ids
      PROVE  Holds(i) \in Nat /\ Holds(i) <= Secs(i)
  <2>1. CASE i = writing
    BY <1>1, <1>5, <1>6, <2>1 DEF Holds
  <2>2. CASE i # writing
    BY <1>2, <2>2 DEF Holds
  <2> QED
    BY <2>1, <2>2
<1> QED
  BY <1>2, <1>3, <1>5, <1>7 DEF Written

(* Boxes that stay where they are, and whole, stay pairs.                  *)
LEMMA PairsKept ==
  ASSUME NEW f, NEW g, FileSize(f) \in Nat, FileSize(g) \in Nat, FileSize(f) <= FileSize(g),
         \A i \in 1 .. FileSize(f) : g.boxes[i] = f.boxes[i] /\ (Complete(f, i) => Complete(g, i))
  PROVE  PairEnds(f) \subseteq PairEnds(g)
<1> SUFFICES ASSUME NEW i \in PairEnds(f)
             PROVE  i \in PairEnds(g)
  OBVIOUS
<1>1. /\ i \in 2 .. FileSize(f) /\ f.boxes[i] = "mdat" /\ f.boxes[i - 1] = "moof"
      /\ Complete(f, i) /\ Complete(f, i - 1)
  BY DEF PairEnds
<1>2. i \in 1 .. FileSize(f) /\ i - 1 \in 1 .. FileSize(f) /\ i \in 2 .. FileSize(g)
  BY <1>1
<1> QED
  BY <1>1, <1>2 DEF PairEnds

(* The recorder only adds to a file.                                       *)
LEMMA WritesAdd ==
  ASSUME Disk, Written, Writes
  PROVE  LET f == content[writing]
             g == content'[writing]
         IN /\ Grows(g, Layout[writing].length)
            /\ PairEnds(f) \subseteq PairEnds(g) /\ FileSize(f) <= FileSize(g)
            /\ FileSize(g) \in Nat
<1>1. PICK n : n = Layout[writing].length
  OBVIOUS
<1>2. PICK f, g : f = content[writing] /\ g = content'[writing]
  OBVIOUS
<1>3. /\ writing \in Ids /\ writing # 0 /\ f \in Files /\ Shape(f) /\ n \in Nat
      /\ content \in [Ids -> Files] /\ Grows(f, n)
  BY <1>1, <1>2, LayoutOf DEF Writes, Disk, Written
<1>4. /\ f = [boxes |-> f.boxes, cut |-> f.cut] /\ f.boxes \in Seq(Kinds) /\ f.cut \in BOOLEAN
      /\ FileSize(f) = Len(f.boxes) /\ FileSize(f) \in Nat /\ FileSize(f) >= 2
  BY <1>3 DEF Files, FileSize, Shape
<1>5. FileSize(Whole(n)) = 2 * n + 3
  BY <1>3, WholeHas
<1>6. \/ /\ ~f.cut /\ Last(f.boxes) # "moof" /\ FileSize(f) < 2 * n + 2
         /\ g.boxes = Append(f.boxes, "moof") /\ g.cut = f.cut
      \/ /\ Last(f.boxes) = "moof" /\ g.boxes = Append(f.boxes, "mdat") /\ g.cut = TRUE
      \/ g.boxes = f.boxes /\ g.cut = FALSE
  <2>1. CASE /\ ~f.cut /\ Last(f.boxes) # "moof" /\ FileSize(f) < FileSize(Whole(n)) - 1
             /\ content' = [content EXCEPT ![writing].boxes = Append(@, "moof")]
    <3>1. content' = [content EXCEPT ![writing] = [f EXCEPT !.boxes = Append(@, "moof")]]
      BY <1>2, <2>1
    <3>2. g = [f EXCEPT !.boxes = Append(@, "moof")]
      BY <1>2, <1>3, <3>1
    <3>3. g.boxes = Append(f.boxes, "moof") /\ g.cut = f.cut
      BY <1>4, <3>2
    <3>4. FileSize(f) < 2 * n + 2
      BY <1>3, <1>4, <1>5, <2>1
    <3> QED
      BY <2>1, <3>3, <3>4
  <2>2. CASE /\ Last(f.boxes) = "moof"
             /\ content' = [content EXCEPT ![writing] = [boxes |-> Append(f.boxes, "mdat"), cut |-> TRUE]]
    <3>1. g = [boxes |-> Append(f.boxes, "mdat"), cut |-> TRUE]
      BY <1>2, <1>3, <2>2
    <3> QED
      BY <2>2, <3>1
  <2>3. CASE content' = [content EXCEPT ![writing].cut = FALSE]
    <3>1. content' = [content EXCEPT ![writing] = [f EXCEPT !.cut = FALSE]]
      BY <1>2, <2>3
    <3>2. g = [f EXCEPT !.cut = FALSE]
      BY <1>2, <1>3, <3>1
    <3> QED
      BY <1>4, <3>2
  <2> QED
    BY <1>1, <1>2, <2>1, <2>2, <2>3 DEF Writes
<1>7. PICK k : k = FileSize(f)
  OBVIOUS
<1>8. /\ k \in Nat /\ k >= 2 /\ k <= 2 * n + 2 /\ Last(f.boxes) = f.boxes[k]
      /\ f.boxes[1] = "ftyp" /\ f.boxes[2] = "moov"
      /\ \A i \in 3 .. k : f.boxes[i] = IF i % 2 = 1 THEN "moof" ELSE "mdat"
  BY <1>3, <1>4, <1>7 DEF Grows, Last, Shape
<1>9. f.boxes[k] = "moof" <=> k % 2 = 1
  <2>1. CASE k = 2
    BY <1>8, <2>1
  <2>2. CASE k # 2
    BY <1>8, <2>2
  <2> QED
    BY <2>1, <2>2
<1>10. ASSUME NEW x \in Kinds, g.boxes = Append(f.boxes, x)
       PROVE  /\ FileSize(g) = k + 1 /\ g.boxes[k + 1] = x
              /\ \A i \in 1 .. k : g.boxes[i] = f.boxes[i]
  BY <1>4, <1>7, <1>10, AppendProperties DEF FileSize
<1>11. "moof" \in Kinds /\ "mdat" \in Kinds
  BY DEF Kinds
<1>12. CASE /\ ~f.cut /\ Last(f.boxes) # "moof" /\ k < 2 * n + 2
            /\ g.boxes = Append(f.boxes, "moof") /\ g.cut = f.cut
  <2>1. /\ FileSize(g) = k + 1 /\ g.boxes[k + 1] = "moof"
        /\ \A i \in 1 .. k : g.boxes[i] = f.boxes[i]
    BY <1>10, <1>11, <1>12
  <2>2. (k + 1) % 2 = 1
    BY <1>8, <1>9, <1>12
  <2>3. \A i \in 3 .. k + 1 : g.boxes[i] = IF i % 2 = 1 THEN "moof" ELSE "mdat"
    <3> TAKE i \in 3 .. k + 1
    <3>1. CASE i = k + 1
      BY <2>1, <2>2, <3>1
    <3>2. CASE i # k + 1
      <4>1. i \in 3 .. k /\ i \in 1 .. k
        BY <1>8, <3>2
      <4> QED
        BY <1>8, <2>1, <4>1
    <3> QED
      BY <3>1, <3>2
  <2>4. PairEnds(f) \subseteq PairEnds(g)
    <3>1. \A i \in 1 .. k : Complete(f, i) => Complete(g, i)
      BY <1>7, <1>8, <1>12, <2>1 DEF Complete
    <3>2. k \in Nat /\ k + 1 \in Nat /\ k <= k + 1
      BY <1>8
    <3>3. \A i \in 1 .. FileSize(f) : g.boxes[i] = f.boxes[i] /\ (Complete(f, i) => Complete(g, i))
      BY <1>7, <2>1, <3>1
    <3>4. FileSize(f) \in Nat /\ FileSize(g) \in Nat /\ FileSize(f) <= FileSize(g)
      BY <1>7, <2>1, <3>2
    <3> QED
      BY <3>3, <3>4, PairsKept
  <2>5. Grows(g, n)
    <3>1. k + 1 <= 2 * n + 2
      BY <1>3, <1>8, <1>12
    <3> QED
      BY <2>1, <2>3, <3>1 DEF Grows
  <2>6. k <= k + 1 /\ k + 1 \in Nat
    BY <1>8
  <2> QED
    BY <1>1, <1>2, <1>7, <2>1, <2>4, <2>5, <2>6
<1>13. CASE Last(f.boxes) = "moof" /\ g.boxes = Append(f.boxes, "mdat") /\ g.cut = TRUE
  <2>1. /\ FileSize(g) = k + 1 /\ g.boxes[k + 1] = "mdat"
        /\ \A i \in 1 .. k : g.boxes[i] = f.boxes[i]
    BY <1>10, <1>11, <1>13
  <2>2. (k + 1) % 2 # 1 /\ k # 2 * n + 2
    BY <1>3, <1>8, <1>9, <1>13
  <2>3. \A i \in 3 .. k + 1 : g.boxes[i] = IF i % 2 = 1 THEN "moof" ELSE "mdat"
    <3> TAKE i \in 3 .. k + 1
    <3>1. CASE i = k + 1
      BY <2>1, <2>2, <3>1
    <3>2. CASE i # k + 1
      <4>1. i \in 3 .. k /\ i \in 1 .. k
        BY <1>8, <3>2
      <4> QED
        BY <1>8, <2>1, <4>1
    <3> QED
      BY <3>1, <3>2
  <2>4. PairEnds(f) \subseteq PairEnds(g)
    <3>1. \A i \in 1 .. k : Complete(f, i) => Complete(g, i)
      BY <1>7, <1>8, <1>13, <2>1 DEF Complete
    <3>2. k \in Nat /\ k + 1 \in Nat /\ k <= k + 1
      BY <1>8
    <3>3. \A i \in 1 .. FileSize(f) : g.boxes[i] = f.boxes[i] /\ (Complete(f, i) => Complete(g, i))
      BY <1>7, <2>1, <3>1
    <3>4. FileSize(f) \in Nat /\ FileSize(g) \in Nat /\ FileSize(f) <= FileSize(g)
      BY <1>7, <2>1, <3>2
    <3> QED
      BY <3>3, <3>4, PairsKept
  <2>5. Grows(g, n)
    BY <1>3, <1>8, <2>1, <2>2, <2>3 DEF Grows
  <2>6. k <= k + 1 /\ k + 1 \in Nat
    BY <1>8
  <2> QED
    BY <1>1, <1>2, <1>7, <2>1, <2>4, <2>5, <2>6
<1>14. CASE g.boxes = f.boxes /\ g.cut = FALSE
  <2>1. FileSize(g) = FileSize(f)
    BY <1>14 DEF FileSize
  <2>2. PairEnds(f) \subseteq PairEnds(g)
    BY <1>14, <2>1 DEF PairEnds, Complete
  <2>3. Grows(g, n)
    BY <1>3, <1>14, <2>1 DEF Grows
  <2> QED
    BY <1>1, <1>2, <1>4, <2>1, <2>2, <2>3
<1> QED
  BY <1>6, <1>7, <1>12, <1>13, <1>14

(* Of every file there is more and more, and of the one that is written    *)
(* no more than its segment is long.                                       *)
LEMMA WrittenKept ==
  ASSUME Disk, Written, [Next]_vars
  PROVE  /\ Written'
         /\ \A i \in Ids : /\ Holds(i)' = Holds(i)
                           /\ PairEnds(content[i]) \subseteq PairEnds(content'[i])
                           /\ FileSize(content[i]) <= FileSize(content'[i])
<1>1. /\ Disk' /\ writing' = writing
      /\ \A i \in Ids : i # writing => content'[i] = content[i]
  BY DiskKept
<1>2. \A i \in Ids : FileSize(content[i]) \in Nat /\ FileSize(content'[i]) \in Nat
  BY <1>1 DEF Disk, Files, FileSize
<1>3. 0 \notin Ids /\ \A i \in Ids : Layout[i].length \in Nat
  BY LayoutAssumption, LayoutOf DEF Ids
<1>4. \A i \in Ids : Holds(i)' = Holds(i)
  BY <1>1 DEF Holds, Secs
<1>5. CASE Writes
  <2>1. writing \in Ids
    BY <1>5 DEF Writes, Disk
  <2>2. PICK f, g : f = content[writing] /\ g = content'[writing]
    OBVIOUS
  <2>3. /\ Grows(g, Layout[writing].length) /\ PairEnds(f) \subseteq PairEnds(g)
        /\ FileSize(f) <= FileSize(g)
    BY <1>5, <2>2, WritesAdd
  <2>4. ASSUME NEW i \in Ids
        PROVE  /\ PairEnds(content[i]) \subseteq PairEnds(content'[i])
               /\ FileSize(content[i]) <= FileSize(content'[i])
    <3>1. CASE i = writing
      BY <2>2, <2>3, <3>1
    <3>2. CASE i # writing
      BY <1>1, <1>2, <3>2
    <3> QED
      BY <3>1, <3>2
  <2>5. Seconds(f, FileSize(f)) <= Seconds(g, FileSize(g)) /\ Seconds(f, FileSize(f)) \in Nat
        /\ Seconds(g, FileSize(g)) \in Nat
    <3>1. FileSize(f) \in Nat /\ FileSize(g) \in Nat
      BY <1>2, <2>1, <2>2
    <3>2. \A i \in PairEnds(f) : i <= FileSize(f) => i \in PairEnds(g) /\ i <= FileSize(g)
      BY <2>3, <3>1 DEF PairEnds
    <3> QED
      BY <3>1, <3>2, MoreSeconds
  <2>6. Seconds(g, FileSize(g)) <= Layout[writing].length
    <3>1. PICK n \in Nat : n = Layout[writing].length
      BY <1>3, <2>1
    <3>2. Shape(g) /\ FileSize(g) \in Nat
      BY <1>1, <1>2, <2>1, <2>2 DEF Disk
    <3>3. ASSUME NEW i \in 1 .. FileSize(g), g.boxes[i] = "mdat"
          PROVE  i % 2 = 0 /\ i > 2 /\ i <= 2 * n + 2
      <4>1. i # 1 /\ i # 2
        BY <3>2, <3>3 DEF Shape
      <4>2. i \in 3 .. FileSize(g)
        BY <3>2, <4>1
      <4>3. i % 2 # 1 /\ FileSize(g) <= 2 * n + 2
        BY <2>3, <3>1, <3>3, <4>2 DEF Grows
      <4> QED
        BY <3>1, <3>2, <4>2, <4>3
    <3> QED
      BY <3>1, <3>2, <3>3, FootageOfPairs
  <2>7. ASSUME NEW i \in Ids
        PROVE  /\ Secs(i)' \in Nat /\ Secs(i)' <= Layout[i].length
               /\ Holds(i)' \in Nat /\ Holds(i)' <= Secs(i)'
    <3>1. CASE i = writing
      <4>1. Secs(i)' = Seconds(g, FileSize(g)) /\ Secs(i) = Seconds(f, FileSize(f))
        BY <2>2, <3>1 DEF Secs
      <4>2. Holds(i) \in Nat /\ Holds(i) <= Secs(i)
        BY DEF Written
      <4>3. Holds(i) <= Secs(i)'
        BY <2>5, <4>1, <4>2
      <4> QED
        BY <1>4, <2>5, <2>6, <3>1, <4>1, <4>2, <4>3
    <3>2. CASE i # writing
      <4>1. Secs(i)' = Secs(i) /\ Holds(i)' = Holds(i)
        BY <1>1, <1>4, <3>2 DEF Secs
      <4> QED
        BY <4>1 DEF Written
    <3> QED
      BY <3>1, <3>2
  <2>8. Written'
    BY <1>1, <2>2, <2>3, <2>7 DEF Written
  <2> QED
    BY <1>4, <2>4, <2>8
<1>6. CASE ~Writes
  <2>1. content' = content
    BY <1>6 DEF Next, Step, Query, MakeScratch, Look, Compare, CompareFails, Prepared, Probe,
       ProbeFails, WriteList, Spawn, SpawnFails, EndOfFile, Stalled, Waited, Clean,
       RemoveScratch, Finalised, OrphanMakes, OrphanPrepares, OrphanLists, Fail, Chunk,
       Breaks, Taken, Leaves, Ask, Deleted, vars, diskVars
  <2>2. Written'
    BY <1>1, <1>4, <2>1 DEF Written, Secs
  <2>3. \A i \in Ids : /\ PairEnds(content[i]) \subseteq PairEnds(content'[i])
                       /\ FileSize(content[i]) <= FileSize(content'[i])
    BY <1>2, <2>1
  <2> QED
    BY <1>4, <2>2, <2>3
<1> QED
  BY <1>5, <1>6

-----------------------------------------------------------------------------
(* What the timeline shows                                                 *)

(* The rows are those of the scan, and a row claims no more footage than   *)
(* there is, but for the fragment its process died in.                     *)
Backed ==
  /\ rows \subseteq Scans
  /\ \A i \in Ids : i # writing => Layout[i].length <= Secs(i) + Lost(i)

LEMMA KilledHas ==
  ASSUME NEW n \in Nat \ {0}, NEW f \in Killed(n)
  PROVE  n - 1 <= Seconds(f, FileSize(f))
<1>1. PICK m \in Nat : m = n - 1
  OBVIOUS
<1>2. PICK b : b = Header \o Pairs(m)
  OBVIOUS
<1>3. /\ b \in Seq(Kinds) /\ Len(b) = 2 * m + 2
      /\ \A j \in 3 .. 2 * m + 2 : b[j] = IF j % 2 = 1 THEN "moof" ELSE "mdat"
  BY <1>2, Boxes
<1>4. CASE f = [boxes |-> Header \o Pairs(n), cut |-> TRUE]
  <2>1. PICK c : c = Header \o Pairs(n)
    OBVIOUS
  <2>2. /\ c \in Seq(Kinds) /\ Len(c) = 2 * n + 2
        /\ \A j \in 3 .. 2 * n + 2 : c[j] = IF j % 2 = 1 THEN "moof" ELSE "mdat"
    BY <2>1, Boxes
  <2>3. FileSize(f) = 2 * n + 2 /\ f.boxes = c
    BY <1>4, <2>1, <2>2 DEF FileSize
  <2>4. /\ FileSize(f) \in Nat /\ FileSize(f) >= 2 * m + 2 /\ FileSize(f) > 2 * m + 2
        /\ \A j \in 3 .. 2 * m + 2 : j \in 3 .. 2 * n + 2
    BY <1>1, <2>3
  <2> QED
    BY <1>1, <2>2, <2>3, <2>4, HasSeconds
<1>5. ASSUME NEW cut \in BOOLEAN,
             f = [boxes |-> Header \o Pairs(n - 1) \o <<"moof">>, cut |-> cut]
      PROVE  n - 1 <= Seconds(f, FileSize(f))
  <2>1. PICK c : c = Append(b, "moof")
    OBVIOUS
  <2>2. "moof" \in Kinds
    BY DEF Kinds
  <2>3. Len(c) = Len(b) + 1 /\ \A j \in 1 .. Len(b) : c[j] = b[j]
    BY <1>3, <2>1, <2>2, AppendProperties
  <2>4. c = Header \o Pairs(n - 1) \o <<"moof">>
    BY <1>1, <1>2, <1>3, <2>1, <2>2, AppendIsConcat
  <2>5. f.boxes = c
    BY <1>5, <2>4
  <2>6. FileSize(f) = 2 * m + 3
    BY <1>3, <2>3, <2>5 DEF FileSize
  <2>7. \A j \in 3 .. 2 * m + 2 : f.boxes[j] = IF j % 2 = 1 THEN "moof" ELSE "mdat"
    BY <1>3, <2>3, <2>5
  <2>8. FileSize(f) \in Nat /\ FileSize(f) >= 2 * m + 2 /\ FileSize(f) > 2 * m + 2
    BY <2>6
  <2> QED
    BY <1>1, <2>7, <2>8, HasSeconds
<1> QED
  BY <1>4, <1>5 DEF Killed

LEMMA BackedAtStart ==
  ASSUME Init
  PROVE  Backed
<1>1. rows \subseteq Scans
  BY DEF Init, Scans
<1>2. ASSUME NEW i \in Ids, i # writing
      PROVE  Layout[i].length <= Secs(i) + Lost(i)
  <2>1. PICK n : n = Layout[i].length
    OBVIOUS
  <2>2. n \in Nat \ {0} /\ Secs(i) \in Nat
    BY <2>1, LayoutOf, WrittenAtStart DEF Written
  <2>3. content[i] \in Endings(i) /\ (content[i] = Open(n) => i # Newest)
    BY <1>2, <2>1 DEF Init
  <2>4. content[i] = Whole(n) \/ content[i] \in Killed(n)
    BY <2>1, <2>3 DEF Endings
  <2>5. CASE content[i] \in Killed(n)
    <3>1. n - 1 <= Secs(i)
      BY <2>2, <2>5, KilledHas DEF Secs
    <3>2. Lost(i) = 1
      BY <2>1, <2>5 DEF Lost
    <3> QED
      BY <2>1, <2>2, <3>1, <3>2
  <2>6. CASE content[i] = Whole(n)
    <3>1. n <= Secs(i)
      BY <2>2, <2>6, WholeHas DEF Secs
    <3>2. Lost(i) \in {0, 1}
      BY DEF Lost
    <3> QED
      BY <2>1, <2>2, <3>1, <3>2
  <2> QED
    BY <2>4, <2>5, <2>6
<1> QED
  BY <1>1, <1>2 DEF Backed

LEMMA BackedKept ==
  ASSUME Disk, Backed, [Next]_vars
  PROVE  Backed'
<1>1. /\ writing' = writing
      /\ \A i \in Ids : i # writing => content'[i] = content[i]
  BY DiskKept
<1>2. rows' \subseteq rows
  BY DEF Next, Step, Query, MakeScratch, Look, Compare, CompareFails, Prepared, Probe,
     ProbeFails, WriteList, Spawn, SpawnFails, EndOfFile, Stalled, Waited, Clean,
     RemoveScratch, Finalised, OrphanMakes, OrphanPrepares, OrphanLists, Fail, Chunk, Breaks,
     Taken, Leaves, Ask, Writes, Deleted, vars, diskVars
<1>3. Scans' = Scans
  BY <1>1 DEF Scans, Scanned
<1>4. ASSUME NEW i \in Ids, i # writing'
      PROVE  Secs(i)' = Secs(i) /\ Lost(i)' = Lost(i)
  BY <1>1, <1>4 DEF Secs, Lost
<1> QED
  BY <1>1, <1>2, <1>3, <1>4 DEF Backed

LEMMA FootageIs ==
  ASSUME NEW i \in Ids, Secs(i) \in Nat
  PROVE  /\ Cardinality(Footage(i)) = Secs(i)
         /\ \A t \in Footage(i) : /\ t \in Int /\ Layout[i].began <= t
                                  /\ t < Layout[i].began + Secs(i)
<1>1. PICK b \in Nat, n \in Nat : b = Layout[i].began /\ n = Secs(i)
  BY LayoutOf
<1>0. n - 1 \in Int /\ b + n - 1 \in Int
  OBVIOUS
<1>2. Footage(i) = {b + k : k \in 0 .. n - 1}
  BY <1>1 DEF Footage, Secs
<1>3. {b + k : k \in 0 .. n - 1} = b .. b + n - 1
  <2>1. ASSUME NEW t \in b .. b + n - 1
        PROVE  t \in {b + k : k \in 0 .. n - 1}
    <3>1. t - b \in 0 .. n - 1 /\ t = b + (t - b)
      OBVIOUS
    <3> QED
      BY <3>1
  <2>2. \A k \in 0 .. n - 1 : b + k \in b .. b + n - 1
    OBVIOUS
  <2> QED
    BY <2>1, <2>2
<1>4. Cardinality(b .. b + n - 1) = n
  <2>1. b \in Int /\ b + n - 1 \in Int
    OBVIOUS
  <2>2. Cardinality(b .. b + n - 1) = IF b > b + n - 1 THEN 0 ELSE (b + n - 1) - b + 1
    BY <2>1, FS_Interval
  <2> QED
    BY <2>2
<1>5. \A t \in b .. b + n - 1 : t \in Int /\ b <= t /\ t < b + n
  BY <1>0
<1>6. Footage(i) = b .. b + n - 1
  BY <1>2, <1>3
<1> QED
  BY <1>1, <1>4, <1>5, <1>6

LEMMA DrawnAsRecorded ==
  ASSUME ReadsBack, Disk, Written, Backed,
         NEW w \in Ranges, NEW asked \in Streams \cup {AnyStream},
         NEW s \in Streams, NEW t \in w[1] .. w[2] - 1
  PROVE  LET found  == in_range(rows, w[1], w[2], asked)
             blocks == blocks_from_segments(found, MaxGap)
             drawn  == \E b \in DOMAIN blocks :
                         blocks[b].stream = s /\ blocks[b].start <= t /\ t < blocks[b].end
         IN /\ drawn => \E i \in Ids : LET l == Layout[i] IN
                  /\ l.stream = s /\ l.began <= t
                  /\ t < l.began + Cardinality(Footage(i)) + Lost(i) + MaxGap
            /\ asked \in {s, AnyStream} => \A i \in {r.id : r \in rows} \ {writing} :
                  Layout[i].stream = s /\ t \in Footage(i) => drawn
<1> DEFINE F      == {r \in rows : /\ r.start < w[2] /\ r.end > w[1]
                                   /\ asked \in {r.stream, AnyStream}}
           segs   == in_range(rows, w[1], w[2], asked)
           blocks == blocks_from_segments(segs, MaxGap)
           drawn  == \E b \in DOMAIN blocks :
                       blocks[b].stream = s /\ blocks[b].start <= t /\ t < blocks[b].end
<1>1. w[1] \in Nat /\ w[2] \in Nat /\ t \in Int /\ w[1] <= t /\ t < w[2]
  BY LayoutAssumption
<1>2. F \in SUBSET Scans /\ segs = ByStart(F)
  BY DEF Backed, in_range
<1>3. \A r \in F : /\ r.start \in Int /\ r.end \in Int /\ r.start <= r.end
                   /\ r.id \in Ids /\ r = Scanned(r.id)
  BY <1>2, ScansAreRows, ScannedIs DEF Scans
<1>4. \A r \in rows : r.start < w[2] /\ r.end > w[1] /\ asked \in {r.stream, AnyStream} => r \in F
  OBVIOUS
<1> HIDE DEF F, segs
<1>5. /\ segs \in Seq(F)
      /\ \A r \in F : \E k \in DOMAIN segs : segs[k] = r
      /\ \A j, k \in DOMAIN segs : j <= k => segs[j].start <= segs[k].start
  BY <1>2, Sorted
<1>6. /\ DOMAIN segs = 1 .. Len(segs) /\ \A k \in DOMAIN segs : segs[k] \in F
      /\ segs \in Seq({segs[k] : k \in DOMAIN segs})
  BY <1>5
<1>7. InTime(segs)
  BY <1>3, <1>5, <1>6 DEF InTime
<1>8. Draws(blocks, segs, Len(segs), MaxGap)
  BY <1>7, BlocksDraw, GapAssumption
<1> HIDE DEF blocks
<1>9. ASSUME drawn
      PROVE  \E i \in Ids : LET l == Layout[i] IN
               /\ l.stream = s /\ l.began <= t
               /\ t < l.began + Cardinality(Footage(i)) + Lost(i) + MaxGap
  <2>1. PICK k \in 1 .. Len(segs) : segs[k].stream = s /\ segs[k].start <= t
                                   /\ t < segs[k].end + MaxGap
    BY <1>1, <1>8, <1>9 DEF Draws
  <2>2. PICK i \in Ids : segs[k] = Scanned(i)
    BY <1>3, <1>6, <2>1
  <2>3. PICK b \in Nat, n \in Nat : b = Layout[i].began /\ n = Layout[i].length
    BY LayoutOf
  <2>4. /\ segs[k].stream = Layout[i].stream /\ segs[k].start = b
        /\ segs[k].end = b + (IF i = writing THEN n - 1 ELSE n)
    BY <2>2, <2>3, ScannedIs
  <2>5. PICK y \in Nat, z \in {0, 1} : y = Secs(i) /\ z = Lost(i)
    BY DEF Written, Lost
  <2>6. segs[k].end <= b + y + z
    <3>1. CASE i = writing
      <4>1. n - 1 <= y
        BY <2>3, <2>5, <3>1 DEF Written, Holds
      <4> QED
        BY <2>4, <2>5, <3>1, <4>1
    <3>2. CASE i # writing
      <4>1. n <= y + z
        BY <2>3, <2>5, <3>2 DEF Backed
      <4> QED
        BY <2>4, <2>5, <3>2, <4>1
    <3> QED
      BY <3>1, <3>2
  <2>7. segs[k].end \in Int
    BY <1>3, <1>6, <2>1
  <2>8. t < b + y + z + MaxGap
    BY SMTT(30), <1>1, <2>1, <2>5, <2>6, <2>7, GapAssumption
  <2>9. Cardinality(Footage(i)) = y
    BY <2>5, FootageIs
  <2> QED
    BY <2>1, <2>3, <2>4, <2>5, <2>8, <2>9
<1>10. ASSUME asked \in {s, AnyStream}, NEW i \in {r.id : r \in rows} \ {writing},
              Layout[i].stream = s, t \in Footage(i)
       PROVE  drawn
  <2>1. PICK r \in rows : r.id = i /\ i \in Ids /\ r = Scanned(i)
    BY ScannedIs DEF Backed, Scans
  <2>2. PICK b \in Nat, n \in Nat : b = Layout[i].began /\ n = Layout[i].length
    BY <2>1, LayoutOf
  <2>3. Secs(i) \in Nat /\ Secs(i) <= n
    BY <2>1, <2>2 DEF Written
  <2>4. b <= t /\ t < b + Secs(i)
    BY <1>10, <2>1, <2>2, <2>3, FootageIs
  <2>5. r.start = b /\ r.end = b + n /\ r.stream = s
    BY <1>10, <2>1, <2>2, ScannedIs
  <2>6. r.start <= t /\ t < r.end
    BY <1>1, <2>2, <2>3, <2>4, <2>5
  <2>7. r.start < w[2] /\ r.end > w[1]
    BY <1>1, <2>2, <2>5, <2>6
  <2>8. r \in F
    BY <1>4, <1>10, <2>1, <2>5, <2>7
  <2>9. PICK j \in 1 .. Len(segs) : segs[j] = r
    BY <1>5, <1>6, <2>8
  <2>10. PICK c \in DOMAIN blocks : /\ blocks[c].stream = r.stream
                                    /\ blocks[c].start <= r.start /\ r.end <= blocks[c].end
    BY <1>8, <2>9 DEF Draws
  <2>11. blocks[c].start \in Int /\ blocks[c].end \in Int
    <3>1. blocks \in Seq(Block(segs))
      BY <1>8 DEF Draws
    <3>2. \A e \in Block(segs) : e.start \in Int /\ e.end \in Int
      BY DEF Block
    <3>3. blocks[c] \in Block(segs)
      BY <3>1
    <3> QED
      BY <3>2, <3>3
  <2>12. blocks[c].start <= t /\ t < blocks[c].end
    BY <1>1, <2>2, <2>5, <2>6, <2>10, <2>11
  <2> QED
    BY <2>5, <2>10, <2>12
<1> QED
  BY <1>9, <1>10 DEF blocks, segs

(* In every range, of one stream or of both: what the timeline draws as    *)
(* recorded is footage of that stream, up to its tolerance and to the      *)
(* fragment a process died in, and it draws all footage that had ended     *)
(* when the index looked; for any segments, also overlapping ones, whose   *)
(* names can be read back.                                                 *)
THEOREM TimelineShowsWhatIsThere ==
  ASSUME ReadsBack
  PROVE  Spec => []TimelineIsTrue
<1> DEFINE Inv == Disk /\ Written /\ Backed
<1>1. Init => Inv
  BY AtStart, WrittenAtStart, BackedAtStart DEF IInv
<1>2. Inv /\ [Next]_vars => Inv'
  BY DiskKept, WrittenKept, BackedKept
<1>3. Inv => TimelineIsTrue
  BY DrawnAsRecorded DEF TimelineIsTrue
<1> QED
  BY <1>1, <1>2, <1>3, PTL DEF Spec

-----------------------------------------------------------------------------
(* What the query finds                                                    *)

LEMMA ScanFacts ==
  ASSUME ReadsBack, NEW r \in Scans
  PROVE  /\ r.id \in Ids /\ r.stream = Layout[r.id].stream /\ r.stream \in Streams
         /\ r.start = Layout[r.id].began /\ r.start \in Nat /\ r.end \in Nat
         /\ Layout[r.id].length \in Nat \ {0}
         /\ r.end = r.start + (IF r.id = writing THEN Layout[r.id].length - 1
                                                 ELSE Layout[r.id].length)
<1>1. PICK i \in Ids : r = Scanned(i)
  BY DEF Scans
<1>2. r.id = i /\ r.start = Layout[i].began /\ r.start \in Nat /\ r.end \in Nat
  BY <1>1, ScannedIs
<1> DEFINE l == Layout[i]
           m == l.began + (IF i = writing THEN l.length - 1 ELSE l.length)
<1>3. Scanned(i) = [id |-> i, stream |-> l.stream,
                    start |-> local_start_to_utc(Local(l.began), m), end |-> m]
  BY DEF Scanned, scan_segment
<1>4. r.stream = l.stream /\ r.end = m
  <2> HIDE DEF l, m
  <2> QED
    BY <1>1, <1>3
<1> DEFINE S == [stream : Streams, began : Nat, length : Nat \ {0}, keyframes : SUBSET Nat]
<1>5. l \in S
  <2>1. Layout \in Seq(S) /\ i \in DOMAIN Layout
    BY LayoutAssumption DEF Ids
  <2> HIDE DEF S
  <2>2. i \in 1 .. Len(Layout)
    BY <2>1
  <2> QED
    BY <2>1, <2>2, ElementOfSeq
<1> QED
  BY <1>2, <1>4, <1>5

(* One row ends before another begins, if they are of the same stream.     *)
Ahead(q, r) == q.stream = r.stream => q.start + Layout[q.id].length <= r.start

InLine(s) == \A j, k \in DOMAIN s : j < k => Ahead(s[j], s[k])

LEMMA ByStartInLine ==
  ASSUME ReadsBack, Apart, NEW R \in SUBSET Scans
  PROVE  InLine(ByStart(R))
<1>1. PICK b : b = ByStart(R)
  OBVIOUS
<1>2. /\ b \in Seq(R)
      /\ \A j, k \in DOMAIN b : j <= k => b[j].start <= b[k].start
      /\ \A j, k \in DOMAIN b : b[j] = b[k] => j = k
  BY <1>1, Sorted
<1>3. ASSUME NEW j \in DOMAIN b, NEW k \in DOMAIN b, j < k, b[j].stream = b[k].stream
      PROVE  b[j].start + Layout[b[j].id].length <= b[k].start
  <2>1. PICK q \in Scans, r \in Scans : q = b[j] /\ r = b[k]
    BY <1>2
  <2>2. j \in Int /\ k \in Int /\ j # k /\ j <= k
    BY <1>2, <1>3
  <2>3. q # r /\ q.start <= r.start
    BY <1>2, <2>1, <2>2
  <2>4. q.id # r.id
    BY <2>3, ScansAreRows
  <2>5. /\ q.id \in Ids /\ r.id \in Ids /\ q.id \in Int /\ r.id \in Int
        /\ Layout[q.id].stream = Layout[r.id].stream
        /\ q.start = Layout[q.id].began /\ r.start = Layout[r.id].began
        /\ q.start \in Nat /\ r.start \in Nat
        /\ Layout[q.id].length \in Nat \ {0} /\ Layout[r.id].length \in Nat \ {0}
    <3>1. q.id \in Int /\ r.id \in Int
      BY ScansAreRows
    <3> QED
      BY <1>3, <2>1, <3>1, ScanFacts
  <2>6. CASE q.id < r.id
    BY <2>1, <2>5, <2>6 DEF Apart
  <2>7. CASE r.id < q.id
    <3>1. Layout[r.id].began + Layout[r.id].length <= Layout[q.id].began
      BY <2>5, <2>7 DEF Apart
    <3> QED
      BY <2>3, <2>5, <3>1
  <2> QED
    BY <2>4, <2>5, <2>6, <2>7
<1> QED
  BY <1>1, <1>3 DEF InLine, Ahead

(* The community modules' sum over a set of rows is a number.              *)
Pick(T) == CHOOSE x \in T : TRUE

Adds(S, g) ==
  g = [T \in SUBSET S |-> IF T = {} THEN 0 ELSE Duration(Pick(T)) + g[T \ {Pick(T)}]]

LEMMA SumsAre ==
  ASSUME NEW S
  PROVE  MapThenSumSet(Duration, S) = (CHOOSE g : Adds(S, g))[S]
BY DEF MapThenSumSet, MapThenFoldSet, Adds, Pick

LEMMA PartsOf ==
  ASSUME NEW S, IsFiniteSet(S), NEW T \in SUBSET S
  PROVE  /\ Cardinality(T) \in 0 .. Cardinality(S)
         /\ T = {} <=> Cardinality(T) = 0
         /\ T # {} => /\ Pick(T) \in T /\ T \ {Pick(T)} \in SUBSET S
                      /\ Cardinality(T \ {Pick(T)}) = Cardinality(T) - 1
<1>1. /\ IsFiniteSet(T) /\ Cardinality(T) <= Cardinality(S)
      /\ Cardinality(T) \in Nat /\ Cardinality(S) \in Nat
  BY FS_Subset, FS_CardinalityType
<1>2. T # {} => Pick(T) \in T
  BY DEF Pick
<1>3. T = {} <=> Cardinality(T) = 0
  BY <1>1, FS_EmptySet
<1>4. T # {} => Cardinality(T \ {Pick(T)}) = Cardinality(T) - 1
  BY <1>1, <1>2, FS_RemoveElement
<1>5. Cardinality(T) \in 0 .. Cardinality(S)
  BY <1>1
<1> QED
  BY <1>2, <1>3, <1>4, <1>5

LEMMA SumIsNumber ==
  ASSUME NEW S, IsFiniteSet(S), \A r \in S : Duration(r) \in Int
  PROVE  MapThenSumSet(Duration, S) \in Int
<1> DEFINE n == Cardinality(S)
           Small(k) == {T \in SUBSET S : Cardinality(T) <= k}
           Partly(k, g) ==
             g = [T \in Small(k) |-> IF T = {} THEN 0 ELSE Duration(Pick(T)) + g[T \ {Pick(T)}]]
           G == {k \in 0 .. n : \E g : Partly(k, g)}
<1>1. n \in Nat
  BY FS_CardinalityType
<1>0. \A T \in SUBSET S :
        /\ Cardinality(T) \in 0 .. n /\ Cardinality(T) \in Nat /\ Cardinality(T) <= n
        /\ T = {} <=> Cardinality(T) = 0
        /\ T # {} => /\ Pick(T) \in T /\ T \ {Pick(T)} \in SUBSET S
                     /\ Cardinality(T \ {Pick(T)}) = Cardinality(T) - 1
  <2> TAKE T \in SUBSET S
  <2>1. /\ Cardinality(T) \in 0 .. n
        /\ T = {} <=> Cardinality(T) = 0
        /\ T # {} => /\ Pick(T) \in T /\ T \ {Pick(T)} \in SUBSET S
                     /\ Cardinality(T \ {Pick(T)}) = Cardinality(T) - 1
    BY PartsOf, Zenon
  <2>2. Cardinality(T) \in Nat /\ Cardinality(T) <= n
    BY <1>1, <2>1
  <2> QED
    BY <2>1, <2>2
<1>2. 0 \in G
  <2>1. PICK g : g = [T \in Small(0) |-> 0]
    OBVIOUS
  <2>2. \A T \in Small(0) : T = {}
    <3>1. ASSUME NEW T \in SUBSET S, Cardinality(T) <= 0
          PROVE  T = {}
      <4>1. Cardinality(T) \in Nat /\ (T = {} <=> Cardinality(T) = 0)
        BY <1>0, Zenon
      <4> QED
        BY <3>1, <4>1
    <3> QED
      BY <3>1
  <2>3. Partly(0, g)
    BY <2>1, <2>2
  <2> QED
    BY SMTT(30), <1>1, <2>3
<1>3. ASSUME NEW k \in 1 .. n, k - 1 \in G
      PROVE  k \in G
  <2>1. PICK g : Partly(k - 1, g)
    BY <1>3
  <2>2. PICK h : h = [T \in Small(k) |->
                        IF T \in Small(k - 1) THEN g[T] ELSE Duration(Pick(T)) + g[T \ {Pick(T)}]]
    OBVIOUS
  <2>3. ASSUME NEW T \in Small(k)
        PROVE  h[T] = IF T = {} THEN 0 ELSE Duration(Pick(T)) + h[T \ {Pick(T)}]
    <3>1. T \in SUBSET S /\ Cardinality(T) <= k /\ Cardinality(T) \in Nat
      BY <1>0
    <3>2. CASE T = {}
      <4>1. T \in Small(k - 1)
        BY <1>0, <1>3, <3>1, <3>2
      <4> QED
        BY <2>1, <2>2, <3>2, <4>1
    <3>3. CASE T # {}
      <4> DEFINE U == T \ {Pick(T)}
      <4>1. U \in SUBSET S /\ Cardinality(U) = Cardinality(T) - 1
        BY <1>0, <3>1, <3>3
      <4>2. U \in Small(k - 1) /\ U \in Small(k)
        BY <3>1, <4>1
      <4>3. h[U] = g[U]
        BY <2>2, <4>2
      <4>4. h[T] = Duration(Pick(T)) + g[U]
        BY <2>1, <2>2, <3>3
      <4> QED
        BY <3>3, <4>3, <4>4
    <3> QED
      BY <3>2, <3>3
  <2>4. h = [T \in Small(k) |-> h[T]]
    BY <2>2
  <2>5. Partly(k, h)
    BY <2>3, <2>4
  <2>6. k \in 0 .. n
    BY <1>1
  <2> HIDE DEF Partly
  <2> QED
    BY <2>5, <2>6
<1>4. 0 .. n \subseteq G
  <2> HIDE DEF G, n
  <2> QED
    BY <1>1, <1>2, <1>3, EveryIndex
<1>5. n \in G
  <2>1. n \in 0 .. n
    BY <1>1
  <2> HIDE DEF G
  <2> QED
    BY <1>4, <2>1
<1>6. PICK g : Partly(n, g)
  BY <1>5
<1>7. \A T \in SUBSET S : Cardinality(T) <= n
  BY <1>0
<1>8. Small(n) = SUBSET S
  BY <1>7
<1>9. Adds(S, g)
  BY <1>6, <1>8 DEF Adds
<1>10. PICK f : f = CHOOSE x : Adds(S, x)
  OBVIOUS
<1>11. Adds(S, f)
  BY <1>9, <1>10
<1> HIDE DEF G, Partly, Small
<1>12. \A T \in SUBSET S : f[T] = IF T = {} THEN 0 ELSE Duration(Pick(T)) + f[T \ {Pick(T)}]
  BY <1>11 DEF Adds
<1> DEFINE H == {k \in 0 .. n : \A T \in SUBSET S : Cardinality(T) = k => f[T] \in Int}
<1>13. 0 \in H
  <2>1. ASSUME NEW T \in SUBSET S, Cardinality(T) = 0
        PROVE  f[T] \in Int
    <3>1. T = {}
      BY <1>0, <2>1, Zenon
    <3>2. f[T] = 0
      BY <1>12, <3>1
    <3> QED
      BY <3>2
  <2> QED
    BY <1>1, <2>1
<1>14. ASSUME NEW k \in 1 .. n, k - 1 \in H
       PROVE  k \in H
  <2>1. ASSUME NEW T \in SUBSET S, Cardinality(T) = k
        PROVE  f[T] \in Int
    <3>1. /\ T # {} /\ Pick(T) \in T /\ T \ {Pick(T)} \in SUBSET S
          /\ Cardinality(T \ {Pick(T)}) = k - 1
      BY <1>0, <1>14, <2>1
    <3>2. f[T \ {Pick(T)}] \in Int
      BY <1>14, <3>1
    <3>3. f[T] = Duration(Pick(T)) + f[T \ {Pick(T)}]
      BY <1>12, <3>1
    <3>4. Duration(Pick(T)) \in Int
      BY <3>1
    <3> QED
      BY <3>2, <3>3, <3>4
  <2> QED
    BY <1>1, <2>1
<1>15. 0 .. n \subseteq H
  <2> HIDE DEF H, n
  <2> QED
    BY <1>1, <1>13, <1>14, EveryIndex
<1>16. n \in H
  BY <1>1, <1>15
<1>17. f[S] \in Int
  BY <1>16
<1> QED
  BY <1>10, <1>17, SumsAre

(* The segments that are looked at: in line, all that the range wants, and *)
(* for one stream if a clock is to be burnt in.                            *)
LEMMA QueryFinds ==
  ASSUME ReadsBack, Apart, rows \subseteq Scans, NEW from, NEW to, NEW stream,
         NEW found, found = in_range(rows, from, to, stream)
  PROVE  /\ InLine(found) /\ InLine(dominant_stream(found))
         /\ \A r \in rows : r.start < to /\ r.end > from /\ stream \in {r.stream, AnyStream} =>
              \E k \in DOMAIN found : found[k] = r
         /\ \E s : \A k \in DOMAIN dominant_stream(found) : dominant_stream(found)[k].stream = s
         /\ stream \in Streams /\ found # <<>> => \A k \in DOMAIN found :
              \E j \in DOMAIN dominant_stream(found) : dominant_stream(found)[j] = found[k]
<1> DEFINE F == {r \in rows : /\ r.start < to /\ r.end > from
                              /\ stream \in {r.stream, AnyStream}}
<1>1. F \in SUBSET Scans /\ \A r \in F : stream \in {r.stream, AnyStream}
  OBVIOUS
<1>2. found = ByStart(F)
  BY DEF in_range
<1>3. \A r \in rows : r.start < to /\ r.end > from /\ stream \in {r.stream, AnyStream} => r \in F
  OBVIOUS
<1> HIDE DEF F
<1>4. found \in Seq(F) /\ \A r \in F : \E k \in DOMAIN found : found[k] = r
  BY <1>1, <1>2, Sorted
<1>5. InLine(found)
  BY <1>1, <1>2, ByStartInLine
<1>6. PICK T : T = ToSet(found)
  OBVIOUS
<1>7. T \in SUBSET Scans /\ T = F
  BY <1>1, <1>4, <1>6 DEF ToSet
<1> DEFINE Of(key) == {s \in T : s.stream = key}
           keys    == {found[i].stream : i \in DOMAIN found}
           total(k) == MapThenSumSet(Duration, Of(k))
           longest == {k \in keys : \A other \in keys : total(k) >= total(other)}
<1>8. \A key : Of(key) \in SUBSET Scans /\ OfStream(found, key) = ByStart(Of(key))
  BY <1>6, <1>7 DEF OfStream
<1>9. dominant_stream(found) = OfStream(found, Min(longest))
  BY <1>6 DEF dominant_stream
<1>10. PICK key : key = Min(longest)
  OBVIOUS
<1>11. PICK d : d = dominant_stream(found)
  OBVIOUS
<1>12. d = ByStart(Of(key))
  BY <1>8, <1>9, <1>10, <1>11
<1>13. /\ InLine(d) /\ d \in Seq(Of(key))
       /\ \A r \in Of(key) : \E j \in DOMAIN d : d[j] = r
  <2>1. Of(key) \in SUBSET Scans
    BY <1>8
  <2> HIDE DEF Of
  <2> QED
    BY <1>12, <2>1, ByStartInLine, Sorted
<1>14. \A k \in DOMAIN d : d[k].stream = key
  <2>1. \A k \in DOMAIN d : d[k] \in Of(key)
    <3> HIDE DEF Of
    <3> QED
      BY <1>13
  <2> QED
    BY <2>1
<1>15. ASSUME stream \in Streams, found # <<>>, NEW k \in DOMAIN found
       PROVE  \E j \in DOMAIN d : d[j] = found[k]
  <2>1. stream # AnyStream
    BY <1>15, CalendarAssumption DEF AnyStream
  <2>2. \A r \in F : r.stream = stream
    BY <1>1, <2>1
  <2>3. \A i \in DOMAIN found : found[i] \in F
    BY <1>4
  <2>4. keys = {stream}
    BY <1>15, <2>2, <2>3
  <2>5. Of(stream) = F
    BY <1>7, <2>2
  <2>6. total(stream) \in Int
    <3>1. IsFiniteSet(F)
      BY <1>1, ScansAreRows, FS_Subset
    <3>2. ASSUME NEW r \in F
          PROVE  Duration(r) \in Int
      <4>1. r.start \in Nat /\ r.end \in Nat
        BY <1>1, ScanFacts
      <4> QED
        BY <4>1 DEF Duration
    <3>3. MapThenSumSet(Duration, F) \in Int
      BY <3>1, <3>2, SumIsNumber
    <3> QED
      BY <2>5, <3>3
  <2>7. longest = {stream}
    <3> HIDE DEF total, keys
    <3>1. total(stream) >= total(stream)
      BY <2>6
    <3> QED
      BY <2>4, <3>1
  <2>8. Min({stream}) = stream
    <3>1. stream <= stream
      BY <1>15, CalendarAssumption
    <3> QED
      BY <3>1 DEF Min
  <2>9. key = stream
    BY <1>10, <2>7, <2>8
  <2>10. found[k] \in Of(key)
    BY <2>3, <2>5, <2>9
  <2> HIDE DEF Of
  <2> QED
    BY <1>13, <2>10
<1> HIDE DEF Of, keys, total, longest
<1> QED
  BY <1>3, <1>4, <1>5, <1>11, <1>13, <1>14, <1>15

-----------------------------------------------------------------------------
(* From await to await                                                     *)

Chosen == {"probing", "listing", "spawning"} \cup Joining

Bounds == clip_bounds([i \in DOMAIN prepared |-> prepared[i].row], request.from, request.to)

(* An export ends once, nothing is sent before ffmpeg runs, and what is    *)
(* joined and how it is cut is settled then.                               *)
Stages ==
  /\ pc \notin Ending => end = "none"
  /\ leftAt # "none" => end = "left"
  /\ pc \in Early \cup Before => out = <<>>
  /\ pc \in Chosen \/ end = "whole" => segments = <<>> /\ prepared # <<>>
  /\ pc \in Chosen => clip = Bounds
  /\ end = "whole" => reached = Len(prepared) /\ pc \in Ending

(* Where nothing of it changes, only the await has to be looked at.        *)
LEMMA SameStages ==
  ASSUME Stages, UNCHANGED <<end, leftAt, out, segments, prepared, clip, request, reached>>,
         pc' \notin Ending => pc \notin Ending,
         pc' \in Early \cup Before => pc \in Early \cup Before,
         pc' \in Chosen => pc \in Chosen,
         pc \in Ending => pc' \in Ending
  PROVE  Stages'
<1>1. Bounds' = Bounds
  BY DEF Bounds
<1> QED
  BY <1>1 DEF Stages

(* Where it ends otherwise than as a whole, nothing is left to look at.    *)
LEMMA EndedStages ==
  ASSUME Stages, pc' \in Ending, end' \in {"nothing", "failed", "short", "left"},
         (leftAt' = leftAt /\ pc \notin Ending) \/ end' = "left"
  PROVE  Stages'
<1>1. pc' \notin Early \cup Before /\ pc' \notin Chosen
  BY DEF Early, Before, Chosen, Joining, Ending
<1>2. leftAt' # "none" => end' = "left"
  BY DEF Stages
<1> QED
  BY <1>1, <1>2 DEF Stages

LEMMA StagesKept ==
  ASSUME IInv, Stages, [Next]_vars
  PROVE  Stages'
<1> USE DEF Early, Before, Chosen, Joining, Ending
<1>1. pc \in Early \cup Before \cup Joining \cup Ending
  BY DEF IInv, Scratch
<1>2. CASE Query
  <2>1. /\ pc = "querying" /\ UNCHANGED <<leftAt, out, prepared, clip, request, reached>>
    BY <1>2 DEF Query, joinVars
  <2>2. CASE pc' = "over" /\ end' = "nothing"
    BY <2>1, <2>2, EndedStages
  <2>3. CASE pc' = "making" /\ end' = end
    BY <2>1, <2>3 DEF Stages
  <2> QED
    BY <1>2, <2>2, <2>3 DEF Query
<1>3. CASE MakeScratch
  <2>1. /\ UNCHANGED <<end, leftAt, out, segments, prepared, clip, request, reached>>
        /\ pc = "making" /\ pc' = "preparing"
    BY <1>3 DEF MakeScratch, inputVars, joinVars
  <2> QED
    BY <2>1, SameStages
<1>4. CASE Look \/ Compare
  <2>1. UNCHANGED <<end, leftAt, out, clip, request, reached, pc>> /\ pc = "preparing"
    BY <1>4 DEF Look, Compare, joinVars
  <2> QED
    BY <2>1 DEF Stages
<1>5. CASE CompareFails \/ ProbeFails \/ SpawnFails
  <2>1. pc \notin Ending /\ pc' = "cleaning" /\ end' = "failed" /\ leftAt' = leftAt
    BY <1>5 DEF CompareFails, ProbeFails, SpawnFails, Fail
  <2> QED
    BY <2>1, EndedStages
<1>6. CASE Prepared
  <2>1. /\ pc = "preparing" /\ segments = <<>>
        /\ UNCHANGED <<leftAt, out, prepared, segments, request, reached>>
    BY <1>6 DEF Prepared, joinVars
  <2>2. CASE prepared = <<>>
    <3>1. pc' = "cleaning" /\ end' = "nothing"
      BY <1>6, <2>2 DEF Prepared
    <3> QED
      BY <2>1, <3>1, EndedStages
  <2>3. CASE prepared # <<>>
    <3>1. clip' = Bounds /\ pc' \in {"probing", "listing"} /\ end' = end
      BY <1>6, <2>3 DEF Prepared, Bounds
    <3>2. Bounds' = Bounds
      BY <2>1 DEF Bounds
    <3>3. end' = "none" /\ out' = <<>> /\ (leftAt' # "none" => end' = "left")
      BY <2>1, <3>1 DEF Stages
    <3> QED
      BY <2>1, <2>3, <3>1, <3>2, <3>3 DEF Stages
  <2> QED
    BY <2>2, <2>3
<1>7. CASE Probe \/ WriteList \/ Spawn
  <2>1. UNCHANGED <<end, leftAt, out, segments, prepared, clip, request, reached>>
    BY <1>7 DEF Probe, WriteList, Spawn, inputVars, joinVars
  <2>2. /\ pc \in {"probing", "listing", "spawning"}
        /\ pc' \in {"listing", "spawning", "reading"}
    BY <1>7 DEF Probe, WriteList, Spawn
  <2> QED
    BY <2>1, <2>2, SameStages
<1>8. CASE EndOfFile
  <2>1. /\ pc = "reading" /\ pc' = "waiting" /\ end' = (IF ffmpeg = "running" THEN "whole" ELSE "short")
        /\ UNCHANGED <<leftAt, segments, prepared, reached>>
        /\ ffmpeg \in {"failed", "torn"} \/ reached = Len(prepared)
    BY <1>8 DEF EndOfFile, inputVars
  <2>2. CASE ffmpeg = "running"
    <3>1. reached' = Len(prepared') /\ segments' = <<>> /\ prepared' # <<>>
      BY <2>1, <2>2 DEF Stages
    <3>2. leftAt' = "none"
      BY <2>1 DEF Stages
    <3> QED
      BY <2>1, <2>2, <3>1, <3>2 DEF Stages
  <2>3. CASE ffmpeg # "running"
    BY <2>1, <2>3, EndedStages
  <2> QED
    BY <2>2, <2>3
<1>9. CASE Stalled
  <2>1. pc = "reading" /\ pc' = "waiting" /\ end' = "short" /\ leftAt' = leftAt
    BY <1>9 DEF Stalled
  <2> QED
    BY <2>1, EndedStages
<1>10. CASE Waited \/ Clean \/ RemoveScratch \/ Finalised
  <2>1. UNCHANGED <<end, leftAt, out, segments, prepared, clip, request, reached>>
    BY <1>10 DEF Waited, Clean, RemoveScratch, Finalised, inputVars, joinVars
  <2>2. pc \in Ending /\ pc' \in Ending
    BY <1>10 DEF Waited, Clean, RemoveScratch, Finalised
  <2> QED
    BY <2>1, <2>2, SameStages
<1>11. CASE OrphanMakes \/ OrphanLists \/ Writes \/ Breaks \/ UNCHANGED vars
  <2>1. UNCHANGED <<end, leftAt, out, segments, prepared, clip, request, reached, pc>>
    BY <1>11 DEF OrphanMakes, OrphanLists, Writes, Breaks, vars, inputVars, joinVars
  <2> QED
    BY <2>1, SameStages
<1>12. CASE OrphanPrepares
  <2>1. UNCHANGED <<end, leftAt, pc>> /\ orphan = "preparing"
    BY <1>12 DEF OrphanPrepares
  <2>2. pc \in Ending /\ end = "left"
    BY <2>1 DEF IInv, Scratch, Stages
  <2> QED
    BY <2>1, <2>2, EndedStages
<1>13. CASE Chunk
  <2>1. /\ pc = "reading" /\ pc' \in {"reading", "sending"}
        /\ UNCHANGED <<end, leftAt, segments, prepared, clip, request>>
    BY <1>13 DEF Chunk, inputVars
  <2>2. Bounds' = Bounds
    BY <2>1 DEF Bounds
  <2> QED
    BY <2>1, <2>2 DEF Stages
<1>14. CASE Taken
  <2>1. /\ UNCHANGED <<end, leftAt, out, segments, prepared, clip, request, reached>>
        /\ pc = "sending" /\ pc' = "reading"
    BY <1>14 DEF Taken, inputVars, joinVars
  <2> QED
    BY <2>1, SameStages
<1>15. CASE Leaves
  <2>1. pc' = After /\ end' = "left"
    BY <1>15 DEF Leaves
  <2>2. pc' \in Ending
    BY <1>1, <1>15, <2>1 DEF Leaves, After
  <2> QED
    BY <2>1, <2>2, EndedStages
<1>16. ASSUME NEW i \in there, Deleted(i)
       PROVE  Stages'
  <2>1. UNCHANGED <<end, leftAt, out, segments, prepared, clip, request, reached, pc>>
    BY <1>16 DEF Deleted, inputVars, joinVars
  <2> QED
    BY <2>1, SameStages
<1>17. ASSUME NEW r \in Requests, Ask(r)
       PROVE  Stages'
  <2>1. /\ UNCHANGED <<end, leftAt, out>> /\ pc = "idle" /\ pc' = "querying"
    BY <1>17 DEF Ask, joinVars
  <2> QED
    BY <2>1 DEF Stages
<1> QED
  BY <1>2, <1>3, <1>4, <1>5, <1>6, <1>7, <1>8, <1>9, <1>10, <1>11, <1>12, <1>13, <1>14, <1>15,
     <1>16, <1>17 DEF Next, Step

-----------------------------------------------------------------------------
(* The queue of segments and the inputs made of it                         *)

Serving == pc \notin {"idle", "querying"} /\ end \in {"none", "whole"}

(* What the download owes to the rows of the index                         *)
Wanted(r) ==
  /\ r.id \in there
  /\ r.stream = request.stream \/ (request.stream = AnyStream /\ ~request.stamp)
  /\ r.start < request.to /\ r.end > request.from /\ Holds(r.id) > 0

PartHolds(x) ==
  x.copy => /\ Seconds(x.part, FileSize(x.part)) \in Nat
            /\ Holds(x.row.id) <= Seconds(x.part, FileSize(x.part))
            /\ Seconds(x.part, FileSize(x.part)) <= Layout[x.row.id].length

(* What is wanted waits or is prepared, in line and, for a clock, of one   *)
(* stream; and what was found playable is enough.                          *)
Queue ==
  /\ pc \in Early => prepared = <<>>
  /\ Serving =>
       /\ InLine(segments)
       /\ \A j \in DOMAIN prepared, k \in DOMAIN segments : Ahead(prepared[j].row, segments[k])
       /\ \A j, k \in DOMAIN prepared : j < k => Ahead(prepared[j].row, prepared[k].row)
       /\ \A r \in rows : Wanted(r) => \/ \E k \in DOMAIN segments : segments[k] = r
                                       \/ \E k \in DOMAIN prepared : prepared[k].row = r
       /\ request.stamp => \E s : /\ \A k \in DOMAIN segments : segments[k].stream = s
                                  /\ \A k \in DOMAIN prepared : prepared[k].row.stream = s
       /\ stamp => request.stamp
       /\ pc = "preparing" /\ keep # None =>
            /\ keep <= FileSize(content[Current])
            /\ Holds(Current) <= Seconds(content[Current], keep)
       /\ \A j \in DOMAIN prepared : PartHolds(prepared[j])

LEMMA StillServing ==
  ASSUME IInv, Stages, [Next]_vars, Serving'
  PROVE  Serving \/ Query
<1> USE DEF Early, Before, Chosen, Joining, Ending
<1>1. SUFFICES ASSUME ~Query
               PROVE  Serving
  OBVIOUS
<1>2. pc \notin {"idle", "querying"}
  <2>1. pc' \notin {"idle", "querying"} /\ end' # "left"
    BY DEF Serving
  <2>2. CASE Leaves
    BY <2>1, <2>2 DEF Leaves
  <2>3. CASE \E r \in Requests : <<r.from, r.to>> \in Ranges /\ Ask(r)
    BY <2>1, <2>3 DEF Ask
  <2>4. CASE Step \/ Chunk \/ Breaks \/ Taken
    <3>1. CASE Step
      <4>1. CASE MakeScratch \/ Look \/ Compare \/ CompareFails \/ Prepared
        BY <4>1 DEF MakeScratch, Look, Compare, CompareFails, Prepared
      <4>2. CASE Probe \/ ProbeFails \/ WriteList \/ Spawn \/ SpawnFails
        BY <4>2 DEF Probe, ProbeFails, WriteList, Spawn, SpawnFails
      <4>3. CASE EndOfFile \/ Stalled \/ Waited \/ Clean \/ RemoveScratch \/ Finalised
        BY <4>3 DEF EndOfFile, Stalled, Waited, Clean, RemoveScratch, Finalised
      <4>4. CASE OrphanMakes \/ OrphanPrepares \/ OrphanLists
        BY <2>1, <4>4 DEF OrphanMakes, OrphanPrepares, OrphanLists
      <4> QED
        BY <1>1, <3>1, <4>1, <4>2, <4>3, <4>4 DEF Step
    <3>2. CASE Chunk \/ Breaks \/ Taken
      BY <3>2 DEF Chunk, Breaks, Taken
    <3> QED
      BY <2>4, <3>1, <3>2
  <2>5. CASE Writes \/ (\E i \in there : Deleted(i)) \/ UNCHANGED vars
    BY <2>1, <2>5 DEF Writes, Deleted, vars
  <2> QED
    BY <2>2, <2>3, <2>4, <2>5 DEF Next
<1>3. CASE pc \notin Ending
  BY <1>2, <1>3 DEF Stages, Serving
<1>4. CASE pc \in Ending
  <2>1. end' = end
    BY <1>4, <1>1 DEF Next, Step, MakeScratch, Look, Compare, CompareFails, Prepared, Probe,
       ProbeFails, WriteList, Spawn, SpawnFails, EndOfFile, Stalled, Waited, Clean,
       RemoveScratch, Finalised, OrphanMakes, OrphanPrepares, OrphanLists, Chunk, Breaks,
       Taken, Leaves, Ask, Writes, Deleted, vars
  <2> QED
    BY <1>2, <2>1 DEF Serving
<1> QED
  BY <1>3, <1>4

LEMMA SameQueue ==
  ASSUME IInv, Queried, Written, Stages, Queue, [Next]_vars,
         ~Query, UNCHANGED <<segments, prepared>>, stamp' => stamp, pc' \in Early => pc \in Early,
         pc # "idle" => request' = request,
         pc' = "preparing" /\ keep' # None => UNCHANGED <<pc, keep>>
  PROVE  Queue'
<1>1. /\ \A i \in Ids : /\ Holds(i)' = Holds(i)
                        /\ PairEnds(content[i]) \subseteq PairEnds(content'[i])
                        /\ FileSize(content[i]) <= FileSize(content'[i])
      /\ Disk' /\ writing' = writing
  BY WrittenKept, DiskKept DEF IInv
<1>2. rows' \subseteq rows /\ there' \subseteq there
  BY DEF Next, Step, Query, MakeScratch, Look, Compare, CompareFails, Prepared, Probe,
     ProbeFails, WriteList, Spawn, SpawnFails, EndOfFile, Stalled, Waited, Clean,
     RemoveScratch, Finalised, OrphanMakes, OrphanPrepares, OrphanLists, Fail, Chunk, Breaks, Taken, Leaves, Ask,
     Writes, Deleted, vars, diskVars
<1>3. pc' \in Early => prepared' = <<>>
  BY DEF Queue
<1>4. SUFFICES ASSUME Serving'
               PROVE  Queue'
  BY <1>3 DEF Queue
<1>5. Serving
  BY <1>4, StillServing
<1>6. request' = request
  BY <1>5 DEF Serving
<1>7. ASSUME NEW r \in rows', Wanted(r)'
      PROVE  r \in rows /\ Wanted(r)
  <2>1. r \in rows /\ r.id \in Ids
    BY <1>2, <1>7 DEF Queried, IInv, Disk, Wanted
  <2> QED
    BY <1>1, <1>2, <1>6, <1>7, <2>1 DEF Wanted
<1>8. ASSUME pc' = "preparing", keep' # None
      PROVE  /\ keep' <= FileSize(content'[Current'])
             /\ Holds(Current)' <= Seconds(content'[Current'], keep')
  <2>1. /\ pc = "preparing" /\ keep # None /\ keep' = keep /\ Current' = Current
        /\ keep <= FileSize(content[Current])
        /\ Holds(Current) <= Seconds(content[Current], keep)
    BY <1>5, <1>8 DEF Queue, Current
  <2>2. Current \in Ids
    <3>1. segments \in Seq(Overlapping) /\ segments # <<>>
      BY <2>1 DEF Queried
    <3>2. Head(segments) \in Overlapping
      BY <3>1, HeadTailProperties
    <3>3. Head(segments) \in Scans
      BY <3>2 DEF Overlapping
    <3>4. PICK i \in Ids : Head(segments) = Scanned(i)
      BY <3>3 DEF Scans
    <3> QED
      BY <3>4 DEF Current, Scanned, scan_segment
  <2>3. PICK f, g : f = content[Current] /\ g = content'[Current]
    OBVIOUS
  <2>4. /\ FileSize(f) \in Nat /\ FileSize(g) \in Nat /\ FileSize(f) <= FileSize(g)
        /\ PairEnds(f) \subseteq PairEnds(g) /\ keep \in Nat
    BY <1>1, <2>1, <2>2, <2>3 DEF IInv, Disk, Files, FileSize, Inputs
  <2>5. Seconds(f, keep) \in Nat /\ Seconds(g, keep) \in Nat /\ Seconds(f, keep) <= Seconds(g, keep)
    BY <2>4, MoreSeconds
  <2>6. Holds(Current) \in Nat
    BY <2>2 DEF Written
  <2>7. Holds(Current)' = Holds(Current)
    BY <1>1, <2>1, <2>2 DEF Holds, Secs
  <2> QED
    BY <2>1, <2>3, <2>4, <2>5, <2>6, <2>7
<1>9. ASSUME NEW j \in DOMAIN prepared'
      PROVE  PartHolds(prepared[j])'
  <2>1. j \in DOMAIN prepared /\ prepared'[j] = prepared[j] /\ prepared[j].row.id \in Ids
    BY <1>9 DEF IInv, Inputs
  <2>2. Holds(prepared[j].row.id)' = Holds(prepared[j].row.id)
    BY <1>1, <2>1
  <2> QED
    BY <1>5, <2>1, <2>2 DEF Queue, PartHolds
<1> QED
  BY <1>3, <1>5, <1>6, <1>7, <1>8, <1>9 DEF Queue
LEMMA CurrentIs ==
  ASSUME ReadsBack, Queried, pc # "idle", segments # <<>>
  PROVE  /\ segments \in Seq(Overlapping) /\ Head(segments) \in Overlapping
         /\ Head(segments) = segments[1] /\ Current \in Ids
         /\ Tail(segments) \in Seq(Overlapping)
         /\ DOMAIN segments = 1 .. Len(segments) /\ Len(segments) \in Nat \ {0}
         /\ DOMAIN Tail(segments) = 1 .. Len(segments) - 1
         /\ \A i \in DOMAIN Tail(segments) :
              i + 1 \in DOMAIN segments /\ Tail(segments)[i] = segments[i + 1]
<1>1. segments \in Seq(Overlapping)
  BY DEF Queried
<1>2. /\ Head(segments) \in Overlapping /\ Tail(segments) \in Seq(Overlapping)
      /\ Len(Tail(segments)) = Len(segments) - 1
      /\ \A i \in 1 .. Len(Tail(segments)) : Tail(segments)[i] = segments[i + 1]
  BY <1>1, HeadTailProperties
<1>3. Head(segments) = segments[1]
  BY <1>1
<1>4. Current \in Ids
  BY <1>2, ScanFacts DEF Overlapping, Current
<1>5. /\ DOMAIN segments = 1 .. Len(segments) /\ Len(segments) \in Nat \ {0}
      /\ DOMAIN Tail(segments) = 1 .. Len(segments) - 1
  <2>1. Len(segments) # 0
    BY <1>1
  <2>2. DOMAIN Tail(segments) = 1 .. Len(Tail(segments))
    BY <1>2
  <2> QED
    BY <1>1, <1>2, <2>1, <2>2
<1>6. \A i \in 1 .. Len(segments) - 1 : i + 1 \in 1 .. Len(segments)
  BY <1>5
<1> QED
  BY <1>1, <1>2, <1>3, <1>4, <1>5, <1>6

LEMMA QueryQueues ==
  ASSUME ReadsBack, Apart, IInv, Queried, Stages, Queue, Query
  PROVE  Queue'
<1>1. /\ pc = "querying" /\ UNCHANGED <<rows, there, content, writing, request, prepared>>
  BY DEF Query, diskVars
<1>2. prepared' = <<>> /\ DOMAIN prepared' = {}
  BY <1>1 DEF Queue, Early
<1>3. SUFFICES ASSUME Serving'
               PROVE  Queue'
  BY <1>2 DEF Queue
<1>4. PICK found : found = in_range(rows, request.from, request.to, request.stream)
  OBVIOUS
<1>5. /\ found # <<>> /\ pc' = "making" /\ stamp' = request.stamp
      /\ segments' = IF request.stamp THEN dominant_stream(found) ELSE found
  BY <1>3, <1>4 DEF Query, Serving
<1>6. /\ InLine(found) /\ InLine(dominant_stream(found))
      /\ \A r \in rows : r.start < request.to /\ r.end > request.from
                         /\ request.stream \in {r.stream, AnyStream} =>
           \E k \in DOMAIN found : found[k] = r
      /\ \E s : \A k \in DOMAIN dominant_stream(found) : dominant_stream(found)[k].stream = s
      /\ request.stream \in Streams => \A k \in DOMAIN found :
           \E j \in DOMAIN dominant_stream(found) : dominant_stream(found)[j] = found[k]
  <2>1. rows \subseteq Scans
    BY DEF Queried
  <2>2. PICK from, to, stream : from = request.from /\ to = request.to /\ stream = request.stream
    OBVIOUS
  <2>3. found = in_range(rows, from, to, stream)
    BY <1>4, <2>2
  <2>4. /\ InLine(found) /\ InLine(dominant_stream(found))
        /\ \A r \in rows : r.start < to /\ r.end > from /\ stream \in {r.stream, AnyStream} =>
             \E k \in DOMAIN found : found[k] = r
        /\ \E s : \A k \in DOMAIN dominant_stream(found) : dominant_stream(found)[k].stream = s
        /\ stream \in Streams /\ found # <<>> => \A k \in DOMAIN found :
             \E j \in DOMAIN dominant_stream(found) : dominant_stream(found)[j] = found[k]
    BY SMTT(30), <2>1, <2>3, QueryFinds
  <2> QED
    BY <1>5, <2>2, <2>4, Zenon
<1>7. ASSUME NEW r \in rows', Wanted(r)'
      PROVE  \E k \in DOMAIN segments' : segments'[k] = r
  <2>1. /\ r \in rows /\ r.start < request.to /\ r.end > request.from
        /\ r.stream = request.stream \/ (request.stream = AnyStream /\ ~request.stamp)
    BY <1>1, <1>7 DEF Wanted
  <2>2. PICK k \in DOMAIN found : found[k] = r
    BY <1>6, <2>1
  <2>3. CASE ~request.stamp
    BY <1>5, <2>2, <2>3
  <2>4. CASE request.stamp
    <3>1. request.stream \in Streams
      BY <2>1, <2>4, ScanFacts DEF Queried
    <3> QED
      BY <1>5, <1>6, <2>2, <2>4, <3>1
  <2> QED
    BY <2>3, <2>4
<1>8. InLine(segments')
  BY <1>5, <1>6
<1>9. request'.stamp => \E s : \A k \in DOMAIN segments' : segments'[k].stream = s
  BY <1>1, <1>5, <1>6
<1>10. stamp' => request'.stamp
  BY <1>1, <1>5
<1> QED
  BY <1>2, <1>5, <1>7, <1>8, <1>9, <1>10 DEF Queue

(* A file that cannot be read is gone; of one that can, all is playable    *)
(* that the index knows of.                                                *)
LEMMA LookQueues ==
  ASSUME ReadsBack, IInv, Queried, Written, Stages, Queue, Look
  PROVE  Queue'
<1>1. /\ pc = "preparing" /\ keep = None /\ segments # <<>>
      /\ UNCHANGED <<rows, there, content, writing, request, prepared, pc, stamp, end>>
  BY DEF Look, diskVars
<1>2. SUFFICES ASSUME Serving'
               PROVE  Queue'
  BY <1>1 DEF Queue
<1>3. Serving
  BY <1>1, <1>2 DEF Serving
<1>4. /\ Current \in Ids /\ Head(segments) = segments[1]
      /\ DOMAIN segments = 1 .. Len(segments) /\ Len(segments) \in Nat \ {0}
      /\ DOMAIN Tail(segments) = 1 .. Len(segments) - 1
      /\ \A i \in DOMAIN Tail(segments) :
           i + 1 \in DOMAIN segments /\ Tail(segments)[i] = segments[i + 1]
  BY <1>1, CurrentIs
<1>5. \A i : Holds(i)' = Holds(i)
  BY <1>1 DEF Holds, Secs
<1>6. \A r : Wanted(r)' <=> Wanted(r)
  BY <1>1, <1>5 DEF Wanted
<1>7. \A j \in DOMAIN prepared : PartHolds(prepared[j])'
  BY <1>1, <1>3, <1>5 DEF Queue, PartHolds
<1>8. CASE keep' = playable_length(content[Current]) /\ segments' = segments
  <2>1. PICK f : f = content[Current]
    OBVIOUS
  <2>2. f \in Files
    BY <1>4, <2>1 DEF IInv, Disk
  <2>3. playable_length(f) \in 0 .. FileSize(f) /\ FileSize(f) \in Nat
        /\ Seconds(f, FileSize(f)) <= Seconds(f, playable_length(f))
    BY <2>2, PlayableHasAll, Pairing
  <2>4. Seconds(f, playable_length(f)) \in Nat
    BY <2>3, MoreSeconds
  <2>5. /\ Holds(Current) \in Nat /\ Holds(Current) <= Seconds(f, FileSize(f))
        /\ Seconds(f, FileSize(f)) \in Nat
    BY <1>4, <2>1 DEF Written, Secs
  <2>6. Holds(Current) <= Seconds(f, playable_length(f))
    BY <2>3, <2>4, <2>5
  <2>7. Holds(Current)' = Holds(Current) /\ content'[Current'] = f
    BY <1>1, <1>8, <2>1 DEF Holds, Secs, Current
  <2>8. keep' <= FileSize(content'[Current']) /\ Holds(Current)' <= Seconds(content'[Current'], keep')
    BY <1>8, <2>1, <2>3, <2>6, <2>7
  <2> QED
    BY <1>1, <1>3, <1>6, <1>7, <1>8, <2>8 DEF Queue
<1>9. CASE Current \notin there /\ segments' = Tail(segments) /\ keep' = keep
  <2>1. ASSUME NEW r \in rows', Wanted(r)'
        PROVE  \/ \E k \in DOMAIN segments' : segments'[k] = r
               \/ \E k \in DOMAIN prepared' : prepared'[k].row = r
    <3>1. r \in rows /\ Wanted(r)
      BY <1>1, <1>6, <2>1
    <3>2. CASE \E k \in DOMAIN prepared : prepared[k].row = r
      BY <1>1, <3>2
    <3>3. ASSUME NEW k \in DOMAIN segments, segments[k] = r
          PROVE  \E i \in DOMAIN segments' : segments'[i] = r
      <4>1. k # 1
        BY <1>4, <1>9, <3>1, <3>3 DEF Wanted, Current
      <4>2. k - 1 \in DOMAIN Tail(segments) /\ (k - 1) + 1 = k
        BY <1>4, <4>1
      <4> QED
        BY <1>4, <1>9, <3>3, <4>2
    <3> QED
      BY <1>3, <3>1, <3>2, <3>3 DEF Queue
  <2>2. InLine(segments')
    <3>1. InLine(segments)
      BY <1>3 DEF Queue
    <3>2. \A j, k \in DOMAIN segments' : j < k => j + 1 < k + 1
      BY <1>4, <1>9
    <3> QED
      BY <1>4, <1>9, <3>1, <3>2 DEF InLine
  <2>3. \A j \in DOMAIN prepared', k \in DOMAIN segments' : Ahead(prepared'[j].row, segments'[k])
    BY <1>1, <1>3, <1>4, <1>9 DEF Queue
  <2>4. request'.stamp => \E s : /\ \A k \in DOMAIN segments' : segments'[k].stream = s
                                 /\ \A k \in DOMAIN prepared' : prepared'[k].row.stream = s
    <3>1. SUFFICES ASSUME request.stamp
                   PROVE  \E s : /\ \A k \in DOMAIN segments' : segments'[k].stream = s
                                 /\ \A k \in DOMAIN prepared' : prepared'[k].row.stream = s
      BY <1>1
    <3>2. PICK s : /\ \A k \in DOMAIN segments : segments[k].stream = s
                   /\ \A k \in DOMAIN prepared : prepared[k].row.stream = s
      BY <1>3, <3>1 DEF Queue
    <3> QED
      BY SMTT(30), <1>1, <1>4, <1>9, <3>2
  <2> QED
    BY <1>1, <1>3, <1>7, <1>9, <2>1, <2>2, <2>3, <2>4 DEF Queue
<1> QED
  BY <1>8, <1>9 DEF Look

(* What is found playable of the first segment becomes an input, unless it *)
(* is nothing.                                                             *)
LEMMA CompareQueues ==
  ASSUME ReadsBack, IInv, Queried, Written, Stages, Queue, Compare
  PROVE  Queue'
<1>1. /\ pc = "preparing" /\ keep # None /\ keep' = None /\ Current \in there
      /\ segments' = Tail(segments) /\ segments # <<>>
      /\ UNCHANGED <<rows, there, content, writing, request, pc, stamp, end>>
  BY DEF Compare, diskVars, Queried
<1>2. SUFFICES ASSUME Serving'
               PROVE  Queue'
  BY <1>1 DEF Queue, Early
<1>3. Serving
  BY <1>1, <1>2 DEF Serving
<1>4. /\ Current \in Ids /\ Head(segments) = segments[1]
      /\ DOMAIN segments = 1 .. Len(segments) /\ Len(segments) \in Nat \ {0}
      /\ DOMAIN Tail(segments) = 1 .. Len(segments) - 1
      /\ \A i \in DOMAIN Tail(segments) :
           i + 1 \in DOMAIN segments /\ Tail(segments)[i] = segments[i + 1]
  BY <1>1, CurrentIs
<1>5. \A i : Holds(i)' = Holds(i)
  BY <1>1 DEF Holds, Secs
<1>6. \A r : Wanted(r)' <=> Wanted(r)
  BY <1>1, <1>5 DEF Wanted
<1>7. PICK f : f = content[Current]
  OBVIOUS
<1>8. /\ f \in Files /\ FileSize(f) \in Nat /\ keep \in Nat /\ keep <= FileSize(f)
      /\ Holds(Current) <= Seconds(f, keep)
      /\ Holds(Current) \in Nat
  <2>1. f \in Files /\ keep \in Nat
    BY <1>1, <1>4, <1>7 DEF IInv, Disk, Inputs
  <2>2. keep <= FileSize(f) /\ Holds(Current) <= Seconds(f, keep)
    BY <1>1, <1>3, <1>7 DEF Queue
  <2> QED
    BY <1>4, <2>1, <2>2, Pairing DEF Written
<1>9. ASSUME Input = {}
      PROVE  Holds(Current) = 0
  <2>1. keep = 0
    BY <1>9 DEF Input
  <2>2. {i \in PairEnds(f) : i <= 0} = {}
    BY DEF PairEnds
  <2>3. Seconds(f, 0) = 0
    BY <2>2, FS_EmptySet DEF Seconds
  <2> QED
    BY <1>8, <2>1, <2>3
<1>10. ASSUME NEW x \in Input
       PROVE  x.row = segments[1] /\ PartHolds(x)'
  <2>1. x.row = segments[1]
    BY <1>4, <1>8, InputRow DEF IInv
  <2>2. ASSUME x.copy
        PROVE  /\ Seconds(x.part, FileSize(x.part)) \in Nat
               /\ Holds(x.row.id) <= Seconds(x.part, FileSize(x.part))
               /\ Seconds(x.part, FileSize(x.part)) <= Layout[x.row.id].length
    <3>1. /\ x.row.id = Current /\ keep # FileSize(f)
          /\ x.part = [boxes |-> SubSeq(f.boxes, 1, keep), cut |-> FALSE]
      BY <1>7, <2>2, InputOf
    <3>2. PICK g : g = x.part
      OBVIOUS
    <3>3. keep < FileSize(f)
      BY <1>8, <3>1
    <3>4. /\ Seconds(f, keep) <= Seconds(g, FileSize(g))
          /\ Seconds(g, FileSize(g)) <= Seconds(f, FileSize(f))
          /\ Seconds(g, FileSize(g)) \in Nat
      BY <1>8, <3>1, <3>2, <3>3, CopyHasSeconds
    <3>5. Seconds(f, keep) \in Nat
      BY <1>8, MoreSeconds
    <3>6. Seconds(f, FileSize(f)) \in Nat /\ Seconds(f, FileSize(f)) <= Layout[Current].length
      BY <1>4, <1>7 DEF Written, Secs
    <3>7. Layout[Current].length \in Nat
      BY <1>4, LayoutOf
    <3>8. Holds(Current) <= Seconds(g, FileSize(g))
      BY <1>8, <3>4, <3>5
    <3>9. Seconds(g, FileSize(g)) <= Layout[Current].length
      BY <3>4, <3>6, <3>7
    <3> QED
      BY <3>1, <3>2, <3>4, <3>8, <3>9
  <2> QED
    BY <1>5, <2>1, <2>2 DEF PartHolds
<1>11. /\ \A j \in DOMAIN prepared : PartHolds(prepared[j])
       /\ \A j \in DOMAIN prepared, k \in DOMAIN segments : Ahead(prepared[j].row, segments[k])
       /\ \A j, k \in DOMAIN prepared : j < k => Ahead(prepared[j].row, prepared[k].row)
       /\ InLine(segments)
  BY <1>3 DEF Queue
<1>12. InLine(segments')
  <2>1. \A j, k \in DOMAIN segments' : j < k => j + 1 < k + 1
    BY <1>1, <1>4
  <2> QED
    BY <1>1, <1>4, <1>11, <2>1 DEF InLine
<1>13. ASSUME NEW r \in rows', Wanted(r)'
       PROVE  \/ \E k \in DOMAIN segments' : segments'[k] = r
              \/ r = segments[1] /\ Input # {}
              \/ \E k \in DOMAIN prepared : prepared[k].row = r
  <2>1. r \in rows /\ Wanted(r)
    BY <1>1, <1>6, <1>13
  <2>2. ASSUME NEW k \in DOMAIN segments, segments[k] = r, r # segments[1]
        PROVE  \E i \in DOMAIN segments' : segments'[i] = r
    <3>1. k # 1 
      BY <2>2
    <3>2. k - 1 \in DOMAIN Tail(segments) /\ (k - 1) + 1 = k
      BY <1>4, <3>1
    <3> QED
      BY <1>1, <1>4, <2>2, <3>2
  <2>3. r = segments[1] => Input # {}
    <3>1. r = segments[1] => Holds(Current) > 0
      BY <1>4, <2>1 DEF Wanted, Current
    <3> QED
      BY <1>9, <3>1
  <2> QED
    BY <1>3, <2>1, <2>2, <2>3 DEF Queue
<1>14. CASE Input = {} /\ prepared' = prepared
  <2>1. \A j \in DOMAIN prepared', k \in DOMAIN segments' : Ahead(prepared'[j].row, segments'[k])
    BY <1>1, <1>4, <1>11, <1>14
  <2>2. request'.stamp => \E s : /\ \A k \in DOMAIN segments' : segments'[k].stream = s
                                 /\ \A k \in DOMAIN prepared' : prepared'[k].row.stream = s
    <3>1. SUFFICES ASSUME request.stamp
                   PROVE  \E s : /\ \A k \in DOMAIN segments' : segments'[k].stream = s
                                 /\ \A k \in DOMAIN prepared' : prepared'[k].row.stream = s
      BY <1>1
    <3>2. PICK s : /\ \A k \in DOMAIN segments : segments[k].stream = s
                   /\ \A k \in DOMAIN prepared : prepared[k].row.stream = s
      BY <1>3, <3>1 DEF Queue
    <3>3. \A k \in DOMAIN segments' : segments'[k].stream = s
      BY <1>1, <1>4, <3>2
    <3> QED
      BY <1>14, <3>2, <3>3
  <2>3. \A r \in rows' : Wanted(r)' => \/ \E k \in DOMAIN segments' : segments'[k] = r
                                       \/ \E k \in DOMAIN prepared' : prepared'[k].row = r
    BY <1>13, <1>14
  <2>4. \A j \in DOMAIN prepared' : PartHolds(prepared[j])'
    BY <1>5, <1>11, <1>14 DEF PartHolds
  <2> QED
    BY <1>1, <1>3, <1>11, <1>12, <1>14, <2>1, <2>2, <2>3, <2>4 DEF Queue, Early
<1>15. ASSUME NEW x \in Input, Len(prepared') = Len(prepared) + 1,
              prepared' \in Seq({prepared'[i] : i \in DOMAIN prepared'}),
              \A i \in DOMAIN prepared' :
                 \/ i \in DOMAIN prepared /\ prepared'[i] = prepared[i]
                 \/ i = Len(prepared) + 1 /\ prepared'[i] = x
       PROVE  Queue'
  <2>1. PICK n \in Nat : n = Len(prepared) /\ DOMAIN prepared = 1 .. n
    BY DEF IInv, Inputs
  <2>2. DOMAIN prepared' = 1 .. n + 1
    BY <1>15, <2>1
  <2>3. /\ \A i \in 1 .. n : prepared'[i] = prepared[i]
        /\ prepared'[n + 1] = x /\ prepared'[n + 1].row = segments[1]
    <3>1. \A i \in 1 .. n : i # n + 1 /\ i \in 1 .. n + 1
      BY <2>1
    <3>2. n + 1 \notin 1 .. n /\ n + 1 \in 1 .. n + 1
      BY <2>1
    <3> QED
      BY <1>10, <1>15, <2>1, <2>2, <3>1, <3>2
  <2>4. \A i \in 1 .. n + 1 : i \in 1 .. n \/ i = n + 1
    BY <2>1
  <2>5. \A k \in DOMAIN segments' : k + 1 \in DOMAIN segments /\ segments'[k] = segments[k + 1]
                                    /\ 1 \in DOMAIN segments /\ 1 < k + 1
    BY <1>1, <1>4
  <2>6. \A j \in DOMAIN prepared', k \in DOMAIN segments' : Ahead(prepared'[j].row, segments'[k])
    <3> SUFFICES ASSUME NEW j \in 1 .. n + 1, NEW k \in DOMAIN segments'
                 PROVE  Ahead(prepared'[j].row, segments'[k])
      BY <2>2
    <3>1. CASE j \in 1 .. n
      BY <1>11, <2>1, <2>3, <2>5, <3>1
    <3>2. CASE j = n + 1
      <4>1. Ahead(segments[1], segments[k + 1])
        BY <1>11, <2>5 DEF InLine
      <4> QED
        BY <2>3, <2>5, <3>2, <4>1
    <3> QED
      BY <2>4, <3>1, <3>2
  <2>7. \A j, k \in DOMAIN prepared' : j < k => Ahead(prepared'[j].row, prepared'[k].row)
    <3> SUFFICES ASSUME NEW j \in 1 .. n + 1, NEW k \in 1 .. n + 1, j < k
                 PROVE  Ahead(prepared'[j].row, prepared'[k].row)
      BY <2>2
    <3>1. j \in 1 .. n /\ 1 \in DOMAIN segments
      BY <1>4, <2>1
    <3>2. CASE k \in 1 .. n
      BY <1>11, <2>1, <2>3, <3>1, <3>2
    <3>3. CASE k = n + 1
      BY <1>11, <2>1, <2>3, <3>1, <3>3
    <3> QED
      BY <2>4, <3>2, <3>3
  <2>8. request'.stamp => \E s : /\ \A k \in DOMAIN segments' : segments'[k].stream = s
                                 /\ \A k \in DOMAIN prepared' : prepared'[k].row.stream = s
    <3>1. SUFFICES ASSUME request.stamp
                   PROVE  \E s : /\ \A k \in DOMAIN segments' : segments'[k].stream = s
                                 /\ \A k \in DOMAIN prepared' : prepared'[k].row.stream = s
      BY <1>1
    <3>2. PICK s : /\ \A k \in DOMAIN segments : segments[k].stream = s
                   /\ \A k \in DOMAIN prepared : prepared[k].row.stream = s
      BY <1>3, <3>1 DEF Queue
    <3>3. 1 \in DOMAIN segments
      BY <1>4
    <3>4. \A k \in DOMAIN prepared' : prepared'[k].row.stream = s
      BY <2>1, <2>2, <2>3, <2>4, <3>2, <3>3
    <3> QED
      BY <2>5, <3>2, <3>4
  <2>9. ASSUME NEW r \in rows', Wanted(r)'
        PROVE  \/ \E k \in DOMAIN segments' : segments'[k] = r
               \/ \E k \in DOMAIN prepared' : prepared'[k].row = r
    <3>1. n + 1 \in DOMAIN prepared'
      BY <2>1, <2>2
    <3>2. \A k \in DOMAIN prepared : k \in DOMAIN prepared' /\ prepared'[k] = prepared[k]
      BY <2>1, <2>2, <2>3
    <3> QED
      BY <1>13, <2>3, <2>9, <3>1, <3>2
  <2>10. \A j \in DOMAIN prepared' : PartHolds(prepared[j])'
    <3> SUFFICES ASSUME NEW j \in 1 .. n + 1
                 PROVE  PartHolds(prepared[j])'
      BY <2>2
    <3>1. CASE j \in 1 .. n
      <4>1. PartHolds(prepared[j]) /\ prepared'[j] = prepared[j]
        BY <1>3, <2>1, <2>3, <3>1 DEF Queue
      <4> QED
        BY <1>5, <4>1 DEF PartHolds
    <3>2. CASE j = n + 1
      <4>1. prepared'[j] = x /\ PartHolds(x)'
        BY <1>10, <2>3, <3>2
      <4> QED
        BY <1>5, <4>1 DEF PartHolds
    <3> QED
      BY <2>4, <3>1, <3>2
  <2> QED
    BY <1>1, <1>3, <1>12, <2>6, <2>7, <2>8, <2>9, <2>10 DEF Queue, Early
<1> QED
  BY <1>14, <1>15, Compared DEF IInv
LEMMA QueueKept ==
  ASSUME ReadsBack, Apart, IInv, Queried, Written, Stages, Queue, [Next]_vars
  PROVE  Queue'
<1> USE DEF Early, Before, Ending
<1>1. CASE Query
  BY <1>1, QueryQueues
<1>2. CASE Look
  BY <1>2, LookQueues
<1>3. CASE Compare
  BY <1>3, CompareQueues
<1>4. CASE OrphanPrepares
  <2>1. UNCHANGED <<end, pc, prepared>> /\ orphan = "preparing"
    BY <1>4 DEF OrphanPrepares
  <2>2. end = "left"
    BY <2>1 DEF IInv, Scratch, Stages
  <2> QED
    BY <2>1, <2>2 DEF Queue, Serving
<1>5. CASE MakeScratch
  <2>1. /\ pc = "making" /\ pc' = "preparing" /\ UNCHANGED <<segments, prepared, stamp, keep, request>>
    BY <1>5 DEF MakeScratch, inputVars
  <2>2. keep' = None /\ ~Query
    BY <2>1 DEF IInv, Inputs, Query
  <2> QED
    BY <2>1, <2>2, SameQueue
<1>6. CASE \/ Prepared \/ Probe \/ WriteList \/ Spawn \/ EndOfFile \/ Stalled \/ Waited
           \/ Clean \/ RemoveScratch \/ Finalised
  <2>1. UNCHANGED <<segments, prepared, request>> /\ (stamp' => stamp)
    BY <1>6 DEF Prepared, Probe, WriteList, Spawn, EndOfFile, Stalled, Waited, Clean,
       RemoveScratch, Finalised, inputVars
  <2>2. pc' \notin Early \cup {"preparing"} /\ pc # "querying"
    BY <1>6 DEF Prepared, Probe, WriteList, Spawn, EndOfFile, Stalled, Waited, Clean,
       RemoveScratch, Finalised
  <2> QED
    BY <2>1, <2>2, SameQueue DEF Query
<1>7. CASE CompareFails \/ ProbeFails \/ SpawnFails
  <2>1. /\ UNCHANGED <<segments, prepared, request, stamp>> /\ pc' = "cleaning"
        /\ pc # "querying"
    BY <1>7 DEF CompareFails, ProbeFails, SpawnFails, Fail, inputVars
  <2> QED
    BY <2>1, SameQueue DEF Query
<1>8. CASE Chunk \/ Breaks \/ Taken
  <2>1. UNCHANGED <<segments, prepared, request, stamp, keep>>
    BY <1>8 DEF Chunk, Breaks, Taken, inputVars
  <2>2. pc \notin Early \cup {"preparing"} /\ pc' \notin Early \cup {"preparing"}
    BY <1>8 DEF Chunk, Breaks, Taken
  <2> QED
    BY <2>1, <2>2, SameQueue DEF Query
<1>9. CASE Leaves /\ ~Query
  <2>1. UNCHANGED <<segments, prepared, request, stamp>> /\ pc' = After
    BY <1>9 DEF Leaves, inputVars
  <2>2. pc \in Early \cup {"preparing", "probing", "listing", "spawning", "reading", "sending"}
    BY <1>9 DEF Leaves, IInv, Scratch, Joining
  <2>3. pc' \in {"over", "cleaning", "waiting", "dropped"}
    BY <1>9, <2>1, <2>2 DEF Leaves, After
  <2> QED
    BY <1>9, <2>1, <2>3, SameQueue
<1>10. CASE OrphanMakes \/ OrphanLists \/ Writes \/ UNCHANGED vars
  <2>1. UNCHANGED <<segments, prepared, request, stamp, keep, pc>>
    BY <1>10 DEF OrphanMakes, OrphanLists, Writes, vars, inputVars
  <2> QED
    BY <1>1, <2>1, SameQueue
<1>11. ASSUME NEW i \in there, Deleted(i)
       PROVE  Queue'
  <2>1. UNCHANGED <<segments, prepared, request, stamp, keep, pc>>
    BY <1>11 DEF Deleted, inputVars
  <2> QED
    BY <1>1, <2>1, SameQueue
<1>12. ASSUME NEW r \in Requests, Ask(r)
       PROVE  Queue'
  <2>1. UNCHANGED <<segments, prepared, stamp, keep>> /\ pc = "idle" /\ pc' = "querying"
    BY <1>12 DEF Ask, inputVars
  <2> QED
    BY <2>1, SameQueue DEF Query
<1> QED
  BY <1>1, <1>2, <1>3, <1>4, <1>5, <1>6, <1>7, <1>8, <1>9, <1>10, <1>11, <1>12 DEF Next, Step

(* Every input holds what the index may know of, and no more than the      *)
(* segment.                                                                *)
LEMMA InputHolds ==
  ASSUME IInv, Written, Queue, Serving, NEW j \in DOMAIN prepared
  PROVE  LET n == Seconds(FileOf(j), FileSize(FileOf(j))) IN
         /\ n \in Nat /\ Holds(prepared[j].row.id) <= n /\ n <= Layout[prepared[j].row.id].length
         /\ Holds(prepared[j].row.id) \in Nat /\ prepared[j].row.id \in Ids
<1>1. PICK x : x = prepared[j]
  OBVIOUS
<1>2. x.row.id \in Ids /\ PartHolds(x)
  BY <1>1 DEF IInv, Inputs, Queue
<1>3. /\ Secs(x.row.id) \in Nat /\ Secs(x.row.id) <= Layout[x.row.id].length
      /\ Holds(x.row.id) \in Nat /\ Holds(x.row.id) <= Secs(x.row.id)
  BY <1>2 DEF Written
<1>4. FileOf(j) = IF x.copy THEN x.part ELSE content[x.row.id]
  BY <1>1 DEF FileOf
<1>5. CASE x.copy
  BY <1>1, <1>2, <1>3, <1>4, <1>5 DEF PartHolds
<1>6. CASE ~x.copy
  BY <1>1, <1>2, <1>3, <1>4, <1>6 DEF Secs
<1> QED
  BY <1>5, <1>6

-----------------------------------------------------------------------------
(* The cut and the sums it is reckoned from                                *)

LEMMA SumsGrow ==
  ASSUME NEW n \in Nat, NEW s, NEW d, s[0] = 0,
         \A k \in 1 .. n : d[k] \in Nat /\ s[k] = s[k - 1] + d[k]
  PROVE  /\ \A k \in 0 .. n : s[k] \in Nat
         /\ \A j, k \in 0 .. n : j <= k => s[j] <= s[k]
<1> DEFINE G == {k \in 0 .. n : s[k] \in Nat /\ \A j \in 0 .. k : s[j] <= s[k]}
<1>1. 0 \in G
  OBVIOUS
<1>2. ASSUME NEW k \in 1 .. n, k - 1 \in G
      PROVE  k \in G
  <2>1. /\ s[k - 1] \in Nat /\ \A j \in 0 .. k - 1 : s[j] <= s[k - 1]
        /\ d[k] \in Nat /\ s[k] = s[k - 1] + d[k]
    BY <1>2
  <2>2. s[k] \in Nat /\ s[k - 1] <= s[k]
    BY <2>1
  <2> DEFINE H == {i \in 0 .. n : i <= k - 1 => s[i] \in Nat}
  <2>3. 0 .. n \subseteq H
    <3>1. 0 \in H
      OBVIOUS
    <3>2. ASSUME NEW i \in 1 .. n, i - 1 \in H
          PROVE  i \in H
      <4>1. i <= k - 1 => s[i - 1] \in Nat
        BY <3>2
      <4>2. s[i] = s[i - 1] + d[i] /\ d[i] \in Nat
        OBVIOUS
      <4> QED
        BY <4>1, <4>2
    <3> HIDE DEF H
    <3> QED
      BY <3>1, <3>2, EveryIndex
  <2>4. ASSUME NEW j \in 0 .. k
        PROVE  s[j] <= s[k]
    <3>1. CASE j = k
      BY <2>2, <3>1
    <3>2. CASE j # k
      <4>1. j \in 0 .. k - 1 /\ j \in 0 .. n
        BY <3>2
      <4>2. s[j] <= s[k - 1] /\ s[j] \in Nat
        BY <2>1, <2>3, <4>1
      <4> QED
        BY <2>1, <2>2, <4>2
    <3> QED
      BY <3>1, <3>2
  <2> QED
    BY <2>2, <2>4
<1>3. 0 .. n \subseteq G
  <2> HIDE DEF G
  <2> QED
    BY <1>1, <1>2, EveryIndex
<1> QED
  BY <1>3

Rows == [i \in DOMAIN prepared |-> prepared[i].row]

(* How long the first inputs are together, going by their rows             *)
Upto ==
  CHOOSE s : /\ TotalDuration(Rows) = s[Len(Rows)] /\ s[0] = 0
             /\ \A k \in 1 .. Len(Rows) : s[k] = s[k - 1] + Duration(Rows[k])

LEMMA RowsAre ==
  ASSUME ReadsBack, IInv, Queried, pc # "idle"
  PROVE  /\ Len(prepared) \in Nat /\ DOMAIN prepared = 1 .. Len(prepared)
         /\ Len(Rows) = Len(prepared)
         /\ request.from \in Nat /\ request.to \in Nat /\ request.from < request.to
         /\ \A i \in 1 .. Len(prepared) :
              LET r == prepared[i].row IN
              /\ Rows[i] = r /\ r \in Scans
              /\ r.start \in Nat /\ r.end \in Nat /\ r.start <= r.end
              /\ Duration(r) = r.end - r.start /\ Duration(r) \in Nat
              /\ r.start < request.to /\ request.from < r.end
              /\ r.id \in Ids /\ r.start = Layout[r.id].began
              /\ Layout[r.id].length \in Nat \ {0}
              /\ r.end <= r.start + Layout[r.id].length
              /\ r.id # writing => r.end = r.start + Layout[r.id].length
<1>1. Len(prepared) \in Nat /\ DOMAIN prepared = 1 .. Len(prepared)
  BY DEF IInv, Inputs
<1>2. Len(Rows) = Len(prepared) /\ \A i \in 1 .. Len(prepared) : Rows[i] = prepared[i].row
  BY <1>1 DEF Rows
<1>3. request.from \in Nat /\ request.to \in Nat /\ request.from < request.to
  BY DEF Queried
<1>4. ASSUME NEW i \in 1 .. Len(prepared), NEW r, r = prepared[i].row
      PROVE  /\ r \in Scans /\ r.start \in Nat /\ r.end \in Nat /\ r.start <= r.end
             /\ Duration(r) = r.end - r.start /\ Duration(r) \in Nat
             /\ r.start < request.to /\ request.from < r.end
             /\ r.id \in Ids /\ r.start = Layout[r.id].began
             /\ Layout[r.id].length \in Nat \ {0}
             /\ r.end <= r.start + Layout[r.id].length
             /\ r.id # writing => r.end = r.start + Layout[r.id].length
  <2>1. r \in Overlapping
    BY <1>1, <1>4 DEF Queried
  <2>2. r \in Scans /\ r.start < request.to /\ r.end > request.from
    BY <2>1 DEF Overlapping
  <2>3. /\ r.id \in Ids /\ r.start = Layout[r.id].began /\ r.start \in Nat /\ r.end \in Nat
        /\ Layout[r.id].length \in Nat \ {0}
        /\ r.end = r.start + (IF r.id = writing THEN Layout[r.id].length - 1
                                                ELSE Layout[r.id].length)
    BY <2>2, ScanFacts
  <2>4. r.start <= r.end
    BY <2>2, ScansAreRows
  <2>5. Duration(r) = r.end - r.start
    BY DEF Duration
  <2> QED
    BY <1>3, <2>2, <2>3, <2>4, <2>5
<1> QED
  BY <1>1, <1>2, <1>3, <1>4

LEMMA UptoIs ==
  ASSUME ReadsBack, IInv, Queried, pc # "idle"
  PROVE  /\ TotalDuration(Rows) = Upto[Len(prepared)] /\ Upto[0] = 0
         /\ \A k \in 1 .. Len(prepared) :
              Upto[k] = Upto[k - 1] + (prepared[k].row.end - prepared[k].row.start)
         /\ \A k \in 0 .. Len(prepared) : Upto[k] \in Nat
         /\ \A j, k \in 0 .. Len(prepared) : j <= k => Upto[j] <= Upto[k]
<1>1. PICK n \in Nat : n = Len(prepared)
  BY RowsAre
<1>2. /\ Len(Rows) = n
      /\ \A k \in 1 .. n : /\ Rows[k] = prepared[k].row /\ Duration(Rows[k]) \in Nat
                           /\ Duration(Rows[k]) = prepared[k].row.end - prepared[k].row.start
  BY <1>1, RowsAre
<1>3. \E s : /\ TotalDuration(Rows) = s[Len(Rows)] /\ s[0] = 0
             /\ \A k \in 1 .. Len(Rows) : s[k] = s[k - 1] + Duration(Rows[k])
  BY <1>2, TotalIs
<1>4. PICK s : s = Upto
  OBVIOUS
<1>5. /\ TotalDuration(Rows) = s[n] /\ s[0] = 0
      /\ \A k \in 1 .. n : s[k] = s[k - 1] + Duration(Rows[k])
  BY <1>2, <1>3, <1>4 DEF Upto
<1>6. PICK d : d = [k \in 1 .. n |-> Duration(Rows[k])]
  OBVIOUS
<1>7. \A k \in 1 .. n : d[k] \in Nat /\ s[k] = s[k - 1] + d[k]
  BY <1>2, <1>5, <1>6
<1>8. /\ \A k \in 0 .. n : s[k] \in Nat
      /\ \A j, k \in 0 .. n : j <= k => s[j] <= s[k]
  BY <1>5, <1>7, SumsGrow
<1>9. \A k \in 1 .. n : s[k] = s[k - 1] + (prepared[k].row.end - prepared[k].row.start)
  BY <1>2, <1>5
<1> QED
  BY <1>1, <1>4, <1>5, <1>8, <1>9

LEMMA BoundsAre ==
  ASSUME ReadsBack, IInv, Queried, pc # "idle", prepared # <<>>
  PROVE  LET first == prepared[1].row
             last  == prepared[Len(prepared)].row
             lead  == IF 0 >= request.from - first.start THEN 0 ELSE request.from - first.start
             tail  == IF 0 >= last.end - request.to THEN 0 ELSE last.end - request.to
             left  == Upto[Len(prepared)] - lead - tail
         IN /\ Len(prepared) \in Nat \ {0}
            /\ Bounds.lead = lead /\ Bounds.duration = IF 0 >= left THEN 0 ELSE left
<1>1. PICK n : n = Len(prepared)
  OBVIOUS
<1>2. n \in Nat \ {0} /\ 1 \in 1 .. n /\ n \in 1 .. n /\ n \in 0 .. n
  <2>1. n \in Nat
    BY <1>1, RowsAre
  <2>2. n # 0
    BY <1>1 DEF IInv, Inputs
  <2> QED
    BY <2>1, <2>2
<1>3. PICK a, b : a = prepared[1].row /\ b = prepared[n].row
  OBVIOUS
<1>4. /\ Rows[1] = a /\ Last(Rows) = b
      /\ a.start \in Int /\ b.end \in Int /\ request.from \in Int /\ request.to \in Int
  BY <1>1, <1>2, <1>3, RowsAre DEF Last
<1>5. PICK total \in Int : total = TotalDuration(Rows) /\ total = Upto[n]
  <2>1. TotalDuration(Rows) = Upto[n] /\ Upto[n] \in Nat
    BY <1>1, <1>2, UptoIs
  <2> QED
    BY <2>1
<1>6. PICK x \in Int : x = request.from - a.start
  BY <1>4
<1>7. PICK y \in Int : y = b.end - request.to
  BY <1>4
<1>8. PICK lead \in Int : lead = Max({0, x}) /\ lead = IF 0 >= x THEN 0 ELSE x
  BY <1>6, Larger
<1>9. PICK tail \in Int : tail = Max({0, y}) /\ tail = IF 0 >= y THEN 0 ELSE y
  BY <1>7, Larger
<1>10. PICK z \in Int : z = total - lead - tail
  BY <1>5, <1>8, <1>9
<1>11. PICK d \in Int : d = Max({0, z}) /\ d = IF 0 >= z THEN 0 ELSE z
  BY <1>10, Larger
<1>12. PICK c : c = clip_bounds(Rows, request.from, request.to)
  OBVIOUS
<1>13. c = [lead |-> lead, duration |-> d]
  BY <1>4, <1>5, <1>6, <1>7, <1>8, <1>9, <1>10, <1>11, <1>12 DEF clip_bounds
<1>14. Bounds = c
  BY <1>12 DEF Bounds, Rows
<1> QED
  BY <1>1, <1>2, <1>3, <1>5, <1>6, <1>7, <1>8, <1>9, <1>10, <1>11, <1>13, <1>14

-----------------------------------------------------------------------------
(* What has been sent                                                      *)

Row(j) == prepared[j].row
Length(j) == Layout[Row(j).id].length
Held(j) == Holds(Row(j).id)

(* The recorder has closed every segment, and they are intact.             *)
AllFull == \A j \in DOMAIN prepared : Row(j).id # writing /\ Held(j) = Length(j)

OneStream == \A j, k \in DOMAIN prepared : Row(j).stream = Row(k).stream

(* Where an input of n seconds begins: the first where the cut is, a raw   *)
(* one at the last keyframe that is not behind it.                         *)
Begun(i, n, from) ==
  LET cut == i = 1 /\ clip.duration > 0
  IN /\ ~cut => from = 0
     /\ cut => from <= clip.lead
     /\ cut /\ stamp => from = clip.lead
     /\ cut => \A q \in Layout[Row(1).id].keyframes : q <= clip.lead /\ q < n => q <= from

(* What the next input contributes, number by number: n seconds of its     *)
(* file, from one on, as many as the cut and what is left of it allow.     *)
Fitting(i, n, from, m) ==
  LET cut    == clip.duration > 0
      till   == Outpoint(i)
      rest   == IF 0 >= till - from THEN 0 ELSE till - from
      budget == IF 0 >= clip.duration - Len(out) THEN 0 ELSE clip.duration - Len(out)
  IN /\ Held(i) <= n /\ n <= Length(i)
     /\ Begun(i, n, from)
     /\ till \in Int
     /\ till = IF ~stamp /\ i = Len(prepared) /\ cut /\ request.to < Row(i).end
               THEN IF n <= request.to - Row(i).start THEN n ELSE request.to - Row(i).start
               ELSE n
     /\ m = IF stamp /\ cut THEN IF rest <= budget THEN rest ELSE budget ELSE rest

LEMMA ContributionIs ==
  ASSUME ReadsBack, IInv, Queried, Written, Stages, Queue, \E S : out \in Seq(S),
         pc = "reading", NEW i \in 1 .. Len(prepared)
  PROVE  \E n, from, m \in Nat :
           /\ Fitting(i, n, from, m)
           /\ Len(Contribution(i)) = m /\ \E T : Contribution(i) \in Seq(T)
           /\ \A k \in 1 .. m : /\ Contribution(i)[k].stream = Row(i).stream
                                /\ Contribution(i)[k].at = Row(i).start + from + k - 1
<1>1. /\ Len(prepared) \in Nat /\ DOMAIN prepared = 1 .. Len(prepared) /\ pc # "idle"
      /\ prepared # <<>> /\ request.to \in Int
      /\ Row(i).start \in Int /\ Row(i).start = Layout[Row(i).id].began
  BY RowsAre DEF Row
<1>2. Serving
  BY DEF Serving, Stages, Ending
<1>3. clip = Bounds
  BY DEF Stages, Chosen, Joining
<1>4. clip.lead \in Nat /\ clip.duration \in Nat
  <2>0. 1 \in 1 .. Len(prepared) /\ Len(prepared) \in 1 .. Len(prepared)
    BY <1>1
  <2>1. PICK a \in Int : a = request.from - Row(1).start
    <3>1. request.from \in Int /\ Row(1).start \in Int
      BY RowsAre, <1>1, <2>0 DEF Row
    <3> QED
      BY <3>1
  <2>2. PICK b \in Int : b = Row(Len(prepared)).end - request.to
    BY RowsAre, <1>1 DEF Row
  <2>3. PICK c \in Int : c = Upto[Len(prepared)]
    BY UptoIs, <1>1
  <2>4. /\ clip.lead = IF 0 >= a THEN 0 ELSE a
        /\ clip.duration = LET left == c - (IF 0 >= a THEN 0 ELSE a) - (IF 0 >= b THEN 0 ELSE b)
                           IN IF 0 >= left THEN 0 ELSE left
    BY <1>1, <1>3, <2>1, <2>2, <2>3, BoundsAre DEF Row
  <2> QED
    BY <2>4
<1>5. PICK n \in Nat : /\ n = Seconds(FileOf(i), FileSize(FileOf(i)))
                       /\ Held(i) <= n /\ n <= Length(i)
  BY <1>1, <1>2, InputHolds DEF Held, Length, Row
<1>6. PICK from \in Nat : from = Inpoint(i) /\ Begun(i, n, from)
  <2>1. CASE clip.duration > 0
    <3>1. Row(i).id \in Ids
      BY <1>1, <1>2, InputHolds DEF Row
    <3>2. /\ Inpoint(i) \in Int
          /\ ~(i = 1 /\ clip.duration > 0) => Inpoint(i) = 0
          /\ stamp => Inpoint(i) = IF i = 1 THEN clip.lead ELSE 0
          /\ 0 <= Inpoint(i) /\ Inpoint(i) <= clip.lead
          /\ i = 1 => \A q \in Layout[Row(i).id].keyframes :
                        q <= clip.lead /\ q < n => q <= Inpoint(i)
      BY <1>4, <1>5, <2>1, <3>1, InpointIs DEF Row
    <3>3. Inpoint(i) \in Nat
      BY <3>2
    <3>4. Begun(i, n, Inpoint(i))
      BY <2>1, <3>2 DEF Begun
    <3> QED
      BY <3>3, <3>4
  <2>2. CASE ~(clip.duration > 0)
    <3>1. Inpoint(i) = 0
      BY <2>2 DEF Inpoint
    <3>2. Begun(i, n, 0)
      BY <2>2 DEF Begun
    <3> QED
      BY <3>1, <3>2
  <2> QED
    BY <2>1, <2>2
<1>7. PICK t \in Int : t = request.to - Row(i).start
  BY <1>1
<1>8. /\ Outpoint(i) \in Int
      /\ Outpoint(i) = IF ~stamp /\ i = Len(prepared) /\ clip.duration > 0 /\ request.to < Row(i).end
                       THEN IF n <= t THEN n ELSE t ELSE n
  <2>0. n \in Int
    OBVIOUS
  <2>1. Min({n, t}) = IF n <= t THEN n ELSE t
    BY <2>0, Larger, Zenon
  <2>2. Outpoint(i) = IF ~stamp /\ i = Len(prepared) /\ clip.duration > 0 /\ request.to < Row(i).end
                      THEN Min({n, t}) ELSE n
    BY <1>5, <1>7 DEF Outpoint, Row
  <2> QED
    BY <2>1, <2>2
<1>9. PICK rest \in Nat : /\ rest = Max({0, Outpoint(i) - Inpoint(i)})
                          /\ rest = IF 0 >= Outpoint(i) - from THEN 0 ELSE Outpoint(i) - from
  <2>1. PICK d \in Int : d = Outpoint(i) - Inpoint(i)
    BY <1>6, <1>8
  <2>2. Max({0, d}) = IF 0 >= d THEN 0 ELSE d
    BY Larger
  <2>3. PICK rest \in Nat : rest = IF 0 >= d THEN 0 ELSE d
    OBVIOUS
  <2>4. rest = Max({0, Outpoint(i) - Inpoint(i)})
    BY <2>1, <2>2, <2>3
  <2>5. rest = IF 0 >= Outpoint(i) - from THEN 0 ELSE Outpoint(i) - from
    BY <1>6, <2>1, <2>3
  <2> QED
    BY <2>4, <2>5
<1>10. PICK left \in Nat : /\ left = Max({0, clip.duration - Len(out)})
                           /\ left = IF 0 >= clip.duration - Len(out) THEN 0
                                     ELSE clip.duration - Len(out)
  <2>1. Len(out) \in Nat
    OBVIOUS
  <2>2. PICK d \in Int : d = clip.duration - Len(out)
    BY <1>4, <2>1
  <2>3. Max({0, d}) = IF 0 >= d THEN 0 ELSE d
    BY Larger
  <2> QED
    BY <2>2, <2>3
<1>11. PICK limit \in Nat : limit = IF stamp /\ clip.duration > 0 THEN left ELSE rest
  OBVIOUS
<1>12. PICK m \in Nat : m = Min({rest, limit}) /\ m = IF rest <= limit THEN rest ELSE limit
  <2>1. rest \in Int /\ limit \in Int
    OBVIOUS
  <2>2. Min({rest, limit}) = IF rest <= limit THEN rest ELSE limit
    BY <2>1, Larger, Zenon
  <2> QED
    BY <2>2
<1> DEFINE second(k) ==
             [stream |-> Row(i).stream, at |-> Layout[Row(i).id].began + Inpoint(i) + k - 1,
              clock |-> IF stamp THEN Epoch(i) + k - 1 ELSE None]
<1>13. Contribution(i) = [k \in 1 .. m |-> second(k)]
  BY <1>9, <1>10, <1>11, <1>12 DEF Contribution, Row
<1>14. Len(Contribution(i)) = m /\ Contribution(i) \in Seq({second(k) : k \in 1 .. m})
  <2> HIDE DEF second
  <2> QED
    BY <1>13
<1>15. ASSUME NEW k \in 1 .. m
       PROVE  /\ Contribution(i)[k].stream = Row(i).stream
              /\ Contribution(i)[k].at = Row(i).start + from + k - 1
  <2>1. second(k).stream = Row(i).stream /\ second(k).at = Layout[Row(i).id].began + Inpoint(i) + k - 1
    OBVIOUS
  <2> HIDE DEF second
  <2>2. Contribution(i)[k] = second(k)
    BY <1>13
  <2> QED
    BY <1>1, <1>6, <2>1, <2>2
<1>16. Fitting(i, n, from, m)
  BY <1>5, <1>6, <1>7, <1>8, <1>9, <1>10, <1>11, <1>12 DEF Fitting
<1> HIDE DEF second
<1>17. \E T : Contribution(i) \in Seq(T)
  BY <1>14
<1> QED
  BY <1>14, <1>15, <1>16, <1>17

(* Every second that is sent is one of an input that has been joined, each *)
(* later than those of its stream before it.                               *)
Placed ==
  \A k \in DOMAIN out : \E j \in 1 .. reached :
    /\ out[k].stream = Row(j).stream /\ out[k].at \in Int
    /\ Row(j).start <= out[k].at /\ out[k].at < Row(j).start + Length(j)

Ascending ==
  \A j, k \in DOMAIN out : j < k /\ out[j].stream = out[k].stream => out[j].at < out[k].at

(* What the range has of the inputs that have been joined has been sent.   *)
Owed(j, k) == Asked(Row(j).start + k) /\ Row(j).start + k < Row(j).end

Covered ==
  \A j \in 1 .. reached : \A k \in 0 .. Held(j) - 1 :
    Owed(j, k) => \E e \in DOMAIN out :
                    out[e].stream = Row(j).stream /\ out[e].at = Row(j).start + k

(* A clip that is bounded by its length has not used up what is kept for   *)
(* the inputs to come.                                                     *)
Spared ==
  stamp /\ clip.duration > 0 /\ 0 < reached /\ reached < Len(prepared) =>
    /\ Len(out) <= Upto[reached] - clip.lead
    /\ AllFull => Len(out) = Upto[reached] - clip.lead

(* What a second that is sent may be: one of the range, or one that a raw  *)
(* cut takes from the last keyframe on                                     *)
Within(t) == t < request.to /\ (t < request.from => ~stamp /\ LeadsIn(t))

(* Nothing else is sent of one stream that is intact; and every input      *)
(* shows.                                                                  *)
Trimmed == AllFull /\ OneStream => \A k \in DOMAIN out : Within(out[k].at)

Shown ==
  AllFull /\ ~stamp => \A j \in 1 .. reached : \E k \in DOMAIN out : out[k].stream = Row(j).stream

Sent == Placed /\ Ascending /\ Covered /\ Spared /\ Trimmed /\ Shown

(* The numbers the cut is reckoned from, where input i of N is the next    *)
Reckoned(i, N, lead, tail, left, kept, count) ==
  /\ N = Len(prepared) /\ i <= N /\ lead = clip.lead /\ count = Len(out) /\ count >= 0
  /\ lead = IF 0 >= request.from - Row(1).start THEN 0 ELSE request.from - Row(1).start
  /\ tail = IF 0 >= Row(N).end - request.to THEN 0 ELSE Row(N).end - request.to
  /\ left = kept + (Row(N).end - Row(N).start) - lead - tail
  /\ clip.duration = IF 0 >= left THEN 0 ELSE left
  /\ kept = Upto[N - 1] /\ Upto[i] \in Nat /\ Upto[i - 1] \in Nat
  /\ Upto[i] = Upto[i - 1] + (Row(i).end - Row(i).start)
  /\ i < N => Upto[i] <= kept
  /\ i = N => Upto[i - 1] = kept
  /\ 1 < N => Row(1).end - Row(1).start <= kept
  /\ i = 1 => Upto[i - 1] = 0 /\ count = 0
  /\ \A j \in {1, i, N} :
       /\ Row(j).start \in Nat /\ Row(j).end \in Nat /\ Row(j).start <= Row(j).end
       /\ Row(j).start < request.to /\ request.from < Row(j).end
       /\ Length(j) \in Nat \ {0}
       /\ Row(j).end <= Row(j).start + Length(j)
       /\ Row(j).id # writing => Row(j).end = Row(j).start + Length(j)
  /\ request.from \in Nat /\ request.to \in Nat /\ request.from < request.to

LEMMA Reckoning ==
  ASSUME ReadsBack, IInv, Queried, Stages, Placed, \E S : out \in Seq(S), pc = "reading",
         NEW i \in 1 .. Len(prepared), i = reached + 1
  PROVE  \E N \in Nat : \E lead, tail, left, kept, count \in Int :
           Reckoned(i, N, lead, tail, left, kept, count)
<1>1. PICK N \in Nat : N = Len(prepared)
  BY RowsAre
<1>2. pc # "idle" /\ prepared # <<>> /\ 1 \in 1 .. N /\ N \in 1 .. N /\ i \in 1 .. N
  BY <1>1
<1>3. clip = Bounds
  BY DEF Stages, Chosen, Joining
<1>4. \A j \in {1, i, N} :
        /\ Row(j).start \in Nat /\ Row(j).end \in Nat /\ Row(j).start <= Row(j).end
        /\ Row(j).start < request.to /\ request.from < Row(j).end
        /\ Length(j) \in Nat \ {0}
        /\ Row(j).end <= Row(j).start + Length(j)
        /\ Row(j).id # writing => Row(j).end = Row(j).start + Length(j)
  BY <1>1, <1>2, RowsAre DEF Row, Length
<1>5. request.from \in Nat /\ request.to \in Nat /\ request.from < request.to
  BY <1>2, RowsAre
<1>6. /\ N - 1 \in 0 .. N /\ i - 1 \in 0 .. N /\ i \in 0 .. N /\ N \in 0 .. N
      /\ i < N => i <= N - 1
  BY <1>2
<1>7. PICK kept \in Int : kept = Upto[N - 1]
  <2>1. Upto[N - 1] \in Nat
    BY <1>1, <1>2, <1>6, UptoIs
  <2> QED
    BY <2>1
<1>8. /\ Upto[i] \in Nat /\ Upto[i - 1] \in Nat
      /\ Upto[i] = Upto[i - 1] + (Row(i).end - Row(i).start)
      /\ Upto[N] = kept + (Row(N).end - Row(N).start)
      /\ i < N => Upto[i] <= kept
      /\ Upto[0] = 0
  BY <1>1, <1>2, <1>6, <1>7, UptoIs DEF Row
<1>9. PICK lead \in Int :
        lead = IF 0 >= request.from - Row(1).start THEN 0 ELSE request.from - Row(1).start
  BY SMTT(30), <1>4, <1>5
<1>10. PICK tail \in Int :
         tail = IF 0 >= Row(N).end - request.to THEN 0 ELSE Row(N).end - request.to
  BY SMTT(30), <1>4, <1>5
<1>11. PICK left \in Int : left = kept + (Row(N).end - Row(N).start) - lead - tail
  <2>1. Row(N).start \in Int /\ Row(N).end \in Int
    BY <1>4
  <2> QED
    BY <2>1
<1>12. clip.lead = lead /\ clip.duration = IF 0 >= left THEN 0 ELSE left
  <2>1. left = Upto[N] - lead - tail
    <3>1. Row(N).start \in Int /\ Row(N).end \in Int
      BY <1>4
    <3> QED
      BY SMTT(30), <1>8, <1>11, <3>1
  <2> QED
    BY <1>1, <1>2, <1>3, <1>9, <1>10, <2>1, BoundsAre DEF Row
<1>13. PICK count \in Int : count = Len(out) /\ count >= 0
  <2>1. Len(out) \in Nat
    OBVIOUS
  <2> QED
    BY <2>1
<1>14. i = 1 => Upto[i - 1] = 0 /\ count = 0
  <2>1. SUFFICES ASSUME i = 1
                 PROVE  count = 0
    BY <1>8
  <2>2. 1 .. reached = {}
    BY <1>2, <2>1 DEF IInv, Join
  <2>3. DOMAIN out = {}
    BY <2>2 DEF Placed
  <2>4. DOMAIN out = 1 .. count
    BY <1>13
  <2> QED
    <3>1. ~(1 \in DOMAIN out)
      BY <2>3
    <3>2. ~(1 \in 1 .. count)
      BY <2>4, <3>1
    <3> QED
      BY <1>13, <3>2
<1>15. i = N => Upto[i - 1] = kept
  BY <1>7
<1>18. 1 < N => Row(1).end - Row(1).start <= kept
  <2>1. SUFFICES ASSUME 1 < N
                 PROVE  Row(1).end - Row(1).start <= kept
    OBVIOUS
  <2>2. 1 \in 0 .. N /\ 1 <= N - 1 /\ 1 - 1 = 0
    BY <2>1
  <2>3. Upto[1] <= kept
    BY <1>1, <1>2, <1>6, <1>7, <2>2, UptoIs
  <2>4. Upto[1] = Upto[0] + (Row(1).end - Row(1).start)
    BY <1>1, <1>2, <2>2, UptoIs DEF Row
  <2>5. Row(1).end \in Int /\ Row(1).start \in Int
    BY <1>4
  <2> QED
    BY <1>8, <2>3, <2>4, <2>5
<1>16. i <= N
  BY <1>2
<1>17. Reckoned(i, N, lead, tail, left, kept, count)
  BY <1>1, <1>4, <1>5, <1>7, <1>8, <1>9, <1>10, <1>11, <1>12, <1>13, <1>14, <1>15, <1>16, <1>18
     DEF Reckoned
<1> QED
  BY <1>17

(* A stamped clip is of one stream, and only its newest segment, the last, *)
(* may still be written.                                                   *)
LEMMA OnlyTheLast ==
  ASSUME ReadsBack, Apart, IInv, Queried, Written, Stages, Queue, pc = "reading", stamp,
         NEW i \in 1 .. Len(prepared) - 1
  PROVE  Row(i).id # writing
<1>1. PICK N \in Nat : N = Len(prepared) /\ DOMAIN prepared = 1 .. N
  BY RowsAre
<1>2. i \in 1 .. N /\ N \in 1 .. N /\ i < N /\ pc # "idle"
  BY <1>1
<1>3. Serving
  BY DEF Serving, Stages, Ending
<1>4. PICK q, r : q = prepared[i].row /\ r = prepared[N].row
  OBVIOUS
<1>5. q.stream = r.stream /\ Ahead(q, r)
  BY <1>1, <1>2, <1>3, <1>4 DEF Queue
<1>6. q.start + Layout[q.id].length <= r.start
  BY <1>5 DEF Ahead
<1>7. q \in Scans /\ r \in Scans
  BY <1>1, <1>2, <1>4, RowsAre
<1>8. /\ q.id \in Ids /\ r.id \in Ids /\ q.start = Layout[q.id].began /\ r.start = Layout[r.id].began
      /\ Layout[q.id].stream = Layout[r.id].stream /\ q.start \in Nat /\ r.start \in Nat
      /\ Layout[q.id].length \in Nat \ {0} /\ Layout[r.id].length \in Nat \ {0}
  BY <1>5, <1>7, ScanFacts
<1>9. Ids = 1 .. Newest /\ Newest \in Nat
  BY LayoutAssumption DEF Ids, Newest
<1>10. ASSUME q.id = writing
       PROVE  FALSE
  <2>1. q.id = Newest
    BY <1>8, <1>9, <1>10 DEF Written
  <2>2. CASE r.id = q.id
    BY <1>6, <1>8, <2>2
  <2>3. CASE r.id # q.id
    <3>1. r.id < q.id
      BY <1>8, <1>9, <2>1, <2>3
    <3>2. Layout[r.id].began + Layout[r.id].length <= Layout[q.id].began
      BY <1>8, <3>1 DEF Apart
    <3>3. r.start + Layout[r.id].length <= q.start
      BY <1>8, <3>2
    <3>4. PICK x \in Nat, y \in Nat : x = Layout[q.id].length /\ y = Layout[r.id].length /\ x > 0 /\ y > 0
      BY <1>8
    <3> QED
      BY SMTT(30), <1>6, <1>8, <3>3, <3>4
  <2> QED
    BY <2>2, <2>3
<1> QED
  BY <1>4, <1>10 DEF Row

(* The next input has what the range has of it.                            *)
LEMMA CoversIt ==
  ASSUME NEW N \in Nat, NEW lead \in Int, NEW tail \in Int, NEW left \in Int, NEW kept \in Int,
         NEW count \in Int, NEW i \in 1 .. N, NEW n \in Nat, NEW from \in Nat, NEW m \in Nat,
         Reckoned(i, N, lead, tail, left, kept, count), Fitting(i, n, from, m),
         stamp /\ clip.duration > 0 /\ i > 1 => count <= Upto[i - 1] - lead,
         NEW k \in Nat, k < n, Owed(i, k)
  PROVE  from <= k /\ k < from + m
<1>1. PICK a \in Nat, z \in Nat : a = Row(i).start /\ z = Row(i).end
  BY DEF Reckoned
<1>2. PICK b \in Nat, e \in Nat : b = Row(N).start /\ e = Row(N).end
  BY DEF Reckoned
<1>3. PICK f \in Nat, t \in Nat : f = request.from /\ t = request.to
  BY DEF Reckoned
<1>4. PICK u \in Nat, v \in Nat : u = Upto[i - 1] /\ v = Upto[i]
  BY DEF Reckoned
<1>5. PICK d \in Int : d = clip.duration /\ d = IF 0 >= left THEN 0 ELSE left
  BY DEF Reckoned
<1>6. /\ a < t /\ f < z /\ b < t /\ a <= z /\ b <= e
      /\ tail = (IF 0 >= e - t THEN 0 ELSE e - t) /\ left = kept + (e - b) - lead - tail
      /\ v = u + (z - a) /\ (i < N => v <= kept) /\ (i = N => u = kept /\ a = b /\ z = e)
      /\ count >= 0 /\ (i = 1 => u = 0 /\ count = 0 /\ lead = IF 0 >= f - a THEN 0 ELSE f - a)
  BY <1>1, <1>2, <1>3, <1>4, <1>5 DEF Reckoned
<1>7. f <= a + k /\ a + k < t /\ a + k < z
  BY <1>1, <1>3 DEF Owed, Asked
<1>8. /\ ~(i = 1 /\ d > 0) => from = 0
      /\ i = 1 /\ d > 0 => from <= lead
      /\ i = 1 /\ d > 0 /\ stamp => from = lead
  BY <1>5 DEF Fitting, Begun, Reckoned
<1>9. from <= k
  BY <1>6, <1>7, <1>8
<1>10. PICK till \in Int : till = Outpoint(i)
  BY DEF Fitting
<1>11. PICK rest \in Int : rest = IF 0 >= till - from THEN 0 ELSE till - from
  <2>1. (IF 0 >= till - from THEN 0 ELSE till - from) \in Int
    OBVIOUS
  <2> QED
    BY <2>1, Zenon
<1>12. PICK budget \in Int : budget = IF 0 >= d - count THEN 0 ELSE d - count
  <2>1. (IF 0 >= d - count THEN 0 ELSE d - count) \in Int
    OBVIOUS
  <2> QED
    BY <2>1, Zenon
<1>13. m = IF stamp /\ d > 0 THEN IF rest <= budget THEN rest ELSE budget ELSE rest
  BY <1>5, <1>10, <1>11, <1>12 DEF Fitting, Reckoned
<1>14. till = IF ~stamp /\ i = N /\ d > 0 /\ t < z THEN IF n <= t - a THEN n ELSE t - a ELSE n
  BY <1>1, <1>3, <1>5, <1>10 DEF Fitting, Reckoned
<1>15. k < till
  BY <1>7, <1>14
<1>16. k < from + rest
  BY <1>9, <1>11, <1>15
<1>17. ASSUME stamp, d > 0
       PROVE  k < from + budget
  <2>1. d = left
    BY <1>5, <1>17
  <2>2. k + 1 <= z - a
    BY <1>7
  <2>3. k + 1 + u <= kept + (e - b) - tail
    <3>1. CASE i < N
      <4>1. tail <= e - b
        BY <1>6
      <4> QED
        BY <1>6, <2>2, <3>1, <4>1
    <3>2. CASE i = N
      BY <1>6, <1>7, <3>2
    <3> QED
      BY <3>1, <3>2
  <2>4. CASE i = 1
    BY <1>6, <1>8, <1>12, <1>17, <2>1, <2>3, <2>4
  <2>5. CASE i # 1
    <3>1. count <= u - lead
      BY <1>4, <1>5, <1>17, <2>5
    <3> QED
      BY <1>6, <1>8, <1>12, <1>17, <2>1, <2>3, <2>5, <3>1
  <2> QED
    BY <2>4, <2>5
<1> QED
  BY <1>9, <1>13, <1>16, <1>17

(* It takes no more than its part, and just that if all is intact.         *)
TakesItsPart(i, count, lead, m) ==
  /\ count + m <= Upto[i] - lead
  /\ Held(i) = Length(i) /\ (i > 1 => count = Upto[i - 1] - lead) => count + m = Upto[i] - lead

LEMMA SparesTheRest ==
  ASSUME NEW N \in Nat, NEW lead \in Int, NEW tail \in Int, NEW left \in Int, NEW kept \in Int,
         NEW count \in Int, NEW i \in 1 .. N, NEW n \in Nat, NEW from \in Nat, NEW m \in Nat,
         Reckoned(i, N, lead, tail, left, kept, count), Fitting(i, n, from, m),
         i > 1 => count <= Upto[i - 1] - lead,
         stamp, clip.duration > 0, i < N, Row(i).id # writing
  PROVE  TakesItsPart(i, count, lead, m)
<1>1. PICK a \in Nat, z \in Nat : a = Row(i).start /\ z = Row(i).end
  BY DEF Reckoned
<1>2. PICK b \in Nat, e \in Nat : b = Row(N).start /\ e = Row(N).end
  BY DEF Reckoned
<1>3. PICK f \in Nat, t \in Nat : f = request.from /\ t = request.to
  BY DEF Reckoned
<1>4. PICK u \in Nat, v \in Nat : u = Upto[i - 1] /\ v = Upto[i]
  BY DEF Reckoned
<1>5. PICK d \in Int : d = clip.duration /\ d = left /\ d > 0
  BY DEF Reckoned
<1>6. /\ a < t /\ f < z /\ b < t /\ a <= z /\ b <= e
      /\ tail = (IF 0 >= e - t THEN 0 ELSE e - t) /\ left = kept + (e - b) - lead - tail
      /\ v = u + (z - a) /\ v <= kept
      /\ count >= 0 /\ (i = 1 => u = 0 /\ count = 0 /\ lead = IF 0 >= f - a THEN 0 ELSE f - a)
  BY <1>1, <1>2, <1>3, <1>4, <1>5 DEF Reckoned
<1>7. PICK l \in Nat : l = Length(i) /\ z = a + l /\ n <= l /\ (Held(i) = Length(i) => n = l)
  <2>1. PICK l \in Nat : l = Length(i) /\ z = a + l
    BY <1>1 DEF Reckoned
  <2>2. n <= l /\ Held(i) <= n
    BY <2>1 DEF Fitting
  <2> QED
    BY <2>1, <2>2
<1>8. from = IF i = 1 THEN lead ELSE 0
  BY <1>5 DEF Fitting, Begun, Reckoned
<1>9. Outpoint(i) = n
  BY DEF Fitting
<1>10. PICK rest \in Int : rest = IF 0 >= n - from THEN 0 ELSE n - from
  <2>1. (IF 0 >= n - from THEN 0 ELSE n - from) \in Int
    OBVIOUS
  <2> QED
    BY <2>1, Zenon
<1>11. PICK budget \in Int : budget = IF 0 >= d - count THEN 0 ELSE d - count
  OBVIOUS
<1>12. m = IF rest <= budget THEN rest ELSE budget
  BY <1>5, <1>9, <1>10, <1>11 DEF Fitting, Reckoned
<1>13. tail <= e - b
  BY <1>6
<1>14. CASE i = 1
  <2>1. lead <= z - a
    BY <1>6, <1>14
  <2>2. m <= rest /\ rest <= v - lead
    BY <1>6, <1>7, <1>8, <1>10, <1>12, <1>14, <2>1
  <2>3. n = l => m = v - lead
    <3>1. SUFFICES ASSUME n = l
                   PROVE  m = v - lead
      OBVIOUS
    <3>2. rest = v - lead
      BY <1>6, <1>7, <1>8, <1>10, <1>14, <2>1, <3>1
    <3>3. budget >= v - lead
      BY <1>5, <1>6, <1>11, <1>13, <1>14
    <3> QED
      BY <1>12, <3>2, <3>3
  <2> QED
    BY <1>4, <1>6, <1>7, <1>14, <2>2, <2>3 DEF TakesItsPart
<1>15. CASE i # 1
  <2>1. count <= u - lead
    BY <1>4, <1>15
  <2>2. m <= rest /\ rest <= v - u
    BY <1>6, <1>7, <1>8, <1>10, <1>12, <1>15
  <2>3. n = l /\ count = u - lead => m = v - u
    <3>1. SUFFICES ASSUME n = l, count = u - lead
                   PROVE  m = v - u
      OBVIOUS
    <3>2. rest = v - u
      BY <1>6, <1>7, <1>8, <1>10, <1>15, <3>1
    <3>3. budget >= v - u
      BY <1>5, <1>6, <1>11, <1>13, <3>1
    <3> QED
      BY <1>12, <3>2, <3>3
  <2>4. i > 1
    BY <1>15
  <2> QED
    BY <1>4, <1>7, <2>1, <2>2, <2>3, <2>4 DEF TakesItsPart
<1> QED
  BY <1>14, <1>15

(* Of segments that are intact the cut takes what is not of the range, and *)
(* leaves something of each.                                               *)
LeavesTheRange(i, N, count, lead, from, m) ==
  /\ m > 0 => from + m <= Length(i)
  /\ ~stamp => m > 0
  /\ /\ i > 1 => Row(1).start + Length(1) <= Row(i).start
     /\ i < N => Row(i).start + Length(i) <= Row(N).start
     /\ stamp /\ clip.duration > 0 /\ i > 1 /\ i = N => count = Upto[i - 1] - lead
     => \A k \in 1 .. m : Within(Row(i).start + from + k - 1)

LEMMA TrimsIt ==
  ASSUME NEW N \in Nat, NEW lead \in Int, NEW tail \in Int, NEW left \in Int, NEW kept \in Int,
         NEW count \in Int, NEW i \in 1 .. N, NEW n \in Nat, NEW from \in Nat, NEW m \in Nat,
         Reckoned(i, N, lead, tail, left, kept, count), Fitting(i, n, from, m),
         \A j \in {1, i, N} : Row(j).id # writing, Held(i) = Length(i), Row(1).id \in Ids
  PROVE  LeavesTheRange(i, N, count, lead, from, m)
<1>1. PICK a \in Nat, z \in Nat : a = Row(i).start /\ z = Row(i).end
  BY DEF Reckoned
<1>2. PICK b \in Nat, e \in Nat : b = Row(N).start /\ e = Row(N).end
  BY DEF Reckoned
<1>0. PICK c \in Nat, y \in Nat : c = Row(1).start /\ y = Row(1).end
  BY DEF Reckoned
<1>3. PICK f \in Nat, t \in Nat : f = request.from /\ t = request.to
  BY DEF Reckoned
<1>4. PICK u \in Nat, v \in Nat : u = Upto[i - 1] /\ v = Upto[i]
  BY DEF Reckoned
<1>21. \A j \in {1, i, N} : Length(j) \in Nat /\ Length(j) > 0 /\ Row(j).end = Row(j).start + Length(j)
  <2>1. \A j \in {1, i, N} : Length(j) \in Nat \ {0}
    BY Zenon DEF Reckoned
  <2>2. \A j \in {1, i, N} : Row(j).id # writing => Row(j).end = Row(j).start + Length(j)
    BY Zenon DEF Reckoned
  <2>3. \A x \in Nat \ {0} : x \in Nat /\ x > 0
    OBVIOUS
  <2> QED
    BY <2>1, <2>2, <2>3, Zenon
<1>5. /\ a < t /\ f < z /\ b < t /\ f < y /\ c < t /\ a < z /\ b < e /\ c < y /\ f < t
      /\ tail = (IF 0 >= e - t THEN 0 ELSE e - t) /\ left = kept + (e - b) - lead - tail
      /\ lead = (IF 0 >= f - c THEN 0 ELSE f - c) /\ (N = 1 => kept = 0 /\ b = c /\ e = y)
      /\ (1 < N => y - c <= kept) /\ (i = 1 => a = c /\ z = y /\ count = 0)
      /\ (i = N => u = kept /\ a = b /\ z = e)
  <2>1. /\ a < t /\ f < z /\ b < t /\ f < y /\ c < t /\ f < t
        /\ tail = (IF 0 >= e - t THEN 0 ELSE e - t) /\ left = kept + (e - b) - lead - tail
        /\ lead = (IF 0 >= f - c THEN 0 ELSE f - c)
        /\ (1 < N => y - c <= kept) /\ (i = 1 => a = c /\ z = y /\ count = 0)
        /\ (i = N => u = kept /\ a = b /\ z = e)
    BY <1>0, <1>1, <1>2, <1>3, <1>4 DEF Reckoned
  <2>2. a < z
    BY <1>1, <1>21
  <2>3. b < e
    BY <1>2, <1>21
  <2>4. c < y
    BY <1>0, <1>21
  <2>5. N = 1 => kept = 0 /\ b = c /\ e = y
    BY <1>0, <1>2 DEF Reckoned
  <2> QED
    BY <2>1, <2>2, <2>3, <2>4, <2>5
<1>6. lead < y - c /\ tail < e - b /\ lead >= 0 /\ tail >= 0
  BY <1>5
<1>7. left > 0
  <2>1. CASE N = 1
    BY <1>5, <2>1
  <2>2. CASE 1 < N
    BY <1>5, <1>6, <2>2
  <2> QED
    BY <2>1, <2>2
<1>8. PICK d \in Int : d = clip.duration /\ d = left /\ d > 0
  BY <1>7 DEF Reckoned
<1>9. PICK l \in Nat : l = Length(i) /\ z = a + l /\ n = l
  <2>1. PICK l \in Nat : l = Length(i) /\ z = a + l
    BY <1>1 DEF Reckoned
  <2>2. n <= l /\ l <= n
    BY <2>1 DEF Fitting
  <2> QED
    BY <2>1, <2>2
<1>10. /\ i # 1 => from = 0
       /\ i = 1 => from <= lead
       /\ i = 1 /\ stamp => from = lead
       /\ i = 1 => \A q \in Layout[Row(1).id].keyframes : q <= lead /\ q < n => q <= from
  BY <1>8 DEF Fitting, Begun, Reckoned
<1>11. PICK till \in Int : till = Outpoint(i)
  BY DEF Fitting
<1>12. till = IF ~stamp /\ i = N /\ t < z THEN IF n <= t - a THEN n ELSE t - a ELSE n
  BY <1>1, <1>3, <1>8, <1>11 DEF Fitting, Reckoned
<1>13. PICK rest \in Int : rest = IF 0 >= till - from THEN 0 ELSE till - from
  <2>1. (IF 0 >= till - from THEN 0 ELSE till - from) \in Int
    OBVIOUS
  <2> QED
    BY <2>1, Zenon
<1>14. PICK budget \in Int : budget = IF 0 >= d - count THEN 0 ELSE d - count
  <2>1. (IF 0 >= d - count THEN 0 ELSE d - count) \in Int
    OBVIOUS
  <2> QED
    BY <2>1, Zenon
<1>15. m = IF stamp THEN IF rest <= budget THEN rest ELSE budget ELSE rest
  BY <1>8, <1>11, <1>13, <1>14 DEF Fitting, Reckoned
<1>16. from < till /\ till <= l /\ rest = till - from
  BY <1>5, <1>6, <1>9, <1>10, <1>12, <1>13
<1>17. m > 0 => from + m <= Length(i)
  BY <1>9, <1>15, <1>16
<1>18. ~stamp => m > 0
  BY <1>15, <1>16
<1>19. ASSUME i > 1 => c + (y - c) <= a, i < N => a + l <= b,
              stamp /\ i > 1 /\ i = N => count = u - lead,
              NEW k \in 1 .. m
       PROVE  /\ a + from + k - 1 < t
              /\ a + from + k - 1 < f => i = 1 /\ ~stamp
  <2>1. (i = 1 /\ ~stamp) \/ f <= a + from
    BY <1>5, <1>10, <1>19
  <2>2. m <= rest
    BY <1>15
  <2>3. CASE i < N
    BY <1>5, <1>16, <1>19, <2>1, <2>2, <2>3
  <2>4. CASE i = N /\ ~stamp
    <3>1. a + till <= t
      BY <1>5, <1>9, <1>12, <2>4
    <3> QED
      BY <1>16, <2>1, <2>2, <3>1
  <2>5. CASE i = N /\ stamp
    <3>1. from + budget <= z - a - tail
      <4>1. CASE i = 1
        BY <1>5, <1>6, <1>8, <1>10, <1>14, <2>5, <4>1
      <4>2. CASE i > 1
        BY <1>5, <1>6, <1>8, <1>10, <1>14, <1>19, <2>5, <4>2
      <4> QED
        BY <4>1, <4>2
    <3>2. m <= budget
      BY <1>15, <2>5
    <3>3. z - tail <= t
      BY <1>5, <2>5
    <3> QED
      BY <2>1, <3>1, <3>2, <3>3
  <2> QED
    BY <2>3, <2>4, <2>5
<1>20. Row(1).start + Length(1) = c + (y - c)
  BY <1>0, <1>21
<1>22. ASSUME i = 1, NEW k \in 1 .. m, a + from + k - 1 < f
       PROVE  LeadsIn(a + from + k - 1)
  <2>1. PICK g \in Int : g = a + from + k - 1
    OBVIOUS
  <2>2. lead = f - a /\ lead < l /\ n = l /\ from <= g - a
    BY <1>5, <1>6, <1>9, <1>22, <2>1
  <2>3. ASSUME NEW q \in Layout[Row(1).id].keyframes, g < a + q
        PROVE  f < a + q
    <3>1. q \in Nat
      BY <2>3, LayoutOf
    <3>2. ~(q <= from)
      BY <2>2, <2>3, <3>1
    <3>3. ~(q <= lead /\ q < n)
      BY <1>10, <1>22, <2>3, <3>2
    <3> QED
      BY <2>2, <3>1, <3>3
  <2>4. Row(1).start = a
    BY <1>1, <1>22
  <2>5. LeadsIn(g)
    BY <1>3, <2>3, <2>4 DEF LeadsIn, Row
  <2> QED
    BY <2>1, <2>5
<1>23. ASSUME i > 1 => c + (y - c) <= a, i < N => a + l <= b,
              stamp /\ i > 1 /\ i = N => count = u - lead,
              NEW k \in 1 .. m
       PROVE  Within(a + from + k - 1)
  BY <1>3, <1>19, <1>22, <1>23 DEF Within
<1> QED
  BY <1>1, <1>2, <1>4, <1>8, <1>9, <1>17, <1>18, <1>20, <1>23 DEF LeavesTheRange

(* Whatever is sent of an input is there.                                  *)
LEMMA StaysInside ==
  ASSUME NEW i \in Nat, NEW n \in Nat, NEW from \in Nat, NEW m \in Nat, Fitting(i, n, from, m),
         Length(i) \in Nat, request.to \in Int, Row(i).start \in Int, m > 0
  PROVE  from + m <= Length(i)
<1>1. PICK till \in Int : till = Outpoint(i)
  BY DEF Fitting
<1>2. PICK l \in Nat : l = Length(i)
  OBVIOUS
<1>3. PICK t \in Int : t = request.to - Row(i).start
  OBVIOUS
<1>4. till <= n /\ n <= l
  BY <1>1, <1>2, <1>3 DEF Fitting
<1>5. PICK rest \in Int : rest = IF 0 >= till - from THEN 0 ELSE till - from
  <2>1. (IF 0 >= till - from THEN 0 ELSE till - from) \in Int
    OBVIOUS
  <2> QED
    BY <2>1, Zenon
<1>6. m <= rest
  <2>1. CASE m = rest
    BY <2>1
  <2>2. CASE m # rest
    <3>1. PICK x : x = IF 0 >= clip.duration - Len(out) THEN 0 ELSE clip.duration - Len(out)
      OBVIOUS
    <3>2. m = x /\ ~(rest <= x)
      BY <1>1, <1>5, <2>2, <3>1 DEF Fitting
    <3> QED
      BY <3>2
  <2> QED
    BY <2>1, <2>2
<1> QED
  BY <1>2, <1>4, <1>5, <1>6

(* What the next input adds to what has been sent                          *)
Contributes(i, from, m) ==
  /\ Len(Contribution(i)) = m /\ \E T : Contribution(i) \in Seq(T)
  /\ \A k \in 1 .. m :
       LET at == Row(i).start + from + k - 1 IN
       /\ Contribution(i)[k].stream = Row(i).stream /\ Contribution(i)[k].at = at /\ at \in Int
       /\ Row(i).start <= at /\ at < Row(i).start + Length(i)
  /\ \A k \in 0 .. Held(i) - 1 : Owed(i, k) => from <= k /\ k < from + m
  /\ stamp /\ clip.duration > 0 /\ i < Len(prepared) =>
       /\ Len(out) + m <= Upto[i] - clip.lead
       /\ AllFull => Len(out) + m = Upto[i] - clip.lead
  /\ AllFull /\ OneStream => \A k \in 1 .. m : Within(Row(i).start + from + k - 1)
  /\ AllFull /\ ~stamp => m > 0

LEMMA NextInput ==
  ASSUME ReadsBack, Apart, IInv, Queried, Written, Stages, Queue, \E S : out \in Seq(S), Sent,
         pc = "reading", NEW i \in 1 .. Len(prepared), i = reached + 1
  PROVE  \E from, m \in Nat : Contributes(i, from, m)
<1>1. PICK n \in Nat, from \in Nat, m \in Nat :
        /\ Fitting(i, n, from, m)
        /\ Len(Contribution(i)) = m /\ \E T : Contribution(i) \in Seq(T)
        /\ \A k \in 1 .. m : /\ Contribution(i)[k].stream = Row(i).stream
                             /\ Contribution(i)[k].at = Row(i).start + from + k - 1
  BY ContributionIs
<1>2. PICK N \in Nat, lead \in Int, tail \in Int, left \in Int, kept \in Int, count \in Int :
        Reckoned(i, N, lead, tail, left, kept, count)
  BY Reckoning DEF Sent
<1>3. /\ N = Len(prepared) /\ DOMAIN prepared = 1 .. N /\ i \in 1 .. N /\ 1 \in 1 .. N /\ N \in 1 .. N
      /\ lead = clip.lead /\ count = Len(out)
  BY SMTT(30), <1>2, RowsAre DEF Reckoned
<1>4. Serving /\ reached \in Nat /\ (i > 1 => 0 < reached /\ reached < Len(prepared) /\ reached = i - 1)
  BY <1>3 DEF Serving, Stages, Ending, IInv, Join
<1>5. Held(i) \in Nat /\ Held(i) <= n /\ n <= Length(i)
  <2>1. Held(i) \in Nat
    BY <1>3, <1>4, InputHolds DEF Held, Row
  <2> QED
    BY <1>1, <2>1 DEF Fitting
<1>6. Row(i).start \in Nat /\ Length(i) \in Nat /\ request.to \in Nat
  <2>1. Length(i) \in Nat \ {0}
    BY <1>2 DEF Reckoned
  <2> QED
    BY <1>2, <2>1 DEF Reckoned
<1>7. ASSUME NEW k \in 1 .. m
      PROVE  LET at == Row(i).start + from + k - 1 IN
             at \in Int /\ Row(i).start <= at /\ at < Row(i).start + Length(i)
  <2>1. from + m <= Length(i)
    <3>1. i \in Nat /\ m > 0 /\ request.to \in Int /\ Row(i).start \in Int
      BY <1>6
    <3> QED
      BY <1>1, <1>6, <3>1, StaysInside
  <2> QED
    BY SMTT(30), <1>6, <2>1
<1>8. /\ stamp /\ clip.duration > 0 /\ i > 1 => count <= Upto[i - 1] - lead
      /\ stamp /\ clip.duration > 0 /\ i > 1 /\ AllFull => count = Upto[i - 1] - lead
  BY <1>3, <1>4 DEF Sent, Spared
<1>9. ASSUME NEW k \in 0 .. Held(i) - 1, Owed(i, k)
      PROVE  from <= k /\ k < from + m
  <2>1. k \in Nat /\ k < n
    BY <1>5
  <2>2. stamp /\ clip.duration > 0 /\ i > 1 => count <= Upto[i - 1] - lead
    BY <1>8
  <2>3. Fitting(i, n, from, m) /\ i \in 1 .. N
    BY <1>1, <1>3
  <2> QED
    BY <1>2, <1>9, <2>1, <2>2, <2>3, CoversIt, ZenonT(60)
<1>10. ASSUME AllFull
       PROVE  /\ \A j \in {1, i, N} : Row(j).id # writing
              /\ Held(i) = Length(i)
  BY <1>3, <1>10 DEF AllFull
<1>11. ASSUME stamp, clip.duration > 0, i < N
       PROVE  count + m <= Upto[i] - lead /\ (AllFull => count + m = Upto[i] - lead)
  <2>1. i \in 1 .. Len(prepared) - 1
    BY <1>3, <1>11
  <2>2. Row(i).id # writing
    BY <1>11, <2>1, OnlyTheLast
  <2>3. i > 1 => count <= Upto[i - 1] - lead
    BY <1>8, <1>11
  <2>4. AllFull => Held(i) = Length(i) /\ (i > 1 => count = Upto[i - 1] - lead)
    BY <1>8, <1>10, <1>11
  <2>5. /\ count + m <= Upto[i] - lead
        /\ Held(i) = Length(i) /\ (i > 1 => count = Upto[i - 1] - lead) => count + m = Upto[i] - lead
    <3>1. Fitting(i, n, from, m) /\ i \in 1 .. N
      BY <1>1, <1>3
    <3>2. TakesItsPart(i, count, lead, m)
      BY <1>2, <1>11, <2>2, <2>3, <3>1, SparesTheRest, Zenon
    <3> QED
      BY <3>2 DEF TakesItsPart
  <2> QED
    BY <2>4, <2>5
<1>15. ASSUME AllFull
       PROVE  LeavesTheRange(i, N, count, lead, from, m)
  <2>1. Fitting(i, n, from, m) /\ i \in 1 .. N
    BY <1>1, <1>3
  <2>2. (\A j \in {1, i, N} : Row(j).id # writing) /\ Held(i) = Length(i)
    BY <1>10, <1>15
  <2>3. Row(1).id \in Ids
    BY <1>3, <1>4, InputHolds DEF Row
  <2> QED
    BY <1>2, <2>1, <2>2, <2>3, TrimsIt, Zenon
<1>12. ASSUME AllFull, OneStream, NEW k \in 1 .. m
       PROVE  Within(Row(i).start + from + k - 1)
  <2>1. \A j, h \in 1 .. N : j < h => Row(j).start + Length(j) <= Row(h).start
    <3>1. SUFFICES ASSUME NEW j \in 1 .. N, NEW h \in 1 .. N, j < h
                   PROVE  Row(j).start + Length(j) <= Row(h).start
      OBVIOUS
    <3>2. Ahead(Row(j), Row(h)) /\ Row(j).stream = Row(h).stream
      BY <1>3, <1>4, <1>12, <3>1 DEF Queue, OneStream, Row
    <3> QED
      BY <3>2 DEF Ahead, Length
  <2>2. /\ i > 1 => Row(1).start + Length(1) <= Row(i).start
        /\ i < N => Row(i).start + Length(i) <= Row(N).start
    BY <1>3, <2>1
  <2>3. stamp /\ clip.duration > 0 /\ i > 1 /\ i = N => count = Upto[i - 1] - lead
    BY <1>8, <1>12
  <2> QED
    BY <1>12, <1>15, <2>2, <2>3 DEF LeavesTheRange
<1>13. AllFull /\ ~stamp => m > 0
  BY <1>15 DEF LeavesTheRange
<1>14. Contributes(i, from, m)
  BY <1>1, <1>3, <1>7, <1>9, <1>11, <1>12, <1>13 DEF Contributes
<1> QED
  BY <1>14

(* A step that leaves the inputs, the cut and what was sent alone          *)
LEMMA SameSent ==
  ASSUME Sent, UNCHANGED <<prepared, request, clip, stamp, writing, out, reached>>,
         \A j \in DOMAIN prepared : prepared[j].row.id \in Ids,
         \A i \in Ids : Holds(i)' = Holds(i), 1 .. reached \subseteq DOMAIN prepared
  PROVE  Sent'
<1>1. /\ \A j : Row(j)' = Row(j) /\ Length(j)' = Length(j)
      /\ \A t : Asked(t)' = Asked(t) /\ Within(t)' = Within(t)
      /\ Upto' = Upto
  BY DEF Row, Length, Asked, Within, LeadsIn, Upto, Rows
<1>2. ASSUME NEW j \in DOMAIN prepared
      PROVE  Held(j)' = Held(j)
  <2>1. PICK i \in Ids : i = prepared[j].row.id
    OBVIOUS
  <2>2. Held(j) = Holds(i) /\ Held(j)' = Holds(i)'
    BY <2>1 DEF Held, Row, Holds, Secs
  <2> QED
    BY <2>2
<1>3. AllFull' = AllFull /\ OneStream' = OneStream
  BY <1>1, <1>2 DEF AllFull, OneStream
<1>4. Placed' /\ Ascending' /\ Spared' /\ Trimmed' /\ Shown'
  BY <1>1, <1>3 DEF Sent, Placed, Ascending, Spared, Trimmed, Shown
<1>5. Covered'
  <2>1. \A j, k : Owed(j, k)' = Owed(j, k)
    BY <1>1 DEF Owed
  <2>2. SUFFICES ASSUME NEW j \in 1 .. reached, NEW k \in 0 .. Held(j) - 1, Owed(j, k)
                 PROVE  \E e \in DOMAIN out : /\ out[e].stream = Row(j).stream
                                              /\ out[e].at = Row(j).start + k
    BY <1>1, <1>2, <2>1 DEF Covered
  <2> QED
    BY <2>2 DEF Sent, Covered
<1> QED
  BY <1>4, <1>5 DEF Sent

LEMMA NothingSent ==
  ASSUME out' = <<>>, reached' = 0
  PROVE  Sent'
<1>1. DOMAIN out' = {} /\ 1 .. reached' = {}
  OBVIOUS
<1> QED
  BY <1>1 DEF Sent, Placed, Ascending, Covered, Spared, Trimmed, Shown

LEMMA ChunkSends ==
  ASSUME ReadsBack, Apart, IInv, Queried, Written, Stages, Queue, \E S : out \in Seq(S), Sent,
         pc = "reading", reached + 1 <= Len(prepared), reached' = reached + 1,
         out' = out \o Contribution(reached + 1),
         UNCHANGED <<prepared, request, clip, stamp, writing, content>>
  PROVE  Sent'
<1>1. PICK i : i = reached + 1
  OBVIOUS
<1>2. reached \in Nat /\ i \in 1 .. Len(prepared) /\ Len(prepared) \in Nat
  BY <1>1 DEF IInv, Join, Inputs
<1>3. PICK from \in Nat, m \in Nat : Contributes(i, from, m)
  BY <1>1, <1>2, NextInput
<1>4. PICK c : c = Contribution(i)
  OBVIOUS
<1>5. /\ Len(c) = m /\ \E T : c \in Seq(T)
      /\ \A k \in 1 .. m :
           /\ c[k].stream = Row(i).stream /\ c[k].at = Row(i).start + from + k - 1 /\ c[k].at \in Int
           /\ Row(i).start <= c[k].at /\ c[k].at < Row(i).start + Length(i)
  BY <1>3, <1>4 DEF Contributes
<1>6. PICK S, T : out \in Seq(S) /\ c \in Seq(T)
  BY <1>5
<1>7. PICK n \in Nat : n = Len(out)
  BY <1>6
<1>8. /\ DOMAIN out = 1 .. n /\ DOMAIN out' = 1 .. n + m /\ Len(out') = n + m
      /\ \A k \in 1 .. n : out'[k] = out[k]
      /\ \A k \in 1 .. m : out'[n + k] = c[k]
  <2>1. out \in Seq(S \cup T) /\ c \in Seq(S \cup T) /\ out' = out \o c
    BY <1>1, <1>4, <1>6
  <2>2. /\ out' \in Seq(S \cup T) /\ Len(out') = Len(out) + Len(c)
        /\ \A k \in 1 .. Len(out) + Len(c) :
             out'[k] = IF k <= Len(out) THEN out[k] ELSE c[k - Len(out)]
    <3>1. PICK U : U = S \cup T
      OBVIOUS
    <3>2. out \in Seq(U) /\ c \in Seq(U)
      BY <2>1, <3>1
    <3>3. /\ out \o c \in Seq(U) /\ Len(out \o c) = Len(out) + Len(c)
          /\ \A k \in 1 .. Len(out) + Len(c) :
               (out \o c)[k] = IF k <= Len(out) THEN out[k] ELSE c[k - Len(out)]
      BY <3>2, ConcatProperties
    <3> QED
      BY <2>1, <3>1, <3>3
  <2>3. /\ Len(out') = n + m
        /\ \A k \in 1 .. n + m : out'[k] = IF k <= n THEN out[k] ELSE c[k - n]
    BY <1>5, <1>7, <2>2
  <2>4. \A k \in 1 .. n : k \in 1 .. n + m /\ k <= n
    BY <1>7
  <2>5. \A k \in 1 .. m : n + k \in 1 .. n + m /\ ~(n + k <= n) /\ n + k - n = k
    BY <1>7
  <2>6. DOMAIN out = 1 .. n /\ DOMAIN out' = 1 .. n + m
    BY <1>6, <1>7, <2>2, <2>3
  <2>7. \A k \in 1 .. n : out'[k] = out[k]
    BY <2>3, <2>4
  <2>8. \A k \in 1 .. m : out'[n + k] = c[k]
    <3>1. SUFFICES ASSUME NEW k \in 1 .. m
                   PROVE  out'[n + k] = c[k]
      OBVIOUS
    <3>2. PICK h : h = n + k
      OBVIOUS
    <3>3. h \in 1 .. n + m /\ ~(h <= n) /\ h - n = k
      BY <2>5, <3>2
    <3>4. out'[h] = c[h - n]
      BY <2>3, <3>3
    <3> QED
      BY <3>2, <3>3, <3>4
  <2> QED
    BY <2>3, <2>6, <2>7, <2>8
<1>9. \A k \in 1 .. n + m : k \in 1 .. n \/ \E h \in 1 .. m : k = n + h
  <2> TAKE k \in 1 .. n + m
  <2>1. CASE k <= n
    BY <1>7, <2>1
  <2>2. CASE ~(k <= n)
    <3>1. k - n \in 1 .. m /\ k = n + (k - n)
      BY <1>7, <2>2
    <3> QED
      BY <3>1
  <2> QED
    BY <2>1, <2>2
<1>10. 1 .. reached' = 1 .. i /\ \A j \in 1 .. i : j = i \/ j \in 1 .. reached
  BY <1>1, <1>2
<1>11. /\ \A j : Row(j)' = Row(j) /\ Length(j)' = Length(j) /\ Held(j)' = Held(j)
       /\ \A j, k : Owed(j, k)' = Owed(j, k)
       /\ \A t : Asked(t)' = Asked(t) /\ Within(t)' = Within(t)
       /\ Upto' = Upto /\ AllFull' = AllFull /\ OneStream' = OneStream
  BY DEF Row, Length, Held, Holds, Secs, Owed, Asked, Within, LeadsIn, Upto, Rows, AllFull,
     OneStream
<1>12. Placed'
  <2>1. SUFFICES ASSUME NEW k \in 1 .. n + m
                 PROVE  \E j \in 1 .. i :
                          /\ out'[k].stream = Row(j).stream /\ out'[k].at \in Int
                          /\ Row(j).start <= out'[k].at /\ out'[k].at < Row(j).start + Length(j)
    BY <1>8, <1>10, <1>11 DEF Placed
  <2>2. CASE k \in 1 .. n
    <3>1. \A j \in 1 .. reached : j \in 1 .. i
      BY <1>1, <1>2
    <3> QED
      BY <1>8, <2>2, <3>1 DEF Sent, Placed
  <2>3. ASSUME NEW h \in 1 .. m, k = n + h
        PROVE  \E j \in 1 .. i :
                 /\ out'[k].stream = Row(j).stream /\ out'[k].at \in Int
                 /\ Row(j).start <= out'[k].at /\ out'[k].at < Row(j).start + Length(j)
    <3>1. i \in 1 .. i
      BY <1>2
    <3> QED
      BY <1>5, <1>8, <2>3, <3>1
  <2> QED
    BY <1>9, <2>2, <2>3
<1>13. Ascending'
  <2>1. SUFFICES ASSUME NEW j \in 1 .. n + m, NEW k \in 1 .. n + m, j < k,
                        out'[j].stream = out'[k].stream
                 PROVE  out'[j].at < out'[k].at
    BY <1>8 DEF Ascending
  <2>2. CASE k \in 1 .. n
    <3>1. j \in 1 .. n
      BY <1>7, <2>1, <2>2
    <3> QED
      BY <1>8, <2>1, <2>2, <3>1 DEF Sent, Ascending
  <2>3. ASSUME NEW h \in 1 .. m, k = n + h, j \in 1 .. n
        PROVE  out'[j].at < out'[k].at
    <3>1. PICK g \in 1 .. reached :
            /\ out[j].stream = Row(g).stream /\ out[j].at \in Int
            /\ out[j].at < Row(g).start + Length(g)
      BY <1>8, <2>3 DEF Sent, Placed
    <3>2. g < i /\ g \in DOMAIN prepared /\ i \in DOMAIN prepared
      BY <1>1, <1>2, RowsAre
    <3>3. Serving
      BY DEF Serving, Stages, Ending
    <3>4. Ahead(Row(g), Row(i))
      BY <3>2, <3>3 DEF Queue, Row
    <3>5. Row(g).stream = Row(i).stream
      BY <1>5, <1>8, <2>1, <2>3, <3>1
    <3>6. Row(g).start + Length(g) <= Row(i).start
      BY <3>4, <3>5 DEF Ahead, Length
    <3>7. /\ Row(g).start \in Int /\ Length(g) \in Int /\ Row(i).start \in Int
      <4>1. /\ prepared[g].row.start \in Nat /\ Layout[prepared[g].row.id].length \in Nat \ {0}
            /\ prepared[i].row.start \in Nat
        BY <3>2, RowsAre
      <4> QED
        BY <4>1 DEF Row, Length
    <3>8. out'[k].at \in Int /\ Row(i).start <= out'[k].at /\ out'[j] = out[j]
      BY <1>5, <1>8, <2>3
    <3>9. PICK x \in Int, y \in Int, a \in Int, l \in Int, z \in Int :
            /\ x = out'[j].at /\ y = out'[k].at /\ a = Row(g).start /\ l = Length(g)
            /\ z = Row(i).start
      BY <3>1, <3>7, <3>8
    <3>10. x < a + l /\ a + l <= z /\ z <= y
      BY <3>1, <3>6, <3>8, <3>9
    <3>11. x < y
      BY <3>10
    <3> QED
      BY <3>9, <3>11, Zenon
  <2>4. ASSUME NEW h \in 1 .. m, k = n + h, NEW g \in 1 .. m, j = n + g
        PROVE  out'[j].at < out'[k].at
    <3>1. g < h
      BY <1>7, <2>1, <2>4
    <3>2. Row(i).start \in Int
      <4>1. prepared[i].row.start \in Nat
        BY <1>2, RowsAre
      <4> QED
        BY <4>1 DEF Row
    <3>3. out'[j].at = Row(i).start + from + g - 1 /\ out'[k].at = Row(i).start + from + h - 1
      BY <1>5, <1>8, <2>4
    <3>4. PICK z \in Int : z = Row(i).start
      BY <3>2
    <3>5. g \in Int /\ h \in Int /\ z + from + g - 1 < z + from + h - 1
      BY <3>1
    <3> QED
      BY <3>3, <3>4, <3>5
  <2> QED
    BY <1>9, <2>2, <2>3, <2>4
<1>14. Covered'
  <2>1. ASSUME NEW j \in 1 .. i, NEW k \in 0 .. Held(j) - 1, Owed(j, k)
        PROVE  \E e \in 1 .. n + m : /\ out'[e].stream = Row(j).stream
                                     /\ out'[e].at = Row(j).start + k
    <3>2. CASE j \in 1 .. reached
      <4>1. PICK e \in 1 .. n : out[e].stream = Row(j).stream /\ out[e].at = Row(j).start + k
        BY <1>8, <2>1, <3>2 DEF Sent, Covered
      <4>2. e \in 1 .. n + m
        BY <1>7
      <4> QED
        BY <1>8, <4>1, <4>2
    <3>3. CASE j = i
      <4>1. from <= k /\ k < from + m
        BY <1>3, <2>1, <3>3 DEF Contributes
      <4>2. PICK h \in 1 .. m : h = k - from + 1
        BY <4>1
      <4>3. Row(i).start \in Int
        <5>1. prepared[i].row.start \in Nat
          BY <1>2, RowsAre
        <5> QED
          BY <5>1 DEF Row
      <4>4. k \in Int
        OBVIOUS
      <4>5. Row(i).start + from + h - 1 = Row(i).start + k
        BY <4>2, <4>3, <4>4
      <4>6. n + h \in 1 .. n + m
        BY <1>7
      <4>7. out'[n + h].stream = Row(j).stream /\ out'[n + h].at = Row(j).start + k
        BY <1>5, <1>8, <3>3, <4>5
      <4> QED
        BY <4>6, <4>7
    <3> QED
      BY <1>10, <3>2, <3>3
  <2>2. SUFFICES ASSUME NEW j \in 1 .. reached', NEW k \in 0 .. Held(j)' - 1, Owed(j, k)'
                 PROVE  \E e \in DOMAIN out' : /\ out'[e].stream = Row(j)'.stream
                                               /\ out'[e].at = Row(j)'.start + k
    BY DEF Covered
  <2>3. Row(j)' = Row(j) /\ Held(j)' = Held(j) /\ (Owed(j, k)' <=> Owed(j, k)) /\ j \in 1 .. i
    BY <1>10, <1>11
  <2>4. j \in 1 .. i /\ k \in 0 .. Held(j) - 1 /\ Owed(j, k)
    BY <2>2, <2>3
  <2>5. PICK e \in 1 .. n + m : out'[e].stream = Row(j).stream /\ out'[e].at = Row(j).start + k
    BY <2>1, <2>4
  <2>6. e \in DOMAIN out'
    BY <1>8
  <2>7. out'[e].stream = Row(j)'.stream /\ out'[e].at = Row(j)'.start + k
    BY <2>3, <2>5
  <2> QED
    BY <2>6, <2>7
<1>15. Spared'
  BY <1>1, <1>3, <1>7, <1>8, <1>11 DEF Spared, Contributes
<1>16. Trimmed'
  <2>1. SUFFICES ASSUME AllFull, OneStream, NEW k \in 1 .. n + m
                 PROVE  Within(out'[k].at)
    BY <1>8, <1>11 DEF Trimmed
  <2>2. CASE k \in 1 .. n
    BY <1>8, <2>1, <2>2 DEF Sent, Trimmed
  <2>3. ASSUME NEW h \in 1 .. m, k = n + h
        PROVE  Within(out'[k].at)
    <3>1. Within(Row(i).start + from + h - 1)
      BY <1>3, <2>1 DEF Contributes
    <3>2. out'[k].at = Row(i).start + from + h - 1
      BY <1>5, <1>8, <2>3
    <3> QED
      BY <3>1, <3>2
  <2> QED
    BY <1>9, <2>2, <2>3
<1>17. Shown'
  <2>1. SUFFICES ASSUME AllFull, ~stamp, NEW j \in 1 .. i
                 PROVE  \E k \in 1 .. n + m : out'[k].stream = Row(j).stream
    BY <1>8, <1>10, <1>11 DEF Shown
  <2>2. CASE j \in 1 .. reached
    <3>1. PICK k \in 1 .. n : out[k].stream = Row(j).stream
      BY <1>8, <2>1, <2>2 DEF Sent, Shown
    <3>2. k \in 1 .. n + m
      BY <1>7
    <3> QED
      BY <1>8, <3>1, <3>2
  <2>3. CASE j = i
    <3>1. 1 \in 1 .. m /\ n + 1 \in 1 .. n + m
      <4>1. m > 0
        BY <1>3, <2>1 DEF Contributes
      <4> QED
        BY <1>7, <4>1
    <3>2. out'[n + 1].stream = Row(i).stream
      BY <1>5, <1>8, <3>1
    <3> QED
      BY <2>3, <3>1, <3>2
  <2> QED
    BY <1>10, <2>2, <2>3
<1> QED
  BY <1>12, <1>13, <1>14, <1>15, <1>16, <1>17 DEF Sent

LEMMA SentKept ==
  ASSUME ReadsBack, Apart, IInv, Queried, Cut, Clocks, Written, Stages, Queue, Sent, IInv', Stages',
         [Next]_vars
  PROVE  Sent'
<1> USE DEF Early, Before
<1>1. CASE pc' \in Early \cup Before
  <2>1. out' = <<>> /\ reached' = 0
    BY <1>1 DEF IInv, Join, Stages
  <2> QED
    BY <2>1, NothingSent
<1>2. CASE Chunk /\ reached' # reached
  <2>1. /\ pc = "reading" /\ reached + 1 <= Len(prepared) /\ reached' = reached + 1
        /\ out' = out \o Contribution(reached + 1)
        /\ UNCHANGED <<prepared, request, clip, stamp, writing, content>>
    BY <1>2 DEF Chunk, inputVars, diskVars
  <2> QED
    BY <2>1, ChunkSends DEF Clocks
<1>3. CASE pc' \notin Early \cup Before /\ (Chunk => reached' = reached)
  <2> DEFINE Same == UNCHANGED <<prepared, request, clip, stamp, writing, out, reached>>
  <2>1. CASE Same
    <3>1. \A j \in DOMAIN prepared : prepared[j].row.id \in Ids
      BY DEF IInv, Inputs
    <3>2. \A i \in Ids : Holds(i)' = Holds(i)
      BY WrittenKept DEF IInv
    <3>3. 1 .. reached \subseteq DOMAIN prepared
      BY DEF IInv, Inputs, Join
    <3> QED
      BY <2>1, <3>1, <3>2, <3>3, SameSent
  <2>2. Same \/ (out' = <<>> /\ reached' = 0)
    <3>1. CASE Query \/ Look \/ Compare \/ Prepared \/ Probe \/ MakeScratch
      <4>1. pc \in Early \cup Before /\ UNCHANGED <<out, reached>>
        BY <3>1 DEF Query, Look, Compare, Prepared, Probe, MakeScratch, joinVars
      <4>2. out = <<>> /\ reached = 0
        BY <4>1 DEF IInv, Join, Stages
      <4> QED
        BY <4>1, <4>2
    <3>2. CASE CompareFails \/ ProbeFails \/ WriteList \/ Spawn \/ SpawnFails
      BY <3>2 DEF CompareFails, ProbeFails, WriteList, Spawn, SpawnFails, Fail, diskVars,
         inputVars, joinVars
    <3>3. CASE EndOfFile \/ Stalled \/ Waited \/ Clean \/ RemoveScratch \/ Finalised
      BY <3>3 DEF EndOfFile, Stalled, Waited, Clean, RemoveScratch, Finalised, diskVars,
         inputVars, joinVars
    <3>4. CASE OrphanMakes \/ OrphanPrepares \/ OrphanLists
      BY <3>4 DEF OrphanMakes, OrphanPrepares, OrphanLists, diskVars, inputVars, joinVars
    <3>5. CASE Chunk \/ Breaks \/ Taken
      <4>1. reached \in Nat /\ reached + 1 # reached
        BY DEF IInv, Join, Inputs
      <4>2. CASE Chunk
        <5>1. UNCHANGED <<prepared, request, clip, stamp, writing>>
          BY <4>2 DEF Chunk, diskVars, inputVars
        <5>2. reached' = reached /\ (reached' = reached + 1 \/ out' = out)
          BY <1>3, <4>2 DEF Chunk
        <5>3. out' = out
          BY <4>1, <5>2
        <5> QED
          BY <5>1, <5>2, <5>3
      <4>3. CASE Breaks \/ Taken
        BY <4>3 DEF Breaks, Taken, diskVars, inputVars, joinVars
      <4> QED
        BY <3>5, <4>2, <4>3
    <3>6. CASE Leaves \/ Writes \/ UNCHANGED vars
      BY <3>6 DEF Leaves, Writes, vars, diskVars, inputVars, joinVars
    <3>7. ASSUME NEW i \in there, Deleted(i)
          PROVE  Same
      BY <3>7 DEF Deleted, inputVars, joinVars
    <3>8. ASSUME NEW r \in Requests, Ask(r)
          PROVE  FALSE
      BY <1>3, <3>8 DEF Ask
    <3> HIDE DEF Same
    <3> QED
      BY <3>1, <3>2, <3>3, <3>4, <3>5, <3>6, <3>7, <3>8 DEF Next, Step
  <2> QED
    BY <2>1, <2>2, NothingSent
<1> QED
  BY <1>1, <1>2, <1>3

LEMMA Delivery ==
  ASSUME ReadsBack, IInv, Queried, Clocks, Written, Stages, Queue, Sent
  PROVE  DeliversTheRange
<1> DEFINE joined   == {prepared[i].row : i \in DOMAIN prepared}
           wanted   == {r \in rows : /\ r.id \in there
                                     /\ \/ r.stream = request.stream
                                        \/ request.stream = AnyStream /\ ~request.stamp}
           sent(s)  == {out[k].at : k \in {j \in DOMAIN out : out[j].stream = s}}
           intact   == \A r \in joined : content[r.id] = Whole(Layout[r.id].length)
           streams  == {out[k].stream : k \in DOMAIN out}
<1>1. SUFFICES ASSUME end = "whole"
               PROVE  /\ \A r \in joined \cup wanted : \A t \in Footage(r.id) :
                           Asked(t) /\ t < r.end => t \in sent(r.stream)
                      /\ \A j, k \in DOMAIN out :
                           j < k /\ out[j].stream = out[k].stream => out[j].at < out[k].at
                      /\ intact /\ Cardinality(streams) = 1 => \A k \in DOMAIN out : Within(out[k].at)
                      /\ request.stamp => Cardinality(streams) <= 1
  BY DEF DeliversTheRange, Within
<1>2. /\ segments = <<>> /\ prepared # <<>> /\ reached = Len(prepared) /\ pc \in Ending
      /\ pc # "idle" /\ Serving
  BY <1>1 DEF Stages, Serving, Ending
<1>3. PICK N \in Nat : /\ N = Len(prepared) /\ DOMAIN prepared = 1 .. N /\ reached = N
                       /\ \A j \in 1 .. N : prepared[j].row \in Scans /\ Row(j) = prepared[j].row
  BY <1>2, RowsAre DEF Row
<1>4. ASSUME NEW r \in joined \cup wanted, NEW t \in Footage(r.id), Asked(t), t < r.end
      PROVE  t \in sent(r.stream)
  <2>1. r \in Scans
    BY <1>3, <1>4 DEF Queried
  <2>2. /\ r.id \in Ids /\ r.start = Layout[r.id].began /\ r.start \in Nat /\ r.end \in Nat
        /\ Layout[r.id].length \in Nat \ {0}
        /\ r.end = r.start + (IF r.id = writing THEN Layout[r.id].length - 1
                                                ELSE Layout[r.id].length)
    BY <2>1, ScanFacts
  <2>3. PICK k \in 0 .. Secs(r.id) - 1 : t = r.start + k
    BY <1>4, <2>2 DEF Footage, Secs
  <2>4. Secs(r.id) \in Nat /\ Holds(r.id) \in Nat
    BY <2>2 DEF Written
  <2>5. k \in 0 .. Holds(r.id) - 1
    <3>1. CASE r.id = writing
      <4>1. k < Layout[r.id].length - 1 /\ Holds(r.id) = Layout[r.id].length - 1
        BY <1>4, <2>2, <2>3, <3>1 DEF Holds
      <4> QED
        BY <2>2, <2>3, <4>1
    <3>2. CASE r.id # writing
      BY <2>3, <3>2 DEF Holds
    <3> QED
      BY <3>1, <3>2
  <2>6. PICK j \in 1 .. N : Row(j) = r
    <3>1. CASE r \in joined
      BY <1>3, <3>1
    <3>2. CASE r \in wanted
      <4>1. Holds(r.id) > 0
        BY <2>4, <2>5
      <4>2. r.start < request.to /\ r.end > request.from
        <5>1. /\ request.from <= t /\ t < request.to /\ t < r.end
              /\ request.from \in Nat /\ request.to \in Nat
          BY <1>2, <1>4, RowsAre DEF Asked
        <5>2. t \in Int /\ r.start <= t
          BY <2>2, <2>3
        <5> QED
          BY <2>2, <5>1, <5>2
      <4>3. Wanted(r) /\ r \in rows
        BY <3>2, <4>1, <4>2 DEF Wanted
      <4>4. DOMAIN segments = {}
        BY <1>2
      <4>5. \E h \in DOMAIN prepared : prepared[h].row = r
        BY <1>2, <4>3, <4>4 DEF Queue
      <4> QED
        BY <1>3, <4>5
    <3> QED
      BY <1>4, <3>1, <3>2
  <2>7. Owed(j, k)
    BY <1>4, <2>3, <2>6 DEF Owed
  <2>8. j \in 1 .. reached /\ k \in 0 .. Held(j) - 1
    BY <1>3, <2>5, <2>6 DEF Held
  <2>9. PICK e \in DOMAIN out : out[e].stream = Row(j).stream /\ out[e].at = Row(j).start + k
    BY <2>7, <2>8 DEF Sent, Covered
  <2> QED
    BY <2>3, <2>6, <2>9
<1>5. \A j, k \in DOMAIN out : j < k /\ out[j].stream = out[k].stream => out[j].at < out[k].at
  BY DEF Sent, Ascending
<1>6. request.stamp => OneStream
  BY <1>2 DEF Queue, OneStream, Row
<1>7. \A k \in DOMAIN out : \E j \in 1 .. N : out[k].stream = Row(j).stream
  BY <1>3 DEF Sent, Placed
<1>8. ASSUME intact
      PROVE  AllFull
  <2>1. SUFFICES ASSUME NEW j \in 1 .. N
                 PROVE  Row(j).id # writing /\ Held(j) = Length(j)
    BY <1>3 DEF AllFull
  <2>2. PICK i \in Ids, n \in Nat \ {0} : /\ i = Row(j).id /\ n = Layout[i].length
                                          /\ content[i] = Whole(n)
    <3>1. Row(j) \in joined /\ Row(j) \in Scans
      BY <1>3
    <3>2. Row(j).id \in Ids /\ Layout[Row(j).id].length \in Nat \ {0}
      BY <3>1, ScanFacts
    <3> QED
      BY <1>8, <3>1, <3>2
  <2>3. n \in Nat /\ n <= Secs(i) /\ FileSize(content[i]) = 2 * n + 3
    BY <2>2, WholeHas DEF Secs
  <2>4. i # writing
    <3>1. SUFFICES ASSUME i = writing
                   PROVE  FALSE
      OBVIOUS
    <3>2. i # 0
      BY LayoutAssumption DEF Ids
    <3>3. Grows(content[i], n)
      BY <2>2, <3>1, <3>2 DEF Written
    <3> QED
      BY <2>3, <3>3 DEF Grows
  <2>5. Secs(i) \in Nat /\ Secs(i) <= n
    BY <2>2 DEF Written
  <2>6. Held(j) = Secs(i) /\ Length(j) = n
    BY <2>2, <2>4 DEF Held, Holds, Length
  <2> QED
    BY <2>2, <2>3, <2>4, <2>5, <2>6
<1>9. ASSUME intact, Cardinality(streams) = 1, NEW k \in DOMAIN out
      PROVE  Within(out[k].at)
  <2>1. AllFull
    BY <1>8, <1>9
  <2>2. OneStream
    <3>1. CASE request.stamp
      BY <1>6, <3>1
    <3>2. CASE ~request.stamp
      <4>1. ~stamp
        BY <1>2, <3>2 DEF Queue
      <4>2. \A j \in 1 .. N : Row(j).stream \in streams
        BY <1>3, <2>1, <4>1 DEF Sent, Shown
      <4>3. IsFiniteSet(DOMAIN out)
        <5>1. PICK S : out \in Seq(S)
          BY DEF Clocks
        <5>2. DOMAIN out = 1 .. Len(out) /\ Len(out) \in Nat
          BY <5>1
        <5> QED
          BY <5>2, FS_Interval
      <4>4. IsFiniteSet(streams)
        <5>1. [h \in DOMAIN out |-> out[h].stream] \in Surjection(DOMAIN out, streams)
          BY DEF Surjection
        <5> HIDE DEF streams
        <5> QED
          BY <4>3, <5>1, FS_Surjection
      <4>5. \E s : streams = {s}
        <5> HIDE DEF streams
        <5> QED
          BY <1>9, <4>4, FS_Singleton
      <4> HIDE DEF streams
      <4> QED
        BY <1>3, <4>2, <4>5 DEF OneStream
    <3> QED
      BY <3>1, <3>2
  <2> QED
    BY <1>9, <2>1, <2>2 DEF Sent, Trimmed
<1>10. ASSUME request.stamp
       PROVE  Cardinality(streams) <= 1
  <2>1. PICK s : s = Row(1).stream
    OBVIOUS
  <2>2. 1 \in 1 .. N
    BY <1>2, <1>3 DEF IInv, Inputs
  <2>3. \A j \in 1 .. N : Row(j).stream = s
    BY <1>3, <1>6, <1>10, <2>1, <2>2 DEF OneStream
  <2>4. streams \in SUBSET {s}
    BY <1>7, <2>3
  <2>5. IsFiniteSet({s}) /\ Cardinality({s}) = 1
    BY FS_Singleton
  <2> HIDE DEF streams
  <2>6. Cardinality(streams) <= Cardinality({s})
    BY <2>4, <2>5, FS_Subset
  <2> QED
    BY <2>5, <2>6
<1> HIDE DEF joined, wanted, sent, intact, streams
<1> QED
  BY <1>4, <1>5, <1>9, <1>10

(* A download that ends as a whole has every second of the range that the  *)
(* index knew of and whose file was still there, in order and each once,   *)
(* and, of one intact stream, nothing behind the range, and before it only *)
(* what a raw cut takes from the last keyframe on: also when files go or   *)
(* grow while it is prepared and joined.  Names must be told apart by how  *)
(* long a segment is, and the segments of a stream must not overlap.       *)
THEOREM DownloadsAreWhole ==
  ASSUME ReadsBack, Apart
  PROVE  Spec => []DeliversTheRange
<1> DEFINE Inv == /\ IInv /\ Queried /\ Cut /\ Clocks
                  /\ Written /\ Stages /\ Queue /\ Sent
<1>1. Init => Inv
  <2>1. SUFFICES ASSUME Init
                 PROVE  Written /\ Stages /\ Queue /\ Sent
    BY AtStart, ClockAtStart
  <2>2. Written
    BY <2>1, WrittenAtStart
  <2>3. pc = "idle" /\ end = "none" /\ leftAt = "none" /\ out = <<>> /\ reached = 0 /\ prepared = <<>>
    BY <2>1 DEF Init
  <2>4. Stages
    BY <2>3 DEF Stages, Early, Before, Chosen, Joining, Ending
  <2>5. Queue
    BY <2>3 DEF Queue, Serving
  <2>6. Sent
    BY <2>3 DEF Sent, Placed, Ascending, Covered, Spared, Trimmed, Shown
  <2> QED
    BY <2>2, <2>4, <2>5, <2>6
<1>2. Inv /\ [Next]_vars => Inv'
  <2>1. SUFFICES ASSUME Inv, [Next]_vars
                 PROVE  Inv'
    OBVIOUS
  <2>2. IInv' /\ Queried' /\ Cut' /\ Clocks'
    BY <2>1, DiskKept, ScratchKept, JoinKept, InputsKept, QueriedKept, CutKept, ClocksKept DEF IInv
  <2>3. Written'
    BY <2>1, WrittenKept DEF IInv
  <2>4. Stages'
    BY <2>1, StagesKept
  <2>5. Queue'
    BY <2>1, QueueKept
  <2>6. Sent'
    BY <2>1, <2>2, <2>4, SentKept
  <2> QED
    BY <2>2, <2>3, <2>4, <2>5, <2>6
<1>3. Inv => DeliversTheRange
  BY Delivery
<1> QED
  BY <1>1, <1>2, <1>3, PTL DEF Spec
=============================================================================
