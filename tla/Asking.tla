-------------------------------- MODULE Asking --------------------------------
(***************************************************************************)
(* One camera's analyses seen from the model's side (vision/, with the     *)
(* questions of core/observations.py, the people of core/persons.py, the   *)
(* pictures of core/references.py and the boxes of core/marks.py): what is *)
(* asked, over which connection, what may come back, and what of it        *)
(* reaches the sensors, the presence of people and the picture, while the  *)
(* configuration changes.  VisionRunner has the limits around an analysis, *)
(* of which one is under way at a time.                                    *)
(*                                                                         *)
(* A field is a question's key or a person's id; the underscore before the *)
(* latter keeps the two apart.  Of the value of a field matters its form,  *)
(* the word it is, without case and blanks, and the number it can be read  *)
(* as.  Other texts, prompts, models and pictures' content are left out.   *)
(***************************************************************************)
EXTENDS Integers, Sequences, SequencesExt, FiniteSets

CONSTANTS
  Questions,     \* in the order of the profile
  minimum, maximum, Options,
  ADHOC_KEY,     \* the key of a question of the moment
  PersonOrder,   \* the persons' ids, in the order of the configuration
  Pictures,      \* how many of each question and person there are
  Setups,        \* [kind, type, enabled, people, detect_persons, mark_objects,
                 \*  marks_model, baseline]; type is that of every question
  MAX_PICTURES_PER_REQUEST, MAX_MARKS, MARK_COORD_MAX,
  Values,        \* [form, word, number]; form is "boolean", "number", "text",
                 \* "null" or another
  Words,         \* what a name consists of, beside numbers
  ObjectLists,   \* what the model may name: sequences of names
  Boxes,         \* corners a model may claim for something, or NoBox
  Claims,        \* the boxes a model may claim at once: sequences of Boxes
  MayBeMissing,  \* pictures whose file may be gone
  MaxRuns        \* bound on analyses

NoNumber == -999
Infinite == 999      \* 1e999, which json.loads reads as a float
NoBox == <<>>
Blank == <<>>        \* a name with nothing in it

QuestionKeys == ToSet(Questions)
PersonIds == ToSet(PersonOrder)
Fields == QuestionKeys \cup PersonIds \cup {ADHOC_KEY}

(* A name, and a box as a model may claim it: four numbers or no box at all *)
Name == Seq(Words \cup Nat)
Box == {NoBox} \cup [1 .. 4 -> Int]

(* Keys do not repeat in a profile, nor ids among the people. *)
ASSUME FieldsAssumption ==
  /\ Questions \in Seq(QuestionKeys) /\ IsInjective(Questions)
  /\ PersonOrder \in Seq(PersonIds) /\ IsInjective(PersonOrder)
  /\ PersonIds \cap (QuestionKeys \cup {ADHOC_KEY}) = {}
  /\ "baseline" \notin Fields
ASSUME RangeAssumption == minimum \in Int /\ maximum \in Int /\ minimum < maximum
ASSUME BudgetAssumption ==
  /\ {MAX_PICTURES_PER_REQUEST, MAX_MARKS} \subseteq Nat \ {0}
  /\ MARK_COORD_MAX \in Nat
  /\ \A f \in QuestionKeys \cup PersonIds : Pictures[f] \in Nat
ASSUME SetupsAssumption ==
  \A s \in Setups :
    /\ s.enabled \subseteq QuestionKeys /\ s.people \subseteq PersonIds
    /\ s.type \in [QuestionKeys -> {"boolean", "number", "select", "text"}]
ASSUME AnswersAssumption ==
  /\ \A v \in Values : v.number \in Int /\ (v.form = "null" => v.number = NoNumber)
  /\ ObjectLists \subseteq Seq(Name)
  /\ Boxes \subseteq Box /\ Claims \subseteq Seq(Box)

VARIABLES
  setup,     \* the profile, the people and the backend in the configuration
  pc,        \* "idle", "ask" or "locate"
  request,   \* the analysis under way, or the last one
  heard,     \* <<the fields the model answered with>>, or <<>>
  names,     \* what the second request asks to locate
  claimed,   \* the entries of the field _marks
  outcome,   \* "none", "answered", "failed", or "raised": no VisionError
  result,    \* the VisionResult
  sensors,   \* the values of the VisionState
  runs

answerVars == <<heard, names, claimed>>
askingVars == <<setup, pc, request, answerVars, outcome, result, sensors, runs>>

NothingFound == [values |-> <<>>, problems |-> {}, persons |-> <<>>, marks |-> <<>>]

-----------------------------------------------------------------------------
(* What is asked *)

Asked(keys, people) == keys \cup people

(* analysis_fields: the questions of the moment, or those of the profile   *)
(* that are not paused, and the people                                     *)
analysis_fields(s, adhoc, people) ==
  Asked(IF adhoc THEN {ADHOC_KEY} ELSE QuestionKeys \cap s.enabled, people)

people_asked(s, adhoc, check) ==
  IF (s.detect_persons /\ ~adhoc) \/ (adhoc /\ check) THEN s.people ELSE {}

(* Where the objects are: nowhere, asked of the same model, or of another *)
marks_wanted(s, adhoc) ==
  IF ~s.mark_objects \/ adhoc THEN "no"
  ELSE IF s.marks_model THEN "split" ELSE "same"

asks_model(s, fields, marks) == fields # {} \/ (marks # "no" /\ s.kind = "openai")

Ring(of) == [i \in 1 .. Pictures[of] |-> [of |-> of, n |-> i]]

AtMost(pictures, n) == SubSeq(pictures, 1, IF Len(pictures) < n THEN Len(pictures) ELSE n)

plan_baseline(s) == IF s.baseline THEN <<[of |-> "baseline", n |-> 1]>> ELSE <<>>

(* Those of the chosen ones, in the given order *)
PicturesOf(order, chosen) ==
  FlattenSeq([i \in DOMAIN order |-> IF order[i] \in chosen THEN Ring(order[i]) ELSE <<>>])

plan_pictures(s) == AtMost(PicturesOf(Questions, s.enabled), MAX_PICTURES_PER_REQUEST - 1)

plan_person_pictures(people) == PicturesOf(PersonOrder, people)

(* Faulty variant: what the profile carries, whoever asks *)
PlanOfProfile(s, adhoc, people) ==
  plan_baseline(s) \o plan_pictures(s) \o plan_person_pictures(people)

plan(s, adhoc, people) ==
  IF adhoc THEN plan_person_pictures(people)
  ELSE plan_baseline(s) \o plan_pictures(s) \o plan_person_pictures(people)

Without(s, gone) ==
  FlattenSeq([i \in DOMAIN s |-> IF s[i] \in gone THEN <<>> ELSE <<s[i]>>])

(* What fits beside the frame, as far as its file is there *)
load_planned(planned, missing) ==
  Without(AtMost(planned, MAX_PICTURES_PER_REQUEST - 1), missing)

-----------------------------------------------------------------------------
(* What an answer means *)

TypeOf(r, f) ==
  IF f \in PersonIds THEN "boolean"
  ELSE IF r.adhoc THEN "text" ELSE r.asked_under.type[f]

Clamp(n) == IF n < minimum THEN minimum ELSE IF n > maximum THEN maximum ELSE n

YesWords == {"true", "yes", "ja", "1"}
NoWords == {"false", "no", "nein", "0"}

(* coerce_answer: whether a value can be used, what it then stands for,    *)
(* and the one that is neither used nor refused: round(inf) overflows.     *)
(* An answer is a pair, of its type and what it says.                      *)
Usable(type, v) ==
  CASE type = "boolean" -> \/ v.form \in {"boolean", "number"}
                           \/ v.form = "text" /\ v.word \in YesWords \cup NoWords
    [] type = "number" -> v.number # NoNumber
    [] type = "select" -> v.form = "text" /\ v.word \in Options
    [] type = "text" -> v.form # "null"

Overflows(type, v) == type = "number" /\ v.number = Infinite

coerce_answer(type, v) ==
  <<type, CASE type = "boolean" -> IF v.form = "text" THEN v.word \in YesWords ELSE v.number # 0
            [] type = "number" -> Clamp(v.number)
            [] type \in {"select", "text"} -> v.word>>

coerce_answers(r, raw) ==
  [f \in {g \in r.fields \cap DOMAIN raw : Usable(TypeOf(r, g), raw[g])} |->
     coerce_answer(TypeOf(r, f), raw[f])]

-----------------------------------------------------------------------------
(* Names and boxes *)

(* Faulty variant: a repeated name becomes the second of its kind. *)
AlwaysSecond(taken, name) == name \o <<2>>

NextFree(taken, name) ==
  name \o <<CHOOSE c \in 2 .. Len(taken) + 2 :
              /\ name \o <<c>> \notin ToSet(taken)
              /\ \A d \in 2 .. c - 1 : name \o <<d>> \in ToSet(taken)>>

(* parse_object_names: repeated names are numbered, not dropped. *)
TakeName(taken, name) ==
  IF name = Blank \/ Len(taken) = MAX_MARKS THEN taken
  ELSE Append(taken, IF name \in ToSet(taken) THEN NextFree(taken, name) ELSE name)

parse_object_names(objects) == FoldLeft(TakeName, <<>>, objects)

Clip(x) == IF x < 0 THEN 0 ELSE IF x > MARK_COORD_MAX THEN MARK_COORD_MAX ELSE x
Low(a, b) == IF a < b THEN a ELSE b
High(a, b) == IF a < b THEN b ELSE a

(* Corners in the frame, in their order *)
Upright(b) ==
  LET c == [i \in DOMAIN b |-> Clip(b[i])] IN
  <<Low(c[1], c[3]), Low(c[2], c[4]), High(c[1], c[3]), High(c[2], c[4])>>

Drawable(b) == b # NoBox /\ Upright(b)[1] < Upright(b)[3] /\ Upright(b)[2] < Upright(b)[4]

(* Faulty variant: a box is looked for among those kept as it was claimed. *)
SeenAsClaimed(kept, entry) == \E i \in DOMAIN kept : kept[i].box = entry.box

SeenBefore(kept, entry) == \E i \in DOMAIN kept : kept[i].box = Upright(entry.box)

KeepMark(kept, entry) ==
  IF Len(kept) = MAX_MARKS \/ ~Drawable(entry.box) \/ SeenBefore(kept, entry) THEN kept
  ELSE Append(kept, [label |-> entry.label, box |-> Upright(entry.box)])

parse_marks(entries) == FoldLeft(KeepMark, <<>>, entries)

(* int(inf), in an entry that is reached *)
BoxOverflows(entries) ==
  \E i \in DOMAIN entries :
    /\ Infinite \in ToSet(entries[i].box)
    /\ Len(parse_marks(SubSeq(entries, 1, i - 1))) < MAX_MARKS

-----------------------------------------------------------------------------

AskingInit ==
  /\ setup \in Setups
  /\ pc = "idle" /\ request = [fields |-> {}]
  /\ heard = <<>> /\ names = <<>> /\ claimed = <<>>
  /\ outcome = "none" /\ result = NothingFound
  /\ sensors = <<>> /\ runs = 0

(* A save; the analysis under way goes on with what it has read. *)
Configure ==
  /\ runs < MaxRuns
  /\ \E s \in Setups \ {setup} : setup' = s
  /\ UNCHANGED <<pc, request, answerVars, outcome, result, sensors, runs>>

(* The end of an analysis.  Values of an unknown key stay where they are.  *)
End(what, found) ==
  /\ pc' = "idle" /\ outcome' = what /\ result' = found

(* Faulty variant: the answer to a question of the moment is kept, too. *)
KeepsAll(adhoc, values) == [k \in DOMAIN values \cup DOMAIN sensors |->
  IF k \in DOMAIN values THEN values[k] ELSE sensors[k]]

SensorsWith(adhoc, values) ==
  IF adhoc THEN sensors
  ELSE [k \in DOMAIN values \cup DOMAIN sensors |->
          IF k \in DOMAIN values THEN values[k] ELSE sensors[k]]

(* async_analyse reads the answer, and the runner hands it on. *)
Conclude(raw, entries) ==
  LET r     == request
      all   == coerce_answers(r, raw)
      boxes == IF r.marks = "no" THEN <<>> ELSE entries
  IN
  IF BoxOverflows(boxes)
     \/ \E f \in r.fields \cap DOMAIN raw : Overflows(TypeOf(r, f), raw[f])
  THEN End("raised", NothingFound) /\ UNCHANGED sensors
  ELSE LET values == [f \in DOMAIN all \ PersonIds |-> all[f]] IN
       /\ End("answered",
              [values |-> values,
               problems |-> r.fields \ DOMAIN all,
               persons |-> [f \in DOMAIN all \cap PersonIds |-> all[f]],
               marks |-> parse_marks(boxes)])
       /\ sensors' = SensorsWith(r.adhoc, values)

(* An analysis begins: what it asks is read from the configuration, and    *)
(* its pictures are loaded.  With nothing to ask the frame is all.         *)
Begin(adhoc, check) ==
  LET people  == people_asked(setup, adhoc, check)
      fields  == analysis_fields(setup, adhoc, people)
      marks   == marks_wanted(setup, adhoc)
      planned == plan(setup, adhoc, people)
  IN
  /\ pc = "idle" /\ runs < MaxRuns /\ runs' = runs + 1
  /\ heard' = <<>> /\ names' = <<>> /\ claimed' = <<>>
  /\ \E missing \in SUBSET (ToSet(planned) \cap MayBeMissing) :
       request' = [fields |-> fields, adhoc |-> adhoc, check |-> check, kind |-> setup.kind,
                   marks |-> marks, asked_under |-> setup, missing |-> missing,
                   pictures |-> load_planned(planned, missing), retried |-> FALSE]
  /\ IF asks_model(setup, fields, marks)
     THEN pc' = "ask" /\ outcome' = "none" /\ result' = NothingFound
     ELSE End("answered", NothingFound)
  /\ UNCHANGED <<setup, sensors>>

(* _post_once_retried: a connection from the pool that turns out dead is   *)
(* replaced once.                                                          *)
Retry ==
  /\ pc \in {"ask", "locate"} /\ request.kind = "openai" /\ ~request.retried
  /\ request' = [request EXCEPT !.retried = TRUE]
  /\ UNCHANGED <<setup, pc, answerVars, outcome, result, sensors, runs>>

(* Unreachable, too late, refused, no completion, no JSON to be found in   *)
(* it, or something else than a set of fields: a VisionError.              *)
AskFails ==
  /\ pc = "ask"
  /\ End("failed", NothingFound)
  /\ UNCHANGED <<setup, request, answerVars, sensors, runs>>

(* A runner that enforces the schema answers every field and no other one; *)
(* Home Assistant refuses any other answer of an AI Task.                  *)
RawAnswers ==
  IF request.kind = "ai_task"
  THEN {raw \in [request.fields -> Values] :
          \A f \in request.fields :
            /\ Usable(TypeOf(request, f), raw[f])
            /\ TypeOf(request, f) = "number" => raw[f].number \in minimum .. maximum}
  ELSE UNION {[S -> Values] : S \in SUBSET Fields}

Entries(claims, label) == [i \in DOMAIN claims |-> [label |-> label, box |-> claims[i]]]

(* The model answers with a set of fields, as they are, fenced, or between *)
(* other words.  Where the objects are to be located by another model, the *)
(* same picture is sent there.  Boxes may come that were not asked for.    *)
Answer(raw, objects, claims) ==
  LET located == parse_object_names(objects) IN
  /\ heard' = <<raw>>
  /\ claimed' = Entries(claims, Blank)
  /\ IF request.marks = "split" /\ request.kind = "openai" /\ located # <<>>
     THEN /\ pc' = "locate" /\ names' = located
          /\ request' = [request EXCEPT !.retried = FALSE]
          /\ UNCHANGED <<outcome, result, sensors>>
     ELSE /\ Conclude(raw, claimed')
          /\ UNCHANGED <<names, request>>
  /\ UNCHANGED <<setup, runs>>

AskAnswered ==
  /\ pc = "ask"
  /\ \E raw \in RawAnswers,
        objects \in (IF request.marks = "split" THEN ObjectLists ELSE {<<>>}),
        claims \in (IF request.marks = "no" \/ request.kind = "ai_task"
                    THEN {<<>>} ELSE Claims) :
       Answer(raw, objects, claims)

(* What the grammar of grounding_schema lets a model say: some of the      *)
(* names, each with one box                                                *)
GroundingAnswers ==
  UNION {{SetToSeq({[label |-> names[i], box |-> box[i]] : i \in S}) : box \in [S -> Boxes]}
           : S \in SUBSET DOMAIN names}

(* _async_ground *)
Located ==
  /\ pc = "locate"
  /\ claimed' \in GroundingAnswers
  /\ Conclude(heard[1], claimed')
  /\ UNCHANGED <<setup, request, heard, names, runs>>

(* Faulty variant: what was answered goes with what was not located. *)
LosesTheAnswer == End("failed", NothingFound) /\ UNCHANGED sensors

WithoutMarks == Conclude(heard[1], claimed)

(* It fails, in any of the ways the first request can. *)
LocateFails ==
  /\ pc = "locate"
  /\ WithoutMarks
  /\ UNCHANGED <<setup, request, answerVars, runs>>

AskStep == Retry \/ AskFails \/ AskAnswered \/ Located \/ LocateFails

AskingNext ==
  \/ Configure \/ AskStep
  \/ Begin(FALSE, FALSE)
  \/ \E check \in BOOLEAN : Begin(TRUE, check)

AskingSpec == AskingInit /\ [][AskingNext]_askingVars
-----------------------------------------------------------------------------
(* Properties *)

AskingTypeOK ==
  /\ setup \in Setups /\ pc \in {"idle", "ask", "locate"}
  /\ request.fields \subseteq Fields
  /\ outcome \in {"none", "answered", "failed", "raised"}
  /\ DOMAIN sensors \subseteq QuestionKeys
  /\ pc = "locate" => heard # <<>> /\ request.marks = "split"

Ends == pc' = "idle" /\ (pc # "idle" \/ runs' # runs)

(* What an answer is for a field, put differently: of the numbers in the   *)
(* range the nearest one, the option or text as it came, and a yes only    *)
(* for TRUE, a word of assent or a number other than zero.                 *)
StandsFor(type, v, answer) ==
  LET Far(n, m) == IF n < m THEN m - n ELSE n - m
      value == answer[2]
  IN
  answer[1] = type /\
  CASE type = "number" ->
         /\ value \in minimum .. maximum /\ v.number # NoNumber
         /\ \A m \in minimum .. maximum : Far(value, v.number) <= Far(m, v.number)
    [] type = "boolean" ->
         value = (\/ v.form = "text" /\ v.word \in YesWords
                  \/ v.form \in {"boolean", "number"} /\ v.number # 0)
    [] type = "select" -> value = v.word /\ v.form = "text" /\ value \in Options
    [] OTHER -> value = v.word /\ v.form # "null"

(* What cannot be brought into the shape that was asked for without a      *)
(* guess: nothing, and what is no number, no option, or neither a yes nor  *)
(* a no, like the text of a number other than 0 and 1.                     *)
Unrecognisable(type, v) ==
  \/ v.form = "null"
  \/ type = "number" /\ v.number = NoNumber
  \/ type = "select" /\ (v.form = "text" => v.word \notin Options)
  \/ /\ type = "boolean" /\ v.form \notin {"boolean", "number"}
     /\ v.form = "text" => v.word \notin YesWords \cup NoWords

(* "The sensors keep their own answers": whatever a model volunteers, and  *)
(* however the configuration changed since, a sensor only ever changes to  *)
(* what its own question was answered with just now, by a request of the   *)
(* profile it was part of when that began; and only people who were then   *)
(* enabled, and asked for, are reported, and seen only on a yes to them.   *)
OnlyWhatWasAsked ==
  [][LET s == request.asked_under IN
     /\ \A q \in DOMAIN sensors' :
          \/ q \in DOMAIN sensors /\ sensors'[q] = sensors[q]
          \/ /\ Ends /\ ~request.adhoc /\ q \in s.enabled
             /\ q \in DOMAIN heard'[1]
             /\ StandsFor(s.type[q], heard'[1][q], sensors'[q])
     /\ DOMAIN sensors \subseteq DOMAIN sensors'
     /\ \A p \in DOMAIN result'.persons \ DOMAIN result.persons :
          /\ p \in s.people /\ (IF request.adhoc THEN request.check ELSE s.detect_persons)
          /\ StandsFor("boolean", heard'[1][p], result'.persons[p])]_askingVars

(* "A model getting one field wrong must not discard the others", and what *)
(* cannot be located or drawn is "decoration on top": once a model has     *)
(* answered with fields, the analysis succeeds, every field it answered    *)
(* usably has its value, and every other one is reported as a problem.     *)
(* (All but a number or a corner beyond every float, which costs them all.)*)
AnswersStand ==
  [][Ends /\ heard' # <<>> =>
       LET endless  ==
             \/ \E f \in request.fields \cap DOMAIN heard'[1] :
                  TypeOf(request, f) = "number" /\ heard'[1][f].number = Infinite
             \/ \E i \in DOMAIN claimed' : Infinite \in ToSet(claimed'[i].box)
           answered == DOMAIN result'.values \cup DOMAIN result'.persons
       IN ~endless =>
       /\ outcome' = "answered"
       /\ result'.problems = request.fields \ answered
       /\ \A f \in request.fields \cap DOMAIN heard'[1] :
            f \in answered <=> ~Unrecognisable(TypeOf(request, f), heard'[1][f])]_askingVars

(* x is c, or the end of the frame beyond which c is. *)
InFrame(x, c) ==
  /\ x \in 0 .. MARK_COORD_MAX
  /\ x = c \/ (x = 0 /\ c < 0) \/ (x = MARK_COORD_MAX /\ c > x)

(* The box has the claimed corners, in whatever order, as far as they are  *)
(* in the frame.                                                           *)
Same(box, b) ==
  /\ b # NoBox
  /\ \/ InFrame(box[1], b[1]) /\ InFrame(box[3], b[3])
     \/ InFrame(box[1], b[3]) /\ InFrame(box[3], b[1])
  /\ \/ InFrame(box[2], b[2]) /\ InFrame(box[4], b[4])
     \/ InFrame(box[2], b[4]) /\ InFrame(box[4], b[2])

(* The marks that are drawn lie in the frame, none is there twice or       *)
(* without an extent, there are not too many, and each is one the model    *)
(* claimed; left out are only copies, what cannot be drawn, and what       *)
(* exceeds the number.  (Everything also has its type.)                    *)
MarksFit ==
  LET kept == result.marks IN
  /\ AskingTypeOK
  /\ Len(kept) <= MAX_MARKS
  /\ \A i \in DOMAIN kept :
       LET box == kept[i].box IN
       /\ box[1] < box[3] /\ box[2] < box[4]
       /\ \E j \in DOMAIN claimed : Same(box, claimed[j].box)
       /\ \A j \in DOMAIN kept : kept[j].box = box => j = i
  /\ outcome = "answered" /\ request.marks # "no" /\ Len(kept) < MAX_MARKS =>
       \A j \in DOMAIN claimed :
         Drawable(claimed[j].box) => \E i \in DOMAIN kept : Same(kept[i].box, claimed[j].box)

(* "Each instance keeps its own grounding slot": as many names are to be   *)
(* located as objects were named, up to the most there may be, and no two  *)
(* of them are the same, not even where a model numbers them itself.       *)
OneSlotEach ==
  [][pc = "ask" /\ pc' = "locate" =>
       /\ \A i, j \in DOMAIN names' : names'[i] = names'[j] => i = j
       /\ \E objects \in ObjectLists :
            LET named == Without(objects, {Blank}) IN
            /\ Len(names') = Low(Len(named), MAX_MARKS)
            /\ \A i \in DOMAIN names' : IsPrefix(named[i], names'[i])]_askingVars

(* A question of the moment carries pictures of nobody and nothing it does *)
(* not ask about, an analysis those of its questions that are not paused;  *)
(* never more than fit beside the frame; and a picture is only left out    *)
(* for those planned before it, or because its file is missing.            *)
PicturesBelong ==
  outcome # "none" \/ pc # "idle" =>
    LET r    == request
        room == MAX_PICTURES_PER_REQUEST - 1
        fits == Len(r.pictures) + Cardinality(r.missing) < room
        whole == UNION {{[of |-> f, n |-> i] : i \in 1 .. Pictures[f]} :
                          f \in r.fields \ (IF r.adhoc THEN {ADHOC_KEY} ELSE {})}
    IN
    /\ Len(r.pictures) <= room
    /\ \A i \in DOMAIN r.pictures :
         r.pictures[i] \in whole \/ (r.pictures[i].of = "baseline" /\ ~r.adhoc)
    /\ fits => whole \subseteq ToSet(r.pictures) \cup r.missing
=============================================================================
