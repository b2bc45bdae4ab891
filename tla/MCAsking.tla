------------------------------- MODULE MCAsking -------------------------------
(* Two questions, one of them with the key of a question of the moment, and  *)
(* one person; few answers, names and boxes.                                 *)
EXTENDS Asking

CONSTANTS chair, bin
MCQuestions == <<"count", "antwort">>
MCPersonOrder == <<"anna">>
MCPictures == [f \in Fields |-> IF f = "count" THEN 2 ELSE 1]

MCSetup(kind, of_count, of_antwort, enabled, people, marks, split) ==
  [kind |-> kind, enabled |-> enabled, people |-> people, detect_persons |-> marks,
   type |-> [q \in QuestionKeys |-> IF q = "count" THEN of_count ELSE of_antwort],
   mark_objects |-> marks, marks_model |-> split, baseline |-> marks]
MCSetups ==
  { MCSetup("openai", "number", "select", {"count", "antwort"}, {"anna"}, TRUE, TRUE),
    MCSetup("openai", "number", "boolean", {"antwort"}, {}, TRUE, FALSE),
    MCSetup("ai_task", "number", "text", {"count", "antwort"}, {"anna"}, TRUE, FALSE),
    MCSetup("openai", "boolean", "select", {}, {"anna"}, FALSE, FALSE) }

MCValue(form, word, number) == [form |-> form, word |-> word, number |-> number]
MCValues ==
  { MCValue("text", "yes", NoNumber), MCValue("text", "2", 2), MCValue("boolean", "false", 0),
    MCValue("null", "none", NoNumber), MCValue("number", "inf", Infinite) }

MCWords == {chair, bin}
MCObjectLists ==
  { <<>>, <<Blank, <<chair>>, <<chair>>, <<chair>>>>,
    <<<<chair>>, <<chair, 2>>, <<chair>>, <<bin>>>> }
MCMayBeMissing == {[of |-> "baseline", n |-> 1]}
MCBoxes == {NoBox, <<2, 0, 0, 2>>}
MCClaims ==
  { <<>>, <<<<-1, 0, 2, 2>>, <<1, 1, 1, 3>>, <<2, 2, 0, 0>>, NoBox, <<1, 1, 9, 3>>>>,
    <<<<1, 1, 9, 3>>, <<0, 0, 1, 1>>, <<1, 0, 2, 2>>, <<0, 0, Infinite, 9>>>>,
    <<<<0, 0, 1, 1>>, <<1, 1, Infinite, 2>>>> }
=============================================================================
