----------------------------- MODULE Assessment -----------------------------
(* Questions: what is kept of one that a model wrote, how an answer is       *)
(* matched to an option, and when grading needs the AI. Texts are members of *)
(* a small set; that of an option may look like the label of another one.    *)
EXTENDS Integers, Sequences, FiniteSets

CONSTANTS Labels        \* "A", "B", ... in order

Missing == "missing"    \* no text, no answer, no misconception

QuestionTypes == {"mcq", "short_answer", "true_false", "worked_problem", "open_ended"}
MaxOptions == 6
Truth(text) == CASE text = "true" -> {TRUE} [] text = "false" -> {FALSE} [] OTHER -> {}

(* The options, or the answer followed by the distractors. *)
Items(raw) ==
    IF raw.options = <<>> /\ raw.distractors # <<>> /\ raw.answer # Missing
    THEN <<[text |-> raw.answer, label |-> Missing, right |-> TRUE, slip |-> Missing]>>
            \o raw.distractors
    ELSE raw.options

(* An option is right if it is marked so, or if the answer given is its      *)
(* label or its text; blank ones are skipped and the rest labelled anew.     *)
Marked(item, answer) ==
    item.right \/ (answer # Missing /\ answer \in {item.label, item.text})

Options(raw) ==
    LET offered == SubSeq(Items(raw), 1, IF Len(Items(raw)) > MaxOptions THEN MaxOptions ELSE Len(Items(raw)))
        kept == SelectSeq(offered, LAMBDA item : item.text # Missing)
    IN  [i \in DOMAIN kept |->
            [label |-> Labels[i], text |-> kept[i].text,
             right |-> Marked(kept[i], raw.answer), slip |-> kept[i].slip]]

RightOnes(options) == {i \in DOMAIN options : options[i].right}

(* normalise_question: the question to store, or none. *)
Normalised(raw, requested) ==
    LET kind == IF raw.kind \in QuestionTypes THEN raw.kind ELSE requested
        options == IF kind = "mcq" THEN Options(raw) ELSE <<>>
        usable == CASE kind = "mcq" -> Len(options) >= 2 /\ Cardinality(RightOnes(options)) = 1
                    [] kind = "true_false" -> Truth(raw.answer) # {}
                    [] OTHER -> raw.answer # Missing
    IN  IF usable /\ raw.content # Missing
        THEN {[kind |-> kind, options |-> options, answer |-> raw.answer]}
        ELSE {}

(* generate: the questions worth storing, or output that must be asked for   *)
(* again when there is none.                                                 *)
Generated(raws, requested) == UNION {Normalised(raw, requested) : raw \in raws}

(* match_option: the first option with the text, else the one with the label. *)
Matched(question, response) ==
    LET textual == {i \in DOMAIN question.options : question.options[i].text = response}
        labelled == {i \in DOMAIN question.options : question.options[i].label = response}
        First(S) == IF S = {} THEN {} ELSE {CHOOSE i \in S : \A j \in S : i <= j}
    IN  IF textual # {} THEN First(textual) ELSE First(labelled)

Exactly(correct, detected) ==
    [ai |-> "none", correct |-> correct, detected |-> detected]
WithAI(task) == [ai |-> task, correct |-> FALSE, detected |-> FALSE]

(* evaluate: exact grading where it is possible. A wrong option tells its    *)
(* misconception or has it diagnosed; everything else is read by the AI, an  *)
(* empty answer excepted.                                                    *)
Grading(question, response) ==
    LET option == Matched(question, response)
    IN  CASE question.kind = "mcq" /\ option # {} ->
                LET chosen == question.options[CHOOSE i \in option : TRUE]
                IN  IF chosen.right THEN Exactly(TRUE, FALSE)
                    ELSE IF chosen.slip # Missing THEN Exactly(FALSE, TRUE)
                    ELSE WithAI("diagnose")
          [] question.kind = "true_false" /\ Truth(response) # {} ->
                Exactly(response = question.answer, FALSE)
          [] response = Missing -> Exactly(FALSE, FALSE)
          [] OTHER -> WithAI("grade")

(* What the AI may say: it diagnoses a wrong option, or grades the answer.   *)
Readings(task) ==
    {g \in {Exactly(c, d) : c, d \in BOOLEAN} : task = "diagnose" => ~g.correct}
=============================================================================
