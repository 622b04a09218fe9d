--------------------------- MODULE MCLearningTurn ---------------------------
(* Two turns of one student on one concept, from a new row and from one that *)
(* earlier sessions left, with questions of each kind.                       *)
EXTENDS LearningTurn, TLC

Option(label, text, right, misconception) ==
    [label |-> label, text |-> text, right |-> right, slip |-> misconception]
Raw(kind, answer, options) ==
    [kind |-> kind, content |-> "x", answer |-> answer, options |-> options, distractors |-> <<>>]

MCRawQuestions == {
    Raw("mcq", "B", <<Option("A", "x", FALSE, "swapped"), Option("B", "y", FALSE, Missing),
                      Option("C", "z", FALSE, Missing)>>),
    Raw("mcq", Missing, <<Option("A", "x", TRUE, Missing), Option("B", "y", TRUE, Missing)>>),
    Raw("riddle", "y", <<>>)}
MCResponses == {"A", "B", "C", "y", Missing}
MCLabels == <<"A", "B", "C", "D", "E", "F">>

(* A row with two right answers in a row, three passed reviews and a         *)
(* misconception that was resolved; attempts are counted from here.          *)
Seasoned == [Fresh EXCEPT !.level = 2, !.anchor = 0, !.streak = 2,
                          !.reps = 3, !.ease = 140, !.interval = 1500]
MCStarts == {[row |-> Fresh, slip |-> Unknown],
             [row |-> Seasoned, slip |-> [status |-> "resolved", count |-> 0]]}
Alike == Permutations(Turns)
=============================================================================
