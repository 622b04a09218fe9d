------------------------------ MODULE MCStudyPlan ------------------------------
(* Instance of StudyPlan for TLC: two concepts, of which the harder comes first, *)
(* a student who is to review one of them, with one goal or none.                *)
EXTENDS StudyPlan, TLC

CONSTANTS a, b, g, h

MCPrerequisites == {<<a, b>>}
MCRank == (a :> 2) @@ (b :> 1)
Everything == [concepts |-> {a, b}, target |-> 2]
MCGoalChoices == {Everything, [concepts |-> {b}, target |-> NoDate]}
MCSessions == {[covered |-> {a, b}, attempted |-> {a}]}

New      == [learned |-> FALSE, forgotten |-> FALSE, review |-> NoDate]
Reviewed == [learned |-> FALSE, forgotten |-> FALSE, review |-> 0]

NoGoals == (g :> NoGoal) @@ (h :> NoGoal)

MCInit ==
    /\ \/ student = (a :> New) @@ (b :> New) /\ goals = [NoGoals EXCEPT ![g] = Everything]
       \/ student = (a :> Reviewed) @@ (b :> New) /\ goals = NoGoals
    /\ Init

MCSpec == MCInit /\ [][Next]_vars
=============================================================================
