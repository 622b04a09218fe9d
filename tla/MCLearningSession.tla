-------------------------- MODULE MCLearningSession --------------------------
(* Instance of LearningSession for TLC. The names of the concepts do not matter, *)
(* so the first target is fixed; the mastery of a concept that is no target is   *)
(* never looked at.                                                              *)
EXTENDS LearningSession

CONSTANTS alpha, beta

MCInit ==
    /\ Init
    /\ targets[1] = alpha
    /\ beta \notin Range(targets) => mastery[beta] = 10

MCSpec == MCInit /\ [][Next]_vars /\ KeepsAnswering
=============================================================================
