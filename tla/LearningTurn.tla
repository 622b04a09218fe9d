---------------------------- MODULE LearningTurn ----------------------------
(* What the turns of a student's sessions do to the student model. A turn    *)
(* grades an answer before it locks anything, writes the result under the    *)
(* lock of the mastery row, prepares the next content with the lock held, or *)
(* ends the session, and commits. Turns of several sessions, readers, the    *)
(* daily job and the clock run side by side. What a call of the AI comes to  *)
(* is one of the outcomes of AIGateway.                                      *)
EXTENDS StudentModel, Assessment

CONSTANTS
    RawQuestions,   \* questions as the model writes them
    Responses,      \* what a student may answer
    Qualities       \* how well a session went, 0..5

ASSUME TurnAssumption == Qualities \subseteq 0 .. 5

VARIABLES
    stage,          \* where each turn stands
    result          \* the grading it has, and whether it has written it

vars == <<student, stage, result>>

Stages == {"waiting", "grading", "graded", "recorded", "preparing", "closing",
           "ready", "committed", "undone"}
Result(g, written) ==
    [ai |-> g.ai, correct |-> g.correct, detected |-> g.detected, written |-> written]
NoResult == Result(Exactly(FALSE, FALSE), FALSE)
Graded(g) == Result(g, FALSE)
Recorded(g) == Result(Exactly(FALSE, g.detected), TRUE)

Init ==
    /\ StudentInit
    /\ stage = [t \in Turns |-> "waiting"]
    /\ result = [t \in Turns |-> NoResult]

Goes(t, from, to) == stage[t] = from /\ stage' = [stage EXCEPT ![t] = to]
Questions == Generated(RawQuestions, "short_answer")

(* evaluate: graded at once, or with the AI. *)
Answered(t) ==
    /\ \E q \in Questions, r \in Responses :
            LET g == Grading(q, r)
            IN  /\ result' = [result EXCEPT ![t] = Graded(g)]
                /\ Goes(t, "waiting", IF g.ai = "none" THEN "graded" ELSE "grading")
    /\ UNCHANGED student

ReadByAI(t) ==
    /\ Goes(t, "grading", "graded")
    /\ \E g \in Readings(result[t].ai) : result' = [result EXCEPT ![t] = Graded(g)]
    /\ UNCHANGED student

(* update *)
RecordsResult(t) ==
    /\ Goes(t, "graded", "recorded")
    /\ RecordAttempt(t, result[t].correct, result[t].detected)
    /\ result' = [result EXCEPT ![t] = Recorded(@)]

(* The next activity asks a question again, or needs the AI for a new one or *)
(* for an explanation.                                                       *)
AsksKnownQuestion(t) ==
    /\ Goes(t, "recorded", "ready")
    /\ UNCHANGED <<student, result>>

NeedsContent(t) ==
    /\ Goes(t, "recorded", "preparing")
    /\ UNCHANGED <<student, result>>

ContentArrives(t) ==
    /\ Goes(t, "preparing", "ready")
    /\ UNCHANGED <<student, result>>

(* wrap and schedule: a summary, which does not need the AI to succeed, and  *)
(* the review of the concept if the session has answers on it.               *)
EndsSession(t) ==
    /\ \/ Goes(t, "waiting", "closing")
       \/ Goes(t, "recorded", "closing")
    /\ UNCHANGED <<student, result>>

SchedulesReview(t) ==
    /\ Goes(t, "closing", "ready")
    /\ \E quality \in Qualities : ScheduleReview(t, quality)
    /\ UNCHANGED result

NothingToReview(t) ==
    /\ ~result[t].written
    /\ Goes(t, "closing", "ready")
    /\ UNCHANGED <<student, result>>

Commits(t) ==
    /\ Goes(t, "ready", "committed")
    /\ Commit(t)
    /\ UNCHANGED result

(* The turn is taken back. An error of the AI that may pass leaves the       *)
(* session as it was; one that will not ends it, in a new transaction.       *)
TakenBack(t, next) ==
    /\ Rollback(t)
    /\ result' = [result EXCEPT ![t] = NoResult]
    /\ stage' = [stage EXCEPT ![t] = next]

AIFails(t) ==
    /\ stage[t] \in {"grading", "preparing"}
    /\ \E next \in {"closing", "undone"} : TakenBack(t, next)

(* Sending to the student, or booking a cost, raises. *)
Breaks(t) ==
    /\ stage[t] \in {"recorded", "preparing", "closing", "ready"}
    /\ TakenBack(t, "undone")

Moves(t) ==
    \/ ReadByAI(t) \/ RecordsResult(t) \/ AsksKnownQuestion(t) \/ NeedsContent(t)
    \/ ContentArrives(t) \/ EndsSession(t) \/ SchedulesReview(t) \/ NothingToReview(t)
    \/ Commits(t) \/ AIFails(t) \/ Breaks(t)

Next ==
    \/ \E t \in Turns : Answered(t) \/ Moves(t)
    \/ /\ ReadRow \/ FillCache \/ CacheExpires \/ DailyDecay \/ DailyInvalidation \/ NextDay
       /\ UNCHANGED <<stage, result>>

Spec == Init /\ [][Next]_vars
-----------------------------------------------------------------------------
Committed == {t \in Turns : stage[t] = "committed" /\ result[t].written}

(* The mastery row counts every answer of a committed turn and no other, and *)
(* the misconception every detection of one, however turns overlap and       *)
(* whatever Redis says: updates start from the locked row (record_attempt,   *)
(* MisconceptionTracker.record, which takes no lock of its own).             *)
NoAttemptLost ==
    /\ row.attempts = Cardinality(Committed)
    /\ slip.count = Cardinality({t \in Committed : result[t].detected})

(* The daily job changes how forgetting is stored and not what is known: a   *)
(* copy in Redis of the same version tells the same level, whether it was    *)
(* taken before or after the job (materialise_decay, _cache_get).            *)
DecayIsInvisible ==
    (cached # Nobody /\ [cached EXCEPT !.level = row.level, !.anchor = row.anchor] = row)
        => Effective(cached) = Effective(row)

(* A scheduled review lies ahead of the day of the session; passing never    *)
(* brings the next one closer than the last, failing brings it to tomorrow,  *)
(* and the ease stays at its minimum or above (sm2_schedule).                *)
ReviewsSpreadOut ==
    [][\A t \in Turns : stage[t] = "closing" /\ stage'[t] = "ready" /\ draft' # draft =>
            LET old == RowOf(t)
                new == draft'[t].row
            IN  /\ new.ease >= MinimumEase
                /\ new.due > today
                /\ IF new.reps > old.reps THEN new.interval >= old.interval
                   ELSE new.reps = 0 /\ new.due = today + 1]_vars
=============================================================================
