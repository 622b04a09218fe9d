--------------------------- MODULE LearningSession ---------------------------
(***************************************************************************)
(* The turns of one learning session, one at a time: what the session      *)
(* manager accepts, what the tutor's state graph does with it, and when    *)
(* the session ends (services/learning_engine: session_manager.py,         *)
(* orchestrator.py, state.py).                                             *)
(*                                                                         *)
(* One action is one turn: a message is validated, the graph runs until    *)
(* the student has to respond again, and the new state is persisted. A     *)
(* turn whose AI call fails transiently, or that is cut off, persists      *)
(* nothing, so it leaves no trace here beyond the tokens it has used.      *)
(* How concurrent turns share the persisted state is module SessionStore.  *)
(*                                                                         *)
(* Mastery and scores are percentages; text, history and events are left   *)
(* out, except the kind and the concept of the last explanation.           *)
(***************************************************************************)
EXTENDS Integers, FiniteSets, Sequences, SequencesExt

CONSTANTS
    Concepts,         \* the concepts a session may target
    None,             \* no concept
    Levels,           \* the mastery percentages that occur
    MaxInteractions,  \* default_max_interactions
    MaxAttempts,      \* max_attempts_per_concept
    FailureLimit,     \* frustration_consecutive_failures
    MaxActivations,   \* frustration_max_activations
    HintsPerQuestion  \* hints stored with a question

ASSUME ConceptsAssumption == IsFiniteSet(Concepts) /\ None \notin Concepts
ASSUME LevelsAssumption == Levels \subseteq 0..100
ASSUME LimitsAssumption ==
    /\ MaxInteractions \in Nat \ {0} /\ MaxAttempts \in Nat \ {0}
    /\ FailureLimit \in Nat \ {0} /\ MaxActivations \in Nat \ {0}
    /\ HintsPerQuestion \in Nat

VARIABLES
    status,        \* lifecycle of the session
    awaiting,      \* what the student has to do next
    endReason,     \* why the session ended, "none" while it has not
    kind,          \* session_type
    targets,       \* target_concepts, in order
    reviews,       \* review_concepts
    current,       \* current_concept_id
    remaining,     \* concepts_remaining, a queue
    mastery,       \* mastery_snapshot
    attempts,      \* concept_attempts: graded answers per concept
    explained,     \* explanations per concept, counted up to 2
    covered,       \* concepts_covered
    lastPrompt,    \* the last explanation: its kind and concept (last_explanation)
    open,          \* current_question: the number of the open question, 0 if none
    asked,         \* how many questions were asked (asked_question_ids)
    answered,      \* the questions that have a QuestionAttempt
    hints,         \* hints_given on the open question
    fails,         \* consecutive_failures
    recent,        \* attempts since frustration_reset_index, counted up to 3
    activations,   \* frustration_activations
    interactions,  \* interaction_count, counted up to MaxInteractions + 1
    timeUp         \* elapsed_minutes >= time_budget_minutes

plan      == <<kind, targets, reviews>>
progress  == <<mastery, attempts, answered, fails, recent>>
queue     == <<current, remaining>>
teaching  == <<explained, covered, lastPrompt>>
asking    == <<open, asked, hints>>
lifecycle == <<status, awaiting, endReason>>
vars == <<lifecycle, plan, queue, progress, teaching, asking,
          activations, interactions, timeUp>>

Kinds    == {"teach", "practice", "review", "mixed"}
Statuses == {"initialising", "active", "paused", "completed"}
Reasons  == {"none", "interaction_limit", "time_budget", "all_mastered",
             "frustration", "concepts_complete", "student_ended",
             "token_budget", "ai_budget_exceeded", "ai_unavailable"}
Explanations == {"intro", "retry", "socratic", "worked_example"}

TypeOK ==
    /\ status \in Statuses
    /\ awaiting \in {"none", "acknowledgement", "answer", "ended"}
    /\ endReason \in Reasons
    /\ kind \in Kinds
    /\ targets \in Seq(Concepts)
    /\ reviews \subseteq Concepts
    /\ current \in Concepts
    /\ remaining \in Seq(Concepts)
    /\ mastery \in [Concepts -> Levels]
    /\ attempts \in [Concepts -> Nat]
    /\ explained \in [Concepts -> 0..2]
    /\ covered \subseteq Concepts
    /\ lastPrompt \in [kind: Explanations \cup {"none"}, about: Concepts \cup {None}]
    /\ open \in Nat /\ asked \in Nat /\ answered \subseteq Nat
    /\ hints \in 0..HintsPerQuestion
    /\ fails \in Nat /\ recent \in 0..3 /\ activations \in Nat
    /\ interactions \in 0..(MaxInteractions + 1)
    /\ timeUp \in BOOLEAN

----------------------------------------------------------------------------
(* Decisions *)

AtMost(n, limit) == IF n < limit THEN n ELSE limit

Learned(m, c) == m[c] >= 80

\* First activity on a concept, by session type.
InitialAction(m, c) ==
    CASE kind = "review" \/ (c \in reviews /\ kind \in {"mixed", "practice"})
                                            -> "review"
      [] kind = "practice" /\ c \notin reviews -> "practice"
      [] kind = "teach" -> IF Learned(m, c) THEN "practice" ELSE "explain"
      [] kind = "mixed" /\ c \notin reviews ->
            IF m[c] < 20 THEN "explain" ELSE "practice"

\* How to explain again after a poor answer.
KindAfterFailure(m, c) ==
    IF explained[c] >= 2 THEN "worked_example"
    ELSE IF m[c] >= 60 THEN "socratic"
    ELSE IF explained[c] >= 1 THEN "retry" ELSE "intro"

\* The kind an explanation gets when the decision names none.
DefaultKind(c) == IF explained[c] = 0 THEN "intro" ELSE "retry"

\* Mutant of LimitReason: the interaction limit is compared with >.
LimitReasonLate(m, n) ==
    IF n > MaxInteractions THEN "interaction_limit"
    ELSE IF timeUp THEN "time_budget"
    ELSE IF \A c \in Range(targets) : Learned(m, c) THEN "all_mastered"
    ELSE "none"

\* Conditions that end the session before anything else is considered; n counts
\* this turn.
LimitReason(m, n) ==
    IF n >= MaxInteractions THEN "interaction_limit"
    ELSE IF timeUp THEN "time_budget"
    ELSE IF \A c \in Range(targets) : Learned(m, c) THEN "all_mastered"
    ELSE "none"

\* Too many failures in a row, or slow: the last of three timed answers took over
\* 2.5 times as long as the first.
Frustrated(f, slow) == f >= FailureLimit \/ slow

\* Mutant of Finished: the attempt limit is compared with >.
FinishedLate(m, a, c) == Learned(m, c) \/ a[c] > MaxAttempts

\* No more questions on c.
Finished(m, a, c) == Learned(m, c) \/ a[c] >= MaxAttempts

----------------------------------------------------------------------------
(* Nodes of the graph that end a turn *)

Explain(c, k) ==
    /\ awaiting' = "acknowledgement"
    /\ explained' = [explained EXCEPT ![c] = AtMost(@ + 1, 2)]
    /\ covered' = covered \cup {c}
    /\ lastPrompt' = [kind |-> k, about |-> c]
    /\ open' = 0 /\ hints' = 0
    /\ UNCHANGED asked

\* Mutant of Ask: a question may be asked again.
AskAgain(c) ==
    /\ awaiting' = "answer"
    /\ asked' = IF asked = 0 THEN 1 ELSE asked
    /\ open' = asked'
    /\ hints' = 0
    /\ covered' = covered \cup {c}
    /\ UNCHANGED <<explained, lastPrompt>>

\* A question that was not asked before in this session.
Ask(c) ==
    /\ awaiting' = "answer"
    /\ asked' = asked + 1
    /\ open' = asked + 1
    /\ hints' = 0
    /\ covered' = covered \cup {c}
    /\ UNCHANGED <<explained, lastPrompt>>

\* Mutant of Finish: the open question survives the end.
FinishKeepingQuestion(reason) ==
    /\ status' = "completed"
    /\ awaiting' = "ended"
    /\ endReason' = reason
    /\ UNCHANGED <<asking, teaching>>

\* wrap and schedule
Finish(reason) ==
    /\ status' = "completed"
    /\ awaiting' = "ended"
    /\ endReason' = reason
    /\ open' = 0 /\ hints' = 0
    /\ UNCHANGED <<asked, teaching>>

\* The next action on concept c: any node but wrap keeps the session active.
Perform(action, c, k) ==
    /\ status' = "active"
    /\ endReason' = endReason
    /\ IF action = "explain" THEN Explain(c, k) ELSE Ask(c)

----------------------------------------------------------------------------
(* decide: what follows a graded answer on the current concept. The student *)
(* model has just become m, a; f and r count this answer.                   *)

\* Mutant of SwitchTo: the concept that is left is never queued again.
SwitchAndForget(i, m, a) ==
    LET c == remaining[i]
    IN  /\ current' = c
        /\ remaining' = RemoveAt(remaining, i)
        /\ Perform(InitialAction(m, c), c, DefaultKind(c))

\* Make c current; an unfinished concept that is left early is queued again.
SwitchTo(i, m, a) ==
    LET c == remaining[i]
        rest == RemoveAt(remaining, i)
    IN  /\ current' = c
        /\ remaining' = IF Finished(m, a, current) THEN rest
                        ELSE Append(rest, current)
        /\ Perform(InitialAction(m, c), c, DefaultKind(c))

\* Mutant of Ease: the last activation does not end the session.
EaseForEver(m, a) ==
    /\ activations' = activations + 1
    /\ fails' = 0
    /\ recent' = 0
    /\ IF remaining = <<>>
       THEN Perform("explain", current, "worked_example") /\ UNCHANGED queue
       ELSE \E i \in 1..Len(remaining) : SwitchTo(i, m, a)

\* The frustration guard: an easier concept, or the same one step by step; the
\* last activation ends the session.
Ease(m, a) ==
    /\ activations' = activations + 1
    /\ fails' = 0
    /\ recent' = 0
    /\ IF activations + 1 >= MaxActivations
       THEN Finish("frustration") /\ UNCHANGED queue
       ELSE IF remaining = <<>>
       THEN Perform("explain", current, "worked_example") /\ UNCHANGED queue
       ELSE \E i \in 1..Len(remaining) : SwitchTo(i, m, a)

MoveOn(m, a) ==
    IF remaining = <<>> THEN Finish("concepts_complete") /\ UNCHANGED queue
                        ELSE SwitchTo(1, m, a)

\* Re-teach after a poor answer, or a wrong one at low mastery; else ask again.
KeepGoing(m, correct, poor) ==
    /\ IF poor \/ (m[current] < 40 /\ ~correct)
       THEN Perform("explain", current, KindAfterFailure(m, current))
       ELSE Perform("practice", current, "none")
    /\ UNCHANGED queue

Decide(m, a, f, r, n, correct, poor, slow) ==
    LET limit == LimitReason(m, n) IN
    IF limit = "none" /\ Frustrated(f, slow) THEN Ease(m, a)
    ELSE /\ fails' = f /\ recent' = r /\ UNCHANGED activations
         /\ IF limit # "none" THEN Finish(limit) /\ UNCHANGED queue
            ELSE IF Finished(m, a, current) THEN MoveOn(m, a)
            ELSE KeepGoing(m, correct, poor)

----------------------------------------------------------------------------
(* Turns *)

Live == status \in {"active", "paused"}

\* A message uses an interaction, except begin and end_session.
CountInteraction == interactions' = AtMost(interactions + 1, MaxInteractions + 1)

\* The session ends with what it has: nothing was graded or counted.
EndWithoutAI(reason) ==
    /\ Finish(reason)
    /\ UNCHANGED <<plan, queue, progress, activations, interactions, timeUp>>

\* Once the AI calls of kept and abandoned turns have used the session's token
\* budget, which can be by any turn, every message but end_session ends the session;
\* so does an AI failure that a retry cannot help.
OverBudget == EndWithoutAI("token_budget")
BudgetOrFailure ==
    OverBudget \/ \E reason \in {"ai_budget_exceeded", "ai_unavailable"} : EndWithoutAI(reason)

\* begin: the first action of the planned session.
Begin ==
    /\ status = "initialising"
    /\ \/ BudgetOrFailure
       \/ /\ Perform(InitialAction(mastery, current), current, DefaultKind(current))
          /\ UNCHANGED <<plan, queue, progress, activations, interactions, timeUp>>

\* student_response to question q, which the evaluator graded: level is the new
\* mastery, and correct and poor (a score below 0.3) are graded independently.
Answer(q, correct, poor, slow, level) ==
    /\ Live /\ awaiting = "answer" /\ q = open
    /\ slow => recent >= 2
    /\ \/ BudgetOrFailure
       \/ LET m == [mastery EXCEPT ![current] = level]
              a == [attempts EXCEPT ![current] = @ + 1]
              f == IF correct THEN 0 ELSE fails + 1
          IN  /\ mastery' = m
              /\ attempts' = a
              /\ answered' = answered \cup {open}
              /\ CountInteraction
              /\ Decide(m, a, f, AtMost(recent + 1, 3), interactions + 1,
                        correct, poor, slow)
              /\ UNCHANGED <<plan, timeUp>>

\* Mutant of Acknowledge: an explanation is always followed by another one.
AcknowledgeIgnored(understood) ==
    /\ Live /\ awaiting = "acknowledgement"
    /\ \/ BudgetOrFailure
       \/ /\ Perform("explain", current,
                     IF explained[current] >= 2 THEN "worked_example" ELSE "retry")
          /\ CountInteraction
          /\ UNCHANGED <<plan, queue, progress, activations, timeUp>>

\* student_acknowledge of an explanation.
Acknowledge(understood) ==
    /\ Live /\ awaiting = "acknowledgement"
    /\ \/ BudgetOrFailure
       \/ /\ IF understood THEN Perform("practice", current, "none")
             ELSE Perform("explain", current,
                          IF explained[current] >= 2 THEN "worked_example" ELSE "retry")
          /\ CountInteraction
          /\ UNCHANGED <<plan, queue, progress, activations, timeUp>>

\* student_question: answered without leaving the current step.
FollowUp ==
    /\ Live /\ awaiting \in {"acknowledgement", "answer"}
    /\ \/ BudgetOrFailure
       \/ /\ status' = "active"
          /\ CountInteraction
          /\ UNCHANGED <<awaiting, endReason, plan, queue, progress, teaching, asking,
                         activations, timeUp>>

\* request_hint: needs no AI, so only the token budget can end it.
Hint ==
    /\ Live /\ awaiting = "answer"
    /\ \/ OverBudget
       \/ /\ status' = "active"
          /\ hints' = AtMost(hints + 1, HintsPerQuestion)
          /\ CountInteraction
          /\ UNCHANGED <<awaiting, endReason, plan, queue, progress, teaching,
                         open, asked, activations, timeUp>>

\* end_session is always accepted, also before begin.
EndSession == status # "completed" /\ EndWithoutAI("student_ended")

Pause ==
    /\ status = "active"
    /\ status' = "paused"
    /\ UNCHANGED <<awaiting, endReason, plan, queue, progress, teaching, asking,
                   activations, interactions, timeUp>>

Unpause ==
    /\ status = "paused"
    /\ status' = "active"
    /\ UNCHANGED <<awaiting, endReason, plan, queue, progress, teaching, asking,
                   activations, interactions, timeUp>>

\* The clock runs from creation and stops while the session is paused.
TimeRunsOut ==
    /\ status \in {"initialising", "active"} /\ ~timeUp
    /\ timeUp' = TRUE
    /\ UNCHANGED <<lifecycle, plan, queue, progress, teaching, asking,
                   activations, interactions>>

----------------------------------------------------------------------------

\* What concept selection marks as reviews: for concepts the student asked for,
\* the mastered ones; otherwise the due ones, and every other target is unmastered.
SelectedReviews ==
    \/ reviews = {c \in Range(targets) : Learned(mastery, c)}
    \/ /\ kind = "review" => reviews = Range(targets)
       /\ kind = "teach" => reviews = {}
       /\ \A c \in Range(targets) \ reviews : ~Learned(mastery, c)

\* A session that `create` has planned.
Init ==
    /\ kind \in Kinds
    /\ targets \in {s \in SeqOf(Concepts, Cardinality(Concepts)) :
                        s # <<>> /\ IsInjective(s)}
    /\ mastery \in [Concepts -> Levels]
    /\ reviews \in SUBSET Range(targets)
    /\ SelectedReviews
    /\ current = Head(targets)
    /\ remaining = Tail(targets)
    /\ status = "initialising" /\ awaiting = "none" /\ endReason = "none"
    /\ attempts = [c \in Concepts |-> 0]
    /\ explained = [c \in Concepts |-> 0]
    /\ covered = {}
    /\ lastPrompt = [kind |-> "none", about |-> None]
    /\ open = 0 /\ asked = 0 /\ answered = {} /\ hints = 0
    /\ fails = 0 /\ recent = 0 /\ activations = 0 /\ interactions = 0
    /\ timeUp = FALSE

SomeAnswer ==
    \E q \in 1..asked, correct, poor, slow \in BOOLEAN, level \in Levels :
        Answer(q, correct, poor, slow, level)

Next ==
    \/ Begin
    \/ SomeAnswer
    \/ \E understood \in BOOLEAN : Acknowledge(understood)
    \/ FollowUp
    \/ Hint
    \/ EndSession
    \/ Pause
    \/ Unpause
    \/ TimeRunsOut

Spec == Init /\ [][Next]_vars

\* A student who goes on: starts the session, acknowledges explanations as
\* understood in the end, and answers the open question in the end; the AI
\* answers one of the attempts. Nothing is assumed about what is answered.
KeepsAnswering == WF_vars(Begin) /\ WF_vars(SomeAnswer) /\ WF_vars(Acknowledge(TRUE))

FairSpec == Spec /\ KeepsAnswering
----------------------------------------------------------------------------
(* Properties *)

Ended == status = "completed"

\* No target is dropped: while the session runs, every target is the current
\* concept, is queued, or has been finished; the queue holds no concept twice and
\* never the current one. Switching re-queues a concept that is left early
\* (SessionEngine._switch_concept).
NoTargetDropped ==
    /\ IsInjective(remaining)
    /\ current \notin Range(remaining)
    /\ \A c \in Range(targets) :
          \/ c = current
          \/ c \in Range(remaining)
          \/ Finished(mastery, attempts, c)

\* A concept takes more answers than max_attempts_per_concept only because the
\* frustration guard, which decide_next consults first, re-taught it: at most one more
\* for each activation that did not end the session. Queued concepts are below the limit.
AttemptsBounded ==
    /\ \A c \in Concepts :
          attempts[c] <= MaxAttempts + AtMost(activations, MaxActivations - 1)
    /\ \A c \in Range(remaining) : attempts[c] < MaxAttempts

\* What the student is asked for matches what the server will accept: an answer is
\* awaited exactly while a question is open, an acknowledgement only of an
\* explanation of the current concept, nothing after the end (validate_message,
\* resume).
AwaitingIsServable ==
    /\ awaiting = "answer" <=> open # 0
    /\ awaiting = "acknowledgement" =>
          lastPrompt.about = current /\ explained[current] > 0
    /\ awaiting = "none" <=> status = "initialising"
    /\ awaiting = "ended" <=> Ended
    /\ endReason # "none" <=> Ended

\* Each question is graded at most once, and each grading counts one attempt: a
\* second answer to a question (double click, retry after a lost reply) changes
\* nothing, because the next question has another id.
GradedOnce ==
    /\ open # 0 => open \notin answered
    /\ answered \subseteq 1..asked
    /\ Cardinality(answered) = SumFunction(attempts)

\* However the tutor re-teaches, re-queues and switches, no session grades more answers
\* than its interaction limit, nor more than its targets may take between them.
AnswersLimited ==
    /\ Cardinality(answered) <= MaxInteractions
    /\ Cardinality(answered) <= (MaxAttempts + MaxActivations - 1) * Cardinality(Range(targets))

\* The frustration guard fires at most MaxActivations times, and the last time ends
\* the session; a running session never carries a failure streak to the limit.
FrustrationEnds ==
    /\ activations <= MaxActivations
    /\ activations = MaxActivations <=> endReason = "frustration"
    /\ ~Ended => fails < FailureLimit

\* A session goes on after a graded answer only within its limits: interactions
\* and time left, a target not mastered (decide_next).
GoesOnWithinLimits ==
    [][ answered' # answered /\ ~Ended' =>
          /\ interactions' < MaxInteractions
          /\ ~timeUp
          /\ \E c \in Range(targets) : ~Learned(mastery', c) ]_vars

\* A student who keeps answering reaches the end of the session, whatever the
\* answers: attempts per concept are limited and no concept is queued for ever.
AnsweringEnds == <>Ended
=============================================================================
