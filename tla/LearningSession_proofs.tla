----------------------- MODULE LearningSession_proofs -----------------------
(***************************************************************************)
(* Proofs about LearningSession for any concepts, mastery levels and       *)
(* limits.                                                                 *)
(***************************************************************************)
EXTENDS LearningSession, FiniteSetTheorems, WellFoundedInduction, TLAPS

\* The current concept can take this answer: it is below its attempt limit, unless the
\* frustration guard has brought it back.
CurrentMayTry == ~Ended => attempts[current] < MaxAttempts + activations

\* The open question was asked and has not been graded.
QuestionsFresh ==
    /\ open <= asked
    /\ open # 0 => open \notin answered
    /\ answered \subseteq 1..asked

\* The inductive invariant.
IInv ==
    /\ TypeOK
    /\ AwaitingIsServable
    /\ FrustrationEnds
    /\ NoTargetDropped
    /\ AttemptsBounded /\ CurrentMayTry
    /\ QuestionsFresh

----------------------------------------------------------------------------
(* The concept queue *)

\* Taking one element out of an injective queue leaves all the others, and only them.
LEMMA TakeOut ==
    ASSUME NEW S, NEW s \in Seq(S), IsInjective(s), NEW i \in 1..Len(s)
    PROVE  /\ RemoveAt(s, i) \in Seq(S)
           /\ IsInjective(RemoveAt(s, i))
           /\ Range(RemoveAt(s, i)) = Range(s) \ {s[i]}
           /\ s[i] \in S
<1> DEFINE r == RemoveAt(s, i)
<1>1. /\ r \in Seq(S)
      /\ Len(r) = Len(s) - 1
      /\ \A j \in 1..Len(r) : r[j] = IF j < i THEN s[j] ELSE s[j + 1]
  <2> DEFINE before == SubSeq(s, 1, i - 1)
             after == SubSeq(s, i + 1, Len(s))
  <2>1. /\ before \in Seq(S) /\ Len(before) = i - 1
        /\ \A j \in 1..(i - 1) : before[j] = s[j]
    OBVIOUS
  <2>2. /\ after \in Seq(S) /\ Len(after) = Len(s) - i
        /\ \A j \in 1..(Len(s) - i) : after[j] = s[i + j]
    OBVIOUS
  <2>3. r = before \o after
    BY DEF RemoveAt
  <2> HIDE DEF before, after, r
  <2>4. r \in Seq(S) /\ Len(r) = Len(s) - 1
    BY <2>1, <2>2, <2>3
  <2>5. ASSUME NEW j \in 1..Len(r) PROVE r[j] = IF j < i THEN s[j] ELSE s[j + 1]
    <3>1. CASE j < i
      BY <2>1, <2>2, <2>3, <2>4, <3>1
    <3>2. CASE j >= i
      <4>1. r[j] = after[j - (i - 1)]
        BY <2>1, <2>2, <2>3, <2>4, <3>2
      <4>2. j - (i - 1) \in 1..(Len(s) - i) /\ i + (j - (i - 1)) = j + 1
        BY <2>4, <3>2
      <4> QED BY <2>2, <4>1, <4>2, <3>2
    <3> QED BY <3>1, <3>2
  <2> QED BY <2>4, <2>5
<1> HIDE DEF r
<1>2. DOMAIN r = 1..Len(r) /\ DOMAIN s = 1..Len(s)
  BY <1>1
<1>3. IsInjective(r)
  <2> SUFFICES ASSUME NEW j \in 1..Len(r), NEW k \in 1..Len(r), r[j] = r[k]
               PROVE  j = k
    BY <1>2 DEF IsInjective
  <2>1. \A x, y \in 1..Len(s) : s[x] = s[y] => x = y
    BY <1>2 DEF IsInjective
  <2> QED BY <1>1, <2>1
<1>4. ASSUME NEW x \in Range(r) PROVE x \in Range(s) \ {s[i]}
  BY <1>1, <1>2, <1>4 DEF Range, IsInjective
<1>5. ASSUME NEW x \in Range(s), x # s[i] PROVE x \in Range(r)
  <2>1. PICK j \in 1..Len(s) : x = s[j]
    BY <1>2 DEF Range
  <2>2. CASE j < i
    BY <1>1, <1>2, <2>1, <2>2 DEF Range
  <2>3. CASE j > i
    <3>1. j - 1 \in 1..Len(r) /\ r[j - 1] = s[j]
      BY <1>1, <2>3
    <3> QED BY <1>2, <2>1, <3>1 DEF Range
  <2> QED BY <1>5, <2>1, <2>2, <2>3
<1> QED BY <1>1, <1>3, <1>4, <1>5 DEF r

\* Queueing an element that is not in an injective queue.
LEMMA QueueUp ==
    ASSUME NEW S, NEW s \in Seq(S), IsInjective(s), NEW x \in S, x \notin Range(s)
    PROVE  /\ Append(s, x) \in Seq(S)
           /\ IsInjective(Append(s, x))
           /\ Range(Append(s, x)) = Range(s) \cup {x}
<1> DEFINE r == Append(s, x)
<1>1. /\ r \in Seq(S)
      /\ Len(r) = Len(s) + 1
      /\ \A j \in 1..Len(s) : r[j] = s[j]
      /\ r[Len(s) + 1] = x
  OBVIOUS
<1> HIDE DEF r
<1>2. DOMAIN r = 1..Len(r) /\ DOMAIN s = 1..Len(s) /\ Len(s) \in Nat
  BY <1>1
<1>3. IsInjective(r)
  BY <1>1, <1>2 DEF IsInjective, Range
<1>4. ASSUME NEW y \in Range(r) PROVE y \in Range(s) \cup {x}
  <2>1. PICK j \in 1..Len(r) : y = r[j]
    BY <1>2 DEF Range
  <2> QED BY <1>1, <1>2, <2>1 DEF Range
<1>5. Range(s) \subseteq Range(r)
  BY <1>1, <1>2 DEF Range
<1>6. x \in Range(r)
  BY <1>1, <1>2 DEF Range
<1> QED BY <1>1, <1>3, <1>4, <1>5, <1>6 DEF r

----------------------------------------------------------------------------
(* Nodes of the graph *)

\* The types of what a node assigns.
NodeTypes ==
    /\ status \in Statuses
    /\ awaiting \in {"none", "acknowledgement", "answer", "ended"}
    /\ endReason \in Reasons
    /\ explained \in [Concepts -> 0..2]
    /\ covered \subseteq Concepts
    /\ lastPrompt \in [kind: Explanations \cup {"none"}, about: Concepts \cup {None}]
    /\ open \in Nat /\ asked \in Nat
    /\ hints \in 0..HintsPerQuestion

\* Any action but wrap leaves the student something to respond to, on that concept, and
\* a question only if it was never asked before.
LEMMA PerformFacts ==
    ASSUME TypeOK, endReason = "none",
           NEW action, NEW c \in Concepts, NEW k,
           action = "explain" => k \in Explanations,
           Perform(action, c, k), current' = c
    PROVE  /\ NodeTypes' /\ AwaitingIsServable' /\ status' = "active"
           /\ open' \in {0, asked + 1} /\ open' <= asked' /\ asked' \in {asked, asked + 1}
<1>1. status' = "active" /\ endReason' = "none"
  BY DEF Perform
<1>2. CASE action = "explain"
  <2>1. Explain(c, k) /\ k \in Explanations
    BY <1>2 DEF Perform
  <2>2. explained' \in [Concepts -> 0..2] /\ explained'[c] > 0
    <3>1. explained[c] \in 0..2 /\ explained \in [Concepts -> 0..2]
      BY DEF TypeOK
    <3>2. AtMost(explained[c] + 1, 2) \in 1..2
      BY <3>1 DEF AtMost
    <3>3. explained' = [explained EXCEPT ![c] = AtMost(explained[c] + 1, 2)]
      BY <2>1 DEF Explain
    <3> QED BY <3>1, <3>2, <3>3
  <2>3. lastPrompt' \in [kind: Explanations \cup {"none"}, about: Concepts \cup {None}]
        /\ lastPrompt'.about = c
    BY <2>1 DEF Explain
  <2> QED BY <1>1, <2>1, <2>2, <2>3, LimitsAssumption
          DEF Explain, TypeOK, NodeTypes, AwaitingIsServable, Ended, Statuses, Reasons
<1>3. CASE action # "explain"
  <2>1. Ask(c)
    BY <1>3 DEF Perform
  <2> QED BY <1>1, <2>1, LimitsAssumption
          DEF Ask, TypeOK, NodeTypes, AwaitingIsServable, Ended, Statuses, Reasons
<1> QED BY <1>2, <1>3

\* wrap ends the session and closes the question.
LEMMA FinishFacts ==
    ASSUME TypeOK, NEW reason \in Reasons \ {"none"}, Finish(reason)
    PROVE  /\ NodeTypes' /\ AwaitingIsServable' /\ Ended' /\ endReason' = reason
           /\ open' = 0 /\ asked' = asked
BY LimitsAssumption
   DEF Finish, teaching, TypeOK, NodeTypes, AwaitingIsServable, Ended, Statuses, Reasons

LEMMA ExplanationKinds ==
    ASSUME NEW m, NEW c
    PROVE  /\ DefaultKind(c) \in Explanations
           /\ KindAfterFailure(m, c) \in Explanations
BY DEF DefaultKind, KindAfterFailure, Explanations

\* Only the current concept's mastery and attempts change.
Elsewhere(m, a) ==
    \A c \in Concepts \ {current} : m[c] = mastery[c] /\ a[c] = attempts[c]

\* Switching to a queued concept loses no target and queues nothing that is at its limit.
LEMMA SwitchFacts ==
    ASSUME TypeOK, endReason = "none", NoTargetDropped, AttemptsBounded,
           NEW m \in [Concepts -> Levels], NEW a \in [Concepts -> Nat], Elsewhere(m, a),
           NEW i \in 1..Len(remaining), SwitchTo(i, m, a),
           mastery' = m, attempts' = a, targets' = targets
    PROVE  /\ NodeTypes' /\ AwaitingIsServable' /\ status' = "active"
           /\ open' \in {0, asked + 1} /\ open' <= asked' /\ asked' \in {asked, asked + 1}
           /\ current' \in Concepts /\ remaining' \in Seq(Concepts)
           /\ NoTargetDropped'
           /\ \A c \in Range(remaining') : a[c] < MaxAttempts
           /\ a[current'] < MaxAttempts
<1> DEFINE c == remaining[i]
           rest == RemoveAt(remaining, i)
<1> USE ConceptsAssumption
<1>1. /\ current' = c
      /\ remaining' = IF Finished(m, a, current) THEN rest ELSE Append(rest, current)
      /\ Perform(InitialAction(m, c), c, DefaultKind(c))
  BY DEF SwitchTo
<1>2. /\ rest \in Seq(Concepts) /\ IsInjective(rest)
      /\ Range(rest) = Range(remaining) \ {c} /\ c \in Concepts
  BY TakeOut DEF TypeOK, NoTargetDropped
<1>3. c \in Range(remaining) /\ c # current /\ Range(remaining) \subseteq Concepts
  BY DEF NoTargetDropped, Range, TypeOK
<1>4. current \notin Range(rest) /\ current \in Concepts
  BY <1>2 DEF NoTargetDropped, TypeOK
<1>5. /\ Append(rest, current) \in Seq(Concepts) /\ IsInjective(Append(rest, current))
      /\ Range(Append(rest, current)) = Range(rest) \cup {current}
  BY <1>2, <1>4, QueueUp
<1>6. \A d \in Range(remaining) : a[d] < MaxAttempts
  BY <1>3 DEF AttemptsBounded, Elsewhere, NoTargetDropped
<1> HIDE DEF c, rest
<1>7. /\ NodeTypes' /\ AwaitingIsServable' /\ status' = "active"
      /\ open' \in {0, asked + 1} /\ open' <= asked' /\ asked' \in {asked, asked + 1}
  BY <1>1, <1>2, PerformFacts, ExplanationKinds
<1>8. /\ remaining' \in Seq(Concepts) /\ IsInjective(remaining')
      /\ Range(remaining') = IF Finished(m, a, current) THEN Range(remaining) \ {c}
                             ELSE (Range(remaining) \ {c}) \cup {current}
  BY <1>1, <1>2, <1>5
<1>9. current' \notin Range(remaining')
  BY <1>1, <1>3, <1>8
<1>10. \A d \in Range(remaining') : a[d] < MaxAttempts
  <2>1. ~Finished(m, a, current) => a[current] < MaxAttempts
    BY <1>4, LimitsAssumption DEF Finished
  <2> QED BY <1>6, <1>8, <2>1
<1>11. ASSUME NEW d \in Range(targets)
       PROVE  d = current' \/ d \in Range(remaining') \/ Finished(m, a, d)
  <2>1. d \in Concepts
    BY DEF TypeOK, Range
  <2>2. CASE d = current
    BY <1>8, <2>2
  <2>3. CASE d # current /\ d \in Range(remaining)
    BY <1>1, <1>8, <2>3
  <2>4. CASE d # current /\ Finished(mastery, attempts, d)
    BY <2>1, <2>4 DEF Elsewhere, Finished, Learned
  <2> QED BY <2>2, <2>3, <2>4 DEF NoTargetDropped
<1>12. NoTargetDropped'
  BY <1>8, <1>9, <1>11 DEF NoTargetDropped
<1> QED BY <1>1, <1>2, <1>3, <1>6, <1>7, <1>8, <1>10, <1>12

\* Staying on the current concept keeps the queue as it is.
LEMMA StayFacts ==
    ASSUME TypeOK, NoTargetDropped, AttemptsBounded,
           NEW m \in [Concepts -> Levels], NEW a \in [Concepts -> Nat], Elsewhere(m, a),
           UNCHANGED queue, mastery' = m, attempts' = a, targets' = targets
    PROVE  /\ current' \in Concepts /\ remaining' \in Seq(Concepts)
           /\ NoTargetDropped'
           /\ \A c \in Range(remaining') : a[c] < MaxAttempts
<1>1. Range(remaining) \subseteq Concepts /\ Range(targets) \subseteq Concepts
  BY DEF TypeOK, Range
<1>2. \A d \in Concepts \ {current} :
         Finished(mastery, attempts, d) => Finished(m, a, d)
  BY DEF Elsewhere, Finished, Learned
<1>3. current' = current /\ remaining' = remaining
  BY DEF queue
<1>4. NoTargetDropped'
  BY <1>1, <1>2, <1>3 DEF NoTargetDropped
<1>5. \A c \in Range(remaining) : a[c] < MaxAttempts
  BY <1>1 DEF Elsewhere, NoTargetDropped, AttemptsBounded
<1> QED BY <1>3, <1>4, <1>5 DEF TypeOK

----------------------------------------------------------------------------
(* Turns *)

\* A session that has not ended has no end reason, and its failures are within limits.
LEMMA Running ==
    ASSUME IInv, ~Ended
    PROVE  endReason = "none" /\ activations < MaxActivations /\ fails < FailureLimit
BY LimitsAssumption DEF IInv, AwaitingIsServable, FrustrationEnds, TypeOK

\* Ending without the AI keeps everything that was recorded.
LEMMA EndStep ==
    ASSUME IInv, ~Ended, NEW reason \in Reasons \ {"none", "frustration"}, EndWithoutAI(reason)
    PROVE  IInv'
<1>1. /\ NodeTypes' /\ AwaitingIsServable' /\ Ended' /\ endReason' = reason
      /\ open' = 0 /\ asked' = asked
  BY FinishFacts DEF EndWithoutAI, IInv
<1>2. UNCHANGED <<kind, targets, reviews, current, remaining, mastery, attempts, answered,
                  fails, recent, activations, interactions, timeUp>>
  BY DEF EndWithoutAI, plan, queue, progress
<1>3. TypeOK'
  BY <1>1, <1>2 DEF IInv, TypeOK, NodeTypes
<1>4. FrustrationEnds'
  BY <1>1, <1>2, Running DEF FrustrationEnds, IInv, TypeOK
<1>5. NoTargetDropped' /\ AttemptsBounded' /\ CurrentMayTry'
  BY <1>1, <1>2 DEF IInv, NoTargetDropped, AttemptsBounded, CurrentMayTry, Finished, Learned
<1>6. QuestionsFresh'
  BY <1>1, <1>2 DEF IInv, QuestionsFresh, TypeOK
<1> QED BY <1>1, <1>3, <1>4, <1>5, <1>6 DEF IInv

\* The three ways a turn may end for lack of the AI.
LEMMA BudgetStep ==
    ASSUME IInv, ~Ended, BudgetOrFailure
    PROVE  IInv'
BY EndStep DEF BudgetOrFailure, OverBudget, Reasons

\* A turn that grades nothing and stays on the current concept.
LEMMA UngradedStep ==
    ASSUME IInv, ~Ended, interactions' \in 0..(MaxInteractions + 1),
           NodeTypes', AwaitingIsServable', ~Ended', endReason' = "none",
           open' \in {0, open, asked + 1}, open' <= asked', asked' \in {asked, asked + 1},
           timeUp' \in BOOLEAN,
           UNCHANGED <<plan, queue, progress, activations>>
    PROVE  IInv'
<1>1. UNCHANGED <<kind, targets, reviews, current, remaining, mastery, attempts, answered,
                  fails, recent, activations>>
  BY DEF plan, queue, progress
<1>2. TypeOK'
  BY <1>1 DEF IInv, TypeOK, NodeTypes
<1>3. FrustrationEnds'
  BY <1>1, Running DEF FrustrationEnds, IInv, TypeOK
<1>4. NoTargetDropped' /\ AttemptsBounded' /\ CurrentMayTry'
  BY <1>1 DEF IInv, NoTargetDropped, AttemptsBounded, CurrentMayTry, Finished, Learned
<1>5. QuestionsFresh'
  BY <1>1 DEF IInv, QuestionsFresh, TypeOK
<1> QED BY <1>2, <1>3, <1>4, <1>5 DEF IInv

LEMMA CountFacts ==
    ASSUME TypeOK, CountInteraction
    PROVE  interactions' \in 0..(MaxInteractions + 1)
BY LimitsAssumption DEF TypeOK, CountInteraction, AtMost

\* Another action on the current concept, in a turn that grades nothing.
LEMMA PerformStep ==
    ASSUME IInv, ~Ended, NEW action, NEW k, action = "explain" => k \in Explanations,
           Perform(action, current, k),
           interactions' \in 0..(MaxInteractions + 1),
           UNCHANGED <<plan, queue, progress, activations, timeUp>>
    PROVE  IInv'
<1>1. current \in Concepts /\ current' = current /\ endReason = "none" /\ TypeOK
  BY Running DEF IInv, TypeOK, queue
<1>2. /\ NodeTypes' /\ AwaitingIsServable' /\ status' = "active"
      /\ open' \in {0, asked + 1} /\ open' <= asked' /\ asked' \in {asked, asked + 1}
  BY <1>1, PerformFacts
<1>3. ~Ended' /\ endReason' = "none" /\ timeUp' \in BOOLEAN
  BY <1>1, <1>2 DEF Ended, Perform, TypeOK
<1> QED BY <1>2, <1>3, UngradedStep

\* A turn that leaves the step as it is.
LEMMA SameStep ==
    ASSUME IInv, ~Ended, status' \in Statuses \ {"completed"},
           awaiting # "none" \/ status' = "initialising",
           status' = "initialising" => status = "initialising",
           hints' \in 0..HintsPerQuestion, interactions' \in 0..(MaxInteractions + 1),
           timeUp' \in BOOLEAN,
           UNCHANGED <<awaiting, endReason, plan, queue, progress, teaching,
                       open, asked, activations>>
    PROVE  IInv'
<1>1. UNCHANGED <<awaiting, endReason, explained, covered, lastPrompt, open, asked, current>>
  BY DEF teaching, queue
<1>2. endReason = "none" /\ TypeOK /\ AwaitingIsServable /\ open <= asked
  BY Running DEF IInv, QuestionsFresh
<1>3. NodeTypes'
  BY <1>1, <1>2 DEF TypeOK, NodeTypes
<1>4. AwaitingIsServable' /\ ~Ended'
  BY <1>1, <1>2 DEF AwaitingIsServable, Ended
<1> QED BY <1>1, <1>2, <1>3, <1>4, UngradedStep

\* What a turn that grades an answer establishes, m and a being the new student model.
Outcome(m, a) ==
    /\ NodeTypes' /\ AwaitingIsServable'
    /\ open' \in {0, asked + 1} /\ open' <= asked' /\ asked' \in {asked, asked + 1}
    /\ current' \in Concepts /\ remaining' \in Seq(Concepts)
    /\ NoTargetDropped'
    /\ \A c \in Range(remaining') : a[c] < MaxAttempts
    /\ ~Ended' => a[current'] < MaxAttempts + activations'
    /\ fails' \in Nat /\ recent' \in 0..3
    /\ activations' \in {activations, activations + 1}
    /\ FrustrationEnds'

\* What holds when decide is reached: the answer has been recorded.
Recorded(m, a, f, r) ==
    /\ m \in [Concepts -> Levels] /\ a \in [Concepts -> Nat] /\ Elsewhere(m, a)
    /\ a[current] = attempts[current] + 1
    /\ f \in Nat /\ r \in 0..3
    /\ mastery' = m /\ attempts' = a /\ targets' = targets

LEMMA EaseOutcome ==
    ASSUME IInv, ~Ended, NEW m, NEW a, NEW f, NEW r, Recorded(m, a, f, r), Ease(m, a)
    PROVE  Outcome(m, a)
<1>1. /\ TypeOK /\ NoTargetDropped /\ AttemptsBounded /\ endReason = "none"
      /\ activations \in Nat /\ activations < MaxActivations
      /\ attempts[current] < MaxAttempts + activations
      /\ current \in Concepts
  BY Running DEF IInv, TypeOK, CurrentMayTry
<1>2. /\ m \in [Concepts -> Levels] /\ a \in [Concepts -> Nat] /\ Elsewhere(m, a)
      /\ a[current] = attempts[current] + 1
      /\ mastery' = m /\ attempts' = a /\ targets' = targets
  BY DEF Recorded
<1>3. fails' = 0 /\ recent' = 0 /\ activations' = activations + 1
  BY DEF Ease
<1>4. a[current] < MaxAttempts + activations' /\ attempts[current] \in Nat
  BY <1>1, <1>2, <1>3, LimitsAssumption DEF TypeOK
<1>5. CASE activations + 1 >= MaxActivations
  <2>1. Finish("frustration") /\ UNCHANGED queue
    BY <1>5 DEF Ease
  <2>2. /\ NodeTypes' /\ AwaitingIsServable' /\ Ended' /\ endReason' = "frustration"
        /\ open' = 0 /\ asked' = asked
    BY <1>1, <2>1, FinishFacts DEF Reasons
  <2>3. FrustrationEnds'
    BY <1>1, <1>3, <1>5, <2>2, LimitsAssumption DEF FrustrationEnds
  <2> QED BY <1>1, <1>2, <1>3, <2>1, <2>2, <2>3, StayFacts DEF Outcome, TypeOK
<1>6. CASE activations + 1 < MaxActivations /\ remaining = <<>>
  <2>1. Perform("explain", current, "worked_example") /\ UNCHANGED queue
    BY <1>1, <1>6, LimitsAssumption DEF Ease
  <2>2. /\ NodeTypes' /\ AwaitingIsServable' /\ status' = "active" /\ current' = current
        /\ open' \in {0, asked + 1} /\ open' <= asked' /\ asked' \in {asked, asked + 1}
    BY <1>1, <2>1, PerformFacts DEF Explanations, queue
  <2>3. ~Ended' /\ endReason' = "none"
    BY <1>1, <2>1 DEF Ended, Perform
  <2>4. FrustrationEnds'
    BY <1>1, <1>3, <1>6, <2>3, LimitsAssumption DEF FrustrationEnds
  <2> QED BY <1>1, <1>2, <1>3, <1>4, <2>1, <2>2, <2>3, <2>4, StayFacts DEF Outcome
<1>7. CASE activations + 1 < MaxActivations /\ remaining # <<>>
  <2>1. PICK i \in 1..Len(remaining) : SwitchTo(i, m, a)
    BY <1>1, <1>7, LimitsAssumption DEF Ease
  <2>2. /\ NodeTypes' /\ AwaitingIsServable' /\ status' = "active"
        /\ open' \in {0, asked + 1} /\ open' <= asked' /\ asked' \in {asked, asked + 1}
        /\ current' \in Concepts /\ remaining' \in Seq(Concepts)
        /\ NoTargetDropped'
        /\ \A c \in Range(remaining') : a[c] < MaxAttempts
        /\ a[current'] < MaxAttempts
    BY <1>1, <1>2, <2>1, SwitchFacts
  <2>3. ~Ended' /\ endReason' = "none"
    BY <1>1, <2>1 DEF Ended, Perform, SwitchTo
  <2>4. FrustrationEnds'
    BY <1>1, <1>3, <1>7, <2>3, LimitsAssumption DEF FrustrationEnds
  <2>5. a[current'] < MaxAttempts + activations'
    BY <1>1, <1>2, <1>3, <2>2, LimitsAssumption
  <2> QED BY <1>1, <1>3, <2>2, <2>4, <2>5 DEF Outcome
<1> QED BY <1>1, <1>5, <1>6, <1>7, LimitsAssumption

LEMMA DecideOutcome ==
    ASSUME IInv, ~Ended, NEW m, NEW a, NEW f, NEW r, Recorded(m, a, f, r),
           NEW n, NEW correct, NEW poor, NEW slow,
           Decide(m, a, f, r, n, correct, poor, slow)
    PROVE  Outcome(m, a)
<1> DEFINE limit == LimitReason(m, n)
<1>1. /\ TypeOK /\ NoTargetDropped /\ AttemptsBounded /\ endReason = "none"
      /\ activations \in Nat /\ activations < MaxActivations
      /\ current \in Concepts
  BY Running DEF IInv, TypeOK
<1>2. /\ m \in [Concepts -> Levels] /\ a \in [Concepts -> Nat] /\ Elsewhere(m, a)
      /\ f \in Nat /\ r \in 0..3
      /\ mastery' = m /\ attempts' = a /\ targets' = targets
  BY DEF Recorded
<1>3. limit \in Reasons \ {"frustration"}
  BY DEF LimitReason, Reasons
<1>4. CASE limit = "none" /\ Frustrated(f, slow)
  BY <1>4, EaseOutcome DEF Decide
<1>5. CASE limit # "none"
  <2>1. fails' = f /\ recent' = r /\ activations' = activations
        /\ Finish(limit) /\ UNCHANGED queue
    BY <1>5 DEF Decide
  <2> HIDE DEF limit
  <2>2. /\ NodeTypes' /\ AwaitingIsServable' /\ Ended' /\ endReason' = limit
        /\ open' = 0 /\ asked' = asked
    BY <1>1, <1>3, <1>5, <2>1, FinishFacts
  <2>3. FrustrationEnds'
    BY <1>1, <1>3, <2>1, <2>2, LimitsAssumption DEF FrustrationEnds
  <2> QED BY <1>1, <1>2, <2>1, <2>2, <2>3, StayFacts DEF Outcome, TypeOK
<1>6. CASE limit = "none" /\ ~Frustrated(f, slow)
  <2>1. /\ fails' = f /\ recent' = r /\ activations' = activations
        /\ IF Finished(m, a, current) THEN MoveOn(m, a) ELSE KeepGoing(m, correct, poor)
    BY <1>6 DEF Decide
  <2>2. f < FailureLimit
    BY <1>2, <1>6, LimitsAssumption DEF Frustrated
  <2>3. ASSUME ~Ended', endReason' = "none" PROVE FrustrationEnds'
    BY <1>1, <2>1, <2>2, <2>3, LimitsAssumption DEF FrustrationEnds
  <2>4. CASE Finished(m, a, current) /\ remaining = <<>>
    <3>1. Finish("concepts_complete") /\ UNCHANGED queue
      BY <2>1, <2>4 DEF MoveOn
    <3>2. /\ NodeTypes' /\ AwaitingIsServable' /\ Ended' /\ endReason' = "concepts_complete"
          /\ open' = 0 /\ asked' = asked
      BY <1>1, <3>1, FinishFacts DEF Reasons
    <3>3. FrustrationEnds'
      BY <1>1, <2>1, <3>2, LimitsAssumption DEF FrustrationEnds
    <3> QED BY <1>1, <1>2, <2>1, <3>1, <3>2, <3>3, StayFacts DEF Outcome, TypeOK
  <2>5. CASE Finished(m, a, current) /\ remaining # <<>>
    <3>1. SwitchTo(1, m, a) /\ 1 \in 1..Len(remaining)
      BY <1>1, <2>1, <2>5 DEF MoveOn, TypeOK
    <3>2. /\ NodeTypes' /\ AwaitingIsServable' /\ status' = "active"
          /\ open' \in {0, asked + 1} /\ open' <= asked' /\ asked' \in {asked, asked + 1}
          /\ current' \in Concepts /\ remaining' \in Seq(Concepts)
          /\ NoTargetDropped'
          /\ \A c \in Range(remaining') : a[c] < MaxAttempts
          /\ a[current'] < MaxAttempts
      BY <1>1, <1>2, <3>1, SwitchFacts
    <3>3. ~Ended' /\ endReason' = "none"
      BY <1>1, <3>1 DEF Ended, Perform, SwitchTo
    <3>4. a[current'] < MaxAttempts + activations'
      BY <1>1, <1>2, <2>1, <3>2, LimitsAssumption
    <3> QED BY <1>2, <2>1, <2>3, <3>2, <3>3, <3>4 DEF Outcome
  <2>6. CASE ~Finished(m, a, current)
    <3>1. KeepGoing(m, correct, poor)
      BY <2>1, <2>6
    <3>2. PICK action, k : /\ action = "explain" => k \in Explanations
                           /\ Perform(action, current, k)
      BY <3>1, ExplanationKinds DEF KeepGoing
    <3>3. UNCHANGED queue /\ current' = current
      BY <3>1 DEF KeepGoing, queue
    <3>4. /\ NodeTypes' /\ AwaitingIsServable' /\ status' = "active"
          /\ open' \in {0, asked + 1} /\ open' <= asked' /\ asked' \in {asked, asked + 1}
      BY <1>1, <3>2, <3>3, PerformFacts
    <3>5. ~Ended' /\ endReason' = "none"
      BY <1>1, <3>2 DEF Ended, Perform
    <3>6. a[current'] < MaxAttempts + activations'
      BY <1>1, <1>2, <2>1, <2>6, <3>3, LimitsAssumption DEF Finished
    <3> QED BY <1>1, <1>2, <2>1, <2>3, <3>3, <3>4, <3>5, <3>6, StayFacts DEF Outcome
  <2> QED BY <2>4, <2>5, <2>6
<1> QED BY <1>4, <1>5, <1>6

\* A graded answer, whatever is graded.
LEMMA AnswerStep ==
    ASSUME IInv, NEW q, NEW correct \in BOOLEAN, NEW poor, NEW slow, NEW level \in Levels,
           Answer(q, correct, poor, slow, level)
    PROVE  IInv'
<1> DEFINE m == [mastery EXCEPT ![current] = level]
           a == [attempts EXCEPT ![current] = @ + 1]
           f == IF correct THEN 0 ELSE fails + 1
           r == AtMost(recent + 1, 3)
<1>1. ~Ended /\ awaiting = "answer"
  BY DEF Answer, Live, Ended
<1>2. CASE BudgetOrFailure
  BY <1>1, <1>2, BudgetStep
<1>3. CASE ~BudgetOrFailure
  <2>1. /\ mastery' = m /\ attempts' = a
        /\ answered' = answered \cup {open}
        /\ CountInteraction
        /\ Decide(m, a, f, r, interactions + 1, correct, poor, slow)
        /\ UNCHANGED <<plan, timeUp>>
    BY <1>3 DEF Answer
  <2>2. /\ TypeOK /\ AttemptsBounded /\ AwaitingIsServable /\ QuestionsFresh
        /\ attempts[current] < MaxAttempts + activations
        /\ activations < MaxActivations
    BY <1>1, Running DEF IInv, CurrentMayTry
  <2>3. Recorded(m, a, f, r)
    <3>1. m \in [Concepts -> Levels] /\ a \in [Concepts -> Nat] /\ Elsewhere(m, a)
          /\ a[current] = attempts[current] + 1
      BY <2>2 DEF TypeOK, Elsewhere
    <3>2. f \in Nat /\ r \in 0..3
      BY <2>2 DEF TypeOK, AtMost
    <3> QED BY <2>1, <3>1, <3>2 DEF Recorded, plan
  <2> HIDE DEF m, a, f, r
  <2>4. Outcome(m, a)
    BY <1>1, <2>1, <2>3, DecideOutcome
  <2>5. TypeOK'
    <3>1. interactions' \in 0..(MaxInteractions + 1)
      BY <2>1, <2>2, CountFacts
    <3>2. answered' \subseteq Nat /\ activations' \in Nat
      BY <2>1, <2>2, <2>4 DEF TypeOK, Outcome
    <3>3. NodeTypes' /\ current' \in Concepts /\ remaining' \in Seq(Concepts)
          /\ fails' \in Nat /\ recent' \in 0..3
      BY <2>4 DEF Outcome
    <3>4. mastery' \in [Concepts -> Levels] /\ attempts' \in [Concepts -> Nat]
      BY <2>1, <2>3 DEF Recorded
    <3>5. UNCHANGED <<kind, targets, reviews, timeUp>>
      BY <2>1 DEF plan
    <3> QED BY <2>2, <3>1, <3>2, <3>3, <3>4, <3>5 DEF TypeOK, NodeTypes
  <2>6. AttemptsBounded'
    <3>1. ASSUME NEW c \in Concepts
          PROVE  a[c] <= MaxAttempts + AtMost(activations', MaxActivations - 1)
      <4>1. /\ activations \in Nat /\ activations' \in {activations, activations + 1}
            /\ attempts[c] \in Nat /\ a[c] \in Nat
        BY <2>2, <2>3, <2>4 DEF TypeOK, Outcome, Recorded
      <4>2. activations <= AtMost(activations', MaxActivations - 1)
        BY <2>2, <4>1, LimitsAssumption DEF AtMost
      <4>3. CASE c = current
        BY <2>2, <2>3, <4>1, <4>2, <4>3, LimitsAssumption DEF Recorded, AtMost
      <4>4. CASE c # current
        <5>1. a[c] = attempts[c]
          BY <2>3, <4>4 DEF Recorded, Elsewhere
        <5> QED BY <2>2, <4>1, <4>2, <5>1, LimitsAssumption DEF AttemptsBounded, AtMost
      <4> QED BY <4>3, <4>4
    <3> QED BY <2>1, <2>4, <3>1 DEF AttemptsBounded, Outcome
  <2>7. CurrentMayTry'
    BY <2>1, <2>4 DEF CurrentMayTry, Outcome
  <2>8. QuestionsFresh'
    <3>1. open # 0 /\ open <= asked /\ open \in Nat /\ asked \in Nat /\ answered \subseteq 1..asked
      BY <1>1, <2>2 DEF AwaitingIsServable, QuestionsFresh, TypeOK
    <3>2. open' \in {0, asked + 1} /\ open' <= asked' /\ asked' \in {asked, asked + 1}
      BY <2>4 DEF Outcome
    <3>3. answered' \subseteq 1..asked
      BY <2>1, <3>1
    <3> QED BY <3>1, <3>2, <3>3 DEF QuestionsFresh
  <2> QED BY <2>4, <2>5, <2>6, <2>7, <2>8 DEF IInv, Outcome
<1> QED BY <1>2, <1>3

----------------------------------------------------------------------------
(* The sum of the attempts *)

\* Induction over the sets of concepts.
LEMMA ConceptInduction ==
    ASSUME NEW D,
           \A S \in SUBSET Concepts :
               (\A T \in SUBSET S : T # S => T \in D) => S \in D
    PROVE  \A S \in SUBSET Concepts : S \in D
<1> DEFINE rest == (SUBSET Concepts) \ D
           smaller == StrictSubsetOrdering(Concepts)
<1> SUFFICES ASSUME rest # {} PROVE FALSE
  OBVIOUS
<1>1. IsWellFoundedOn(smaller, SUBSET Concepts)
  <2>1. IsWellFoundedOn(smaller, FiniteSubsetsOf(Concepts))
    BY FS_StrictSubsetOrderingWellFounded, Zenon
  <2>2. FiniteSubsetsOf(Concepts) = SUBSET Concepts
    BY FS_FiniteSubsetsOfFinite, ConceptsAssumption, Zenon
  <2> QED BY <2>1, <2>2
<1>2. rest \subseteq SUBSET Concepts
  OBVIOUS
<1>3. \E S \in rest : \A T \in rest : ~(<<T, S>> \in smaller)
  <2> HIDE DEF rest, smaller
  <2> QED BY <1>1, <1>2, WFMin
<1>4. PICK S \in rest : \A T \in rest : ~(<<T, S>> \in smaller)
  BY <1>3
<1>5. ASSUME NEW T \in SUBSET S, T # S PROVE T \in D
  <2>1. <<T, S>> \in smaller
    BY <1>4, <1>5 DEF StrictSubsetOrdering
  <2> QED BY <1>4, <2>1
<1> QED BY <1>4, <1>5

\* The sum of f over S, given the sums g over smaller sets; the sum takes the concepts
\* of S in an order nothing is said about.
AnyOf(S)     == CHOOSE c \in S : TRUE
Sum(f, g, S) == IF S = {} THEN 0 ELSE f[AnyOf(S)] + g[S \ {AnyOf(S)}]

\* g sums f over every set of concepts within U.
Sums(f, g, U) == g = [S \in SUBSET U |-> Sum(f, g, S)]

LEMMA AnyOfFacts ==
    ASSUME NEW S, S # {}
    PROVE  AnyOf(S) \in S /\ S \ {AnyOf(S)} \in SUBSET S /\ S \ {AnyOf(S)} # S
BY DEF AnyOf

LEMMA SumsAgree ==
    ASSUME NEW f, NEW g, NEW h, NEW U \in SUBSET Concepts, NEW V \in SUBSET Concepts,
           Sums(f, g, U), Sums(f, h, V), NEW T \in SUBSET (U \cap V)
    PROVE  g[T] = h[T]
<1> DEFINE D == {S \in SUBSET Concepts : S \subseteq U \cap V => g[S] = h[S]}
<1>1. ASSUME NEW S \in SUBSET Concepts, \A R \in SUBSET S : R # S => R \in D
      PROVE  S \in D
  <2> SUFFICES ASSUME S \subseteq U \cap V PROVE g[S] = h[S]
    OBVIOUS
  <2>1. g[S] = Sum(f, g, S) /\ h[S] = Sum(f, h, S)
    BY DEF Sums
  <2>2. CASE S = {}
    BY <2>1, <2>2 DEF Sum
  <2>3. CASE S # {}
    <3>1. g[S \ {AnyOf(S)}] = h[S \ {AnyOf(S)}]
      BY <1>1, <2>3, AnyOfFacts
    <3> QED BY <2>1, <3>1 DEF Sum
  <2> QED BY <2>2, <2>3
<1> HIDE DEF D
<1>2. T \in D
  BY <1>1, ConceptInduction
<1> QED BY <1>2 DEF D

\* The recursion is well-founded: there is such a function.
LEMMA SomethingSums ==
    ASSUME NEW f
    PROVE  \E g : Sums(f, g, Concepts)
<1> DEFINE D == {U \in SUBSET Concepts : \E g : Sums(f, g, U)}
           some(U) == CHOOSE g : Sums(f, g, U)
<1>1. ASSUME NEW U \in SUBSET Concepts, \A T \in SUBSET U : T # U => T \in D
      PROVE  U \in D
  <2> DEFINE below == [T \in SUBSET U |-> some(T)[T]]
             g == [T \in SUBSET U |-> IF T = U THEN Sum(f, below, U) ELSE below[T]]
  <2>1. \A T \in SUBSET U : T # U => Sums(f, some(T), T)
    BY <1>1
  <2> HIDE DEF some
  <2>2. ASSUME NEW T \in SUBSET U, T # U PROVE g[T] = Sum(f, g, T)
    <3>1. Sums(f, some(T), T)
      BY <2>1, <2>2
    <3>2. g[T] = Sum(f, some(T), T)
      BY <2>2, <3>1 DEF Sums
    <3> HIDE DEF g
    <3>3. ASSUME T # {}
          PROVE  some(T)[T \ {AnyOf(T)}] = g[T \ {AnyOf(T)}]
      <4> DEFINE R == T \ {AnyOf(T)}
      <4>1. R \in SUBSET T /\ R \in SUBSET U /\ R # U
        BY <2>2, <3>3, AnyOfFacts
      <4> HIDE DEF R
      <4>2. Sums(f, some(R), R) /\ g[R] = some(R)[R]
        BY <2>1, <4>1 DEF g
      <4>3. R \in SUBSET (R \cap T) /\ R \in SUBSET Concepts /\ T \in SUBSET Concepts
        BY <4>1
      <4>4. some(T)[R] = g[R]
        BY <3>1, <4>2, <4>3, SumsAgree
      <4> QED BY <4>4 DEF R
    <3> QED BY <3>2, <3>3 DEF Sum
  <2>3. g[U] = Sum(f, g, U)
    <3>1. g[U] = Sum(f, below, U)
      OBVIOUS
    <3>2. \A T \in SUBSET U : T # U => below[T] = g[T]
      OBVIOUS
    <3> HIDE DEF g, below
    <3>3. U # {} => below[U \ {AnyOf(U)}] = g[U \ {AnyOf(U)}]
      BY <3>2, AnyOfFacts
    <3> QED BY <3>1, <3>3 DEF Sum
  <2>4. g = [T \in SUBSET U |-> g[T]]
    OBVIOUS
  <2> HIDE DEF g
  <2> QED BY <2>2, <2>3, <2>4 DEF Sums
<1> HIDE DEF D
<1>2. Concepts \in D
  BY <1>1, ConceptInduction
<1> QED BY <1>2 DEF D

\* SumFunction is such a sum, taken over all concepts.
LEMMA SumFunctionSums ==
    ASSUME NEW f, DOMAIN f = Concepts
    PROVE  \E g : Sums(f, g, Concepts) /\ SumFunction(f) = g[Concepts]
<1> DEFINE Is(g) == g = [S \in SUBSET Concepts |->
                            IF S = {} THEN 0
                            ELSE f[CHOOSE c \in S : TRUE] + g[S \ {CHOOSE c \in S : TRUE}]]
           g == CHOOSE x : Is(x)
<1>1. \A x : Is(x) <=> Sums(f, x, Concepts)
  BY DEF Sums, Sum, AnyOf
<1>2. \E x : Is(x)
  <2>1. PICK x : Sums(f, x, Concepts)
    BY SomethingSums
  <2> HIDE DEF Is
  <2> QED BY <1>1, <2>1
<1>3. Is(g)
  <2> HIDE DEF Is
  <2> QED BY <1>2
<1>4. SumFunction(f) = g[Concepts]
  BY DEF SumFunction, SumFunctionOnSet, FoldFunctionOnSet, MapThenFoldSet
<1> HIDE DEF Is, g
<1> QED BY <1>1, <1>3, <1>4

\* Nothing counted sums up to nothing; one more of one concept is one more in all.
LEMMA SumOfNothing == SumFunction([c \in Concepts |-> 0]) = 0
<1> DEFINE f == [c \in Concepts |-> 0]
<1>1. PICK g : Sums(f, g, Concepts) /\ SumFunction(f) = g[Concepts]
  BY SumFunctionSums
<1> DEFINE D == {S \in SUBSET Concepts : g[S] = 0}
<1>2. ASSUME NEW S \in SUBSET Concepts, \A T \in SUBSET S : T # S => T \in D
      PROVE  S \in D
  <2>1. g[S] = Sum(f, g, S)
    BY <1>1 DEF Sums
  <2>2. CASE S = {}
    BY <2>1, <2>2 DEF Sum
  <2>3. CASE S # {}
    <3>1. g[S \ {AnyOf(S)}] = 0 /\ f[AnyOf(S)] = 0
      BY <1>2, <2>3, AnyOfFacts
    <3> HIDE DEF f
    <3> QED BY <2>1, <2>3, <3>1 DEF Sum
  <2> QED BY <2>2, <2>3
<1>3. Concepts \in D
  <2> HIDE DEF D
  <2> QED BY <1>2, ConceptInduction
<1> QED BY <1>1, <1>3

LEMMA SumOfOneMore ==
    ASSUME NEW f \in [Concepts -> Nat], NEW c \in Concepts
    PROVE  /\ SumFunction(f) \in Nat
           /\ SumFunction([f EXCEPT ![c] = @ + 1]) = SumFunction(f) + 1
<1> DEFINE more == [f EXCEPT ![c] = @ + 1]
<1>1. PICK g : Sums(f, g, Concepts) /\ SumFunction(f) = g[Concepts]
  BY SumFunctionSums
<1>2. PICK h : Sums(more, h, Concepts) /\ SumFunction(more) = h[Concepts]
  BY SumFunctionSums
<1> DEFINE good(S) == /\ g[S] \in Nat
                      /\ h[S] = g[S] + (IF c \in S THEN 1 ELSE 0)
           D == {S \in SUBSET Concepts : good(S)}
<1>3. ASSUME NEW S \in SUBSET Concepts, \A T \in SUBSET S : T # S => T \in D
      PROVE  S \in D
  <2>1. g[S] = Sum(f, g, S) /\ h[S] = Sum(more, h, S)
    BY <1>1, <1>2 DEF Sums
  <2>2. CASE S = {}
    BY <2>1, <2>2 DEF Sum
  <2>3. CASE S # {}
    <3> DEFINE x == AnyOf(S)
               T == S \ {x}
    <3>1. x \in S /\ T \in SUBSET S /\ T # S
      BY <2>3, AnyOfFacts
    <3>2. good(T)
      BY <1>3, <3>1
    <3>3. g[S] = f[x] + g[T] /\ h[S] = more[x] + h[T]
      BY <2>1, <2>3 DEF Sum
    <3>4. f[x] \in Nat /\ more[x] = f[x] + (IF c = x THEN 1 ELSE 0)
      BY <3>1
    <3>5. c \in S <=> c = x \/ c \in T
      BY <3>1
    <3>6. c \in T => c # x
      OBVIOUS
    <3> HIDE DEF more, x, T
    <3>7. good(S)
      BY <3>2, <3>3, <3>4, <3>5, <3>6
    <3> QED BY <3>7
  <2> QED BY <2>2, <2>3
<1>4. Concepts \in D
  <2> HIDE DEF D
  <2> QED BY <1>3, ConceptInduction
<1> QED BY <1>1, <1>2, <1>4

\* Where nothing exceeds k and only A counts, the sum is at most k for each of A.
LEMMA SumIsBounded ==
    ASSUME NEW f \in [Concepts -> Nat], NEW k \in Nat, \A c \in Concepts : f[c] <= k,
           NEW A \in SUBSET Concepts, \A c \in Concepts \ A : f[c] = 0
    PROVE  SumFunction(f) <= k * Cardinality(A)
<1>1. PICK g : Sums(f, g, Concepts) /\ SumFunction(f) = g[Concepts]
  BY SumFunctionSums
<1> DEFINE good(S) == g[S] \in Nat /\ g[S] <= k * Cardinality(S \cap A)
           D == {S \in SUBSET Concepts : good(S)}
<1>2. ASSUME NEW S \in SUBSET Concepts, \A T \in SUBSET S : T # S => T \in D
      PROVE  S \in D
  <2>1. g[S] = Sum(f, g, S)
    BY <1>1 DEF Sums
  <2>2. CASE S = {}
    <3>1. Cardinality(S \cap A) = 0
      BY <2>2, FS_EmptySet
    <3> QED BY <2>1, <2>2, <3>1 DEF Sum
  <2>3. CASE S # {}
    <3> DEFINE x == AnyOf(S)
               T == S \ {x}
    <3>1. x \in S /\ T \in SUBSET S /\ T # S
      BY <2>3, AnyOfFacts
    <3>2. good(T)
      BY <1>2, <3>1
    <3>3. g[S] = f[x] + g[T] /\ f[x] \in Nat /\ f[x] <= k
      BY <2>1, <2>3, <3>1 DEF Sum
    <3> DEFINE n == Cardinality(T \cap A)
    <3>4. n \in Nat /\ Cardinality(S \cap A) = IF x \in A THEN n + 1 ELSE n
      <4>1. IsFiniteSet(T \cap A)
        BY <3>1, FS_Subset, ConceptsAssumption
      <4>2. S \cap A = IF x \in A THEN (T \cap A) \cup {x} ELSE T \cap A
        BY <3>1
      <4>3. x \notin T \cap A
        OBVIOUS
      <4> HIDE DEF x, T
      <4> QED BY <4>1, <4>2, <4>3, FS_AddElement, FS_CardinalityType
    <3>5. good(S)
      <4>1. g[T] \in Nat /\ g[T] <= k * n
        BY <3>2
      <4>2. x \notin A => f[x] = 0
        BY <3>1
      <4> HIDE DEF x, T, n
      <4>3. k * (n + 1) = k * n + k /\ k * n \in Nat
        BY <3>4
      <4>4. CASE x \in A
        <5>1. g[S] \in Nat /\ g[S] <= k * (n + 1)
          BY <3>3, <4>1, <4>3
        <5> QED BY <3>4, <4>4, <5>1
      <4>5. CASE x \notin A
        <5>1. g[S] \in Nat /\ g[S] <= k * n
          BY <3>3, <4>1, <4>2, <4>3, <4>5
        <5> QED BY <3>4, <4>5, <5>1
      <4> QED BY <4>4, <4>5
    <3> QED BY <3>5
  <2> QED BY <2>2, <2>3
<1>3. Concepts \in D
  <2> HIDE DEF D
  <2> QED BY <1>2, ConceptInduction
<1> QED BY <1>1, <1>3

\* As many questions were graded as attempts were counted.
EachCounted == IsFiniteSet(answered) /\ Cardinality(answered) = SumFunction(attempts)

LEMMA EachCountedNext == IInv /\ EachCounted /\ [Next]_vars => EachCounted'
<1> SUFFICES ASSUME IInv, EachCounted, [Next]_vars PROVE EachCounted'
  OBVIOUS
<1>1. CASE UNCHANGED <<answered, attempts>>
  BY <1>1 DEF EachCounted
<1>2. CASE answered' = answered \cup {open} /\ attempts' = [attempts EXCEPT ![current] = @ + 1]
           /\ ~Ended /\ awaiting = "answer"
  <2>1. open \notin answered
    BY <1>2 DEF IInv, AwaitingIsServable, QuestionsFresh
  <2>2. IsFiniteSet(answered') /\ Cardinality(answered') = Cardinality(answered) + 1
    BY <1>2, <2>1, FS_AddElement DEF EachCounted
  <2>3. SumFunction(attempts') = SumFunction(attempts) + 1
    BY <1>2, SumOfOneMore DEF IInv, TypeOK
  <2> QED BY <2>2, <2>3 DEF EachCounted
<1>3. CASE Next /\ ~SomeAnswer
  <2> USE DEF progress, BudgetOrFailure, OverBudget, EndWithoutAI
  <2>1. UNCHANGED progress
    BY <1>3 DEF Next, Begin, Acknowledge, FollowUp, Hint, EndSession, Pause, Unpause, TimeRunsOut
  <2> QED BY <1>1, <2>1
<1>4. CASE SomeAnswer
  <2>1. PICK q \in 1..asked, correct, poor, slow \in BOOLEAN, level \in Levels :
            Answer(q, correct, poor, slow, level)
    BY <1>4 DEF SomeAnswer
  <2>2. CASE BudgetOrFailure
    BY <1>1, <2>2 DEF BudgetOrFailure, OverBudget, EndWithoutAI, progress
  <2>3. CASE ~BudgetOrFailure
    BY <1>2, <2>1, <2>3 DEF Answer, Live, Ended
  <2> QED BY <2>2, <2>3
<1>5. CASE UNCHANGED vars
  BY <1>1, <1>5 DEF vars, progress
<1> QED BY <1>3, <1>4, <1>5

----------------------------------------------------------------------------
(* How many answers a session may grade *)

\* The session works on nothing but its targets.
OnTargets ==
    /\ current \in Range(targets)
    /\ Range(remaining) \subseteq Range(targets)
    /\ \A c \in Concepts \ Range(targets) : attempts[c] = 0

\* Switching takes a concept out of the queue and may put the current one in.
LEMMA SwitchQueue ==
    ASSUME TypeOK, NoTargetDropped, NEW m, NEW a, NEW i \in 1..Len(remaining), SwitchTo(i, m, a)
    PROVE  current' \in Range(remaining) /\ Range(remaining') \subseteq Range(remaining) \cup {current}
<1> DEFINE rest == RemoveAt(remaining, i)
<1>1. /\ rest \in Seq(Concepts) /\ IsInjective(rest)
      /\ Range(rest) = Range(remaining) \ {remaining[i]}
  BY TakeOut DEF TypeOK, NoTargetDropped
<1>2. Range(Append(rest, current)) = Range(rest) \cup {current}
  <2> HIDE DEF rest
  <2> QED BY <1>1, QueueUp DEF TypeOK, NoTargetDropped
<1>3. current' = remaining[i] /\ remaining' \in {rest, Append(rest, current)}
  BY DEF SwitchTo
<1>4. remaining[i] \in Range(remaining)
  BY DEF Range, TypeOK
<1> HIDE DEF rest
<1> QED BY <1>1, <1>2, <1>3, <1>4

LEMMA OnTargetsInit == Init => OnTargets
<1> SUFFICES ASSUME Init PROVE OnTargets
  OBVIOUS
<1>1. PICK n \in 0..Cardinality(Concepts) : targets \in [1..n -> Concepts]
  BY DEF Init, SeqOf
<1>2. targets \in Seq(Concepts) /\ targets # <<>>
  BY <1>1 DEF Init
<1>3. current = targets[1] /\ 1 \in DOMAIN targets
  BY <1>2 DEF Init
<1>4. \A i \in DOMAIN remaining : i + 1 \in DOMAIN targets /\ remaining[i] = targets[i + 1]
  BY <1>2 DEF Init
<1>5. \A c \in Concepts : attempts[c] = 0
  BY DEF Init
<1> QED BY <1>3, <1>4, <1>5 DEF OnTargets, Range

LEMMA OnTargetsNext == IInv /\ OnTargets /\ [Next]_vars => OnTargets'
<1> SUFFICES ASSUME IInv, OnTargets, [Next]_vars PROVE OnTargets'
  OBVIOUS
<1>1. TypeOK /\ NoTargetDropped
  BY DEF IInv
<1>2. CASE UNCHANGED <<targets, queue, attempts>>
  BY <1>2 DEF OnTargets, queue
<1>3. CASE Next /\ ~SomeAnswer
  <2> USE DEF BudgetOrFailure, OverBudget, EndWithoutAI
  <2>1. UNCHANGED <<plan, queue, progress>>
    BY <1>3 DEF Next, Begin, Acknowledge, FollowUp, Hint, EndSession, Pause, Unpause, TimeRunsOut
  <2> QED BY <1>2, <2>1 DEF plan, progress
<1>4. ASSUME NEW q, NEW correct, NEW poor, NEW slow, NEW level,
             Answer(q, correct, poor, slow, level)
      PROVE  OnTargets'
  <2>1. CASE BudgetOrFailure
    BY <1>2, <2>1 DEF BudgetOrFailure, OverBudget, EndWithoutAI, plan, progress
  <2>2. CASE ~BudgetOrFailure
    <3> DEFINE m == [mastery EXCEPT ![current] = level]
               a == [attempts EXCEPT ![current] = @ + 1]
               f == IF correct THEN 0 ELSE fails + 1
    <3>1. /\ attempts' = a /\ targets' = targets
          /\ Decide(m, a, f, AtMost(recent + 1, 3), interactions + 1, correct, poor, slow)
      BY <1>4, <2>2 DEF Answer, plan
    <3>2. \A c \in Concepts \ Range(targets) : attempts'[c] = 0
      BY <1>1, <3>1 DEF OnTargets, TypeOK
    <3> HIDE DEF m, a, f
    <3>3. UNCHANGED queue \/ \E i \in 1..Len(remaining) : SwitchTo(i, m, a)
      BY <1>1, <3>1 DEF Decide, Ease, MoveOn, KeepGoing, TypeOK
    <3>4. CASE UNCHANGED queue
      BY <3>1, <3>2, <3>4 DEF OnTargets, queue
    <3>5. ASSUME NEW i \in 1..Len(remaining), SwitchTo(i, m, a) PROVE OnTargets'
      BY <1>1, <3>1, <3>2, <3>5, SwitchQueue DEF OnTargets
    <3> QED BY <3>3, <3>4, <3>5
  <2> QED BY <2>1, <2>2
<1>5. CASE UNCHANGED vars
  BY <1>2, <1>5 DEF vars, plan, progress
<1> QED BY <1>3, <1>4, <1>5 DEF SomeAnswer

\* What decide_next has found when a session goes on after a graded answer.
LEMMA GoesOn ==
    ASSUME IInv, Next, answered' # answered, ~Ended'
    PROVE  /\ interactions' = interactions + 1 /\ interactions' < MaxInteractions
           /\ ~timeUp
           /\ \E c \in Range(targets) : ~Learned(mastery', c)
<1>1. PICK q \in 1..asked, correct \in BOOLEAN, poor \in BOOLEAN, slow \in BOOLEAN,
           level \in Levels : Answer(q, correct, poor, slow, level)
  BY DEF Next, Begin, SomeAnswer, Acknowledge, FollowUp, Hint, EndSession, Pause, Unpause,
     TimeRunsOut, BudgetOrFailure, OverBudget, EndWithoutAI, progress
<1> DEFINE m == [mastery EXCEPT ![current] = level]
           a == [attempts EXCEPT ![current] = @ + 1]
           f == IF correct THEN 0 ELSE fails + 1
<1>2. /\ mastery' = m /\ CountInteraction
      /\ Decide(m, a, f, AtMost(recent + 1, 3), interactions + 1, correct, poor, slow)
  BY <1>1 DEF Answer, BudgetOrFailure, OverBudget, EndWithoutAI, progress
<1> HIDE DEF m, a, f
<1>3. LimitReason(m, interactions + 1) = "none"
  BY <1>2 DEF Decide, Finish, Ended
<1>4. /\ interactions + 1 < MaxInteractions
      /\ ~timeUp
      /\ ~ \A c \in Range(targets) : Learned(m, c)
  BY <1>3, LimitsAssumption DEF LimitReason, IInv, TypeOK
<1>5. interactions' = interactions + 1
  BY <1>2, <1>4, LimitsAssumption DEF CountInteraction, AtMost, IInv, TypeOK
<1> QED BY <1>2, <1>4, <1>5

\* As many answers were graded as interactions allow, with one more to come while the
\* session runs.
Paced ==
    /\ Cardinality(answered) <= interactions
    /\ Cardinality(answered) <= MaxInteractions
    /\ ~Ended => Cardinality(answered) < MaxInteractions

LEMMA PacedNext == IInv /\ EachCounted /\ Paced /\ [Next]_vars => Paced'
<1> SUFFICES ASSUME IInv, EachCounted, Paced, [Next]_vars PROVE Paced'
  OBVIOUS
<1>1. /\ IsFiniteSet(answered) /\ Cardinality(answered) \in Nat
      /\ interactions \in 0..(MaxInteractions + 1)
  BY FS_CardinalityType DEF EachCounted, IInv, TypeOK
<1>2. CASE UNCHANGED vars
  BY <1>2 DEF Paced, Ended, vars, lifecycle, progress
<1>3. CASE Next
  <2> USE DEF CountInteraction, AtMost, EndWithoutAI, progress
  <2>1. ~Ended' => ~Ended
    BY <1>3 DEF Next, Begin, SomeAnswer, Answer, Acknowledge, FollowUp, Hint, EndSession, Pause,
       Unpause, TimeRunsOut, Live, Ended, lifecycle
  <2>2. CASE UNCHANGED answered
    <3>1. interactions' \in {interactions, AtMost(interactions + 1, MaxInteractions + 1)}
      BY <1>3 DEF Next, Begin, SomeAnswer, Answer, Acknowledge, FollowUp, Hint, EndSession, Pause,
         Unpause, TimeRunsOut, BudgetOrFailure, OverBudget
    <3> QED BY <1>1, <2>1, <2>2, <3>1 DEF Paced
  <2>3. CASE answered' # answered
    <3>1. /\ answered' = answered \cup {open}
          /\ CountInteraction /\ ~Ended
      BY <1>3, <2>3 DEF Next, Begin, SomeAnswer, Answer, Acknowledge, FollowUp, Hint, EndSession,
         Pause, Unpause, TimeRunsOut, BudgetOrFailure, OverBudget, Live, Ended
    <3>2. Cardinality(answered') = Cardinality(answered) + 1
      BY <1>1, <2>3, <3>1, FS_AddElement
    <3>3. ~Ended' => interactions' = interactions + 1 /\ interactions' < MaxInteractions
      BY <1>3, <2>3, GoesOn
    <3> QED BY <1>1, <3>1, <3>2, <3>3, LimitsAssumption DEF Paced
  <2> QED BY <2>2, <2>3
<1> QED BY <1>2, <1>3

----------------------------------------------------------------------------
(* The specification *)

LEMMA InitInv == Init => IInv
<1> SUFFICES ASSUME Init PROVE IInv
  OBVIOUS
<1>1. PICK n \in 0..Cardinality(Concepts) : targets \in [1..n -> Concepts]
  BY DEF Init, SeqOf
<1>2. targets \in Seq(Concepts) /\ targets # <<>> /\ IsInjective(targets)
  BY <1>1 DEF Init
<1>3. /\ current = targets[1] /\ Len(targets) \in Nat \ {0}
      /\ remaining \in Seq(Concepts) /\ Len(remaining) = Len(targets) - 1
      /\ \A i \in 1..Len(remaining) : remaining[i] = targets[i + 1]
  BY <1>2 DEF Init
<1>4. DOMAIN targets = 1..Len(targets) /\ DOMAIN remaining = 1..Len(remaining)
  BY <1>2, <1>3
<1>5. current \in Concepts
  BY <1>2, <1>3
<1>6. TypeOK
  <2>1. reviews \subseteq Concepts
    BY <1>2, <1>4 DEF Init, Range
  <2>2. mastery \in [Concepts -> Levels] /\ kind \in Kinds
    BY DEF Init
  <2>3. attempts \in [Concepts -> Nat] /\ explained \in [Concepts -> 0..2]
    BY DEF Init
  <2>4. lastPrompt \in [kind: Explanations \cup {"none"}, about: Concepts \cup {None}]
    BY DEF Init
  <2>5. /\ status \in Statuses /\ awaiting = "none" /\ endReason \in Reasons
        /\ covered = {} /\ open = 0 /\ asked = 0 /\ answered = {} /\ hints = 0
        /\ fails = 0 /\ recent = 0 /\ activations = 0 /\ interactions = 0
    BY DEF Init, Statuses, Reasons
  <2>6. 0 \in 0..HintsPerQuestion /\ 0 \in 0..(MaxInteractions + 1)
    BY LimitsAssumption
  <2>7. /\ awaiting \in {"none", "acknowledgement", "answer", "ended"}
        /\ covered \subseteq Concepts /\ open \in Nat /\ asked \in Nat
        /\ answered \subseteq Nat /\ hints \in 0..HintsPerQuestion
        /\ fails \in Nat /\ recent \in 0..3 /\ activations \in Nat
        /\ interactions \in 0..(MaxInteractions + 1)
    BY <2>5, <2>6
  <2>8. timeUp \in BOOLEAN
    BY Zenon DEF Init
  <2> QED BY <1>2, <1>3, <1>5, <2>1, <2>2, <2>3, <2>4, <2>5, <2>7, <2>8, Zenon DEF TypeOK
<1>7. NoTargetDropped
  <2>0. \A i, j \in 1..Len(targets) : targets[i] = targets[j] => i = j
    BY <1>2, <1>4 DEF IsInjective
  <2>1. IsInjective(remaining)
    <3> SUFFICES ASSUME NEW i \in 1..Len(remaining), NEW j \in 1..Len(remaining),
                        remaining[i] = remaining[j]
                 PROVE  i = j
      BY <1>4 DEF IsInjective
    <3>1. targets[i + 1] = targets[j + 1] /\ i + 1 \in 1..Len(targets) /\ j + 1 \in 1..Len(targets)
      BY <1>3
    <3> QED BY <2>0, <3>1
  <2>2. current \notin Range(remaining)
    <3> SUFFICES ASSUME NEW i \in 1..Len(remaining), remaining[i] = current PROVE FALSE
      BY <1>4 DEF Range
    <3>1. targets[i + 1] = targets[1] /\ i + 1 \in 1..Len(targets) /\ 1 \in 1..Len(targets)
      BY <1>3
    <3> QED BY <2>0, <3>1
  <2>3. ASSUME NEW c \in Range(targets) PROVE c = current \/ c \in Range(remaining)
    <3>1. PICK i \in 1..Len(targets) : c = targets[i]
      BY <1>4 DEF Range
    <3>2. CASE i = 1
      BY <1>3, <3>1, <3>2
    <3>3. CASE i > 1
      <4>1. i - 1 \in 1..Len(remaining) /\ remaining[i - 1] = c
        BY <1>3, <3>1, <3>3
      <4> QED BY <1>4, <4>1 DEF Range
    <3> QED BY <3>1, <3>2, <3>3
  <2> QED BY <2>1, <2>2, <2>3 DEF NoTargetDropped
<1>8. AttemptsBounded /\ CurrentMayTry
  <2>1. Range(remaining) \subseteq Concepts
    BY <1>3, <1>4 DEF Range
  <2> QED BY <1>5, <2>1, LimitsAssumption DEF Init, AttemptsBounded, CurrentMayTry, AtMost
<1>9. AwaitingIsServable /\ FrustrationEnds /\ QuestionsFresh
  BY LimitsAssumption DEF Init, AwaitingIsServable, FrustrationEnds, QuestionsFresh, Ended
<1> QED BY <1>6, <1>7, <1>8, <1>9 DEF IInv

LEMMA NextInv == IInv /\ [Next]_vars => IInv'
<1> SUFFICES ASSUME IInv, [Next]_vars PROVE IInv'
  OBVIOUS
<1>1. TypeOK /\ AwaitingIsServable /\ QuestionsFresh
  BY DEF IInv
<1>2. CASE Begin
  <2>1. ~Ended
    BY <1>2 DEF Begin, Ended
  <2>2. CASE BudgetOrFailure
    BY <2>1, <2>2, BudgetStep
  <2>3. CASE ~BudgetOrFailure
    BY <1>1, <1>2, <2>1, <2>3, PerformStep, ExplanationKinds DEF Begin, TypeOK
  <2> QED BY <2>2, <2>3
<1>3. CASE SomeAnswer
  BY <1>3, AnswerStep DEF SomeAnswer
<1>4. ASSUME NEW understood \in BOOLEAN, Acknowledge(understood) PROVE IInv'
  <2>1. ~Ended
    BY <1>4 DEF Acknowledge, Live, Ended
  <2>2. CASE BudgetOrFailure
    BY <2>1, <2>2, BudgetStep
  <2>3. CASE ~BudgetOrFailure
    <3>1. interactions' \in 0..(MaxInteractions + 1)
      BY <1>1, <1>4, <2>3, CountFacts DEF Acknowledge
    <3> QED BY <1>4, <2>1, <2>3, <3>1, PerformStep DEF Acknowledge, Explanations
  <2> QED BY <2>2, <2>3
<1>5. CASE FollowUp
  <2>1. ~Ended
    BY <1>5 DEF FollowUp, Live, Ended
  <2>2. CASE BudgetOrFailure
    BY <2>1, <2>2, BudgetStep
  <2>3. CASE ~BudgetOrFailure
    <3>1. interactions' \in 0..(MaxInteractions + 1)
      BY <1>1, <1>5, <2>3, CountFacts DEF FollowUp
    <3>2. hints' \in 0..HintsPerQuestion /\ timeUp' \in BOOLEAN /\ status' = "active"
      BY <1>1, <1>5, <2>3 DEF FollowUp, asking, TypeOK
    <3> QED BY <1>5, <2>1, <2>3, <3>1, <3>2, SameStep DEF FollowUp, asking, Statuses
  <2> QED BY <2>2, <2>3
<1>6. CASE Hint
  <2>1. ~Ended
    BY <1>6 DEF Hint, Live, Ended
  <2>2. CASE OverBudget
    BY <2>1, <2>2, BudgetStep DEF BudgetOrFailure
  <2>3. CASE ~OverBudget
    <3>1. interactions' \in 0..(MaxInteractions + 1)
      BY <1>1, <1>6, <2>3, CountFacts DEF Hint
    <3>2. hints' \in 0..HintsPerQuestion
      BY <1>1, <1>6, <2>3, LimitsAssumption DEF Hint, TypeOK, AtMost
    <3> QED BY <1>1, <1>6, <2>1, <2>3, <3>1, <3>2, SameStep DEF Hint, Statuses, TypeOK
  <2> QED BY <2>2, <2>3
<1>7. CASE EndSession
  BY <1>7, EndStep DEF EndSession, Ended, Reasons
<1>8. CASE Pause
  <2>1. ~Ended /\ awaiting # "none"
    BY <1>1, <1>8 DEF Pause, Ended, AwaitingIsServable
  <2> QED BY <1>1, <1>8, <2>1, SameStep DEF Pause, asking, Statuses, TypeOK
<1>9. CASE Unpause
  <2>1. ~Ended /\ awaiting # "none"
    BY <1>1, <1>9 DEF Unpause, Ended, AwaitingIsServable
  <2> QED BY <1>1, <1>9, <2>1, SameStep DEF Unpause, asking, Statuses, TypeOK
<1>10. CASE TimeRunsOut
  <2>1. ~Ended
    BY <1>10 DEF TimeRunsOut, Ended
  <2>2. /\ UNCHANGED <<status, awaiting, endReason, hints, open, asked, teaching, plan, queue,
                       progress, activations, interactions>>
        /\ timeUp' = TRUE
    BY <1>10 DEF TimeRunsOut, lifecycle, asking
  <2>3. status' \in Statuses \ {"completed"}
        /\ (awaiting # "none" \/ status' = "initialising")
    BY <1>1, <2>1, <2>2 DEF TypeOK, AwaitingIsServable, Ended
  <2> QED BY <1>1, <2>1, <2>2, <2>3, SameStep DEF TypeOK
<1>11. CASE UNCHANGED vars
  BY <1>11 DEF IInv, TypeOK, AwaitingIsServable, FrustrationEnds, NoTargetDropped,
     AttemptsBounded, CurrentMayTry, QuestionsFresh, Finished, Learned, Ended,
     vars, lifecycle, plan, queue, progress, teaching, asking
<1> QED BY <1>2, <1>3, <1>4, <1>5, <1>6, <1>7, <1>8, <1>9, <1>10, <1>11 DEF Next

LEMMA Invariance == Spec => []IInv
<1> QED BY InitInv, NextInv, PTL DEF Spec

\* Every variable keeps its type, for any concepts, levels and limits.
THEOREM Typed == Spec => []TypeOK
<1>1. IInv => TypeOK
  BY DEF IInv
<1> QED BY <1>1, Invariance, PTL

\* What the student is asked for is always what the server accepts next.
THEOREM Servable == Spec => []AwaitingIsServable
<1>1. IInv => AwaitingIsServable
  BY DEF IInv
<1> QED BY <1>1, Invariance, PTL

\* Every target stays current, queued or finished while the session runs, in whatever
\* order the student fails and the tutor switches.
THEOREM TargetsKept == Spec => []NoTargetDropped
<1>1. IInv => NoTargetDropped
  BY DEF IInv
<1> QED BY <1>1, Invariance, PTL

\* A concept takes max_attempts_per_concept answers and at most one more for each
\* activation of the frustration guard that did not end the session.
THEOREM AttemptsStayBounded == Spec => []AttemptsBounded
<1>1. IInv => AttemptsBounded
  BY DEF IInv
<1> QED BY <1>1, Invariance, PTL

\* Each question is graded at most once and each grading counts one attempt, however often
\* and whenever an answer is sent again.
THEOREM GradingCounts == Spec => []GradedOnce
<1>1. Init => EachCounted
  BY FS_EmptySet, SumOfNothing DEF Init, EachCounted
<1>2. IInv /\ EachCounted => GradedOnce
  BY DEF IInv, EachCounted, QuestionsFresh, GradedOnce
<1> QED BY <1>1, <1>2, EachCountedNext, Invariance, PTL DEF Spec

\* No session grades more answers than its interaction limit, nor more than its targets
\* may take between them, whatever the tutor decides.
THEOREM AnswersAreLimited == Spec => []AnswersLimited
<1>1. Init => EachCounted /\ Paced /\ OnTargets
  BY FS_EmptySet, SumOfNothing, OnTargetsInit, LimitsAssumption DEF Init, EachCounted, Paced
<1>2. IInv /\ EachCounted /\ Paced /\ OnTargets => AnswersLimited
  <2> SUFFICES ASSUME IInv, EachCounted, Paced, OnTargets PROVE AnswersLimited
    OBVIOUS
  <2> DEFINE most == MaxAttempts + MaxActivations - 1
  <2>1. most \in Nat /\ \A c \in Concepts : attempts[c] <= most
    BY LimitsAssumption DEF IInv, TypeOK, AttemptsBounded, AtMost
  <2>2. attempts \in [Concepts -> Nat] /\ Range(targets) \in SUBSET Concepts
    BY DEF IInv, TypeOK, Range
  <2>3. SumFunction(attempts) <= most * Cardinality(Range(targets))
    <3> HIDE DEF most
    <3> QED BY <2>1, <2>2, SumIsBounded DEF OnTargets
  <2> QED BY <2>3 DEF EachCounted, Paced, AnswersLimited
<1> QED BY <1>1, <1>2, EachCountedNext, PacedNext, OnTargetsNext, Invariance, PTL DEF Spec

\* The frustration guard ends the session at its last activation and no streak of
\* failures outlives the turn that reaches the limit.
THEOREM FrustrationIsFinal == Spec => []FrustrationEnds
<1>1. IInv => FrustrationEnds
  BY DEF IInv
<1> QED BY <1>1, Invariance, PTL

\* A session goes on after a graded answer only within its limits.
THEOREM WithinLimits == Spec => GoesOnWithinLimits
<1>1. IInv /\ [Next]_vars =>
        [answered' # answered /\ ~Ended' =>
            /\ interactions' < MaxInteractions
            /\ ~timeUp
            /\ \E c \in Range(targets) : ~Learned(mastery', c)]_vars
  BY GoesOn
<1> QED BY <1>1, Invariance, PTL DEF Spec, GoesOnWithinLimits

=============================================================================
