-------------------------- MODULE LearningTurn_proofs --------------------------
(***************************************************************************)
(* No committed answer is lost from the mastery row, and reviews spread    *)
(* out, for any number of turns that overlap, any rows they start from and *)
(* whatever Redis holds. What makes the first inductive is what a turn     *)
(* that is not committed knows: its own version of the row, if it has one, *)
(* is the committed row with its own answer added, since nobody else can   *)
(* write while it has the lock.                                            *)
(***************************************************************************)
EXTENDS LearningTurn, FiniteSetTheorems, TLAPS

Gradings == [ai : {"none", "diagnose", "grade"}, correct : BOOLEAN, detected : BOOLEAN]
Results == [ai : {"none", "diagnose", "grade"}, correct : BOOLEAN, detected : BOOLEAN,
            written : BOOLEAN]
Drafts == [row : Rows, slip : Slips]

TypeOK ==
    /\ today \in Nat
    /\ row \in Rows /\ slip \in Slips
    /\ draft \in [Turns -> Drafts \cup {NoDraft}]
    /\ lock \in Turns \cup {Nobody}
    /\ stage \in [Turns -> Stages]
    /\ result \in [Turns -> Results]

Adds(b) == IF b THEN 1 ELSE 0

WriterHoldsLock == \A t \in Turns : Drafting(t) => lock = t

EarlyUnwritten ==
    \A t \in Turns : stage[t] \in {"waiting", "grading", "graded"} => ~result[t].written

OwnAnswerOnly ==
    \A t \in Turns : stage[t] # "committed" =>
        /\ RowOf(t).attempts = row.attempts + Adds(result[t].written)
        /\ SlipOf(t).count = slip.count + Adds(result[t].written /\ result[t].detected)

Counted == TypeOK /\ WriterHoldsLock /\ EarlyUnwritten /\ OwnAnswerOnly /\ NoAttemptLost

----------------------------------------------------------------------------
LEMMA DraftsAreRows ==
    ASSUME TypeOK, NEW t \in Turns
    PROVE  /\ RowOf(t) \in Rows /\ SlipOf(t) \in Slips
           /\ NoDraft \notin Drafts
<1>1. NoDraft \notin Drafts
  BY StudentAssumption DEF NoDraft, Drafts
<1> QED  BY <1>1 DEF TypeOK, RowOf, SlipOf, Drafting, Drafts

LEMMA GradingType ==
    ASSUME NEW q, NEW r
    PROVE  Grading(q, r) \in Gradings
<1>1. \A c, d \in BOOLEAN : Exactly(c, d) \in Gradings
  BY DEF Exactly, Gradings
<1>2. WithAI("diagnose") \in Gradings /\ WithAI("grade") \in Gradings
  BY DEF WithAI, Gradings
<1>3. (r = q.answer) \in BOOLEAN
  OBVIOUS
<1> QED  BY <1>1, <1>2, <1>3 DEF Grading

\* What an assessed answer does to a row.
LEMMA AttemptedRow ==
    ASSUME TypeOK, NEW r \in Rows, NEW t \in Turns, NEW correct \in BOOLEAN, NEW level \in Levels
    PROVE  /\ Attempted(r, t, correct, level) \in Rows
           /\ Attempted(r, t, correct, level).attempts = r.attempts + 1
           /\ Attempted(r, t, correct, level).interval = r.interval
           /\ Attempted(r, t, correct, level).reps = r.reps
           /\ Attempted(r, t, correct, level).by = <<t, "answer">>
<1>1. /\ r.attempts + 1 \in Nat /\ (IF correct THEN r.streak + 1 ELSE 0) \in Nat
      /\ today \in Nat \cup {Never}
  BY DEF Rows, TypeOK
<1> DEFINE streak == IF correct THEN r.streak + 1 ELSE 0
<1>2. Attempted(r, t, correct, level) =
        [r EXCEPT !.attempts = r.attempts + 1, !.level = level, !.anchor = today,
                  !.streak = streak, !.by = <<t, "answer">>]
  BY DEF Attempted
<1> HIDE DEF streak
<1>3. Attempted(r, t, correct, level) =
        [attempts |-> r.attempts + 1, level |-> level, anchor |-> today,
         streak |-> streak, reps |-> r.reps,
         ease |-> r.ease, interval |-> r.interval, due |-> r.due, by |-> <<t, "answer">>]
  BY <1>2 DEF Rows
<1>4. streak \in Nat
  BY <1>1 DEF streak
<1>5. <<t, "answer">> \in Versions
  BY DEF Versions, Changes
<1> QED  BY <1>1, <1>3, <1>4, <1>5 DEF Rows

\* What the daily job does to a row.
LEMMA MaterialisedRow ==
    ASSUME TypeOK, NEW r \in Rows
    PROVE  /\ Materialised(r) \in Rows
           /\ Materialised(r).attempts = r.attempts
           /\ Materialised(r).interval = r.interval
           /\ Materialised(r).reps = r.reps
<1>1. Effective(r) \in Levels
  BY StudentAssumption DEF Effective, EffectiveOn, Decayed, Forgets, Levels, Rows, TypeOK, Never
<1>2. CASE Effective(r) = r.level
  BY <1>2 DEF Materialised
<1>3. CASE Effective(r) # r.level
  <2>1. Materialised(r) = [r EXCEPT !.level = Effective(r), !.anchor = today]
    BY <1>3 DEF Materialised
  <2> HIDE DEF Materialised
  <2>2. Materialised(r) =
        [attempts |-> r.attempts, level |-> Effective(r), anchor |-> today,
         streak |-> r.streak, reps |-> r.reps,
         ease |-> r.ease, interval |-> r.interval, due |-> r.due, by |-> r.by]
    BY <2>1 DEF Rows
  <2> QED  BY <1>1, <2>2 DEF Rows, TypeOK
<1> QED  BY <1>2, <1>3

\* What a detection and a resolution do to a misconception.
LEMMA Detection ==
    ASSUME NEW s \in Slips
    PROVE  /\ Detected(s) \in Slips /\ Detected(s).count = s.count + 1
           /\ Resolved(s) \in Slips /\ Resolved(s).count = s.count
<1>1. Detected(s) \in Slips /\ Detected(s).count = s.count + 1
  BY DEF Detected, Slips
<1>2. Resolved(s) \in Slips /\ Resolved(s).count = s.count
  BY DEF Resolved, Slips
<1> QED  BY <1>1, <1>2

----------------------------------------------------------------------------
\* SM-2: an ease of at least 1.3 stretches an interval.
LEMMA Stretches ==
    ASSUME NEW i \in Nat, NEW e \in Nat, e >= 130, i >= 100
    PROVE  /\ (i * e) \div 100 \in Nat
           /\ (i * e) \div 100 >= i
<1>1. i * e >= i * 100
  <2>1. e = 100 + (e - 100) /\ e - 100 \in Nat
    OBVIOUS
  <2>2. i * e = i * 100 + i * (e - 100)
    OBVIOUS
  <2>3. i * (e - 100) \in Nat
    BY <2>1
  <2> QED  BY <2>2, <2>3
<1>2. i * e \in Nat
  OBVIOUS
<1> DEFINE p == i * e
<1>3. p \in Nat /\ p >= 100 * i
  BY <1>1, <1>2
<1> HIDE DEF p
<1>4. p \div 100 \in Nat /\ p \div 100 >= i
  BY <1>3
<1> QED  BY <1>4 DEF p

LEMMA ScheduledRow ==
    ASSUME TypeOK, NEW r \in Rows, BeforeStretching(r), NEW t \in Turns, NEW quality \in Qualities
    PROVE  /\ Scheduled(r, t, quality) \in Rows
           /\ Scheduled(r, t, quality).attempts = r.attempts
           /\ BeforeStretching(Scheduled(r, t, quality))
           /\ Scheduled(r, t, quality).by = <<t, "review">>
           /\ Scheduled(r, t, quality).due > today
           /\ quality < 3 => Scheduled(r, t, quality).reps = 0 /\ Scheduled(r, t, quality).due = today + 1
           /\ quality >= 3 => /\ Scheduled(r, t, quality).reps > r.reps
                              /\ Scheduled(r, t, quality).interval >= r.interval
<1> DEFINE interval == SM2Interval(r, quality)
           ease == SM2Ease(r.ease, quality)
           reps == IF quality < 3 THEN 0 ELSE r.reps + 1
<1>1. quality \in 0 .. 5
  BY TurnAssumption
<1>2. ease \in Nat /\ ease >= MinimumEase
  <2>1. r.ease + 10 - (5 - quality) * (8 + (5 - quality) * 2) \in Int
    BY <1>1 DEF Rows
  <2> QED  BY <2>1 DEF SM2Ease, MinimumEase
<1>3. /\ r.reps \in Nat /\ r.interval \in Nat /\ r.interval >= 100
      /\ r.ease \in Nat /\ r.ease >= 130
  BY DEF Rows, MinimumEase
<1>4. /\ interval \in Nat /\ interval >= 100
      /\ (reps <= 1 => interval = 100)
      /\ (quality >= 3 => interval >= r.interval)
      /\ (quality < 3 => interval = 100)
  <2>1. CASE quality < 3 \/ r.reps <= 0
    <3>1. interval = 100
      BY <1>1, <1>3, <2>1 DEF SM2Interval
    <3> QED  BY <1>1, <1>3, <2>1, <3>1 DEF BeforeStretching
  <2>2. CASE quality >= 3 /\ r.reps = 1
    <3>1. interval = 600
      BY <1>1, <1>3, <2>2 DEF SM2Interval
    <3>2. r.interval = 100 /\ reps = 2
      BY <1>1, <2>2 DEF BeforeStretching
    <3> QED  BY <1>1, <2>2, <3>1, <3>2
  <2>3. CASE quality >= 3 /\ r.reps > 1
    <3>1. interval = (r.interval * r.ease) \div 100
      BY <1>1, <1>3, <2>3 DEF SM2Interval
    <3>2. interval \in Nat /\ interval >= r.interval
      BY <1>3, <3>1, Stretches
    <3>3. reps \in Nat /\ reps > 1
      BY <1>1, <1>3, <2>3
    <3> HIDE DEF interval, reps
    <3> QED  BY <1>1, <1>3, <2>3, <3>2, <3>3
  <2>4. quality < 3 \/ r.reps <= 0 \/ (quality >= 3 /\ r.reps = 1) \/ (quality >= 3 /\ r.reps > 1)
    BY <1>1, <1>3
  <2> HIDE DEF interval, reps
  <2> QED  BY <2>1, <2>2, <2>3, <2>4
<1>5. reps \in Nat
  BY <1>3
<1> DEFINE due == today + interval \div 100
<1>6. Scheduled(r, t, quality) =
        [r EXCEPT !.interval = interval, !.reps = reps, !.ease = ease, !.due = due,
                  !.by = <<t, "review">>]
  BY DEF Scheduled
<1> HIDE DEF interval, ease, reps, due
<1>7. Scheduled(r, t, quality) =
        [attempts |-> r.attempts, level |-> r.level, anchor |-> r.anchor, streak |-> r.streak,
         reps |-> reps, ease |-> ease, interval |-> interval, due |-> due,
         by |-> <<t, "review">>]
  BY <1>6 DEF Rows
<1>8. interval \div 100 \in Nat /\ interval \div 100 >= 1 /\ (interval = 100 => interval \div 100 = 1)
  BY <1>4
<1>9. due \in Nat /\ due > today /\ (interval = 100 => due = today + 1)
  BY <1>8 DEF TypeOK, due
<1>10. Scheduled(r, t, quality) \in Rows
  <2>1. <<t, "review">> \in Versions
    BY DEF Versions, Changes
  <2> QED  BY <1>2, <1>4, <1>5, <1>7, <1>9, <2>1 DEF Rows
<1> QED  BY <1>1, <1>3, <1>4, <1>7, <1>9, <1>10 DEF BeforeStretching, reps

----------------------------------------------------------------------------
\* A turn that writes is the only one with a version of its own.
LEMMA WriteEffect ==
    ASSUME TypeOK, WriterHoldsLock, NEW t \in Turns, NEW r \in Rows, NEW s \in Slips,
           Write(t, r, s), UNCHANGED <<today, row, slip>>,
           stage' \in [Turns -> Stages], result' \in [Turns -> Results]
    PROVE  /\ TypeOK' /\ WriterHoldsLock'
           /\ RowOf(t)' = r /\ SlipOf(t)' = s
           /\ \A u \in Turns : u # t => RowOf(u)' = RowOf(u) /\ SlipOf(u)' = SlipOf(u)
<1> DEFINE d == [row |-> r, slip |-> s]
<1>1. d \in Drafts /\ d # NoDraft /\ d.row = r /\ d.slip = s
  BY StudentAssumption DEF Drafts, NoDraft
<1>2. draft' = [draft EXCEPT ![t] = d] /\ lock' = t /\ lock \in {Nobody, t}
  BY DEF Write, CanLock
<1> HIDE DEF d
<1>3. draft'[t] = d /\ \A u \in Turns : u # t => draft'[u] = draft[u]
  BY <1>2 DEF TypeOK
<1>4. TypeOK'
  BY <1>1, <1>2 DEF TypeOK
<1>5. \A u \in Turns : u # t => ~Drafting(u)
  BY <1>2, StudentAssumption DEF WriterHoldsLock
<1>6. WriterHoldsLock'
  BY <1>2, <1>3, <1>5 DEF WriterHoldsLock, Drafting
<1>7. RowOf(t)' = r /\ SlipOf(t)' = s
  BY <1>1, <1>3 DEF RowOf, SlipOf, Drafting
<1>8. \A u \in Turns : u # t => RowOf(u)' = RowOf(u) /\ SlipOf(u)' = SlipOf(u)
  BY <1>3 DEF RowOf, SlipOf, Drafting
<1> QED  BY <1>4, <1>6, <1>7, <1>8

\* Steps between two writes, which leave the student model alone.
LEMMA MovingOn ==
    ASSUME Counted, NEW t \in Turns, NEW to \in Stages,
           stage[t] # "committed", to # "committed",
           stage' = [stage EXCEPT ![t] = to],
           UNCHANGED <<today, row, slip, lock, draft>>,
           result' \in [Turns -> Results],
           \A u \in Turns : u # t => result'[u] = result[u],
           result'[t].written = result[t].written,
           result[t].written => result'[t] = result[t] /\ to \notin {"waiting", "grading", "graded"}
    PROVE  Counted'
<1>1. TypeOK' /\ WriterHoldsLock'
  BY DEF Counted, TypeOK, WriterHoldsLock, Drafting
<1>2. stage'[t] = to /\ \A u \in Turns : u # t => stage'[u] = stage[u]
  BY DEF Counted, TypeOK
<1>3. EarlyUnwritten'
  BY <1>2 DEF Counted, EarlyUnwritten
<1>4. \A u \in Turns : RowOf(u)' = RowOf(u) /\ SlipOf(u)' = SlipOf(u)
  BY DEF RowOf, SlipOf, Drafting
<1>5. OwnAnswerOnly'
  <2>1. ASSUME NEW u \in Turns, stage'[u] # "committed"
        PROVE  /\ RowOf(u)'.attempts = row'.attempts + Adds(result'[u].written)
               /\ SlipOf(u)'.count = slip'.count + Adds(result'[u].written /\ result'[u].detected)
    <3>1. stage[u] # "committed"
      BY <1>2, <2>1
    <3>2. result'[u].written = result[u].written
            /\ (result[u].written => result'[u].detected = result[u].detected)
      BY DEF Counted
    <3>3. result[u].written \in BOOLEAN
      BY DEF Counted, TypeOK, Results
    <3> QED  BY <1>4, <3>1, <3>2, <3>3 DEF Counted, OwnAnswerOnly, Adds
  <2> QED  BY <2>1 DEF OwnAnswerOnly
<1>6. Committed' = Committed
  BY <1>2 DEF Committed
<1>7. {u \in Committed' : result'[u].detected} = {u \in Committed : result[u].detected}
  BY <1>2, <1>6 DEF Committed
<1> QED  BY <1>1, <1>3, <1>5, <1>6, <1>7 DEF Counted, NoAttemptLost

\* A write keeps the account when it adds what its turn has to say.
LEMMA WriteKeeps ==
    ASSUME Counted, NEW t \in Turns, NEW r \in Rows, NEW s \in Slips,
           Write(t, r, s), UNCHANGED <<today, row, slip>>,
           stage[t] # "committed", NEW to \in {"recorded", "ready"},
           stage' = [stage EXCEPT ![t] = to],
           result' \in [Turns -> Results],
           \A u \in Turns : u # t => result'[u] = result[u],
           r.attempts = row.attempts + Adds(result'[t].written),
           s.count = slip.count + Adds(result'[t].written /\ result'[t].detected)
    PROVE  Counted'
<1>1. stage'[t] = to /\ \A u \in Turns : u # t => stage'[u] = stage[u]
  BY DEF Counted, TypeOK
<1>2. stage' \in [Turns -> Stages]
  BY DEF Counted, TypeOK, Stages
<1>3. /\ TypeOK' /\ WriterHoldsLock'
      /\ RowOf(t)' = r /\ SlipOf(t)' = s
      /\ \A u \in Turns : u # t => RowOf(u)' = RowOf(u) /\ SlipOf(u)' = SlipOf(u)
  BY <1>2, WriteEffect DEF Counted
<1>4. EarlyUnwritten'
  BY <1>1 DEF Counted, EarlyUnwritten
<1>5. OwnAnswerOnly'
  BY <1>1, <1>3 DEF Counted, OwnAnswerOnly
<1>6. Committed' = Committed
  BY <1>1 DEF Committed
<1>7. {u \in Committed' : result'[u].detected} = {u \in Committed : result[u].detected}
  BY <1>6 DEF Committed
<1> QED  BY <1>3, <1>4, <1>5, <1>6, <1>7 DEF Counted, NoAttemptLost

LEMMA RecordsKeeps ==
    ASSUME Counted, NEW t \in Turns, RecordsResult(t)
    PROVE  Counted'
<1>1. stage[t] = "graded" /\ stage' = [stage EXCEPT ![t] = "recorded"]
  BY DEF RecordsResult, Goes
<1>2. result[t] \in Results /\ ~result[t].written
  BY <1>1 DEF Counted, TypeOK, EarlyUnwritten
<1>3. result[t].correct \in BOOLEAN /\ result[t].detected \in BOOLEAN
  BY <1>2 DEF Results
<1>4. RowOf(t) \in Rows /\ SlipOf(t) \in Slips
  BY DraftsAreRows DEF Counted
<1>5. RowOf(t).attempts = row.attempts /\ SlipOf(t).count = slip.count
  BY <1>1, <1>2 DEF Counted, TypeOK, OwnAnswerOnly, Adds, Rows, Slips
<1>6. Recorded(result[t]) \in Results /\ Recorded(result[t]).written
        /\ Recorded(result[t]).detected = result[t].detected
  BY <1>3 DEF Recorded, Result, Exactly, Results
<1>7. PICK level \in UpdatedLevels(Effective(RowOf(t)), result[t].correct) :
        LET r == Attempted(RowOf(t), t, result[t].correct, level)
            s == IF result[t].detected THEN Detected(SlipOf(t)) ELSE SlipOf(t)
        IN  /\ Write(t, r, IF r.streak >= ResolveAfter THEN Resolved(s) ELSE s)
            /\ UNCHANGED <<today, row, slip, held, stale>>
  BY DEF RecordsResult, RecordAttempt
<1>8. level \in Levels
  BY DEF UpdatedLevels
<1> DEFINE r == Attempted(RowOf(t), t, result[t].correct, level)
           counted == IF result[t].detected THEN Detected(SlipOf(t)) ELSE SlipOf(t)
           s == IF r.streak >= ResolveAfter THEN Resolved(counted) ELSE counted
<1>9. r \in Rows /\ r.attempts = row.attempts + 1
  BY <1>3, <1>4, <1>5, <1>8, AttemptedRow DEF Counted
<1>10. s \in Slips /\ s.count = slip.count + Adds(result[t].detected)
  <2>1. counted \in Slips /\ counted.count = slip.count + Adds(result[t].detected)
    <3>1. CASE result[t].detected
      BY <1>4, <1>5, <3>1, Detection DEF Adds
    <3>2. CASE ~result[t].detected
      BY <1>4, <1>5, <3>2 DEF Adds, Slips
    <3> QED  BY <3>1, <3>2
  <2> HIDE DEF counted, r
  <2>2. Resolved(counted) \in Slips /\ Resolved(counted).count = counted.count
    BY <2>1, Detection
  <2> QED  BY <2>1, <2>2
<1>11. Write(t, r, s)
  BY <1>7
<1> HIDE DEF r, s
<1>12. /\ UNCHANGED <<today, row, slip, held, stale>>
       /\ result' = [result EXCEPT ![t] = Recorded(result[t])]
  BY <1>7 DEF RecordsResult
<1>13. /\ result' \in [Turns -> Results] /\ result'[t] = Recorded(result[t])
       /\ \A u \in Turns : u # t => result'[u] = result[u]
  BY <1>6, <1>12 DEF Counted, TypeOK
<1>14. Adds(result'[t].written) = 1 /\ Adds(result'[t].written /\ result'[t].detected) = Adds(result[t].detected)
  BY <1>3, <1>6, <1>13 DEF Adds
<1>15. r.attempts = row.attempts + Adds(result'[t].written)
  BY <1>9, <1>14
<1>16. s.count = slip.count + Adds(result'[t].written /\ result'[t].detected)
  BY <1>10, <1>14
<1>17. UNCHANGED <<today, row, slip>> /\ stage[t] # "committed"
  BY <1>1, <1>12
<1> QED  BY <1>1, <1>9, <1>10, <1>11, <1>13, <1>15, <1>16, <1>17, WriteKeeps

LEMMA SchedulesKeeps ==
    ASSUME Counted, NEW t \in Turns, SchedulesReview(t),
           BeforeStretching(RowOf(t))
    PROVE  Counted'
<1>1. PICK quality \in Qualities : ScheduleReview(t, quality)
  BY DEF SchedulesReview
<1>2. stage[t] = "closing" /\ stage' = [stage EXCEPT ![t] = "ready"] /\ result' = result
  BY DEF SchedulesReview, Goes
<1>3. RowOf(t) \in Rows /\ SlipOf(t) \in Slips
  BY DraftsAreRows DEF Counted
<1> DEFINE r == Scheduled(RowOf(t), t, quality)
<1>4. r \in Rows /\ r.attempts = RowOf(t).attempts
  BY <1>3, ScheduledRow DEF Counted
<1>5. Write(t, r, SlipOf(t)) /\ UNCHANGED <<today, row, slip>>
  BY <1>1 DEF ScheduleReview
<1> HIDE DEF r
<1>6. /\ r.attempts = row.attempts + Adds(result'[t].written)
      /\ SlipOf(t).count = slip.count + Adds(result'[t].written /\ result'[t].detected)
  BY <1>2, <1>4 DEF Counted, OwnAnswerOnly
<1>7. result' \in [Turns -> Results]
  BY <1>2 DEF Counted, TypeOK
<1> QED  BY <1>2, <1>3, <1>4, <1>5, <1>6, <1>7, WriteKeeps

\* A commit makes the turn's version the row, and the turn one of those counted.
LEMMA CommitKeeps ==
    ASSUME Counted, NEW t \in Turns, Commits(t)
    PROVE  Counted'
<1>1. /\ stage[t] = "ready" /\ stage' = [stage EXCEPT ![t] = "committed"] /\ result' = result
      /\ row' = RowOf(t) /\ slip' = SlipOf(t)
      /\ draft' = [draft EXCEPT ![t] = NoDraft]
      /\ lock' = IF lock = t THEN Nobody ELSE lock
      /\ UNCHANGED today
  BY DEF Commits, Commit, Goes
<1>2. /\ stage'[t] = "committed" /\ \A u \in Turns : u # t => stage'[u] = stage[u]
      /\ draft'[t] = NoDraft /\ \A u \in Turns : u # t => draft'[u] = draft[u]
  BY <1>1 DEF Counted, TypeOK
<1>3. RowOf(t) \in Rows /\ SlipOf(t) \in Slips
  BY DraftsAreRows DEF Counted
<1>4. TypeOK'
  BY <1>1, <1>3 DEF Counted, TypeOK, Stages
<1>5. WriterHoldsLock'
  <2>1. ASSUME NEW u \in Turns, Drafting(u)' PROVE lock' = u
    <3>1. u # t /\ Drafting(u)
      BY <1>2, <2>1 DEF Drafting
    <3> QED  BY <1>1, <3>1 DEF Counted, WriterHoldsLock
  <2> QED  BY <2>1 DEF WriterHoldsLock
<1>6. EarlyUnwritten'
  BY <1>1, <1>2 DEF Counted, EarlyUnwritten
<1>7. /\ RowOf(t).attempts = row.attempts + Adds(result[t].written)
      /\ SlipOf(t).count = slip.count + Adds(result[t].written /\ result[t].detected)
  BY <1>1 DEF Counted, OwnAnswerOnly
<1>8. OwnAnswerOnly'
  <2>1. ASSUME NEW u \in Turns, stage'[u] # "committed"
        PROVE  /\ RowOf(u)'.attempts = row'.attempts + Adds(result'[u].written)
               /\ SlipOf(u)'.count = slip'.count + Adds(result'[u].written /\ result'[u].detected)
    <3>1. u # t /\ stage[u] # "committed" /\ result'[u] = result[u]
      BY <1>1, <1>2, <2>1
    <3>2. CASE ~Drafting(t)
      <4>1. row' = row /\ slip' = slip
        BY <1>1, <3>2 DEF RowOf, SlipOf
      <4>2. RowOf(u)' = RowOf(u) /\ SlipOf(u)' = SlipOf(u)
        BY <1>2, <3>1, <4>1 DEF RowOf, SlipOf, Drafting
      <4> QED  BY <3>1, <4>1, <4>2 DEF Counted, OwnAnswerOnly
    <3>3. CASE Drafting(t)
      <4>1. ~Drafting(u) /\ ~Drafting(u)'
        BY <1>2, <3>1, <3>3 DEF Counted, WriterHoldsLock, Drafting
      <4>2. RowOf(u) = row /\ SlipOf(u) = slip /\ RowOf(u)' = row' /\ SlipOf(u)' = slip'
        BY <4>1 DEF RowOf, SlipOf
      <4>3. Adds(result[u].written) = 0 /\ Adds(result[u].written /\ result[u].detected) = 0
        <5>1. row.attempts = row.attempts + Adds(result[u].written) /\ row.attempts \in Nat
          BY <3>1, <4>2 DEF Counted, OwnAnswerOnly, TypeOK, Rows
        <5> QED  BY <5>1 DEF Adds
      <4>4. row'.attempts \in Nat /\ slip'.count \in Nat
        BY <1>4 DEF TypeOK, Rows, Slips
      <4> QED  BY <3>1, <4>2, <4>3, <4>4
    <3> QED  BY <3>2, <3>3
  <2> QED  BY <2>1 DEF OwnAnswerOnly
<1>9. NoAttemptLost'
  <2>1. IsFiniteSet(Committed) /\ t \notin Committed
    BY <1>1, StudentAssumption, FS_Subset DEF Committed
  <2>2. IsFiniteSet({u \in Committed : result[u].detected})
    BY <2>1, FS_Subset
  <2>3. Cardinality(Committed) \in Nat /\ Cardinality({u \in Committed : result[u].detected}) \in Nat
    BY <2>1, <2>2, FS_CardinalityType
  <2>4. CASE result[t].written
    <3>1. Committed' = Committed \cup {t}
      BY <1>1, <1>2, <2>4 DEF Committed
    <3>2. Cardinality(Committed') = Cardinality(Committed) + 1
      BY <2>1, <3>1, FS_AddElement
    <3>3. CASE result[t].detected
      <4>1. {u \in Committed' : result'[u].detected} = {u \in Committed : result[u].detected} \cup {t}
        BY <1>1, <3>1, <3>3
      <4>2. Cardinality({u \in Committed' : result'[u].detected})
              = Cardinality({u \in Committed : result[u].detected}) + 1
        BY <2>1, <2>2, <4>1, FS_AddElement
      <4> QED  BY <1>1, <1>7, <2>4, <3>2, <3>3, <4>2 DEF Counted, NoAttemptLost, Adds
    <3>4. CASE ~result[t].detected
      <4>1. {u \in Committed' : result'[u].detected} = {u \in Committed : result[u].detected}
        BY <1>1, <3>1, <3>4
      <4>2. RowOf(t).attempts = row.attempts + 1 /\ SlipOf(t).count = slip.count + 0
        BY <1>7, <2>4, <3>4 DEF Adds
      <4>3. row.attempts = Cardinality(Committed)
              /\ slip.count = Cardinality({u \in Committed : result[u].detected})
        BY DEF Counted, NoAttemptLost
      <4>4. row'.attempts = Cardinality(Committed')
        BY <1>1, <3>2, <4>2, <4>3
      <4>5. slip'.count = slip.count
        BY <1>1, <4>2 DEF Counted, TypeOK, Slips
      <4>6. slip'.count = Cardinality({u \in Committed' : result'[u].detected})
        BY <4>1, <4>3, <4>5
      <4> QED  BY <4>4, <4>6 DEF NoAttemptLost
    <3> QED  BY <3>3, <3>4
  <2>5. CASE ~result[t].written
    <3>1. Committed' = Committed
      BY <1>1, <1>2, <2>5 DEF Committed
    <3>2. {u \in Committed' : result'[u].detected} = {u \in Committed : result[u].detected}
      BY <1>1, <3>1
    <3>3. RowOf(t).attempts = row.attempts + 0 /\ SlipOf(t).count = slip.count + 0
      BY <1>7, <2>5 DEF Adds
    <3>4. row.attempts = Cardinality(Committed)
            /\ slip.count = Cardinality({u \in Committed : result[u].detected})
      BY DEF Counted, NoAttemptLost
    <3> QED  BY <1>1, <2>3, <3>1, <3>2, <3>3, <3>4 DEF NoAttemptLost
  <2> QED  BY <2>4, <2>5
<1> QED  BY <1>4, <1>5, <1>6, <1>8, <1>9 DEF Counted

\* A turn that is taken back leaves nothing of its own.
LEMMA TakenBackKeeps ==
    ASSUME Counted, NEW t \in Turns, NEW next \in {"closing", "undone"},
           stage[t] # "committed", TakenBack(t, next)
    PROVE  Counted'
<1>1. /\ stage' = [stage EXCEPT ![t] = next] /\ result' = [result EXCEPT ![t] = NoResult]
      /\ draft' = [draft EXCEPT ![t] = NoDraft]
      /\ lock' = IF lock = t THEN Nobody ELSE lock
      /\ UNCHANGED <<today, row, slip>>
  BY DEF TakenBack, Rollback
<1>2. NoResult \in Results /\ ~NoResult.written
  BY DEF NoResult, Result, Exactly, Results
<1>3. /\ stage'[t] = next /\ \A u \in Turns : u # t => stage'[u] = stage[u]
      /\ draft'[t] = NoDraft /\ \A u \in Turns : u # t => draft'[u] = draft[u]
      /\ result'[t] = NoResult /\ \A u \in Turns : u # t => result'[u] = result[u]
  BY <1>1 DEF Counted, TypeOK
<1>4. TypeOK'
  BY <1>1, <1>2 DEF Counted, TypeOK, Stages
<1>5. WriterHoldsLock'
  <2>1. ASSUME NEW u \in Turns, Drafting(u)' PROVE lock' = u
    <3>1. u # t /\ Drafting(u)
      BY <1>3, <2>1 DEF Drafting
    <3> QED  BY <1>1, <3>1 DEF Counted, WriterHoldsLock
  <2> QED  BY <2>1 DEF WriterHoldsLock
<1>6. EarlyUnwritten'
  BY <1>2, <1>3 DEF Counted, EarlyUnwritten
<1>7. OwnAnswerOnly'
  <2>1. ASSUME NEW u \in Turns, stage'[u] # "committed", u # t
        PROVE  /\ RowOf(u)'.attempts = row'.attempts + Adds(result'[u].written)
               /\ SlipOf(u)'.count = slip'.count + Adds(result'[u].written /\ result'[u].detected)
    <3>1. RowOf(u)' = RowOf(u) /\ SlipOf(u)' = SlipOf(u)
      BY <1>1, <1>3, <2>1 DEF RowOf, SlipOf, Drafting
    <3> QED  BY <1>1, <1>3, <2>1, <3>1 DEF Counted, OwnAnswerOnly
  <2>2. RowOf(t)' = row /\ SlipOf(t)' = slip
    BY <1>1, <1>3 DEF RowOf, SlipOf, Drafting
  <2>3. Adds(result'[t].written) = 0 /\ Adds(result'[t].written /\ result'[t].detected) = 0
    BY <1>2, <1>3 DEF Adds
  <2>4. row.attempts = row.attempts + 0 /\ slip.count = slip.count + 0
    BY DEF Counted, TypeOK, Rows, Slips
  <2>5. /\ RowOf(t)'.attempts = row'.attempts + Adds(result'[t].written)
        /\ SlipOf(t)'.count = slip'.count + Adds(result'[t].written /\ result'[t].detected)
    BY <1>1, <2>2, <2>3, <2>4
  <2> QED  BY <2>1, <2>5 DEF OwnAnswerOnly
<1>8. Committed' = Committed
  BY <1>3 DEF Committed
<1>9. {u \in Committed' : result'[u].detected} = {u \in Committed : result[u].detected}
  BY <1>3, <1>8 DEF Committed
<1> QED  BY <1>1, <1>4, <1>5, <1>6, <1>7, <1>8, <1>9 DEF Counted, NoAttemptLost

\* The daily job writes while nobody else does.
LEMMA DailyKeeps ==
    ASSUME Counted, DailyDecay, UNCHANGED <<stage, result>>
    PROVE  Counted'
<1>1. /\ lock = Nobody /\ row' = Materialised(row)
      /\ UNCHANGED <<today, slip, lock, draft>>
  BY DEF DailyDecay
<1>2. Materialised(row) \in Rows /\ Materialised(row).attempts = row.attempts
  BY MaterialisedRow DEF Counted, TypeOK
<1>3. TypeOK' /\ WriterHoldsLock'
  BY <1>1, <1>2 DEF Counted, TypeOK, WriterHoldsLock, Drafting
<1>4. EarlyUnwritten'
  BY DEF Counted, EarlyUnwritten
<1>5. \A u \in Turns : /\ RowOf(u) = row /\ RowOf(u)' = row'
                       /\ SlipOf(u) = slip /\ SlipOf(u)' = slip'
  BY <1>1, StudentAssumption DEF Counted, WriterHoldsLock, RowOf, SlipOf, Drafting
<1>6. OwnAnswerOnly'
  BY <1>1, <1>2, <1>5 DEF Counted, OwnAnswerOnly
<1>7. Committed' = Committed
  BY DEF Committed
<1>8. {u \in Committed' : result'[u].detected} = {u \in Committed : result[u].detected}
  BY <1>7
<1> QED  BY <1>1, <1>2, <1>3, <1>4, <1>6, <1>7, <1>8 DEF Counted, NoAttemptLost

\* Readers, Redis and the clock.
LEMMA AloneKeeps ==
    ASSUME Counted, UNCHANGED <<row, slip, lock, draft, stage, result>>, today' \in Nat
    PROVE  Counted'
<1>1. TypeOK' /\ WriterHoldsLock' /\ EarlyUnwritten'
  BY DEF Counted, TypeOK, WriterHoldsLock, EarlyUnwritten, Drafting
<1>2. \A u \in Turns : RowOf(u)' = RowOf(u) /\ SlipOf(u)' = SlipOf(u)
  BY DEF RowOf, SlipOf, Drafting
<1>3. OwnAnswerOnly'
  BY <1>2 DEF Counted, OwnAnswerOnly
<1>4. Committed' = Committed
  BY DEF Committed
<1>5. {u \in Committed' : result'[u].detected} = {u \in Committed : result[u].detected}
  BY <1>4
<1> QED  BY <1>1, <1>3, <1>4, <1>5 DEF Counted, NoAttemptLost

----------------------------------------------------------------------------
\* Rows with few passed reviews have their first interval, written or drafted.
Stretching == BeforeStretching(row) /\ \A t \in Turns : BeforeStretching(RowOf(t))

Account == Counted /\ Stretching

LEMMA AccountInit == Init => Account
<1> SUFFICES ASSUME Init PROVE Account
  OBVIOUS
<1>1. PICK start \in Starts : row = start.row /\ slip = start.slip
  BY DEF Init, StudentInit
<1>2. /\ row \in Rows /\ slip \in Slips /\ BeforeStretching(row)
      /\ row.attempts = 0 /\ slip.count = 0
  BY <1>1, StudentAssumption
<1>3. NoResult \in Results /\ ~NoResult.written
  BY DEF NoResult, Result, Exactly, Results
<1>4. TypeOK
  BY <1>2, <1>3 DEF Init, StudentInit, TypeOK, Stages
<1>5. \A t \in Turns : ~Drafting(t) /\ RowOf(t) = row /\ SlipOf(t) = slip
  BY DEF Init, StudentInit, Drafting, RowOf, SlipOf
<1>6. WriterHoldsLock /\ EarlyUnwritten
  BY <1>3, <1>5 DEF Init, WriterHoldsLock, EarlyUnwritten
<1>7. OwnAnswerOnly
  BY <1>2, <1>3, <1>5 DEF Init, OwnAnswerOnly, Adds
<1>8. Committed = {} /\ {t \in Committed : result[t].detected} = {}
  BY DEF Init, Committed
<1>9. NoAttemptLost
  BY <1>2, <1>8, FS_EmptySet DEF NoAttemptLost
<1> QED  BY <1>2, <1>4, <1>5, <1>6, <1>7, <1>9 DEF Account, Counted, Stretching

\* The steps of one turn that leave the student model alone.
LEMMA QuietSteps ==
    ASSUME Counted, NEW t \in Turns,
           \/ Answered(t) \/ ReadByAI(t) \/ AsksKnownQuestion(t) \/ NeedsContent(t)
           \/ ContentArrives(t) \/ EndsSession(t) \/ NothingToReview(t)
    PROVE  Counted' /\ UNCHANGED <<row, draft>>
<1>1. ASSUME NEW g \in Gradings, NEW to \in {"graded", "grading"},
             stage[t] \in {"waiting", "grading"}, stage' = [stage EXCEPT ![t] = to],
             result' = [result EXCEPT ![t] = Graded(g)], UNCHANGED student
      PROVE  Counted'
  <2>1. ~result[t].written /\ result[t].written \in BOOLEAN
    BY <1>1 DEF Counted, EarlyUnwritten, TypeOK, Results
  <2>2. Graded(g) \in Results /\ ~Graded(g).written /\ Graded(g).written \in BOOLEAN
    BY DEF Graded, Result, Results, Gradings
  <2>3. /\ result' \in [Turns -> Results] /\ result'[t] = Graded(g)
        /\ \A u \in Turns : u # t => result'[u] = result[u]
    BY <1>1, <2>2 DEF Counted, TypeOK
  <2>4. result'[t].written = result[t].written
    BY <2>1, <2>2, <2>3
  <2>5. to \in Stages /\ to # "committed" /\ stage[t] # "committed"
    BY <1>1 DEF Stages
  <2> QED  BY <1>1, <2>1, <2>3, <2>4, <2>5, MovingOn DEF student
<1>2. ASSUME NEW to \in {"preparing", "closing", "ready"},
             stage[t] # "committed", stage' = [stage EXCEPT ![t] = to],
             UNCHANGED <<student, result>>
      PROVE  Counted'
  <2>1. to \in Stages /\ to # "committed" /\ to \notin {"waiting", "grading", "graded"}
    BY DEF Stages
  <2>2. result' \in [Turns -> Results]
    BY <1>2 DEF Counted, TypeOK
  <2> QED  BY <1>2, <2>1, <2>2, MovingOn DEF student
<1>3. CASE Answered(t)
  <2>1. PICK q \in Questions, r \in Responses :
            /\ result' = [result EXCEPT ![t] = Graded(Grading(q, r))]
            /\ Goes(t, "waiting", IF Grading(q, r).ai = "none" THEN "graded" ELSE "grading")
    BY <1>3 DEF Answered
  <2> DEFINE to == IF Grading(q, r).ai = "none" THEN "graded" ELSE "grading"
  <2>2. Grading(q, r) \in Gradings
    BY GradingType
  <2>3. to \in {"graded", "grading"}
    OBVIOUS
  <2>4. stage[t] = "waiting" /\ stage' = [stage EXCEPT ![t] = to]
    BY <2>1 DEF Goes
  <2> HIDE DEF to
  <2> QED  BY <1>1, <1>3, <2>1, <2>2, <2>3, <2>4 DEF Answered, student
<1>4. CASE ReadByAI(t)
  <2>1. PICK g \in Readings(result[t].ai) : result' = [result EXCEPT ![t] = Graded(g)]
    BY <1>4 DEF ReadByAI
  <2>2. g \in Gradings
    BY DEF Readings, Exactly, Gradings
  <2> QED  BY <1>1, <1>4, <2>1, <2>2 DEF ReadByAI, Goes, student
<1>5. CASE \/ AsksKnownQuestion(t) \/ NeedsContent(t) \/ ContentArrives(t)
           \/ EndsSession(t) \/ NothingToReview(t)
  BY <1>2, <1>5 DEF AsksKnownQuestion, NeedsContent, ContentArrives, EndsSession,
                    NothingToReview, Goes, student
<1> QED  BY <1>3, <1>4, <1>5

LEMMA AccountStep == Account /\ [Next]_vars => Account'
<1> SUFFICES ASSUME Account, [Next]_vars PROVE Account'
  OBVIOUS
<1>0. Counted /\ BeforeStretching(row) /\ \A t \in Turns : BeforeStretching(RowOf(t))
  BY DEF Account, Stretching
<1>1. ASSUME NEW t \in Turns,
             \/ Answered(t) \/ ReadByAI(t) \/ AsksKnownQuestion(t) \/ NeedsContent(t)
             \/ ContentArrives(t) \/ EndsSession(t) \/ NothingToReview(t)
      PROVE  Account'
  <2>1. Counted' /\ UNCHANGED <<row, draft>>
    BY <1>0, <1>1, QuietSteps
  <2> QED  BY <1>0, <2>1 DEF Account, Stretching, RowOf, Drafting
<1>2. ASSUME NEW t \in Turns, RecordsResult(t) PROVE Account'
  <2>1. PICK level \in UpdatedLevels(Effective(RowOf(t)), result[t].correct) :
          \E s \in Slips : Write(t, Attempted(RowOf(t), t, result[t].correct, level), s)
    <3>1. SlipOf(t) \in Slips
      BY <1>0, DraftsAreRows DEF Counted
    <3>2. \A s \in Slips : Detected(s) \in Slips /\ Resolved(s) \in Slips
      BY Detection
    <3> QED  BY <1>2, <3>1, <3>2 DEF RecordsResult, RecordAttempt
  <2>2. RowOf(t) \in Rows /\ level \in Levels /\ result[t].correct \in BOOLEAN
    BY <1>0, DraftsAreRows DEF Counted, UpdatedLevels, TypeOK, Results
  <2> DEFINE r == Attempted(RowOf(t), t, result[t].correct, level)
  <2>3. r \in Rows /\ BeforeStretching(r)
    BY <1>0, <2>2, AttemptedRow DEF Counted, BeforeStretching
  <2>4. PICK s \in Slips : Write(t, r, s)
    BY <2>1
  <2> HIDE DEF r
  <2>5. Counted'
    BY <1>0, <1>2, RecordsKeeps
  <2>6. UNCHANGED <<today, row, slip>>
    BY <1>2 DEF RecordsResult, RecordAttempt
  <2>7. RowOf(t)' = r /\ \A u \in Turns : u # t => RowOf(u)' = RowOf(u)
    BY <1>0, <2>3, <2>4, <2>5, <2>6, WriteEffect DEF Counted, TypeOK
  <2> QED  BY <1>0, <2>3, <2>5, <2>6, <2>7 DEF Account, Stretching
<1>3. ASSUME NEW t \in Turns, SchedulesReview(t) PROVE Account'
  <2>1. PICK quality \in Qualities : Write(t, Scheduled(RowOf(t), t, quality), SlipOf(t))
    BY <1>3 DEF SchedulesReview, ScheduleReview
  <2>2. RowOf(t) \in Rows /\ SlipOf(t) \in Slips
    BY <1>0, DraftsAreRows DEF Counted
  <2> DEFINE r == Scheduled(RowOf(t), t, quality)
  <2>3. r \in Rows /\ BeforeStretching(r)
    BY <1>0, <2>2, ScheduledRow DEF Counted
  <2>4. Write(t, r, SlipOf(t))
    BY <2>1
  <2> HIDE DEF r
  <2>5. Counted'
    BY <1>0, <1>3, SchedulesKeeps
  <2>6. UNCHANGED <<today, row, slip>>
    BY <1>3 DEF SchedulesReview, ScheduleReview
  <2>7. RowOf(t)' = r /\ \A u \in Turns : u # t => RowOf(u)' = RowOf(u)
    BY <1>0, <2>2, <2>3, <2>4, <2>5, <2>6, WriteEffect DEF Counted, TypeOK
  <2> QED  BY <1>0, <2>3, <2>5, <2>6, <2>7 DEF Account, Stretching
<1>4. ASSUME NEW t \in Turns, Commits(t) PROVE Account'
  <2>1. Counted'
    BY <1>0, <1>4, CommitKeeps
  <2>2. row' = RowOf(t) /\ draft' = [draft EXCEPT ![t] = NoDraft]
    BY <1>4 DEF Commits, Commit
  <2>3. \A u \in Turns : RowOf(u)' \in {RowOf(u), row'}
    BY <1>0, <2>2 DEF Counted, TypeOK, RowOf, Drafting
  <2> QED  BY <1>0, <2>1, <2>2, <2>3 DEF Account, Stretching
<1>5. ASSUME NEW t \in Turns, AIFails(t) \/ Breaks(t) PROVE Account'
  <2>1. PICK next \in {"closing", "undone"} : TakenBack(t, next)
    BY <1>5 DEF AIFails, Breaks
  <2>2. Counted'
    BY <1>0, <1>5, <2>1, TakenBackKeeps DEF AIFails, Breaks
  <2>3. row' = row /\ draft' = [draft EXCEPT ![t] = NoDraft]
    BY <2>1 DEF TakenBack, Rollback
  <2>4. \A u \in Turns : RowOf(u)' \in {RowOf(u), row}
    BY <1>0, <2>3 DEF Counted, TypeOK, RowOf, Drafting
  <2> QED  BY <1>0, <2>2, <2>3, <2>4 DEF Account, Stretching
<1>6. CASE DailyDecay /\ UNCHANGED <<stage, result>>
  <2>1. Counted'
    BY <1>0, <1>6, DailyKeeps
  <2>2. lock = Nobody /\ row' = Materialised(row) /\ draft' = draft
    BY <1>6 DEF DailyDecay
  <2>3. BeforeStretching(row')
    BY <1>0, <2>2, MaterialisedRow DEF Counted, TypeOK, BeforeStretching
  <2>4. \A u \in Turns : RowOf(u)' = row'
    BY <1>0, <2>2, StudentAssumption DEF Counted, WriterHoldsLock, RowOf, Drafting
  <2> QED  BY <2>1, <2>3, <2>4 DEF Account, Stretching
<1>7. CASE /\ ReadRow \/ FillCache \/ CacheExpires \/ DailyInvalidation \/ NextDay
           /\ UNCHANGED <<stage, result>>
  <2>1. UNCHANGED <<row, slip, lock, draft, stage, result>> /\ today' \in Nat
    BY <1>0, <1>7 DEF Counted, TypeOK, ReadRow, FillCache, CacheExpires, DailyInvalidation, NextDay
  <2>2. Counted'
    BY <1>0, <2>1, AloneKeeps
  <2> QED  BY <1>0, <2>1, <2>2 DEF Account, Stretching, RowOf, Drafting
<1>8. CASE UNCHANGED vars
  <2>1. UNCHANGED <<row, slip, lock, draft, stage, result>> /\ today' \in Nat
    BY <1>0, <1>8 DEF Counted, TypeOK, vars, student
  <2>2. Counted'
    BY <1>0, <2>1, AloneKeeps
  <2> QED  BY <1>0, <2>1, <2>2 DEF Account, Stretching, RowOf, Drafting
<1> QED  BY <1>1, <1>2, <1>3, <1>4, <1>5, <1>6, <1>7, <1>8 DEF Next, Moves

THEOREM AccountKept == Spec => []Account
  BY AccountInit, AccountStep, PTL DEF Spec

\* Every committed answer, and every detection in one, is in the row, and no
\* other, for any number of turns.
THEOREM AttemptsAreKept == Spec => []NoAttemptLost
<1>1. Account => NoAttemptLost
  BY DEF Account, Counted
<1> QED  BY <1>1, AccountKept, PTL

\* SM-2 never brings a passed review closer and always sends a failed one to
\* tomorrow, from any row that may be stored.
THEOREM ReviewsDoSpreadOut == Spec => ReviewsSpreadOut
<1> DEFINE Step == \A t \in Turns : stage[t] = "closing" /\ stage'[t] = "ready" /\ draft' # draft =>
            LET old == RowOf(t)
                new == draft'[t].row
            IN  /\ new.ease >= MinimumEase
                /\ new.due > today
                /\ IF new.reps > old.reps THEN new.interval >= old.interval
                   ELSE new.reps = 0 /\ new.due = today + 1
<1>1. Account /\ [Next]_vars => [Step]_vars
  <2> SUFFICES ASSUME Account, Next,
                      NEW t \in Turns, stage[t] = "closing", stage'[t] = "ready", draft' # draft
               PROVE  /\ draft'[t].row.ease >= MinimumEase
                      /\ draft'[t].row.due > today
                      /\ IF draft'[t].row.reps > RowOf(t).reps
                         THEN draft'[t].row.interval >= RowOf(t).interval
                         ELSE draft'[t].row.reps = 0 /\ draft'[t].row.due = today + 1
    OBVIOUS
  <2>1. Counted /\ BeforeStretching(RowOf(t)) /\ stage \in [Turns -> Stages]
    BY DEF Account, Stretching, Counted, TypeOK
  <2>2. SchedulesReview(t)
    <3>1. ASSUME NEW u \in Turns, Answered(u) \/ Moves(u) PROVE SchedulesReview(t)
      <4>1. u = t
        BY <2>1, <3>1 DEF Answered, Moves, ReadByAI, RecordsResult, AsksKnownQuestion,
               NeedsContent, ContentArrives, EndsSession, SchedulesReview, NothingToReview,
               Commits, AIFails, Breaks, TakenBack, Goes
      <4> QED  BY <2>1, <3>1, <4>1 DEF Answered, Moves, ReadByAI, RecordsResult,
               AsksKnownQuestion, NeedsContent, ContentArrives, EndsSession, NothingToReview,
               Commits, AIFails, Breaks, TakenBack, Goes, student
    <3>2. stage' # stage
      OBVIOUS
    <3> QED  BY <3>1, <3>2 DEF Next
  <2>3. PICK quality \in Qualities : Write(t, Scheduled(RowOf(t), t, quality), SlipOf(t))
    BY <2>2 DEF SchedulesReview, ScheduleReview
  <2> DEFINE r == Scheduled(RowOf(t), t, quality)
  <2>4. RowOf(t) \in Rows
    BY <2>1, DraftsAreRows DEF Counted
  <2>5. /\ r \in Rows /\ r.due > today
        /\ quality < 3 => r.reps = 0 /\ r.due = today + 1
        /\ quality >= 3 => r.reps > RowOf(t).reps /\ r.interval >= RowOf(t).interval
    BY <2>1, <2>4, ScheduledRow DEF Counted
  <2>6. draft'[t].row = r
    BY <2>1, <2>3 DEF Write, Counted, TypeOK
  <2> HIDE DEF r
  <2>7. r.ease >= MinimumEase /\ r.reps \in Nat /\ RowOf(t).reps \in Nat
    BY <2>4, <2>5 DEF Rows
  <2>8. quality \in 0 .. 5
    BY TurnAssumption
  <2> QED  BY <2>5, <2>6, <2>7, <2>8
<1> QED  BY <1>1, AccountKept, PTL DEF Spec, ReviewsSpreadOut
----------------------------------------------------------------------------
(* Forgetting *)

\* Every row that is stored, written or on its way to Redis or in it.
Copies ==
    {row} \cup {draft[t].row : t \in {u \in Turns : Drafting(u)}}
          \cup ({cached, held} \ {Nobody})

\* Two rows that tell the same, today and on every later day.
SameVersion(x, y) ==
    /\ [x EXCEPT !.level = y.level, !.anchor = y.anchor] = y
    /\ \A day \in Nat : day >= today => EffectiveOn(x, day) = EffectiveOn(y, day)

VersionsAgree == \A x, y \in Copies : x.by = y.by => SameVersion(x, y)

\* A version is written once: before its turn gets there, nobody has a copy of it.
VersionsFresh ==
    \A t \in Turns, x \in Copies :
        /\ stage[t] \in {"waiting", "grading", "graded"} => x.by # <<t, "answer">>
        /\ stage[t] \notin {"ready", "committed", "undone"} => x.by # <<t, "review">>

CopiesAgree == Copies \subseteq Rows /\ VersionsAgree /\ VersionsFresh

\* Writing the forgetting into a row changes nothing from today on: what is left of a
\* level after some days is the same however often it was written in between.
LEMMA MaterialisedTellsTheSame ==
    ASSUME today \in Nat, NEW r \in Rows
    PROVE  Materialised(r).by = r.by /\ SameVersion(r, Materialised(r))
<1> DEFINE m == Materialised(r)
<1>1. CASE Effective(r) = r.level
  BY <1>1 DEF Materialised, SameVersion, Rows
<1>2. CASE Effective(r) # r.level
  <2>1. m = [r EXCEPT !.level = Effective(r), !.anchor = today]
    BY <1>2 DEF Materialised
  <2>2. r.level \in Nat /\ r.anchor \in Nat \cup {Never} /\ r.ease \in Nat
    BY StudentAssumption DEF Rows, Levels
  <2>3. r.anchor \in Nat /\ r.anchor < today
    BY <1>2, <2>2 DEF Effective, EffectiveOn, Decayed, Never
  <2> HIDE DEF m
  <2>4. /\ m.level = Effective(r) /\ m.anchor = today /\ m.ease = r.ease /\ m.by = r.by
        /\ [r EXCEPT !.level = m.level, !.anchor = m.anchor] = m
    BY <2>1 DEF Rows
  <2>5. PICK k \in {1, 2} : k = Forgets(r.ease)
    BY DEF Forgets
  <2>6. ASSUME NEW day \in Nat, day >= today
        PROVE  EffectiveOn(r, day) = EffectiveOn(m, day)
    <3>1. today - r.anchor > 0 /\ day - r.anchor > 0 /\ today # Never
      BY <2>2, <2>3, <2>6 DEF Never
    <3>2. m.level = IF r.level > (today - r.anchor) * k
                    THEN r.level - (today - r.anchor) * k ELSE 0
      BY <2>2, <2>3, <2>4, <2>5, <3>1 DEF Effective, EffectiveOn, Decayed, Never
    <3>3. EffectiveOn(r, day) = IF r.level > (day - r.anchor) * k
                                THEN r.level - (day - r.anchor) * k ELSE 0
      BY <2>2, <2>3, <2>5, <3>1 DEF EffectiveOn, Decayed, Never
    <3>4. EffectiveOn(m, day) = IF day = today THEN m.level
                                ELSE IF m.level > (day - today) * k
                                     THEN m.level - (day - today) * k ELSE 0
      BY <2>4, <2>5, <2>6, <3>1 DEF EffectiveOn, Decayed
    <3>5. CASE k = 1
      BY <2>2, <2>3, <2>6, <3>2, <3>3, <3>4, <3>5
    <3>6. CASE k = 2
      BY <2>2, <2>3, <2>6, <3>2, <3>3, <3>4, <3>6
    <3> QED  BY <3>5, <3>6
  <2> QED  BY <2>4, <2>6 DEF SameVersion, m
<1> QED  BY <1>1, <1>2

\* Telling the same is an equivalence on rows.
LEMMA SameVersionEquivalence ==
    ASSUME NEW x \in Rows, NEW y \in Rows, NEW z \in Rows
    PROVE  /\ SameVersion(x, x)
           /\ SameVersion(x, y) => SameVersion(y, x)
           /\ SameVersion(x, y) /\ SameVersion(y, z) => SameVersion(x, z)
BY DEF SameVersion, Rows

\* A step that makes no new row keeps the agreement, whatever day it is.
LEMMA NothingNew ==
    ASSUME CopiesAgree, Copies' \subseteq Copies, TypeOK, TypeOK', today' >= today,
           \A t \in Turns :
              /\ stage'[t] \in {"waiting", "grading", "graded"}
                    => stage[t] \in {"waiting", "grading", "graded"}
              /\ stage'[t] \notin {"ready", "committed", "undone"}
                    => stage[t] \notin {"ready", "committed", "undone"}
    PROVE  CopiesAgree'
<1>1. VersionsAgree'
  BY DEF CopiesAgree, VersionsAgree, SameVersion, EffectiveOn, TypeOK
<1> QED  BY <1>1 DEF CopiesAgree, VersionsFresh

\* A step that makes one row keeps the agreement, when that row is of a version nobody
\* has or tells the same as a copy of its version.
LEMMA OneNew ==
    ASSUME CopiesAgree, NEW r \in Rows, Copies' \subseteq Copies \cup {r}, today' = today,
           \/ \A x \in Copies : x.by # r.by
           \/ \E x \in Copies : x.by = r.by /\ SameVersion(x, r)
    PROVE  Copies' \subseteq Rows /\ VersionsAgree'
<1> USE DEF CopiesAgree
<1>1. ASSUME NEW y \in Copies, y.by = r.by PROVE SameVersion(y, r) /\ SameVersion(r, y)
  <2>1. PICK x \in Copies : x.by = r.by /\ SameVersion(x, r)
    BY <1>1
  <2>2. SameVersion(y, x)
    BY <1>1, <2>1 DEF VersionsAgree
  <2> QED  BY <2>1, <2>2, SameVersionEquivalence
<1>2. \A x, y \in Copies \cup {r} : x.by = y.by => SameVersion(x, y)
  BY <1>1, SameVersionEquivalence DEF VersionsAgree
<1>3. \A x, y \in Rows : SameVersion(x, y)' <=> SameVersion(x, y)
  BY DEF SameVersion, EffectiveOn
<1> QED  BY <1>2, <1>3 DEF VersionsAgree

\* What a turn writes is of a version of its own.
LEMMA WriteAgrees ==
    ASSUME CopiesAgree, Account, NEW t \in Turns, NEW r \in Rows, NEW s \in Slips,
           Write(t, r, s), UNCHANGED <<today, row, held>>,
           \/ /\ r.by = <<t, "answer">>
              /\ stage[t] = "graded" /\ stage' = [stage EXCEPT ![t] = "recorded"]
           \/ /\ r.by = <<t, "review">>
              /\ stage[t] = "closing" /\ stage' = [stage EXCEPT ![t] = "ready"]
    PROVE  CopiesAgree'
<1>1. Copies' \subseteq Copies \cup {r}
  <2>1. draft' = [draft EXCEPT ![t] = [row |-> r, slip |-> s]] /\ cached' \in {r, cached}
    BY DEF Write
  <2>2. \A u \in Turns : draft'[u].row = r \/ draft'[u] = draft[u]
    BY <2>1 DEF Account, Counted, TypeOK
  <2> QED  BY <2>1, <2>2 DEF Copies, Drafting
<1>2. \A x \in Copies : x.by # r.by
  BY DEF CopiesAgree, VersionsFresh
<1>3. Copies' \subseteq Rows /\ VersionsAgree'
  BY <1>1, <1>2, OneNew
<1>4. stage \in [Turns -> Stages]
  BY DEF Account, Counted, TypeOK
<1>5. VersionsFresh'
  <2>1. ASSUME NEW u \in Turns
        PROVE  /\ stage'[u] \in {"waiting", "grading", "graded"} => r.by # <<u, "answer">>
               /\ stage'[u] \notin {"ready", "committed", "undone"} => r.by # <<u, "review">>
    BY <1>4
  <2>2. ASSUME NEW u \in Turns
        PROVE  /\ stage'[u] \in {"waiting", "grading", "graded"}
                    => stage[u] \in {"waiting", "grading", "graded"}
               /\ stage'[u] \notin {"ready", "committed", "undone"}
                    => stage[u] \notin {"ready", "committed", "undone"}
    BY <1>4
  <2> QED  BY <1>1, <2>1, <2>2 DEF CopiesAgree, VersionsFresh
<1> QED  BY <1>3, <1>5 DEF CopiesAgree

LEMMA CopiesInit == Init => CopiesAgree
<1> SUFFICES ASSUME Init PROVE CopiesAgree
  OBVIOUS
<1>1. row \in Rows /\ row.by = Nobody
  BY StudentAssumption DEF Init, StudentInit
<1>2. Copies = {row}
  BY DEF Init, StudentInit, Copies, Drafting
<1>3. \A t \in Turns : row.by # <<t, "answer">> /\ row.by # <<t, "review">>
  BY <1>1, StudentAssumption DEF Changes
<1> QED  BY <1>1, <1>2, <1>3, SameVersionEquivalence DEF CopiesAgree, VersionsAgree, VersionsFresh

LEMMA CopiesStep == Account /\ CopiesAgree /\ [Next]_vars => CopiesAgree'
<1> SUFFICES ASSUME Account, CopiesAgree, [Next]_vars PROVE CopiesAgree'
  OBVIOUS
<1>0. TypeOK /\ TypeOK'
  BY AccountStep DEF Account, Counted
<1>1. ASSUME NEW t \in Turns, RecordsResult(t) PROVE CopiesAgree'
  <2>1. PICK level \in UpdatedLevels(Effective(RowOf(t)), result[t].correct) :
          \E s \in Slips : Write(t, Attempted(RowOf(t), t, result[t].correct, level), s)
    <3>1. SlipOf(t) \in Slips
      BY <1>0, DraftsAreRows
    <3>2. \A s \in Slips : Detected(s) \in Slips /\ Resolved(s) \in Slips
      BY Detection
    <3> QED  BY <1>1, <3>1, <3>2 DEF RecordsResult, RecordAttempt
  <2>2. RowOf(t) \in Rows /\ level \in Levels /\ result[t].correct \in BOOLEAN
    BY <1>0, DraftsAreRows DEF UpdatedLevels, TypeOK, Results
  <2> DEFINE r == Attempted(RowOf(t), t, result[t].correct, level)
  <2>3. r \in Rows /\ r.by = <<t, "answer">>
    BY <1>0, <2>2, AttemptedRow
  <2>4. PICK s \in Slips : Write(t, r, s)
    BY <2>1
  <2> HIDE DEF r
  <2>5. /\ UNCHANGED <<today, row, held>>
        /\ stage[t] = "graded" /\ stage' = [stage EXCEPT ![t] = "recorded"]
    BY <1>1 DEF RecordsResult, RecordAttempt, Goes
  <2> QED  BY <2>3, <2>4, <2>5, WriteAgrees
<1>2. ASSUME NEW t \in Turns, SchedulesReview(t) PROVE CopiesAgree'
  <2>1. PICK quality \in Qualities : Write(t, Scheduled(RowOf(t), t, quality), SlipOf(t))
    BY <1>2 DEF SchedulesReview, ScheduleReview
  <2>2. RowOf(t) \in Rows /\ SlipOf(t) \in Slips /\ BeforeStretching(RowOf(t))
    BY <1>0, DraftsAreRows DEF Account, Stretching
  <2> DEFINE r == Scheduled(RowOf(t), t, quality)
  <2>3. r \in Rows /\ r.by = <<t, "review">>
    BY <1>0, <2>2, ScheduledRow
  <2>4. Write(t, r, SlipOf(t))
    BY <2>1
  <2> HIDE DEF r
  <2>5. /\ UNCHANGED <<today, row, held>>
        /\ stage[t] = "closing" /\ stage' = [stage EXCEPT ![t] = "ready"]
    BY <1>2 DEF SchedulesReview, ScheduleReview, Goes
  <2> QED  BY <2>2, <2>3, <2>4, <2>5, WriteAgrees
<1>3. CASE DailyDecay /\ UNCHANGED <<stage, result>>
  <2> DEFINE m == Materialised(row)
  <2>1. row' = m /\ UNCHANGED <<today, draft, cached, held>>
    BY <1>3 DEF DailyDecay
  <2>2. m \in Rows /\ m.by = row.by /\ SameVersion(row, m)
    BY <1>0, MaterialisedRow, MaterialisedTellsTheSame DEF TypeOK
  <2> HIDE DEF m
  <2>3. Copies' \subseteq Copies \cup {m} /\ row \in Copies
    BY <2>1 DEF Copies, Drafting
  <2>4. Copies' \subseteq Rows /\ VersionsAgree'
    BY <2>1, <2>2, <2>3, OneNew
  <2>5. VersionsFresh'
    BY <1>3, <2>2, <2>3 DEF CopiesAgree, VersionsFresh
  <2> QED  BY <2>4, <2>5 DEF CopiesAgree
<1>4. ASSUME NEW t \in Turns,
             \/ Answered(t) \/ ReadByAI(t) \/ AsksKnownQuestion(t) \/ NeedsContent(t)
             \/ ContentArrives(t) \/ EndsSession(t) \/ NothingToReview(t)
      PROVE  CopiesAgree'
  <2>1. UNCHANGED student
    BY <1>4 DEF Answered, ReadByAI, AsksKnownQuestion, NeedsContent, ContentArrives,
           EndsSession, NothingToReview
  <2>2. Copies' = Copies /\ today' = today
    BY <2>1 DEF student, Copies, Drafting
  <2> QED  BY <1>0, <1>4, <2>2, NothingNew DEF TypeOK, Answered, ReadByAI, AsksKnownQuestion,
           NeedsContent, ContentArrives, EndsSession, NothingToReview, Goes
<1>5. ASSUME NEW t \in Turns, Commits(t) PROVE CopiesAgree'
  <2>1. /\ row' = RowOf(t) /\ draft' = [draft EXCEPT ![t] = NoDraft]
        /\ UNCHANGED <<today, cached, held>>
    BY <1>5 DEF Commits, Commit
  <2>2. Copies' \subseteq Copies
    BY <1>0, <2>1 DEF TypeOK, Copies, RowOf, Drafting
  <2> QED  BY <1>0, <1>5, <2>1, <2>2, NothingNew DEF TypeOK, Commits, Goes
<1>6. ASSUME NEW t \in Turns, AIFails(t) \/ Breaks(t) PROVE CopiesAgree'
  <2>1. PICK next \in {"closing", "undone"} :
            TakenBack(t, next) /\ (next = "closing" => stage[t] \in {"grading", "preparing"})
    BY <1>6 DEF AIFails, Breaks
  <2>2. /\ draft' = [draft EXCEPT ![t] = NoDraft]
        /\ UNCHANGED <<today, row, cached, held>>
    BY <2>1 DEF TakenBack, Rollback
  <2>3. Copies' \subseteq Copies
    BY <1>0, <2>2 DEF TypeOK, Copies, Drafting
  <2> QED  BY <1>0, <2>1, <2>2, <2>3, NothingNew DEF TypeOK, TakenBack
<1>7. CASE /\ ReadRow \/ FillCache \/ CacheExpires \/ DailyInvalidation \/ NextDay
           /\ UNCHANGED <<stage, result>>
  <2>1. Copies' \subseteq Copies
    BY <1>7 DEF ReadRow, FillCache, CacheExpires, DailyInvalidation, NextDay, Copies, Drafting
  <2>2. today' >= today
    BY <1>0, <1>7 DEF TypeOK, ReadRow, FillCache, CacheExpires, DailyInvalidation, NextDay
  <2> QED  BY <1>0, <1>7, <2>1, <2>2, NothingNew
<1>8. CASE UNCHANGED vars
  <2>1. Copies' = Copies /\ today' = today /\ stage' = stage
    BY <1>8 DEF vars, student, Copies, Drafting
  <2> QED  BY <1>0, <2>1, NothingNew DEF TypeOK
<1> QED  BY <1>1, <1>2, <1>3, <1>4, <1>5, <1>6, <1>7, <1>8 DEF Next, Moves

\* What Redis says of a version is what the row says of it, before and after the daily
\* job, for any number of turns, days, late writes to Redis and turns taken back.
THEOREM DecayDoesNotShow == Spec => []DecayIsInvisible
<1>1. Account /\ CopiesAgree => DecayIsInvisible
  <2> SUFFICES ASSUME Account, CopiesAgree, cached # Nobody,
                      [cached EXCEPT !.level = row.level, !.anchor = row.anchor] = row
               PROVE  Effective(cached) = Effective(row)
    BY DEF DecayIsInvisible
  <2>1. cached \in Copies /\ row \in Copies /\ cached \in Rows /\ today \in Nat
    BY DEF Copies, CopiesAgree, Account, Counted, TypeOK
  <2>2. cached.by = row.by
    BY <2>1 DEF Rows
  <2>3. SameVersion(cached, row)
    BY <2>1, <2>2 DEF CopiesAgree, VersionsAgree
  <2>4. today >= today
    BY <2>1
  <2> QED  BY <2>1, <2>3, <2>4 DEF SameVersion, Effective
<1> QED  BY <1>1, AccountKept, CopiesInit, CopiesStep, PTL DEF Spec
============================================================================
