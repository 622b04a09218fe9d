---------------------------- MODULE StudentModel ----------------------------
(* What the platform believes about one student and one concept: the mastery *)
(* row with its forgetting and its spaced reviews, the misconception that    *)
(* was detected, and the copy of the row that Redis keeps for readers.       *)
(* A turn of a learning session is a transaction: it drafts new rows under   *)
(* the lock of the mastery row and commits or rolls back at its end.         *)
EXTENDS Integers, FiniteSets

CONSTANTS
    Turns,          \* the transactions that may change the row
    Top,            \* the highest level; levels are on a logarithmic scale
    LastDay,        \* the last day looked at
    Starts,         \* rows and misconceptions that earlier sessions may leave
    ResolveAfter,   \* right answers in a row that resolve a misconception
    Nobody          \* neither a turn, nor a row, nor a change of it

VARIABLES
    today,
    row,            \* the committed mastery row
    slip,           \* the committed misconception: its status and its count
    lock,           \* the turn that holds the row lock
    draft,          \* what each turn has written but not committed
    cached,         \* the row in Redis, or Nobody
    held,           \* the row a reader is about to put into Redis, or Nobody
    stale           \* the daily job has committed and has yet to clear Redis

student == <<today, row, slip, lock, draft, cached, held, stale>>

Levels == 0 .. Top
Never == -1         \* the anchor of a row that was never assessed
MinimumEase == 130  \* in hundredths, as intervals are
InitialEase == 250
Fresh == [attempts |-> 0, level |-> 0, anchor |-> Never, streak |-> 0,
          reps |-> 0, ease |-> InitialEase, interval |-> 100, due |-> 0, by |-> Nobody]
Unknown == [status |-> "none", count |-> 0]

(* A version of the row is told apart by the change a turn made: a turn      *)
(* records one answer and schedules one review, each under its own time.     *)
Changes == Turns \X {"answer", "review"}
Versions == Changes \cup {Nobody}

(* Forgetting is exponential in days, so on the logarithmic scale it takes  *)
(* the same from every level each day, and less the higher the ease is.     *)
Forgets(ease) == IF ease < 200 THEN 2 ELSE 1

Decayed(level, days, ease) ==
    IF days <= 0 THEN level
    ELSE IF level > days * Forgets(ease) THEN level - days * Forgets(ease) ELSE 0

EffectiveOn(r, day) ==
    IF r.anchor = Never THEN r.level ELSE Decayed(r.level, day - r.anchor, r.ease)
Effective(r) == EffectiveOn(r, today)

(* Knowledge tracing may raise the level after a right answer and lower it  *)
(* after a wrong one, starting from what is left after forgetting.          *)
UpdatedLevels(old, correct) == {l \in Levels : IF correct THEN l >= old ELSE l <= old}

(* One assessed answer; assessing starts decay anew. *)
Attempted(r, t, correct, level) ==
    [r EXCEPT !.attempts = @ + 1, !.level = level, !.anchor = today,
              !.streak = IF correct THEN @ + 1 ELSE 0, !.by = <<t, "answer">>]

(* SM-2: failing starts over, passing stretches the interval. *)
SM2Ease(ease, quality) ==
    LET moved == ease + 10 - (5 - quality) * (8 + (5 - quality) * 2)
    IN  IF moved < MinimumEase THEN MinimumEase ELSE moved

(* Mutant: the second interval for every later repetition. *)
SM2IntervalStuck(r, quality) == IF quality < 3 \/ r.reps <= 0 THEN 100 ELSE 600

SM2Interval(r, quality) ==
    CASE quality < 3 \/ r.reps <= 0 -> 100
      [] quality >= 3 /\ r.reps = 1 -> 600
      [] OTHER -> ((IF r.interval < 100 THEN 100 ELSE r.interval) * r.ease) \div 100

Scheduled(r, t, quality) ==
    LET interval == SM2Interval(r, quality)
    IN  [r EXCEPT !.interval = interval,
                  !.reps = IF quality < 3 THEN 0 ELSE @ + 1,
                  !.ease = SM2Ease(@, quality),
                  !.due = today + interval \div 100,
                  !.by = <<t, "review">>]

(* Mutant: the forgetting that was written counts again. *)
MaterialisedTwice(r) == [r EXCEPT !.level = Effective(r)]

(* The daily job writes the forgetting so far into the row. *)
Materialised(r) ==
    IF Effective(r) = r.level THEN r
    ELSE [r EXCEPT !.level = Effective(r), !.anchor = today]

(* A detection is counted; one of a resolved misconception makes it recur.  *)
Detected(s) ==
    [status |-> CASE s.status = "none" -> "active"
                  [] s.status = "resolved" -> "recurring"
                  [] OTHER -> s.status,
     count |-> s.count + 1]

Resolved(s) == IF s.status = "none" THEN s ELSE [s EXCEPT !.status = "resolved"]

(* What a stored row may say: the ease keeps its minimum, and a row with few *)
(* passed reviews has the first interval still.                              *)
Rows == [attempts : Nat, level : Levels, anchor : Nat \cup {Never}, streak : Nat,
         reps : Nat, ease : {e \in Nat : e >= MinimumEase},
         interval : {i \in Nat : i >= 100}, due : Nat, by : Versions]
Slips == [status : {"none", "active", "recurring", "resolved"}, count : Nat]
BeforeStretching(r) == r.reps <= 1 => r.interval = 100

ASSUME StudentAssumption ==
    /\ Top \in Nat /\ LastDay \in Nat /\ ResolveAfter \in Nat
    /\ IsFiniteSet(Turns)
    /\ Nobody \notin Turns /\ Nobody \notin Changes /\ Nobody \notin Rows
    /\ Starts \subseteq [row : Rows, slip : Slips]
    /\ \A start \in Starts :        \* attempts and detections are counted from the start
            /\ BeforeStretching(start.row) /\ start.row.by = Nobody
            /\ start.row.attempts = 0 /\ start.slip.count = 0

NoDraft == [row |-> Nobody, slip |-> Nobody]
Drafting(t) == draft[t] # NoDraft

(* Mutant: SELECT without FOR UPDATE. *)
NeedsNoLock(t) == TRUE

(* SELECT ... FOR UPDATE waits while another transaction has the row, and    *)
(* reads it anew: the turn's own version if it wrote one.                    *)
CanLock(t) == lock \in {Nobody, t}
RowOf(t) == IF Drafting(t) THEN draft[t].row ELSE row
SlipOf(t) == IF Drafting(t) THEN draft[t].slip ELSE slip

(* Redis gets every version as soon as it is written, not once it is        *)
(* committed, unless Redis fails.                                           *)
Write(t, r, s) ==
    /\ CanLock(t)
    /\ lock' = t
    /\ draft' = [draft EXCEPT ![t] = [row |-> r, slip |-> s]]
    /\ cached' \in {r, cached}

StudentInit ==
    /\ today = 0
    /\ \E start \in Starts : row = start.row /\ slip = start.slip
    /\ lock = Nobody
    /\ draft = [t \in Turns |-> NoDraft]
    /\ cached = Nobody
    /\ held = Nobody
    /\ stale = FALSE

(* record_attempt, then the misconceptions that the grading reported, then  *)
(* their resolution when the streak is long enough.                         *)
RecordAttempt(t, correct, detected) ==
    \E level \in UpdatedLevels(Effective(RowOf(t)), correct) :
        LET r == Attempted(RowOf(t), t, correct, level)
            s == IF detected THEN Detected(SlipOf(t)) ELSE SlipOf(t)
        IN  /\ Write(t, r, IF r.streak >= ResolveAfter THEN Resolved(s) ELSE s)
            /\ UNCHANGED <<today, row, slip, held, stale>>

ScheduleReview(t, quality) ==
    /\ Write(t, Scheduled(RowOf(t), t, quality), SlipOf(t))
    /\ UNCHANGED <<today, row, slip, held, stale>>

Commit(t) ==
    /\ row' = RowOf(t)
    /\ slip' = SlipOf(t)
    /\ lock' = IF lock = t THEN Nobody ELSE lock
    /\ draft' = [draft EXCEPT ![t] = NoDraft]
    /\ UNCHANGED <<today, cached, held, stale>>

Rollback(t) ==
    /\ lock' = IF lock = t THEN Nobody ELSE lock
    /\ draft' = [draft EXCEPT ![t] = NoDraft]
    /\ UNCHANGED <<today, row, slip, cached, held, stale>>

(* A reader that misses Redis reads the row it can see, which is its own    *)
(* version for a turn that wrote one, and puts it into Redis later.         *)
ReadRow ==
    /\ cached = Nobody
    /\ held = Nobody
    /\ held' \in {row} \cup {draft[t].row : t \in {u \in Turns : Drafting(u)}}
    /\ UNCHANGED <<today, row, slip, lock, draft, cached, stale>>

FillCache ==
    /\ held # Nobody
    /\ cached' = held
    /\ held' = Nobody
    /\ UNCHANGED <<today, row, slip, lock, draft, stale>>

CacheExpires ==
    /\ cached # Nobody
    /\ cached' = Nobody
    /\ UNCHANGED <<today, row, slip, lock, draft, held, stale>>

(* The daily job takes the row lock and commits, and then deletes the copy   *)
(* in Redis if it can.                                                       *)
DailyDecay ==
    /\ lock = Nobody
    /\ ~stale
    /\ Materialised(row) # row
    /\ row' = Materialised(row)
    /\ stale' = TRUE
    /\ UNCHANGED <<today, slip, lock, draft, cached, held>>

DailyInvalidation ==
    /\ stale
    /\ stale' = FALSE
    /\ cached' \in {Nobody, cached}
    /\ UNCHANGED <<today, row, slip, lock, draft, held>>

NextDay ==
    /\ today < LastDay
    /\ today' = today + 1
    /\ UNCHANGED <<row, slip, lock, draft, cached, held, stale>>
=============================================================================
