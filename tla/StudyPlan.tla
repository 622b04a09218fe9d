------------------------------- MODULE StudyPlan -------------------------------
(***************************************************************************)
(* The study plan of one student in the database, and the transactions     *)
(* that change it (services/study_plan/plan_service.py and its callers):   *)
(* regeneration, on demand, after a goal changed, after a session ended    *)
(* and once a day, under an advisory lock; and the student's own changes   *)
(* to an item, which take no advisory lock.                                *)
(*                                                                         *)
(* A request is one transaction. PostgreSQL runs it READ COMMITTED: what   *)
(* it reads is what is committed then, what it wrote shows when it         *)
(* commits, and an UPDATE or SELECT FOR UPDATE waits for the rows' locks.  *)
(* Only the active plan is kept: nobody reads a superseded one.            *)
(***************************************************************************)
EXTENDS PlanGenerator

CONSTANTS
    Goals,        \* ids of learning goals
    GoalChoices,  \* what a goal may be set to
    NoGoal,       \* no such goal, or not active
    Sessions,     \* what a session may have covered and attempted
    Reviews,      \* days from a session to the next review
    Moves,        \* bound: days from today an item may be moved to
    MaxDay,       \* bound: days are 1..MaxDay
    MaxRequests,  \* bound: how many transactions there are
    Nobody,       \* holder of a free advisory lock
    PatchesRace   \* TRUE: an item may be changed while a plan is being made

Requests == 1..MaxRequests
Days     == 1..MaxDay

ASSUME RequestAssumption == MaxRequests \in Nat /\ Nobody \notin Requests
ASSUME GoalAssumption ==
    Goals # {} /\ GoalChoices \subseteq GoalRows /\ NoGoal \notin GoalRows
ASSUME SessionAssumption ==
    Sessions \subseteq [covered: SUBSET Concepts, attempted: SUBSET Concepts]
ASSUME DayAssumption == MaxDay \in Nat /\ Moves \subseteq Nat /\ Reviews \subseteq Nat
ASSUME RaceAssumption == PatchesRace \in BOOLEAN

VARIABLES
    day,       \* today (UTC)
    student,   \* what the student knows of each concept
    goals,     \* learning_goals, committed
    plans,     \* study_plans with status 'active', with their items
    advisory,  \* who holds pg_advisory_xact_lock(study_plan:user)
    pc,        \* where each request is
    job,       \* what each request is to do
    rows,      \* the review_items each request has locked: plan and position
    draft,     \* what each request is about to write
    acted,     \* history: what the student last did today about each concept
    moved      \* history: concepts the student put back on the list today

database == <<student, goals, plans>>
requests == <<pc, job, rows, draft>>
history  == <<acted, moved>>
vars     == <<day, database, advisory, requests, history>>

Open    == {"pending", "overdue"}
Carried == {"completed", "skipped"}

\* when: the day of completed_at, else of updated_at; only carried items are asked.
Items == [concept: Concepts, date: Int, status: Open \cup Carried,
          kind: {"learn", "review"}, when: Int]

\* An item is known by the plan that first had it and its concept: a copy keeps that name.
Ids   == Requests \cup {0}
Names == Ids \X Concepts

\* made: generated_for; goals: the goals it was made for; items: some names to Items.
IsPlan(p) ==
    /\ p = [id |-> p.id, made |-> p.made, goals |-> p.goals, items |-> p.items]
    /\ p.id \in Ids /\ p.made \in Int
    /\ p.goals \in [Goals -> GoalRows \cup {NoGoal}]
    /\ DOMAIN p.items \subseteq Names
    /\ \A k \in DOMAIN p.items : p.items[k] \in Items

Kinds == {"regenerate", "daily", "goal", "session", "patch"}
Jobs  == [kind: Kinds, covered: SUBSET Concepts, attempted: SUBSET Concepts,
          goal: Goals, row: GoalRows \cup {NoGoal}]

\* What a request writes: the plan that supersedes plan `old`, after ticking off the
\* items of `old` named in `touched`; or, to change an item, that item.
IsDraft(d) ==
    /\ d = [old |-> d.old, touched |-> d.touched, plan |-> d.plan]
    /\ d.old \in Ids \cup {-1}
    /\ d.touched \subseteq Names
    /\ IsPlan(d.plan)

TypeOK ==
    /\ day \in Nat
    /\ student \in [Concepts -> Standings]
    /\ goals \in [Goals -> GoalRows \cup {NoGoal}]
    /\ \A p \in plans : IsPlan(p)
    /\ advisory \in Requests \cup {Nobody}
    /\ pc \in [Requests -> {"new", "waiting", "ready", "editing", "done"}]
    /\ job \in [Requests -> Jobs]
    /\ rows \in [Requests -> SUBSET (Ids \X Names)]
    /\ DOMAIN draft = Requests /\ \A r \in Requests : IsDraft(draft[r])
    /\ acted \in [Concepts -> Carried \cup {"nothing"}]
    /\ moved \subseteq Concepts

----------------------------------------------------------------------------
(* Plans *)

Active(gs) == {gs[g] : g \in {h \in Goals : gs[h] # NoGoal}}

\* Mutant of Kept: what was done before today is carried, what was done today is not.
KeptLate(items, today) ==
    {k \in DOMAIN items : items[k].status \in Carried /\ items[k].when < today}

\* What regenerate carries over: what was completed or skipped today.
Kept(items, today) ==
    {k \in DOMAIN items : items[k].status \in Carried /\ items[k].when = today}

\* The item that i, of what generate_plan returns, becomes.
Added(i, today) ==
    [concept |-> i.concept, date |-> i.date, kind |-> i.kind, when |-> 0,
     status |-> IF i.date < today THEN "overdue" ELSE "pending"]

\* The plan request r makes, given the items of the previous one.
NewPlan(r, gs, items) ==
    LET kept  == Kept(items, day)
        fresh == GeneratedPlan(student, Active(gs), day, {items[k].concept : k \in kept})
    IN  [id |-> r, made |-> day, goals |-> gs,
         items |-> [k \in kept \cup {<<r, i.concept>> : i \in fresh} |->
                       IF k \in kept THEN items[k]
                       ELSE Added(CHOOSE i \in fresh : i.concept = k[2], day)]]

\* active_plan: the latest active plan; there may be none.
NoPlan  == [id |-> 0, made |-> 0, goals |-> [g \in Goals |-> NoGoal], items |-> <<>>]
Current == IF plans = {} THEN NoPlan ELSE CHOOSE p \in plans : TRUE
Nothing == [old |-> -1, touched |-> {}, plan |-> NoPlan]

\* on_session_completed: the open items up to today of what the session worked on.
Due(p, covered, attempted) ==
    {i \in DOMAIN p.items :
        /\ p.items[i].status \in Open
        /\ p.items[i].date <= day
        /\ p.items[i].concept \in IF p.items[i].kind = "review" THEN attempted ELSE covered}

Ticked(items, S) ==
    [i \in DOMAIN items |->
        IF i \in S THEN [items[i] EXCEPT !.status = "completed", !.when = day] ELSE items[i]]

----------------------------------------------------------------------------
(* Requests *)

Go(r, step) == pc' = [pc EXCEPT ![r] = step]

Arrives(r) == pc[r] = "new" /\ \A q \in Requests : q < r => pc[q] # "new"
Running(r) == pc[r] \in {"waiting", "ready", "editing"}

Idle == [kind |-> "regenerate", covered |-> {}, attempted |-> {},
         goal |-> CHOOSE g \in Goals : TRUE, row |-> NoGoal]

\* Nobody else holds any of these rows.
Free(r, S) == \A q \in Requests \ {r} : rows[q] \cap S = {}

\* Mutant of Leave: the advisory lock outlives the transaction (pg_advisory_lock).
LeaveLocked(r) ==
    /\ Go(r, "done")
    /\ advisory' = advisory
    /\ job' = [job EXCEPT ![r] = Idle]
    /\ rows' = [rows EXCEPT ![r] = {}]
    /\ draft' = [draft EXCEPT ![r] = Nothing]

\* The transaction of r is over: its locks are released, what it prepared forgotten.
Leave(r) ==
    /\ Go(r, "done")
    /\ advisory' = IF advisory = r THEN Nobody ELSE advisory
    /\ job' = [job EXCEPT ![r] = Idle]
    /\ rows' = [rows EXCEPT ![r] = {}]
    /\ draft' = [draft EXCEPT ![r] = Nothing]

Start(r, j) ==
    /\ Arrives(r)
    /\ Go(r, "waiting")
    /\ job' = [job EXCEPT ![r] = j]

\* POST /study-plan/regenerate, a processed document, or a read that finds no plan for
\* today: ensure_plan looks without the lock and does not look again.
AskToRegenerate(r) ==
    /\ Start(r, Idle)
    /\ UNCHANGED <<day, database, advisory, rows, draft, history>>

\* A read that finds today's plan.
ReadPlan(r) ==
    /\ Arrives(r)
    /\ \E p \in plans : p.made >= day
    /\ Go(r, "done")
    /\ UNCHANGED <<day, database, advisory, job, rows, draft, history>>

\* create_goal, update_goal and delete_goal: the row is written, and locked, before
\* the plan is regenerated in the same transaction.
ChangeGoal(r) ==
    /\ \E g \in Goals, row \in GoalChoices \cup {NoGoal} :
          /\ \A q \in Requests \ {r} : ~(Running(q) /\ job[q].kind = "goal" /\ job[q].goal = g)
          /\ row # goals[g]
          /\ Start(r, [Idle EXCEPT !.kind = "goal", !.goal = g, !.row = row])
    /\ UNCHANGED <<day, database, advisory, rows, draft, history>>

\* The session has committed what it learned of the student; _after_completion then opens
\* a transaction of its own for the plan.
EndSession(r) ==
    /\ \E s \in Sessions, to \in {"learned", "weak"}, n \in Reviews :
          /\ Start(r, [Idle EXCEPT !.kind = "session", !.covered = s.covered,
                                   !.attempted = s.attempted])
          /\ student' = [c \in Concepts |->
                IF c \in s.attempted
                THEN [learned |-> to = "learned", forgotten |-> FALSE, review |-> day + n]
                ELSE student[c]]
    /\ UNCHANGED <<day, goals, plans, advisory, rows, draft, history>>

\* refresh_learner: mark_overdue updates, and so locks, the pending items of past days
\* before regenerate asks for the advisory lock. The updates themselves end with the
\* plan, which is superseded in the same transaction.
StartDaily(r) ==
    /\ LET late == UNION {{<<p.id, i>> :
                       i \in {k \in DOMAIN p.items :
                               p.items[k].status = "pending" /\ p.items[k].date < day}} :
                       p \in plans}
       IN  /\ Free(r, late)
           /\ rows' = [rows EXCEPT ![r] = late]
    /\ Start(r, [Idle EXCEPT !.kind = "daily"])
    /\ UNCHANGED <<day, database, advisory, draft, history>>

\* The goals once request r has committed.
GoalsAfter(r) ==
    IF job[r].kind = "goal" THEN [goals EXCEPT ![job[r].goal] = job[r].row] ELSE goals

\* Mutant of SeenGoals: the request's own change is not flushed before it plans.
SeenGoalsUnflushed(r) == goals

\* The goals request r sees when it plans: the committed ones and its own change.
SeenGoals(r) == GoalsAfter(r)

\* _lock, then on_session_completed and regenerate up to what they write. Items are
\* read without locking them.
Prepare(r) ==
    /\ pc[r] = "waiting"
    /\ advisory = Nobody
    /\ PatchesRace \/ \A q \in Requests : pc[q] # "editing"
    /\ LET due == Due(Current, job[r].covered, job[r].attempted)
       IN  draft' = [draft EXCEPT ![r] =
               [old |-> IF plans = {} THEN -1 ELSE Current.id, touched |-> due,
                plan |-> NewPlan(r, SeenGoals(r), Ticked(Current.items, due))]]
    /\ advisory' = r
    /\ Go(r, "ready")
    /\ UNCHANGED <<day, database, job, rows, history>>

\* The rows request r has yet to lock before it can commit.
Wanted(r) == {<<draft[r].old, i>> : i \in draft[r].touched}

\* The items a session ticked off count as done on the day it did so.
Credit(r) ==
    LET ticked == {draft[r].plan.items[i].concept :
                      i \in {k \in DOMAIN draft[r].plan.items :
                              draft[r].plan.items[k].status = "completed"}}
        worked == ticked \cap (job[r].covered \cup job[r].attempted)
    IN  IF draft[r].touched # {} /\ draft[r].plan.made = day
        THEN [c \in Concepts |-> IF c \in worked THEN "completed" ELSE acted[c]]
        ELSE acted

\* Mutant of Commit: the plan it replaces stays active.
CommitBeside(r) ==
    /\ pc[r] = "ready"
    /\ Free(r, Wanted(r))
    /\ plans' = plans \cup {draft[r].plan}
    /\ goals' = GoalsAfter(r)
    /\ acted' = Credit(r)
    /\ Leave(r)
    /\ UNCHANGED <<day, student, moved>>

\* The items ticked off are written, which waits for their rows; the previous plan is
\* superseded and the new one committed with whatever else the transaction wrote.
Commit(r) ==
    /\ pc[r] = "ready"
    /\ Free(r, Wanted(r))
    /\ plans' = {p \in plans : p.id # draft[r].old} \cup {draft[r].plan}
    /\ goals' = GoalsAfter(r)
    /\ acted' = Credit(r)
    /\ Leave(r)
    /\ UNCHANGED <<day, student, moved>>

----------------------------------------------------------------------------
(* The student's own changes *)

Marked(i, status) ==
    [i EXCEPT !.status = IF status = "pending" /\ i.date < day THEN "overdue" ELSE status,
              !.when = IF status \in Carried THEN day ELSE 0]

Rescheduled(i, date) ==
    IF i.status \in {"overdue", "skipped"}
    THEN [i EXCEPT !.date = date, !.status = "pending", !.when = 0]
    ELSE [i EXCEPT !.date = date]

\* What update_item can make of item i.
Edits(i) ==
    LET dates    == {day + n : n \in Moves}
        statuses == {"pending", "completed", "skipped"}
    IN  {Rescheduled(i, d) : d \in dates}
        \cup {Marked(i, s) : s \in statuses}
        \cup {Marked([i EXCEPT !.date = d], s) : d \in dates, s \in statuses}

\* update_item: the item is locked, its plan is not.
EditItem(r) ==
    /\ Arrives(r)
    /\ PatchesRace \/ \A q \in Requests : pc[q] # "ready"
    /\ \E p \in plans : \E k \in DOMAIN p.items :
          /\ Free(r, {<<p.id, k>>})
          /\ rows' = [rows EXCEPT ![r] = {<<p.id, k>>}]
          /\ \E item \in Edits(p.items[k]) \ {p.items[k]} :
                draft' = [draft EXCEPT ![r] =
                    [old |-> p.id, touched |-> {k},
                     plan |-> [NoPlan EXCEPT !.items = [n \in {k} |-> item]]]]
    /\ Go(r, "editing")
    /\ job' = [job EXCEPT ![r].kind = "patch"]
    /\ UNCHANGED <<day, database, advisory, history>>

\* The change is written to the item, whatever has become of its plan.
CommitEdit(r) ==
    /\ pc[r] = "editing"
    /\ LET place == CHOOSE k \in draft[r].touched : TRUE
           item  == draft[r].plan.items[place]
       IN  /\ plans' = {IF p.id = draft[r].old THEN [p EXCEPT !.items[place] = item] ELSE p :
                            p \in plans}
           /\ acted' = [acted EXCEPT ![item.concept] =
                 IF item.status \in Carried /\ item.when = day THEN item.status ELSE "nothing"]
           /\ moved' = IF item.status \in Open THEN moved \cup {item.concept} ELSE moved
    /\ Leave(r)
    /\ UNCHANGED <<day, student, goals>>

----------------------------------------------------------------------------
(* Failures and time *)

\* PostgreSQL finds r and another transaction waiting for each other: one has the
\* advisory lock and wants rows, the other has the rows and wants the lock.
Deadlocked(r, q) ==
    /\ pc[r] = "ready" /\ advisory = r
    /\ pc[q] = "waiting" /\ rows[q] \cap Wanted(r) # {}

\* Either is rolled back; neither caller tries again.
BreakDeadlock(r) ==
    /\ \E q \in Requests \ {r} : Deadlocked(r, q) \/ Deadlocked(q, r)
    /\ Leave(r)
    /\ UNCHANGED <<day, database, history>>

\* The process dies, or the database fails: the transaction is rolled back.
Fail(r) ==
    /\ Running(r)
    /\ Leave(r)
    /\ UNCHANGED <<day, database, history>>

\* Midnight, under whatever is going on. Mastery decays: what was learned may be forgotten.
NextDay ==
    /\ day < MaxDay
    /\ day' = day + 1
    /\ \E S \in SUBSET {c \in Concepts : student[c].review # NoDate} :
          student' = [c \in Concepts |->
              IF c \in S THEN [student[c] EXCEPT !.learned = FALSE, !.forgotten = TRUE]
              ELSE student[c]]
    /\ acted' = [c \in Concepts |-> "nothing"]
    /\ moved' = {}
    /\ UNCHANGED <<goals, plans, advisory, requests>>

----------------------------------------------------------------------------
(* Specification *)

\* A student with a plan made today, or none yet and no goal.
Init ==
    /\ day = 1
    /\ student \in [Concepts -> Standings]
    /\ \/ plans = {} /\ goals = [g \in Goals |-> NoGoal]
       \/ /\ goals \in [Goals -> GoalChoices \cup {NoGoal}]
          /\ plans = {NewPlan(0, goals, <<>>)}
    /\ advisory = Nobody
    /\ pc = [r \in Requests |-> "new"]
    /\ job = [r \in Requests |-> Idle]
    /\ rows = [r \in Requests |-> {}]
    /\ draft = [r \in Requests |-> Nothing]
    /\ acted = [c \in Concepts |-> "nothing"]
    /\ moved = {}

Next ==
    \/ \E r \in Requests :
          \/ AskToRegenerate(r) \/ ReadPlan(r) \/ ChangeGoal(r)
          \/ EndSession(r) \/ StartDaily(r) \/ EditItem(r)
          \/ Prepare(r) \/ Commit(r) \/ CommitEdit(r) \/ BreakDeadlock(r) \/ Fail(r)
    \/ NextDay

Spec == Init /\ [][Next]_vars

----------------------------------------------------------------------------
(* Properties *)

\* A student never has two active plans, whatever runs at the same time: "serialised
\* per user with a transaction advisory lock" (plan_service.regenerate).
OneActivePlan == \A p, q \in plans : p = q

\* The active plan was made for the goals that are active now: a goal changed while
\* another plan is being made is not lost from it (goals.py, "every change regenerates
\* the study plan").
PlanCoversGoals == \A p \in plans : p.goals = goals

\* What the student completed or skipped today, by hand or in a session, is still there
\* after any regeneration, failure or deadlock of the same day ("so the day's progress
\* stays visible", plan_service.py). Violated when PatchesRace.
TodaysActionsKept ==
    \A p \in plans, c \in Concepts :
        acted[c] # "nothing" =>
            \E i \in DOMAIN p.items :
                /\ p.items[i].concept = c
                /\ p.items[i].status = acted[c]
                /\ p.items[i].when = day

\* In a plan made today, a concept completed or skipped today does not ask for attention
\* again today, unless the student put it back (generate_plan, done_today).
NotDueAgainToday ==
    \A p \in plans, c \in Concepts \ moved :
        p.made = day /\ acted[c] # "nothing" =>
            \A i \in DOMAIN p.items :
                p.items[i].concept = c /\ p.items[i].status \in Open => p.items[i].date > day

\* The days on which plan p asks for concept c.
Asked(p, c) ==
    {p.items[i].date : i \in {k \in DOMAIN p.items :
                               p.items[k].concept = c /\ p.items[k].status \in Open}}

DoneIn(p) == {p.items[i].concept : i \in {k \in DOMAIN p.items : p.items[k].status \in Carried}}

\* Everything a goal has left to learn is planned by its target date, today at the
\* earliest and a day later for what was done today (concepts_per_day_for).
MeetsDeadlines(p) ==
    \A g \in Active(p.goals) : \A c \in g.concepts :
        ~student[c].learned =>
            \E d \in Asked(p, c) :
                g.target # NoDate =>
                    d <= Later(g.target, IF c \in DoneIn(p) THEN day + 1 ELSE day)

\* A concept is not planned before a prerequisite that is taught wherever it is, unless
\* one of the two is due for a review or was done today (topological_order, place).
PrerequisitesFirst(p) ==
    \A e \in Prerequisites :
        /\ \A g \in Active(p.goals) : e[2] \in g.concepts => e[1] \in g.concepts
        /\ \A c \in {e[1], e[2]} :
              ~student[c].learned /\ c \notin DoneIn(p) /\ ReviewDates(c, student, day) = {}
        => \A d \in Asked(p, e[1]), f \in Asked(p, e[2]) : d <= f

\* Both hold of every plan when it is made.
SchedulesWell ==
    [][\A r \in Requests :
          pc[r] = "waiting" /\ pc'[r] = "ready" =>
              MeetsDeadlines(draft'[r].plan) /\ PrerequisitesFirst(draft'[r].plan)]_vars

\* However requests wait for the advisory lock and for each other's rows, one of them
\* can go on: it holds what it needs, or PostgreSQL finds the deadlock it is part of.
SomeoneCanGoOn ==
    (\E r \in Requests : Running(r)) =>
        \E r \in Requests :
            \/ pc[r] = "waiting" /\ advisory = Nobody
            \/ pc[r] = "ready" /\ Free(r, Wanted(r))
            \/ pc[r] = "editing"
            \/ \E q \in Requests \ {r} : Deadlocked(r, q)
=============================================================================
