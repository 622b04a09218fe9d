----------------------------- MODULE PlanGenerator -----------------------------
(***************************************************************************)
(* How a study plan is made (services/study_plan/plan_generator.py): a     *)
(* pure function of what the student knows, the active goals, the          *)
(* prerequisite graph and what was done today. Priorities and minutes,     *)
(* which only order what is shown, are left out; mastery is what the code  *)
(* compares it with: learned or not, forgotten or not.                     *)
(***************************************************************************)
EXTENDS Integers, FiniteSets

CONSTANTS
    Concepts,       \* the student's concepts
    Prerequisites,  \* pairs <<p, c>>: learn p before c
    Rank,           \* Rank[c]: easier concepts first, then by id
    PerDay,         \* default_concepts_per_day
    Horizon,        \* study_plan_horizon_days
    NoDate          \* no target date, no review date

ASSUME GraphAssumption == IsFiniteSet(Concepts) /\ Prerequisites \subseteq Concepts \X Concepts
ASSUME RankAssumption ==
    /\ Rank \in [Concepts -> Nat]
    /\ \A c, d \in Concepts : Rank[c] = Rank[d] => c = d
ASSUME PaceAssumption == PerDay \in Nat /\ Horizon \in Nat /\ NoDate \notin Int

\* learned: mastery at or above the learned threshold; forgotten: assessed at or above
\* the review trigger, decayed below it; review: the date SM-2 gave.
Standings == [learned: BOOLEAN, forgotten: BOOLEAN, review: Int \cup {NoDate}]

\* A goal: what it covers and by when.
GoalRows == [concepts: SUBSET Concepts, target: Int \cup {NoDate}]

----------------------------------------------------------------------------
(* The order of learning *)

\* What goes first of S: lowest in the tie-break order.
First(S) == CHOOSE c \in S : \A d \in S : Rank[c] <= Rank[d]

\* Mutant of Ready: prerequisites are not looked at.
ReadyAny(S) == S

\* Those of S that need nothing in S.
Ready(S) == {c \in S : \A p \in S : <<p, c>> \notin Prerequisites}

\* topological_order of S, as the concepts that each one follows: prerequisites first;
\* what waits for a cycle comes last, in the tie-break order.
Before[S \in SUBSET Concepts] ==
    IF Ready(S) = {} THEN [c \in S |-> {d \in S : Rank[d] < Rank[c]}]
    ELSE LET first == First(Ready(S))
         IN  [c \in S |-> IF c = first THEN {} ELSE {first} \cup Before[S \ {first}][c]]

----------------------------------------------------------------------------
(* Dates *)

Later(a, b)   == IF a < b THEN b ELSE a
Earlier(a, b) == IF a < b THEN a ELSE b
Earliest(S)   == CHOOSE d \in S : \A e \in S : d <= e

\* Mutant of PaceFor: one day more than there is.
PaceForLate(n, today, target) ==
    IF target = NoDate \/ n = 0 THEN Later(1, PerDay)
    ELSE LET days == Later(1, target - today + 2)
         IN  Later(1, (n + days - 1) \div days)

\* concepts_per_day_for: enough a day to be done by the target date.
PaceFor(n, today, target) ==
    IF target = NoDate \/ n = 0 THEN Later(1, PerDay)
    ELSE LET days == Later(1, target - today + 1)
         IN  Later(1, (n + days - 1) \div days)

\* What goal g has left to learn.
ToLearn(g, student) == {c \in g.concepts : ~student[c].learned}

\* The day goal g gives to c, of which there may be none: so many a day, in order.
LearnDates(g, c, student, today) ==
    LET left == ToLearn(g, student)
    IN  {today + Cardinality(Before[g.concepts][d] \cap left)
                    \div PaceFor(Cardinality(left), today, g.target) :
            d \in {c} \cap left}

\* The day on which c is reviewed, if within the horizon, or forgotten.
ReviewDates(c, student, today) ==
    LET s == student[c]
        due == IF s.review # NoDate /\ s.review <= today + Horizon THEN {s.review} ELSE {}
    IN  IF s.forgotten
        THEN {IF due = {} THEN today ELSE Earlier(s.review, today)}
        ELSE due

\* Mutant of Rest: what was done today is planned like anything else.
NoRest(date, c, today, done) == date

\* What was done or skipped today comes back tomorrow at the earliest.
Rest(date, c, today, done) == IF c \in done THEN Later(date, today + 1) ELSE date

\* Every day something asks for c; place keeps the earliest.
Dates(c, student, goals, today, done) ==
    {Rest(d, c, today, done) :
        d \in (UNION {LearnDates(g, c, student, today) : g \in goals})
              \cup ReviewDates(c, student, today)}

IsLearning(c, student, goals) == ~student[c].learned /\ \E g \in goals : c \in g.concepts

\* generate_plan: at most one item a concept, on the earliest of its days.
GeneratedPlan(student, goals, today, done) ==
    {[concept |-> c,
      date    |-> Earliest(Dates(c, student, goals, today, done)),
      kind    |-> IF IsLearning(c, student, goals) THEN "learn" ELSE "review"] :
        c \in {d \in Concepts : Dates(d, student, goals, today, done) # {}}}
=============================================================================
