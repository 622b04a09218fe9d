---------------------------- MODULE StudyPlan_proofs ----------------------------
(***************************************************************************)
(* Theorems of StudyPlan for any concepts, goals, horizon, number of days  *)
(* and number of concurrent requests: types; one plan, for the goals there *)
(* are; what was done today is kept and not asked for again; and what      *)
(* generate_plan makes, with the induction over sets of concepts that its  *)
(* order of learning needs.                                                *)
(***************************************************************************)
EXTENDS StudyPlan, FiniteSetTheorems, WellFoundedInduction, TLAPS

USE DEF Requests, Ids, Names

----------------------------------------------------------------------------
(* The inductive invariants *)

Shaped(p) ==
    /\ p = [id |-> p.id, made |-> p.made, goals |-> p.goals, items |-> p.items]
    /\ p.id \in Ids
    /\ DOMAIN p.items \subseteq Names

\* What the actions need to know of the shape of the state.
Shape ==
    /\ pc \in [Requests -> {"new", "waiting", "ready", "editing", "done"}]
    /\ DOMAIN job = Requests
    /\ DOMAIN rows = Requests
    /\ DOMAIN draft = Requests
    /\ \A p \in plans : Shaped(p)
    /\ \A r \in Requests : pc[r] = "ready" => Shaped(draft[r].plan)

\* Who plans holds the advisory lock, and only who runs holds rows.
Locking ==
    /\ \A r \in Requests : advisory = r <=> pc[r] = "ready"
    /\ advisory # Nobody => advisory \in Requests
    /\ \A r \in Requests : rows[r] # {} => Running(r)

\* Who plans has read what is committed, and replaces it.
Fresh ==
    \A r \in Requests : pc[r] = "ready" =>
        /\ \A p \in plans : p.id = draft[r].old
        /\ draft[r].plan.goals = GoalsAfter(r)

Serial == Shape /\ Locking /\ Fresh /\ OneActivePlan /\ PlanCoversGoals

\* What the student did today is shown by plan p.
Shows(p) ==
    \A c \in Concepts : acted[c] # "nothing" =>
        \E i \in DOMAIN p.items :
            /\ p.items[i].concept = c
            /\ p.items[i].status = acted[c]
            /\ p.items[i].when = day

\* The items of a plan are records, so that changing one field leaves the others alone.
IsItem(i) == {"concept", "date", "kind", "status", "when"} \subseteq DOMAIN i
Whole(p)  == \A k \in DOMAIN p.items : IsItem(p.items[k])

\* Nobody plans while an item is being changed; the item is one of the active plan's,
\* and keeps its concept.
Apart ==
    \A r \in Requests : pc[r] = "editing" =>
        /\ \A q \in Requests : pc[q] # "ready"
        /\ \E p \in plans : p.id = draft[r].old
        /\ \E k \in Names :
              /\ draft[r].touched = {k}
              /\ \A p \in plans : /\ k \in DOMAIN p.items
                                  /\ p.items[k].concept = draft[r].plan.items[k].concept
              /\ IsItem(draft[r].plan.items[k])

\* What is carried into a plan was done on the day the plan was made.
CarriedToday(p) ==
    \A i \in DOMAIN p.items : p.items[i].status \in Carried => p.items[i].when = p.made

Remembers ==
    /\ acted \in [Concepts -> Carried \cup {"nothing"}]
    /\ plans = {} => \A c \in Concepts : acted[c] = "nothing"
    /\ \A p \in plans : Shows(p) /\ Whole(p)
    /\ \A r \in Requests : pc[r] = "ready" =>
           Shows(draft[r].plan) /\ Whole(draft[r].plan) /\ CarriedToday(draft[r].plan)

Keeps == Serial /\ Apart /\ Remembers

----------------------------------------------------------------------------
(* What generate_plan computes *)

\* A set of integers that has a lower bound has a least element.
LEMMA LeastInteger ==
    ASSUME NEW S, S \subseteq Int, S # {}, NEW bound \in Int, \A d \in S : bound <= d
    PROVE  \E d \in S : \A e \in S : d <= e
<1> DEFINE above == {n \in Nat : bound + n \in S}
<1>1. above # {}
  <2>1. PICK d \in S : TRUE
    OBVIOUS
  <2>2. d - bound \in Nat /\ bound + (d - bound) = d
    BY <2>1
  <2> QED BY <2>2
<1>2. \E n \in above : \A k \in above : ~(<<k, n>> \in OpToRel(<, Nat))
  <2>1. above \subseteq Nat
    OBVIOUS
  <2> HIDE DEF above
  <2> QED BY <1>1, <2>1, NatLessThanWellFounded, WFMin
<1>3. PICK n \in above : \A k \in above : ~(<<k, n>> \in OpToRel(<, Nat))
  BY <1>2
<1>4. \A k \in above : ~(k < n)
  BY <1>3 DEF OpToRel
<1>5. ASSUME NEW e \in S PROVE bound + n <= e
  <2>1. e - bound \in Nat /\ bound + (e - bound) = e
    OBVIOUS
  <2>2. e - bound \in above
    BY <2>1
  <2>3. ~(e - bound < n)
    BY <1>4, <2>2
  <2> QED BY <2>3
<1> QED BY <1>5

\* Earliest returns the least element.
LEMMA EarliestFacts ==
    ASSUME NEW S, S \subseteq Int, S # {}, NEW bound \in Int, \A d \in S : bound <= d
    PROVE  Earliest(S) \in S /\ \A e \in S : Earliest(S) <= e
<1>1. \E d \in S : \A e \in S : d <= e
  BY LeastInteger
<1> QED BY <1>1 DEF Earliest

\* Of some concepts there is one that goes first.
LEMMA FirstFacts ==
    ASSUME NEW S, S \subseteq Concepts, S # {}
    PROVE  First(S) \in S /\ \A d \in S : Rank[First(S)] <= Rank[d]
<1> DEFINE ranks == {Rank[c] : c \in S}
<1>1. ranks \subseteq Int /\ ranks # {} /\ \A n \in ranks : 0 <= n
  BY RankAssumption
<1>2. \E n \in ranks : \A k \in ranks : n <= k
  <2>1. 0 \in Int
    OBVIOUS
  <2> HIDE DEF ranks
  <2> QED BY <1>1, <2>1, LeastInteger, Zenon
<1>3. \E c \in S : \A d \in S : Rank[c] <= Rank[d]
  BY <1>2 DEF ranks
<1> QED BY <1>3 DEF First

\* Induction over the sets of concepts.
LEMMA ConceptInduction ==
    ASSUME NEW D,
           \A S \in SUBSET Concepts :
               (\A T \in SUBSET S : T # S => T \in D) => S \in D
    PROVE  \A S \in SUBSET Concepts : S \in D
<1> DEFINE rest == (SUBSET Concepts) \ D
           smaller == StrictSubsetOrdering(Concepts)
<1> SUFFICES ASSUME rest # {} PROVE FALSE
  OBVIOUS
<1>1. IsWellFoundedOn(smaller, SUBSET Concepts)
  <2>1. IsWellFoundedOn(smaller, FiniteSubsetsOf(Concepts))
    BY FS_StrictSubsetOrderingWellFounded, Zenon
  <2>2. FiniteSubsetsOf(Concepts) = SUBSET Concepts
    BY FS_FiniteSubsetsOfFinite, GraphAssumption, Zenon
  <2> QED BY <2>1, <2>2
<1>2. rest \subseteq SUBSET Concepts
  OBVIOUS
<1>3. \E S \in rest : \A T \in rest : ~(<<T, S>> \in smaller)
  <2> HIDE DEF rest, smaller
  <2> QED BY <1>1, <1>2, WFMin
<1>4. PICK S \in rest : \A T \in rest : ~(<<T, S>> \in smaller)
  BY <1>3
<1>5. ASSUME NEW T \in SUBSET S, T # S PROVE T \in D
  <2>1. <<T, S>> \in smaller
    BY <1>4, <1>5 DEF StrictSubsetOrdering
  <2> QED BY <1>4, <2>1
<1> QED BY <1>4, <1>5

\* What topological_order makes of S, given what f makes of smaller sets.
Ordering(f, S) ==
    IF Ready(S) = {} THEN [c \in S |-> {d \in S : Rank[d] < Rank[c]}]
    ELSE LET first == First(Ready(S))
         IN  [c \in S |-> IF c = first THEN {} ELSE {first} \cup f[S \ {first}][c]]

\* f orders every subset of U as topological_order does.
Orders(f, U) == f = [S \in SUBSET U |-> Ordering(f, S)]

LEMMA OrderingIsLocal ==
    ASSUME NEW f, NEW h, NEW S \in SUBSET Concepts,
           \A T \in SUBSET S : T # S => f[T] = h[T]
    PROVE  Ordering(f, S) = Ordering(h, S)
<1>1. CASE Ready(S) = {}
  BY <1>1 DEF Ordering
<1>2. CASE Ready(S) # {}
  <2>1. First(Ready(S)) \in S
    BY <1>2, FirstFacts DEF Ready
  <2>2. f[S \ {First(Ready(S))}] = h[S \ {First(Ready(S))}]
    BY <2>1
  <2> QED BY <1>2, <2>2 DEF Ordering
<1> QED BY <1>1, <1>2

LEMMA OrdersAgree ==
    ASSUME NEW U \in SUBSET Concepts, NEW V \in SUBSET Concepts,
           NEW f, NEW h, Orders(f, U), Orders(h, V),
           NEW S \in SUBSET (U \cap V)
    PROVE  f[S] = h[S]
<1> DEFINE D == {T \in SUBSET Concepts : T \subseteq U \cap V => f[T] = h[T]}
<1>1. ASSUME NEW T \in SUBSET Concepts, \A R \in SUBSET T : R # T => R \in D
      PROVE  T \in D
  <2> SUFFICES ASSUME T \subseteq U \cap V PROVE f[T] = h[T]
    OBVIOUS
  <2>1. \A R \in SUBSET T : R # T => f[R] = h[R]
    BY <1>1
  <2>2. Ordering(f, T) = Ordering(h, T)
    BY <2>1, OrderingIsLocal
  <2> QED BY <2>2 DEF Orders
<1> HIDE DEF D
<1>2. \A T \in SUBSET Concepts : T \in D
  BY <1>1, ConceptInduction
<1> QED BY <1>2 DEF D

\* The recursion is well-founded: there is such a function.
LEMMA SomethingOrders == \E f : Orders(f, Concepts)
<1> DEFINE D == {U \in SUBSET Concepts : \E f : Orders(f, U)}
           some(U) == CHOOSE f : Orders(f, U)
<1>1. ASSUME NEW U \in SUBSET Concepts, \A T \in SUBSET U : T # U => T \in D
      PROVE  U \in D
  <2> DEFINE below == [T \in SUBSET U |-> some(T)[T]]
             f == [T \in SUBSET U |-> IF T = U THEN Ordering(below, U) ELSE below[T]]
  <2>1. \A T \in SUBSET U : T # U => Orders(some(T), T)
    BY <1>1
  <2> HIDE DEF some
  <2>2. ASSUME NEW T \in SUBSET U, T # U PROVE f[T] = Ordering(f, T)
    <3>1. Orders(some(T), T)
      BY <2>1, <2>2
    <3>2. f[T] = Ordering(some(T), T)
      BY <2>2, <3>1 DEF Orders
    <3> HIDE DEF f
    <3>3. ASSUME NEW R \in SUBSET T, R # T PROVE some(T)[R] = f[R]
      <4>1. R \in SUBSET U /\ R # U
        BY <3>3, <2>2
      <4>2. Orders(some(R), R) /\ f[R] = some(R)[R]
        BY <2>1, <4>1 DEF f
      <4>3. R \in SUBSET (R \cap T) /\ R \in SUBSET Concepts /\ T \in SUBSET Concepts
        BY <3>3
      <4> QED BY <3>1, <4>2, <4>3, OrdersAgree
    <3>4. Ordering(some(T), T) = Ordering(f, T)
      BY <3>3, OrderingIsLocal
    <3> QED BY <3>2, <3>4
  <2>3. f[U] = Ordering(f, U)
    <3>1. f[U] = Ordering(below, U)
      OBVIOUS
    <3>2. \A T \in SUBSET U : T # U => below[T] = f[T]
      OBVIOUS
    <3> HIDE DEF f, below
    <3> QED BY <3>1, <3>2, OrderingIsLocal
  <2>4. f = [T \in SUBSET U |-> f[T]]
    OBVIOUS
  <2> HIDE DEF f
  <2> QED BY <2>2, <2>3, <2>4 DEF Orders
<1> HIDE DEF D
<1>2. Concepts \in D
  BY <1>1, ConceptInduction
<1> QED BY <1>2 DEF D

LEMMA BeforeOrders == Orders(Before, Concepts)
<1> DEFINE Is(f) == f = [S \in SUBSET Concepts |->
        IF Ready(S) = {} THEN [c \in S |-> {d \in S : Rank[d] < Rank[c]}]
        ELSE LET first == First(Ready(S))
             IN  [c \in S |-> IF c = first THEN {} ELSE {first} \cup f[S \ {first}][c]]]
<1>1. PICK f : Orders(f, Concepts)
  BY SomethingOrders
<1>2. Is(f)
  BY <1>1 DEF Orders, Ordering
<1>3. Before = CHOOSE x : Is(x)
  BY DEF Before
<1>4. Is(Before)
  <2> HIDE DEF Is
  <2> QED BY <1>2, <1>3
<1> QED BY <1>4 DEF Orders, Ordering

\* What a concept follows is in the same set, and never the concept itself.
LEMMA BeforeFacts ==
    ASSUME NEW S \in SUBSET Concepts
    PROVE  /\ DOMAIN Before[S] = S
           /\ \A c \in S : Before[S][c] \subseteq S /\ c \notin Before[S][c]
<1> DEFINE good(T) == /\ DOMAIN Before[T] = T
                      /\ \A c \in T : Before[T][c] \subseteq T /\ c \notin Before[T][c]
           D == {T \in SUBSET Concepts : good(T)}
<1>1. ASSUME NEW T \in SUBSET Concepts, \A R \in SUBSET T : R # T => R \in D
      PROVE  good(T)
  <2> DEFINE first == First(Ready(T))
  <2>1. Before[T] = Ordering(Before, T)
    BY BeforeOrders DEF Orders
  <2>2. CASE Ready(T) = {}
    <3>1. Before[T] = [c \in T |-> {d \in T : Rank[d] < Rank[c]}]
      BY <2>1, <2>2 DEF Ordering
    <3>2. \A c \in T : ~(Rank[c] < Rank[c])
      BY RankAssumption
    <3> QED BY <3>1, <3>2
  <2>3. CASE Ready(T) # {}
    <3>1. first \in T
      BY <2>3, FirstFacts DEF Ready
    <3>2. Before[T] = [c \in T |-> IF c = first THEN {} ELSE {first} \cup Before[T \ {first}][c]]
      BY <2>1, <2>3 DEF Ordering
    <3> HIDE DEF first
    <3>3. T \ {first} \in D
      BY <1>1, <3>1
    <3>4. good(T \ {first})
      BY <3>3
    <3>5. ASSUME NEW c \in T PROVE Before[T][c] \subseteq T /\ c \notin Before[T][c]
      <4>1. CASE c = first
        BY <3>2, <4>1
      <4>2. CASE c # first
        <5>1. Before[T][c] = {first} \cup Before[T \ {first}][c]
          BY <3>2, <4>2
        <5> QED BY <3>1, <3>4, <4>2, <5>1
      <4> QED BY <4>1, <4>2
    <3>6. DOMAIN Before[T] = T
      BY <3>2
    <3> QED BY <3>5, <3>6
  <2> QED BY <2>2, <2>3
<1>2. \A T \in SUBSET Concepts : T \in D
  <2>1. \A T \in SUBSET Concepts : (\A R \in SUBSET T : R # T => R \in D) => T \in D
    BY <1>1
  <2> HIDE DEF D
  <2> QED BY <2>1, ConceptInduction
<1> QED BY <1>2

\* Whatever set of concepts is looked at, one of them needs none of the others.
Acyclic == \A S \in SUBSET Concepts : S # {} => Ready(S) # {}

\* Without cycles, what a prerequisite follows is followed by what needs it.
LEMMA PrerequisiteFollowsLess ==
    ASSUME Acyclic, NEW S \in SUBSET Concepts,
           NEW p \in S, NEW c \in S, <<p, c>> \in Prerequisites
    PROVE  Before[S][p] \subseteq Before[S][c]
<1> DEFINE good(T) == \A x, y \in T : <<x, y>> \in Prerequisites => Before[T][x] \subseteq Before[T][y]
           D == {T \in SUBSET Concepts : good(T)}
<1>1. ASSUME NEW T \in SUBSET Concepts, \A R \in SUBSET T : R # T => R \in D
      PROVE  good(T)
  <2> DEFINE first == First(Ready(T))
  <2> SUFFICES ASSUME NEW x \in T, NEW y \in T, <<x, y>> \in Prerequisites
               PROVE  Before[T][x] \subseteq Before[T][y]
    OBVIOUS
  <2>1. Ready(T) # {}
    BY DEF Acyclic
  <2>2. first \in Ready(T)
    BY <2>1, FirstFacts DEF Ready
  <2>3. first \in T /\ y # first
    BY <2>2 DEF Ready
  <2>4. Before[T] = [d \in T |-> IF d = first THEN {} ELSE {first} \cup Before[T \ {first}][d]]
    BY <2>1, BeforeOrders DEF Orders, Ordering
  <2> HIDE DEF first
  <2>5. CASE x = first
    BY <2>3, <2>4, <2>5
  <2>6. CASE x # first
    <3>1. good(T \ {first})
      BY <1>1, <2>3
    <3>2. Before[T \ {first}][x] \subseteq Before[T \ {first}][y]
      BY <2>3, <2>6, <3>1
    <3> QED BY <2>3, <2>4, <2>6, <3>2
  <2> QED BY <2>5, <2>6
<1>2. \A T \in SUBSET Concepts : T \in D
  <2>1. \A T \in SUBSET Concepts : (\A R \in SUBSET T : R # T => R \in D) => T \in D
    BY <1>1
  <2> HIDE DEF D
  <2> QED BY <2>1, ConceptInduction
<1> QED BY <1>2

\* Where c comes among what goal g has left to learn, and how many it is to learn a day.
Place(g, c, st)    == Cardinality(Before[g.concepts][c] \cap ToLearn(g, st))
Pace(g, st, today) == PaceFor(Cardinality(ToLearn(g, st)), today, g.target)

LEMMA PlaceFacts ==
    ASSUME NEW g \in GoalRows, NEW st, NEW c \in ToLearn(g, st)
    PROVE  /\ Place(g, c, st) \in Nat /\ Cardinality(ToLearn(g, st)) \in Nat
           /\ Place(g, c, st) < Cardinality(ToLearn(g, st))
<1> DEFINE left == ToLearn(g, st)
           before == Before[g.concepts][c] \cap left
<1>1. g.concepts \in SUBSET Concepts
  BY DEF GoalRows
<1>2. left \in SUBSET Concepts /\ c \in g.concepts
  BY <1>1 DEF ToLearn
<1>3. c \notin before
  BY <1>1, <1>2, BeforeFacts
<1>4. IsFiniteSet(left) /\ IsFiniteSet(before)
  BY <1>2, FS_Subset, GraphAssumption
<1>5. Cardinality(left) \in Nat /\ Cardinality(before) \in Nat
  BY <1>4, FS_CardinalityType
<1>6. before \in SUBSET left /\ before # left
  BY <1>3
<1>7. Cardinality(before) <= Cardinality(left) /\ Cardinality(before) # Cardinality(left)
  BY <1>4, <1>6, FS_Subset
<1> QED BY <1>5, <1>7 DEF Place

LEMMA PaceFacts ==
    ASSUME NEW n \in Nat, NEW today \in Int, NEW target \in Int \cup {NoDate}
    PROVE  PaceFor(n, today, target) \in Nat \ {0}
<1>1. \A x \in Int : Later(1, x) \in Nat \ {0}
  BY DEF Later
<1>2. CASE target = NoDate \/ n = 0
  BY <1>1, <1>2, PaceAssumption DEF PaceFor
<1>3. CASE ~(target = NoDate \/ n = 0)
  <2> DEFINE days == Later(1, target - today + 1)
  <2>1. days \in Nat \ {0}
    BY <1>1, <1>3
  <2> HIDE DEF days
  <2>2. (n + days - 1) \div days \in Int
    BY <2>1
  <2> QED BY <1>1, <1>3, <2>2 DEF PaceFor, days
<1> QED BY <1>2, <1>3

\* A goal asks for a concept on at most one day, not before today.
LEMMA LearnDatesFacts ==
    ASSUME NEW g \in GoalRows, NEW c, NEW st, NEW today \in Int
    PROVE  /\ LearnDates(g, c, st, today) =
                  {today + Place(g, c, st) \div Pace(g, st, today) : d \in {c} \cap ToLearn(g, st)}
           /\ \A d \in LearnDates(g, c, st, today) : d \in Int /\ today <= d
<1>1. LearnDates(g, c, st, today) =
          {today + Place(g, c, st) \div Pace(g, st, today) : d \in {c} \cap ToLearn(g, st)}
  BY DEF LearnDates, Place, Pace
<1>2. ASSUME c \in ToLearn(g, st)
      PROVE  /\ today + Place(g, c, st) \div Pace(g, st, today) \in Int
             /\ today <= today + Place(g, c, st) \div Pace(g, st, today)
  <2>1. Place(g, c, st) \in Nat /\ Cardinality(ToLearn(g, st)) \in Nat
    BY <1>2, PlaceFacts
  <2>2. Pace(g, st, today) \in Nat \ {0}
    BY <2>1, PaceFacts DEF Pace, GoalRows
  <2>3. Place(g, c, st) \div Pace(g, st, today) \in Nat
    BY <2>1, <2>2
  <2> QED BY <2>3
<1> QED BY <1>1, <1>2

LEMMA ReviewDatesFacts ==
    ASSUME NEW c \in Concepts, NEW st \in [Concepts -> Standings], NEW today \in Int
    PROVE  ReviewDates(c, st, today) \subseteq {today, st[c].review} \cap Int
<1>1. st[c].review \in Int \cup {NoDate}
  BY DEF Standings
<1>2. ASSUME st[c].review # NoDate PROVE Earlier(st[c].review, today) \in {today, st[c].review}
  BY DEF Earlier
<1> QED BY <1>1, <1>2 DEF ReviewDates

\* A concept that is asked for is put on the earliest of the days it is asked for.
LEMMA DatesFacts ==
    ASSUME NEW c \in Concepts, NEW st \in [Concepts -> Standings],
           NEW gs \in SUBSET GoalRows, NEW today \in Int, NEW finished,
           Dates(c, st, gs, today, finished) # {}
    PROVE  LET dates == Dates(c, st, gs, today, finished)
           IN  /\ dates \subseteq Int
               /\ Earliest(dates) \in dates
               /\ \A d \in dates : Earliest(dates) <= d
               /\ c \in finished => \A d \in dates : today < d
<1> DEFINE dates == Dates(c, st, gs, today, finished)
           asked == (UNION {LearnDates(g, c, st, today) : g \in gs}) \cup ReviewDates(c, st, today)
           bound == IF st[c].review \in Int /\ st[c].review < today THEN st[c].review ELSE today
<1>1. \A d \in asked : d \in Int /\ bound <= d
  <2>1. ASSUME NEW g \in gs, NEW d \in LearnDates(g, c, st, today) PROVE d \in Int /\ today <= d
    BY <2>1, LearnDatesFacts
  <2>2. \A d \in ReviewDates(c, st, today) : d \in Int /\ d \in {today, st[c].review}
    BY ReviewDatesFacts
  <2>3. bound \in Int /\ bound <= today /\ (st[c].review \in Int => bound <= st[c].review)
    OBVIOUS
  <2> HIDE DEF bound
  <2> QED BY <2>1, <2>2, <2>3
<1>2. dates = {Rest(d, c, today, finished) : d \in asked}
  BY DEF Dates
<1>3. ASSUME NEW d \in asked
      PROVE  LET e == Rest(d, c, today, finished)
             IN  e \in Int /\ bound <= e /\ (c \in finished => today < e)
  BY <1>1 DEF Rest, Later
<1>4. bound \in Int
  OBVIOUS
<1> HIDE DEF asked, bound
<1>5. dates \subseteq Int /\ (\A d \in dates : bound <= d) /\ (c \in finished => \A d \in dates : today < d)
  BY <1>2, <1>3
<1> HIDE DEF dates
<1>6. Earliest(dates) \in dates /\ \A d \in dates : Earliest(dates) <= d
  BY <1>4, <1>5, EarliestFacts DEF dates
<1> QED BY <1>5, <1>6 DEF dates

----------------------------------------------------------------------------
(* Lemmas about plans *)

\* The days on which a new plan asks for c, and the item it makes of them.
NewDates(c, gs, items) ==
    Dates(c, student, Active(gs), day, {items[k].concept : k \in Kept(items, day)})
NewItem(c, gs, items) ==
    Added([concept |-> c, date |-> Earliest(NewDates(c, gs, items)),
           kind |-> IF IsLearning(c, student, Active(gs)) THEN "learn" ELSE "review"], day)
NewConcepts(gs, items) == {c \in Concepts : NewDates(c, gs, items) # {}}

\* A new plan: what is kept, and an item for every concept that is asked for.
LEMMA NewPlanItems ==
    ASSUME NEW r, NEW gs, NEW items
    PROVE  LET p == NewPlan(r, gs, items)
           IN  /\ p.id = r /\ p.made = day /\ p.goals = gs
               /\ p = [id |-> p.id, made |-> p.made, goals |-> p.goals, items |-> p.items]
               /\ DOMAIN p.items = Kept(items, day) \cup {<<r, c>> : c \in NewConcepts(gs, items)}
               /\ \A k \in Kept(items, day) : p.items[k] = items[k]
               /\ \A c \in NewConcepts(gs, items) :
                      <<r, c>> \notin Kept(items, day) => p.items[<<r, c>>] = NewItem(c, gs, items)
<1> DEFINE kept  == Kept(items, day)
           done  == {items[k].concept : k \in kept}
           dates(c) == Dates(c, student, Active(gs), day, done)
           kind(c)  == IF IsLearning(c, student, Active(gs)) THEN "learn" ELSE "review"
           item(c)  == [concept |-> c, date |-> Earliest(dates(c)), kind |-> kind(c)]
           some  == {c \in Concepts : dates(c) # {}}
           fresh == GeneratedPlan(student, Active(gs), day, done)
           new   == kept \cup {<<r, i.concept>> : i \in fresh}
           all   == [k \in new |-> IF k \in kept THEN items[k]
                                   ELSE Added(CHOOSE i \in fresh : i.concept = k[2], day)]
<1>1. fresh = {item(c) : c \in some}
  BY DEF GeneratedPlan
<1>2. \A c : item(c).concept = c
  OBVIOUS
<1>3. some = NewConcepts(gs, items)
  BY DEF NewConcepts, NewDates
<1>4. \A c \in some : Added(item(c), day) = NewItem(c, gs, items)
  BY DEF NewItem, NewDates
<1>5. NewPlan(r, gs, items) = [id |-> r, made |-> day, goals |-> gs, items |-> all]
  BY DEF NewPlan
<1> HIDE DEF fresh, item, some, kept
<1>6. new = kept \cup {<<r, c>> : c \in some}
  BY <1>1, <1>2
<1>7. ASSUME NEW c \in some, <<r, c>> \notin kept
      PROVE  all[<<r, c>>] = NewItem(c, gs, items)
  <2>1. all[<<r, c>>] = Added(CHOOSE i \in fresh : i.concept = c, day)
    BY <1>6, <1>7
  <2>2. item(c) \in fresh /\ \A i \in fresh : i.concept = c => i = item(c)
    BY <1>1, <1>2
  <2>3. (CHOOSE i \in fresh : i.concept = c) = item(c)
    BY <1>2, <2>2
  <2> QED BY <1>4, <2>1, <2>3
<1>8. DOMAIN all = new /\ \A k \in kept : all[k] = items[k]
  OBVIOUS
<1> HIDE DEF all, new
<1> QED BY <1>3, <1>5, <1>6, <1>7, <1>8 DEF kept

\* The goals that are planned for, and what is known of a new item.
LEMMA NewItemFacts ==
    ASSUME day \in Nat, student \in [Concepts -> Standings],
           NEW gs \in [Goals -> GoalRows \cup {NoGoal}], NEW items,
           NEW c \in NewConcepts(gs, items)
    PROVE  LET dates == NewDates(c, gs, items)
               item  == NewItem(c, gs, items)
           IN  /\ item \in Items /\ item.concept = c /\ item.status \in Open
               /\ item.date \in dates /\ \A d \in dates : d \in Int /\ item.date <= d
               /\ c \in {items[k].concept : k \in Kept(items, day)} => item.date > day
<1> DEFINE done  == {items[k].concept : k \in Kept(items, day)}
           dates == NewDates(c, gs, items)
           item  == NewItem(c, gs, items)
<1>1. Active(gs) \in SUBSET GoalRows /\ day \in Int /\ c \in Concepts
  BY DEF Active, NewConcepts
<1>2. /\ dates \subseteq Int /\ Earliest(dates) \in dates
      /\ \A d \in dates : Earliest(dates) <= d
      /\ c \in done => \A d \in dates : day < d
  BY <1>1, DatesFacts DEF NewDates, NewConcepts
<1>3. /\ item.concept = c /\ item.date = Earliest(dates) /\ item.status \in Open
      /\ item.kind \in {"learn", "review"} /\ item.when = 0
      /\ item = [concept |-> item.concept, date |-> item.date, kind |-> item.kind,
                 when |-> item.when, status |-> item.status]
  BY DEF NewItem, Added, Open
<1> HIDE DEF dates, item, done
<1>4. item \in Items
  BY <1>1, <1>2, <1>3 DEF Items
<1> QED BY <1>1, <1>2, <1>3, <1>4 DEF dates, item, done

\* A new plan is named by its request, dated today, made for the goals it was given, and
\* keeps the items completed or skipped today as they are.
LEMMA NewPlanFacts ==
    ASSUME NEW r \in Ids, NEW gs, NEW items, DOMAIN items \subseteq Names
    PROVE  LET p == NewPlan(r, gs, items)
           IN  /\ Shaped(p)
               /\ p.id = r /\ p.made = day /\ p.goals = gs
               /\ \A k \in Kept(items, day) : k \in DOMAIN p.items /\ p.items[k] = items[k]
               /\ CarriedToday(p)
               /\ \A k \in DOMAIN p.items : k \in Kept(items, day) \/ IsItem(p.items[k])
<1> DEFINE p == NewPlan(r, gs, items)
           kept == Kept(items, day)
           new == NewConcepts(gs, items)
           item(c) == NewItem(c, gs, items)
<1>1. /\ p.id = r /\ p.made = day /\ p.goals = gs
      /\ p = [id |-> p.id, made |-> p.made, goals |-> p.goals, items |-> p.items]
      /\ DOMAIN p.items = kept \cup {<<r, c>> : c \in new}
      /\ \A k \in kept : p.items[k] = items[k]
      /\ \A c \in new : <<r, c>> \notin kept => p.items[<<r, c>>] = item(c)
  BY NewPlanItems
<1>2. new \subseteq Concepts /\ kept \subseteq Names
  BY DEF NewConcepts, Kept
<1>3. \A k \in kept : items[k].when = day
  BY DEF Kept
<1>4. \A c : IsItem(item(c)) /\ item(c).status \notin Carried
  BY DEF IsItem, NewItem, Added, Carried
<1> HIDE DEF p, kept, new, item
<1>5. Shaped(p)
  BY <1>1, <1>2 DEF Shaped
<1>6. CarriedToday(p)
  BY <1>1, <1>3, <1>4 DEF CarriedToday
<1>7. \A k \in DOMAIN p.items : k \in kept \/ IsItem(p.items[k])
  BY <1>1, <1>4
<1> QED BY <1>1, <1>5, <1>6, <1>7 DEF p, kept

\* Ticking items off leaves the others, and the set of items, alone.
LEMMA TickedFacts ==
    ASSUME NEW items, NEW S
    PROVE  /\ DOMAIN Ticked(items, S) = DOMAIN items
           /\ \A i \in DOMAIN items \ S : Ticked(items, S)[i] = items[i]
           /\ \A i \in DOMAIN items : IsItem(items[i]) => IsItem(Ticked(items, S)[i])
  BY DEF Ticked, IsItem

\* The plan regenerate starts from, if there is one, is the active one.
LEMMA CurrentFacts ==
    /\ plans # {} => Current \in plans
    /\ plans = {} => Current = NoPlan
  BY DEF Current

\* There are no items in no plan.
LEMMA NoPlanFacts == Shaped(NoPlan) /\ NoPlan.items = <<>> /\ DOMAIN NoPlan.items = {}
  BY DEF Shaped, NoPlan

----------------------------------------------------------------------------
(* Types *)

\* What an item's change is to be, once a student has asked for it.
Editing ==
    \A r \in Requests : pc[r] = "editing" =>
        \E k \in Names : draft[r].touched = {k} /\ k \in DOMAIN draft[r].plan.items

Typed == TypeOK /\ Editing

LEMMA IdleIsJob == Idle \in Jobs
  BY GoalAssumption DEF Idle, Jobs, Kinds

LEMMA NothingIsDraft == IsPlan(NoPlan) /\ IsDraft(Nothing)
<1>1. IsPlan(NoPlan)
  BY DEF IsPlan, NoPlan
<1>2. Nothing = [old |-> -1, touched |-> {}, plan |-> NoPlan]
  BY DEF Nothing
<1> QED BY <1>1, <1>2 DEF IsDraft

LEMMA NewPlanIsPlan ==
    ASSUME day \in Nat, student \in [Concepts -> Standings],
           NEW r \in Ids, NEW gs \in [Goals -> GoalRows \cup {NoGoal}],
           NEW items, DOMAIN items \subseteq Names, \A k \in DOMAIN items : items[k] \in Items
    PROVE  IsPlan(NewPlan(r, gs, items))
<1> DEFINE p == NewPlan(r, gs, items)
           kept == Kept(items, day)
<1>1. /\ p.id = r /\ p.made = day /\ p.goals = gs
      /\ p = [id |-> p.id, made |-> p.made, goals |-> p.goals, items |-> p.items]
      /\ DOMAIN p.items = kept \cup {<<r, c>> : c \in NewConcepts(gs, items)}
      /\ \A k \in kept : p.items[k] = items[k]
      /\ \A c \in NewConcepts(gs, items) :
             <<r, c>> \notin kept => p.items[<<r, c>>] = NewItem(c, gs, items)
  BY NewPlanItems
<1>2. kept \subseteq DOMAIN items
  BY DEF Kept
<1>3. \A c \in NewConcepts(gs, items) : c \in Concepts /\ NewItem(c, gs, items) \in Items
  BY NewItemFacts DEF NewConcepts
<1> HIDE DEF p, kept
<1>4. DOMAIN p.items \subseteq Names
  BY <1>1, <1>2, <1>3
<1>5. \A k \in DOMAIN p.items : p.items[k] \in Items
  BY <1>1, <1>2, <1>3
<1>6. day \in Int
  OBVIOUS
<1> QED BY <1>1, <1>4, <1>5, <1>6 DEF IsPlan, p

\* An item stays one when its date, its status or the day it was done changes.
LEMMA ItemWith ==
    ASSUME NEW i \in Items, NEW d \in Int, NEW s \in Open \cup Carried
    PROVE  /\ [i EXCEPT !.date = d] \in Items
           /\ [i EXCEPT !.status = s] \in Items
           /\ [i EXCEPT !.when = d] \in Items
<1> DEFINE statuses == Open \cup Carried
<1>1. i \in [concept: Concepts, date: Int, status: statuses, kind: {"learn", "review"}, when: Int]
  BY DEF Items
<1>2. s \in statuses
  OBVIOUS
<1> HIDE DEF statuses
<1>3. /\ [i EXCEPT !.date = d] \in
             [concept: Concepts, date: Int, status: statuses, kind: {"learn", "review"}, when: Int]
      /\ [i EXCEPT !.status = s] \in
             [concept: Concepts, date: Int, status: statuses, kind: {"learn", "review"}, when: Int]
      /\ [i EXCEPT !.when = d] \in
             [concept: Concepts, date: Int, status: statuses, kind: {"learn", "review"}, when: Int]
  BY <1>1, <1>2
<1> QED BY <1>3 DEF Items, statuses

LEMMA TickedItems ==
    ASSUME day \in Nat, NEW items, NEW S, \A k \in DOMAIN items : items[k] \in Items
    PROVE  \A k \in DOMAIN Ticked(items, S) : Ticked(items, S)[k] \in Items
<1>1. day \in Int /\ "completed" \in Open \cup Carried
  BY DEF Carried
<1>2. ASSUME NEW i \in Items PROVE [i EXCEPT !.status = "completed", !.when = day] \in Items
  <2> DEFINE x == [i EXCEPT !.status = "completed"]
  <2>1. x \in Items
    BY <1>1, ItemWith
  <2> HIDE DEF x
  <2>2. [x EXCEPT !.when = day] \in Items
    BY <1>1, <2>1, ItemWith
  <2> QED BY <2>2 DEF x
<1> QED BY <1>2 DEF Ticked

\* The three ways to change an item.
LEMMA EditsCases ==
    ASSUME NEW i, NEW e \in Edits(i)
    PROVE  \/ \E n \in Moves : e = Rescheduled(i, day + n)
           \/ \E t \in {"pending", "completed", "skipped"} : e = Marked(i, t)
           \/ \E n \in Moves, t \in {"pending", "completed", "skipped"} :
                  e = Marked([i EXCEPT !.date = day + n], t)
<1> DEFINE moved1(d)    == Rescheduled(i, d)
           marked(t)    == Marked(i, t)
           both(d, t)   == Marked([i EXCEPT !.date = d], t)
           statuses     == {"pending", "completed", "skipped"}
<1>1. e \in {moved1(d) : d \in {day + n : n \in Moves}}
            \cup {marked(t) : t \in statuses}
            \cup {both(d, t) : d \in {day + n : n \in Moves}, t \in statuses}
  BY DEF Edits
<1> HIDE DEF moved1, marked, both, statuses
<1>2. \/ \E n \in Moves : e = moved1(day + n)
      \/ \E t \in statuses : e = marked(t)
      \/ \E n \in Moves, t \in statuses : e = both(day + n, t)
  BY <1>1
<1> QED BY <1>2 DEF moved1, marked, both, statuses

LEMMA EditsItems ==
    ASSUME day \in Nat, NEW i \in Items, NEW e \in Edits(i)
    PROVE  e \in Items
<1>1. ASSUME NEW x \in Items, NEW d \in Int PROVE Rescheduled(x, d) \in Items
  <2> DEFINE y == [x EXCEPT !.date = d]
             z == [y EXCEPT !.status = "pending"]
  <2>1. "pending" \in Open \cup Carried /\ 0 \in Int
    BY DEF Open
  <2>2. y \in Items
    BY <2>1, ItemWith
  <2> HIDE DEF y
  <2>3. z \in Items
    BY <2>1, <2>2, ItemWith
  <2> HIDE DEF z
  <2>4. [z EXCEPT !.when = 0] \in Items
    BY <2>1, <2>3, ItemWith
  <2> QED BY <2>2, <2>4 DEF Rescheduled, y, z
<1>2. ASSUME NEW x \in Items, NEW t \in {"pending", "completed", "skipped"}
      PROVE  Marked(x, t) \in Items
  <2> DEFINE s == IF t = "pending" /\ x.date < day THEN "overdue" ELSE t
             w == IF t \in Carried THEN day ELSE 0
             y == [x EXCEPT !.status = s]
  <2>1. s \in Open \cup Carried /\ w \in Int
    BY DEF Open, Carried
  <2> HIDE DEF s, w
  <2>2. y \in Items
    BY <2>1, ItemWith
  <2> HIDE DEF y
  <2>3. [y EXCEPT !.when = w] \in Items
    BY <2>1, <2>2, ItemWith
  <2> QED BY <2>3 DEF Marked, s, w, y
<1>3. \A n \in Moves : day + n \in Int
  BY DayAssumption
<1>4. ASSUME NEW n \in Moves PROVE [i EXCEPT !.date = day + n] \in Items
  <2>1. "pending" \in Open \cup Carried
    BY DEF Open
  <2> QED BY <1>3, <2>1, ItemWith
<1>5. CASE \E n \in Moves : e = Rescheduled(i, day + n)
  BY <1>1, <1>3, <1>5
<1>6. CASE \E t \in {"pending", "completed", "skipped"} : e = Marked(i, t)
  BY <1>2, <1>6
<1>7. CASE \E n \in Moves, t \in {"pending", "completed", "skipped"} :
              e = Marked([i EXCEPT !.date = day + n], t)
  BY <1>2, <1>4, <1>7
<1> QED BY <1>5, <1>6, <1>7, EditsCases

LEMMA EditedIsPlan ==
    ASSUME NEW p, IsPlan(p), NEW k, NEW item \in Items
    PROVE  IsPlan([p EXCEPT !.items[k] = item])
<1> DEFINE its == [p.items EXCEPT ![k] = item]
           new == [p EXCEPT !.items[k] = item]
<1>1. DOMAIN its = DOMAIN p.items /\ \A n \in DOMAIN its : its[n] \in Items
  BY DEF IsPlan
<1>2. new = [id |-> p.id, made |-> p.made, goals |-> p.goals, items |-> its]
  BY DEF IsPlan
<1> HIDE DEF its, new
<1> QED BY <1>1, <1>2 DEF IsPlan, new

\* What request r would leave in the goals is goals.
LEMMA GoalsAfterType ==
    ASSUME Typed, NEW r \in Requests
    PROVE  GoalsAfter(r) \in [Goals -> GoalRows \cup {NoGoal}]
<1>1. job[r].goal \in Goals /\ job[r].row \in GoalRows \cup {NoGoal}
  BY DEF Typed, TypeOK, Jobs
<1> QED BY <1>1 DEF GoalsAfter, Typed, TypeOK

LEMMA LeaveTyped ==
    ASSUME Typed, NEW r \in Requests, Leave(r)
    PROVE  /\ pc' \in [Requests -> {"new", "waiting", "ready", "editing", "done"}]
           /\ advisory' \in Requests \cup {Nobody}
           /\ job' \in [Requests -> Jobs]
           /\ rows' \in [Requests -> SUBSET (Ids \X Names)]
           /\ DOMAIN draft' = Requests /\ \A q \in Requests : IsDraft(draft'[q])
           /\ Editing'
<1>1. /\ pc' = [pc EXCEPT ![r] = "done"]
      /\ advisory' = IF advisory = r THEN Nobody ELSE advisory
      /\ job' = [job EXCEPT ![r] = Idle]
      /\ rows' = [rows EXCEPT ![r] = {}]
      /\ draft' = [draft EXCEPT ![r] = Nothing]
  BY DEF Leave, Go
<1>2. DOMAIN draft = Requests /\ \A q \in Requests : IsDraft(draft[q])
  BY DEF Typed, TypeOK
<1>3. DOMAIN draft' = Requests /\ \A q \in Requests : IsDraft(draft'[q])
  BY <1>1, <1>2, NothingIsDraft
<1>4. Editing'
  <2> SUFFICES ASSUME NEW q \in Requests, pc'[q] = "editing"
               PROVE  \E k \in Names : draft'[q].touched = {k} /\ k \in DOMAIN draft'[q].plan.items
    BY DEF Editing
  <2>1. pc[q] = "editing" /\ draft'[q] = draft[q]
    BY <1>1, <1>2 DEF Typed, TypeOK
  <2> QED BY <2>1 DEF Typed, Editing
<1> QED BY <1>1, <1>3, <1>4, IdleIsJob DEF Typed, TypeOK

LEMMA InitTyped == Init => Typed
<1> SUFFICES ASSUME Init PROVE Typed
  OBVIOUS
<1>1. goals \in [Goals -> GoalRows \cup {NoGoal}]
  BY GoalAssumption DEF Init
<1>2. \A p \in plans : IsPlan(p)
  <2>1. IsPlan(NewPlan(0, goals, <<>>))
    BY <1>1, NewPlanIsPlan DEF Init
  <2> QED BY <2>1 DEF Init
<1>3. DOMAIN draft = Requests /\ \A r \in Requests : IsDraft(draft[r])
  BY NothingIsDraft DEF Init
<1>4. Editing
  BY DEF Init, Editing
<1>5. job \in [Requests -> Jobs]
  BY IdleIsJob DEF Init
<1>6. TypeOK
  BY <1>1, <1>2, <1>3, <1>5 DEF Init, TypeOK
<1> QED BY <1>4, <1>6 DEF Typed

\* A request that arrives, to plan or to read.
LEMMA ArriveTyped ==
    ASSUME Typed, NEW r \in Requests,
           AskToRegenerate(r) \/ ReadPlan(r) \/ ChangeGoal(r) \/ EndSession(r) \/ StartDaily(r)
    PROVE  Typed'
<1>1. UNCHANGED <<day, goals, plans, advisory, draft, acted, moved>>
  BY DEF AskToRegenerate, ReadPlan, ChangeGoal, EndSession, StartDaily, database, history
<1>2. Go(r, "waiting") \/ Go(r, "done")
  BY DEF AskToRegenerate, ReadPlan, ChangeGoal, EndSession, StartDaily, Start
<1>3. /\ pc' \in [Requests -> {"new", "waiting", "ready", "editing", "done"}]
      /\ \A q \in Requests : pc'[q] = "editing" => pc[q] = "editing"
  BY <1>2 DEF Go, Typed, TypeOK
<1>4. job' = job \/ \E j \in Jobs : job' = [job EXCEPT ![r] = j]
  <2>1. CASE AskToRegenerate(r)
    BY <2>1, IdleIsJob DEF AskToRegenerate, Start
  <2>2. CASE ReadPlan(r)
    BY <2>2 DEF ReadPlan
  <2>3. CASE ChangeGoal(r)
    <3>1. PICK g \in Goals, row \in GoalChoices \cup {NoGoal} :
              Start(r, [Idle EXCEPT !.kind = "goal", !.goal = g, !.row = row])
      BY <2>3 DEF ChangeGoal
    <3>2. row \in GoalRows \cup {NoGoal}
      BY GoalAssumption
    <3>3. [Idle EXCEPT !.kind = "goal", !.goal = g, !.row = row] \in Jobs
      BY <3>2, IdleIsJob DEF Jobs, Kinds
    <3> QED BY <3>1, <3>3 DEF Start
  <2>4. CASE EndSession(r)
    <3>1. PICK s \in Sessions :
              Start(r, [Idle EXCEPT !.kind = "session", !.covered = s.covered,
                                    !.attempted = s.attempted])
      BY <2>4 DEF EndSession
    <3>2. s.covered \in SUBSET Concepts /\ s.attempted \in SUBSET Concepts
      BY SessionAssumption
    <3>3. [Idle EXCEPT !.kind = "session", !.covered = s.covered, !.attempted = s.attempted] \in Jobs
      BY <3>2, IdleIsJob DEF Jobs, Kinds
    <3> QED BY <3>1, <3>3 DEF Start
  <2>5. CASE StartDaily(r)
    <3>1. [Idle EXCEPT !.kind = "daily"] \in Jobs
      BY IdleIsJob DEF Jobs, Kinds
    <3> QED BY <2>5, <3>1 DEF StartDaily, Start
  <2> QED BY <2>1, <2>2, <2>3, <2>4, <2>5
<1>5. job' \in [Requests -> Jobs]
  BY <1>4 DEF Typed, TypeOK
<1>6. student' \in [Concepts -> Standings]
  <2>1. CASE EndSession(r)
    <3>1. PICK s \in Sessions, to \in {"learned", "weak"}, n \in Reviews :
              student' = [c \in Concepts |->
                  IF c \in s.attempted
                  THEN [learned |-> to = "learned", forgotten |-> FALSE, review |-> day + n]
                  ELSE student[c]]
      BY <2>1 DEF EndSession
    <3>2. day + n \in Int
      BY DayAssumption DEF Typed, TypeOK
    <3>3. [learned |-> to = "learned", forgotten |-> FALSE, review |-> day + n] \in Standings
      BY <3>2 DEF Standings
    <3> QED BY <3>1, <3>3 DEF Typed, TypeOK
  <2>2. CASE ~EndSession(r)
    BY <2>2 DEF AskToRegenerate, ReadPlan, ChangeGoal, StartDaily, database, Typed, TypeOK
  <2> QED BY <2>1, <2>2
<1>7. rows' \in [Requests -> SUBSET (Ids \X Names)]
  <2>1. CASE StartDaily(r)
    <3> DEFINE late == UNION {{<<p.id, i>> :
                           i \in {k \in DOMAIN p.items :
                                   p.items[k].status = "pending" /\ p.items[k].date < day}} :
                           p \in plans}
    <3>1. rows' = [rows EXCEPT ![r] = late]
      BY <2>1 DEF StartDaily
    <3>2. late \subseteq Ids \X Names
      <4>1. \A p \in plans : p.id \in Ids /\ DOMAIN p.items \subseteq Names
        BY DEF Typed, TypeOK, IsPlan
      <4> QED BY <4>1
    <3> HIDE DEF late
    <3> QED BY <3>1, <3>2 DEF Typed, TypeOK
  <2>2. CASE ~StartDaily(r)
    BY <2>2 DEF AskToRegenerate, ReadPlan, ChangeGoal, EndSession, Typed, TypeOK
  <2> QED BY <2>1, <2>2
<1>8. TypeOK'
  BY <1>1, <1>3, <1>5, <1>6, <1>7 DEF Typed, TypeOK, IsPlan, IsDraft
<1>9. Editing'
  BY <1>1, <1>3 DEF Typed, Editing
<1> QED BY <1>8, <1>9 DEF Typed

\* The items of the plan that regenerate starts from, ticked off or not, are items.
LEMMA CurrentItems ==
    ASSUME Typed, NEW S
    PROVE  LET items == Ticked(Current.items, S)
           IN  DOMAIN items \subseteq Names /\ \A k \in DOMAIN items : items[k] \in Items
<1>1. IsPlan(Current)
  BY NothingIsDraft, CurrentFacts DEF Typed, TypeOK
<1>2. DOMAIN Current.items \subseteq Names /\ \A k \in DOMAIN Current.items : Current.items[k] \in Items
  BY <1>1 DEF IsPlan
<1> QED BY <1>2, TickedItems, TickedFacts DEF Typed, TypeOK

LEMMA PrepareTyped == ASSUME Typed, NEW r \in Requests, Prepare(r) PROVE Typed'
<1> DEFINE due   == Due(Current, job[r].covered, job[r].attempted)
           items == Ticked(Current.items, due)
           p     == NewPlan(r, GoalsAfter(r), items)
           d     == [old |-> IF plans = {} THEN -1 ELSE Current.id, touched |-> due, plan |-> p]
<1>1. /\ UNCHANGED <<day, student, goals, plans, job, rows, acted, moved>>
      /\ advisory' = r
      /\ draft' = [draft EXCEPT ![r] = d]
      /\ pc' = [pc EXCEPT ![r] = "ready"]
  BY DEF Prepare, SeenGoals, Go, database, history
<1>2. IsPlan(Current)
  BY NothingIsDraft, CurrentFacts DEF Typed, TypeOK
<1>3. IsPlan(p)
  <2> DEFINE gs == GoalsAfter(r)
  <2>1. gs \in [Goals -> GoalRows \cup {NoGoal}]
    BY GoalsAfterType
  <2>2. DOMAIN items \subseteq Names /\ \A k \in DOMAIN items : items[k] \in Items
    BY CurrentItems
  <2>3. day \in Nat /\ student \in [Concepts -> Standings]
    BY DEF Typed, TypeOK
  <2> HIDE DEF items, gs
  <2>4. IsPlan(NewPlan(r, gs, items))
    BY <2>1, <2>2, <2>3, NewPlanIsPlan
  <2> QED BY <2>4 DEF gs
<1>4. due \subseteq Names
  BY <1>2 DEF Due, IsPlan
<1>5. IsDraft(d)
  <2> HIDE DEF p, due
  <2> QED BY <1>2, <1>3, <1>4 DEF IsDraft, IsPlan
<1> HIDE DEF d
<1>6. DOMAIN draft' = Requests /\ \A q \in Requests : IsDraft(draft'[q])
  BY <1>1, <1>5 DEF Typed, TypeOK
<1>7. TypeOK'
  BY <1>1, <1>6 DEF Typed, TypeOK, IsPlan, IsDraft
<1>8. Editing'
  BY <1>1 DEF Typed, TypeOK, Editing
<1> QED BY <1>7, <1>8 DEF Typed

LEMMA CommitTyped == ASSUME Typed, NEW r \in Requests, Commit(r) PROVE Typed'
<1>1. /\ plans' = {p \in plans : p.id # draft[r].old} \cup {draft[r].plan}
      /\ goals' = GoalsAfter(r) /\ acted' = Credit(r) /\ Leave(r)
      /\ UNCHANGED <<day, student, moved>>
  BY DEF Commit
<1>2. goals' \in [Goals -> GoalRows \cup {NoGoal}]
  BY <1>1, GoalsAfterType
<1>3. \A p \in plans' : IsPlan(p)
  BY <1>1 DEF Typed, TypeOK, IsDraft
<1>4. acted' \in [Concepts -> Carried \cup {"nothing"}]
  BY <1>1 DEF Credit, Carried, Typed, TypeOK
<1> QED BY <1>1, <1>2, <1>3, <1>4, LeaveTyped DEF Typed, TypeOK, IsPlan, IsDraft

LEMMA EditTyped == ASSUME Typed, NEW r \in Requests, EditItem(r) PROVE Typed'
<1> DEFINE written(item, k) == [NoPlan EXCEPT !.items = [n \in {k} |-> item]]
           d(p, k, item) == [old |-> p.id, touched |-> {k}, plan |-> written(item, k)]
<1>1. PICK p \in plans : \E k \in DOMAIN p.items :
          /\ rows' = [rows EXCEPT ![r] = {<<p.id, k>>}]
          /\ \E item \in Edits(p.items[k]) : draft' = [draft EXCEPT ![r] = d(p, k, item)]
  BY DEF EditItem
<1>2. PICK k \in DOMAIN p.items :
          /\ rows' = [rows EXCEPT ![r] = {<<p.id, k>>}]
          /\ \E item \in Edits(p.items[k]) : draft' = [draft EXCEPT ![r] = d(p, k, item)]
  BY <1>1
<1>3. PICK item \in Edits(p.items[k]) : draft' = [draft EXCEPT ![r] = d(p, k, item)]
  BY <1>2
<1>4. k \in Names /\ p.id \in Ids /\ p.items[k] \in Items
  BY DEF Typed, TypeOK, IsPlan
<1>5. item \in Items
  BY <1>4, EditsItems DEF Typed, TypeOK
<1>6. /\ written(item, k) = [id |-> 0, made |-> 0, goals |-> [g \in Goals |-> NoGoal],
                             items |-> [n \in {k} |-> item]]
  BY DEF NoPlan
<1>7. IsPlan(written(item, k)) /\ k \in DOMAIN written(item, k).items
  <2> HIDE DEF written
  <2>1. [n \in {k} |-> item][k] = item
    OBVIOUS
  <2> QED BY <1>4, <1>5, <1>6, <2>1 DEF IsPlan
<1> HIDE DEF written
<1>8. IsDraft(d(p, k, item)) /\ d(p, k, item).touched = {k} /\ d(p, k, item).plan = written(item, k)
  BY <1>4, <1>7 DEF IsDraft
<1> HIDE DEF d
<1>9. DOMAIN draft' = Requests /\ \A q \in Requests : IsDraft(draft'[q])
  BY <1>3, <1>8 DEF Typed, TypeOK
<1>10. /\ UNCHANGED <<day, student, goals, plans, advisory, acted, moved>>
       /\ pc' = [pc EXCEPT ![r] = "editing"]
       /\ job' = [job EXCEPT ![r].kind = "patch"]
  BY DEF EditItem, Go, database, history
<1>11. job' \in [Requests -> Jobs]
  BY <1>10 DEF Typed, TypeOK, Jobs, Kinds
<1>12. rows' \in [Requests -> SUBSET (Ids \X Names)]
  BY <1>2, <1>4 DEF Typed, TypeOK
<1>13. TypeOK'
  BY <1>9, <1>10, <1>11, <1>12 DEF Typed, TypeOK, IsPlan, IsDraft
<1>14. Editing'
  <2> SUFFICES ASSUME NEW q \in Requests, pc'[q] = "editing"
               PROVE  \E n \in Names : draft'[q].touched = {n} /\ n \in DOMAIN draft'[q].plan.items
    BY DEF Editing
  <2>1. CASE q = r
    BY <1>3, <1>4, <1>7, <1>8, <2>1 DEF Typed, TypeOK
  <2>2. CASE q # r
    BY <1>3, <1>10, <2>2 DEF Typed, TypeOK, Editing
  <2> QED BY <2>1, <2>2
<1> QED BY <1>13, <1>14 DEF Typed

LEMMA CommitEditTyped == ASSUME Typed, NEW r \in Requests, CommitEdit(r) PROVE Typed'
<1> DEFINE place == CHOOSE k \in draft[r].touched : TRUE
           item  == draft[r].plan.items[place]
           new(p) == IF p.id = draft[r].old THEN [p EXCEPT !.items[place] = item] ELSE p
<1>1. /\ pc[r] = "editing" /\ Leave(r) /\ UNCHANGED <<day, student, goals>>
      /\ plans' = {new(p) : p \in plans}
      /\ acted' = [acted EXCEPT ![item.concept] =
             IF item.status \in Carried /\ item.when = day THEN item.status ELSE "nothing"]
      /\ moved' = IF item.status \in Open THEN moved \cup {item.concept} ELSE moved
  BY DEF CommitEdit
<1>2. item \in Items
  <2>1. PICK k \in Names : draft[r].touched = {k} /\ k \in DOMAIN draft[r].plan.items
    BY <1>1 DEF Typed, Editing
  <2>2. place = k
    BY <2>1
  <2>3. \A n \in DOMAIN draft[r].plan.items : draft[r].plan.items[n] \in Items
    BY DEF Typed, TypeOK, IsDraft, IsPlan
  <2> HIDE DEF place
  <2> QED BY <2>1, <2>2, <2>3
<1> HIDE DEF place, item
<1>3. \A p \in plans' : IsPlan(p)
  <2>1. ASSUME NEW p \in plans PROVE IsPlan(new(p))
    <3>1. IsPlan(p)
      BY DEF Typed, TypeOK
    <3>2. IsPlan([p EXCEPT !.items[place] = item])
      BY <1>2, <3>1, EditedIsPlan
    <3> QED BY <3>1, <3>2
  <2> HIDE DEF new
  <2> QED BY <1>1, <2>1
<1>4. acted' \in [Concepts -> Carried \cup {"nothing"}] /\ moved' \subseteq Concepts
  BY <1>1, <1>2 DEF Typed, TypeOK, Items
<1> QED BY <1>1, <1>3, <1>4, LeaveTyped DEF Typed, TypeOK, IsPlan, IsDraft

LEMMA NextDayTyped == ASSUME Typed, NextDay PROVE Typed'
<1>1. /\ day' = day + 1 /\ acted' = [c \in Concepts |-> "nothing"] /\ moved' = {}
      /\ UNCHANGED <<goals, plans, advisory, pc, job, rows, draft>>
  BY DEF NextDay, requests
<1>2. student' \in [Concepts -> Standings]
  <2>1. PICK S : student' = [c \in Concepts |->
              IF c \in S THEN [student[c] EXCEPT !.learned = FALSE, !.forgotten = TRUE]
              ELSE student[c]]
    BY DEF NextDay
  <2>2. \A x \in Standings : [x EXCEPT !.learned = FALSE, !.forgotten = TRUE] \in Standings
    BY DEF Standings
  <2> QED BY <2>1, <2>2 DEF Typed, TypeOK
<1>3. TypeOK' /\ Editing'
  BY <1>1, <1>2 DEF Typed, TypeOK, Editing, IsPlan, IsDraft
<1> QED BY <1>3 DEF Typed

LEMMA TypedNext == Typed /\ [Next]_vars => Typed'
<1> SUFFICES ASSUME Typed, [Next]_vars PROVE Typed'
  OBVIOUS
<1>1. CASE UNCHANGED vars
  BY <1>1 DEF vars, database, requests, history, Typed, TypeOK, Editing, IsPlan, IsDraft
<1>2. CASE NextDay
  BY <1>2, NextDayTyped
<1>3. ASSUME NEW r \in Requests, BreakDeadlock(r) \/ Fail(r) PROVE Typed'
  BY <1>3, LeaveTyped DEF BreakDeadlock, Fail, database, history, Typed, TypeOK, IsPlan, IsDraft
<1>4. CASE \E r \in Requests :
              \/ AskToRegenerate(r) \/ ReadPlan(r) \/ ChangeGoal(r)
              \/ EndSession(r) \/ StartDaily(r) \/ EditItem(r)
              \/ Prepare(r) \/ Commit(r) \/ CommitEdit(r) \/ BreakDeadlock(r) \/ Fail(r)
  BY <1>3, <1>4, ArriveTyped, EditTyped, PrepareTyped, CommitTyped, CommitEditTyped
<1> QED BY <1>1, <1>2, <1>4 DEF Next

\* Plans, items, requests and what they are about to write are always what they should
\* be, whatever runs at the same time, changes of items included.
THEOREM TypeCorrect == Spec => []TypeOK
<1>1. Typed => TypeOK
  BY DEF Typed
<1> QED BY <1>1, InitTyped, TypedNext, PTL DEF Spec

----------------------------------------------------------------------------
(* One plan, for the committed goals, whatever runs at the same time *)

\* A transaction that ends gives back its locks.
LEMMA LeaveFacts ==
    ASSUME Shape, Locking, NEW r \in Requests, Running(r), Leave(r)
    PROVE  /\ pc' = [pc EXCEPT ![r] = "done"]
           /\ \A q \in Requests : pc'[q] = IF q = r THEN "done" ELSE pc[q]
           /\ \A q \in Requests \ {r} : job'[q] = job[q] /\ draft'[q] = draft[q]
           /\ pc' \in [Requests -> {"new", "waiting", "ready", "editing", "done"}]
           /\ DOMAIN job' = Requests /\ DOMAIN rows' = Requests /\ DOMAIN draft' = Requests
           /\ Locking'
<1>1. pc' = [pc EXCEPT ![r] = "done"] /\ \A q \in Requests : pc'[q] = IF q = r THEN "done" ELSE pc[q]
  BY DEF Leave, Go, Shape
<1>2. \A q \in Requests \ {r} : job'[q] = job[q] /\ draft'[q] = draft[q] /\ rows'[q] = rows[q]
  BY DEF Leave, Shape
<1>3. rows'[r] = {}
  BY DEF Leave, Shape
<1>4. DOMAIN job' = Requests /\ DOMAIN rows' = Requests /\ DOMAIN draft' = Requests
  BY DEF Leave, Shape
<1>5. advisory' = IF advisory = r THEN Nobody ELSE advisory
  BY DEF Leave
<1>6. Locking'
  BY <1>1, <1>2, <1>3, <1>5, RequestAssumption DEF Locking, Running, Shape
<1> QED BY <1>1, <1>2, <1>4, <1>6 DEF Shape

LEMMA SerialInit == Init => Serial
<1> SUFFICES ASSUME Init PROVE Serial
  OBVIOUS
<1>1. \A p \in plans : Shaped(p) /\ p.goals = goals
  <2>1. ASSUME plans = {NewPlan(0, goals, <<>>)} PROVE \A p \in plans : Shaped(p) /\ p.goals = goals
    <3>1. Shaped(NewPlan(0, goals, <<>>)) /\ NewPlan(0, goals, <<>>).goals = goals
      BY NewPlanFacts
    <3> QED BY <3>1, <2>1
  <2> QED BY <2>1 DEF Init
<1>2. OneActivePlan
  BY DEF Init, OneActivePlan
<1>3. Shape /\ Locking /\ Fresh
  BY <1>1, RequestAssumption DEF Init, Shape, Locking, Fresh
<1> QED BY <1>1, <1>2, <1>3 DEF Serial, PlanCoversGoals

\* An action that only starts a request, and moves it to waiting, done or editing.
LEMMA ArriveFacts ==
    ASSUME Serial, NEW r \in Requests, NEW step \in {"waiting", "editing", "done"},
           Arrives(r), Go(r, step),
           UNCHANGED <<goals, plans, advisory>>,
           DOMAIN job' = Requests, \A q \in Requests \ {r} : job'[q] = job[q],
           DOMAIN rows' = Requests, \A q \in Requests \ {r} : rows'[q] = rows[q],
           rows'[r] # {} => step # "done",
           DOMAIN draft' = Requests, \A q \in Requests \ {r} : draft'[q] = draft[q]
    PROVE  Serial'
<1>1. /\ pc[r] = "new"
      /\ pc' \in [Requests -> {"new", "waiting", "ready", "editing", "done"}]
      /\ pc'[r] = step
      /\ \A q \in Requests \ {r} : pc'[q] = pc[q]
  BY DEF Arrives, Go, Serial, Shape
<1>2. \A p : Shaped(p)' <=> Shaped(p)
  BY DEF Shaped
<1>3. Shape'
  BY <1>1, <1>2 DEF Serial, Shape
<1>4. Locking'
  <2>1. rows[r] = {}
    BY <1>1 DEF Serial, Locking, Running
  <2> QED BY <1>1, <2>1 DEF Serial, Locking, Running
<1>5. Fresh'
  <2> SUFFICES ASSUME NEW q \in Requests, pc'[q] = "ready"
               PROVE  /\ \A p \in plans' : p.id = draft'[q].old
                      /\ draft'[q].plan.goals = GoalsAfter(q)'
    BY DEF Fresh
  <2>1. q # r /\ pc[q] = "ready" /\ job'[q] = job[q] /\ draft'[q] = draft[q]
    BY <1>1
  <2>2. GoalsAfter(q)' = GoalsAfter(q)
    BY <2>1 DEF GoalsAfter
  <2> QED BY <2>1, <2>2 DEF Serial, Fresh
<1>6. OneActivePlan' /\ PlanCoversGoals'
  BY DEF Serial, OneActivePlan, PlanCoversGoals
<1> QED BY <1>3, <1>4, <1>5, <1>6 DEF Serial

LEMMA ReadSerial == ASSUME Serial, NEW r \in Requests, ReadPlan(r) PROVE Serial'
<1>1. Arrives(r) /\ Go(r, "done")
  BY DEF ReadPlan
<1>2. rows[r] = {}
  BY <1>1 DEF Serial, Locking, Running, Arrives
<1>3. UNCHANGED <<goals, plans, advisory, job, rows, draft>>
  BY DEF ReadPlan, database
<1> QED BY <1>1, <1>2, <1>3, ArriveFacts DEF Serial, Shape

LEMMA StartSerial ==
    ASSUME Serial, NEW r \in Requests,
           AskToRegenerate(r) \/ ChangeGoal(r) \/ EndSession(r) \/ StartDaily(r)
    PROVE  Serial'
<1>1. \E j : Start(r, j)
  BY DEF AskToRegenerate, ChangeGoal, EndSession, StartDaily
<1>2. Arrives(r) /\ Go(r, "waiting")
  BY <1>1 DEF Start
<1>3. DOMAIN job' = Requests /\ \A q \in Requests \ {r} : job'[q] = job[q]
  BY <1>1 DEF Start, Serial, Shape
<1>4. UNCHANGED <<goals, plans, advisory, draft>>
  BY DEF AskToRegenerate, ChangeGoal, EndSession, StartDaily, database
<1>5. DOMAIN rows' = Requests /\ \A q \in Requests \ {r} : rows'[q] = rows[q]
  BY DEF AskToRegenerate, ChangeGoal, EndSession, StartDaily, Serial, Shape
<1> QED BY <1>2, <1>3, <1>4, <1>5, ArriveFacts DEF Serial, Shape

LEMMA EditSerial == ASSUME Serial, NEW r \in Requests, EditItem(r) PROVE Serial'
<1>1. Arrives(r) /\ Go(r, "editing")
  BY DEF EditItem
<1>2. DOMAIN job' = Requests /\ \A q \in Requests \ {r} : job'[q] = job[q]
  BY DEF EditItem, Serial, Shape
<1>3. UNCHANGED <<goals, plans, advisory>>
  BY DEF EditItem, database
<1>4. DOMAIN rows' = Requests /\ \A q \in Requests \ {r} : rows'[q] = rows[q]
  BY DEF EditItem, Serial, Shape
<1>5. DOMAIN draft' = Requests /\ \A q \in Requests \ {r} : draft'[q] = draft[q]
  BY DEF EditItem, Serial, Shape
<1> QED BY <1>1, <1>2, <1>3, <1>4, <1>5, ArriveFacts

\* What Prepare writes down.
LEMMA PrepareFacts ==
    ASSUME Serial, NEW r \in Requests, Prepare(r)
    PROVE  \E due, p :
               /\ due = Due(Current, job[r].covered, job[r].attempted)
               /\ p = NewPlan(r, GoalsAfter(r), Ticked(Current.items, due))
               /\ Shaped(p) /\ p.made = day /\ p.goals = GoalsAfter(r) /\ CarriedToday(p)
               /\ \A k \in Kept(Ticked(Current.items, due), day) :
                      k \in DOMAIN p.items /\ p.items[k] = Ticked(Current.items, due)[k]
               /\ \A k \in DOMAIN p.items :
                      k \in Kept(Ticked(Current.items, due), day) \/ IsItem(p.items[k])
               /\ draft' = [draft EXCEPT ![r] =
                      [old |-> IF plans = {} THEN -1 ELSE Current.id,
                       touched |-> due, plan |-> p]]
<1> DEFINE due   == Due(Current, job[r].covered, job[r].attempted)
           items == Ticked(Current.items, due)
           p     == NewPlan(r, GoalsAfter(r), items)
<1>1. DOMAIN Current.items \subseteq Names
  BY CurrentFacts, NoPlanFacts DEF Serial, Shape, Shaped
<1>2. DOMAIN items \subseteq Names
  BY <1>1, TickedFacts
<1>3. /\ Shaped(p) /\ p.made = day /\ p.goals = GoalsAfter(r) /\ CarriedToday(p)
      /\ \A k \in Kept(items, day) : k \in DOMAIN p.items /\ p.items[k] = items[k]
      /\ \A k \in DOMAIN p.items : k \in Kept(items, day) \/ IsItem(p.items[k])
  <2> DEFINE gs == GoalsAfter(r)
  <2> HIDE DEF items, gs
  <2> QED BY <1>2, NewPlanFacts DEF gs
<1>4. draft' = [draft EXCEPT ![r] =
                  [old |-> IF plans = {} THEN -1 ELSE Current.id, touched |-> due, plan |-> p]]
  BY DEF Prepare, SeenGoals
<1> HIDE DEF due, p
<1> QED BY <1>3, <1>4 DEF due, p

LEMMA PrepareSerial == ASSUME Serial, NEW r \in Requests, Prepare(r) PROVE Serial'
<1>1. /\ pc[r] = "waiting" /\ advisory = Nobody /\ advisory' = r
      /\ UNCHANGED <<goals, plans, job, rows>>
  BY DEF Prepare, database
<1>2. pc' \in [Requests -> {"new", "waiting", "ready", "editing", "done"}]
      /\ pc'[r] = "ready" /\ \A q \in Requests \ {r} : pc'[q] = pc[q]
  BY DEF Prepare, Go, Serial, Shape
<1>3. \A q \in Requests : pc[q] # "ready"
  BY <1>1, RequestAssumption DEF Serial, Locking
<1>4. PICK due, p :
          /\ Shaped(p) /\ p.goals = GoalsAfter(r)
          /\ draft' = [draft EXCEPT ![r] =
                 [old |-> IF plans = {} THEN -1 ELSE Current.id, touched |-> due, plan |-> p]]
  BY PrepareFacts
<1>5. /\ DOMAIN draft' = Requests
      /\ draft'[r].plan = p
      /\ draft'[r].old = IF plans = {} THEN -1 ELSE Current.id
  BY <1>4 DEF Serial, Shape
<1>6. \A q \in Requests : pc'[q] = "ready" => q = r
  BY <1>2, <1>3
<1>7. Shape'
  <2>1. \A x : Shaped(x)' <=> Shaped(x)
    BY DEF Shaped
  <2> QED BY <1>1, <1>2, <1>4, <1>5, <1>6, <2>1 DEF Serial, Shape
<1>8. Locking'
  BY <1>1, <1>2, <1>3, RequestAssumption DEF Serial, Locking, Running
<1>9. Fresh'
  <2>1. \A x \in plans' : x.id = draft'[r].old
    BY <1>1, <1>5, CurrentFacts DEF Serial, OneActivePlan
  <2>2. draft'[r].plan.goals = GoalsAfter(r)'
    BY <1>1, <1>4, <1>5 DEF GoalsAfter
  <2> QED BY <1>6, <2>1, <2>2 DEF Fresh
<1>10. OneActivePlan' /\ PlanCoversGoals'
  BY <1>1 DEF Serial, OneActivePlan, PlanCoversGoals
<1> QED BY <1>7, <1>8, <1>9, <1>10 DEF Serial

LEMMA CommitSerial == ASSUME Serial, NEW r \in Requests, Commit(r) PROVE Serial'
<1>1. /\ pc[r] = "ready" /\ Leave(r) /\ goals' = GoalsAfter(r)
      /\ plans' = {p \in plans : p.id # draft[r].old} \cup {draft[r].plan}
  BY DEF Commit
<1>2. plans' = {draft[r].plan}
  BY <1>1 DEF Serial, Fresh
<1>3. \A q \in Requests : pc[q] = "ready" => q = r
  BY <1>1 DEF Serial, Locking
<1>4. /\ pc' \in [Requests -> {"new", "waiting", "ready", "editing", "done"}]
      /\ DOMAIN job' = Requests /\ DOMAIN rows' = Requests /\ DOMAIN draft' = Requests
      /\ Locking'
      /\ \A q \in Requests : pc'[q] = IF q = r THEN "done" ELSE pc[q]
  BY <1>1, LeaveFacts DEF Serial, Running
<1>5. \A q \in Requests : pc'[q] # "ready"
  BY <1>3, <1>4
<1>6. Shape'
  <2>1. \A x : Shaped(x)' <=> Shaped(x)
    BY DEF Shaped
  <2>2. Shaped(draft[r].plan)
    BY <1>1 DEF Serial, Shape
  <2> QED BY <1>2, <1>4, <1>5, <2>1, <2>2 DEF Shape
<1>7. OneActivePlan' /\ PlanCoversGoals'
  BY <1>1, <1>2 DEF Serial, Fresh, OneActivePlan, PlanCoversGoals
<1> QED BY <1>4, <1>5, <1>6, <1>7 DEF Serial, Fresh

\* Changing an item keeps its plan's id, goals and set of items.
LEMMA EditedPlan ==
    ASSUME NEW p, Shaped(p), NEW k, NEW item
    PROVE  LET new == [p EXCEPT !.items[k] = item]
           IN  /\ Shaped(new) /\ new.id = p.id /\ new.made = p.made /\ new.goals = p.goals
               /\ new.items = [p.items EXCEPT ![k] = item]
               /\ DOMAIN new.items = DOMAIN p.items
<1> DEFINE new == [p EXCEPT !.items[k] = item]
           its == [p.items EXCEPT ![k] = item]
<1>1. DOMAIN its = DOMAIN p.items
  OBVIOUS
<1>2. new = [id |-> p.id, made |-> p.made, goals |-> p.goals, items |-> its]
  BY DEF Shaped
<1> HIDE DEF its, new
<1> QED BY <1>1, <1>2 DEF Shaped, its, new

LEMMA CommitEditSerial == ASSUME Serial, NEW r \in Requests, CommitEdit(r) PROVE Serial'
<1> DEFINE place == CHOOSE k \in draft[r].touched : TRUE
           item  == draft[r].plan.items[place]
           new(p) == IF p.id = draft[r].old THEN [p EXCEPT !.items[place] = item] ELSE p
<1>1. pc[r] = "editing" /\ Leave(r) /\ plans' = {new(p) : p \in plans} /\ UNCHANGED goals
  BY DEF CommitEdit
<1> HIDE DEF place, item
<1>2. ASSUME NEW p \in plans
      PROVE  Shaped(new(p)) /\ new(p).id = p.id /\ new(p).goals = p.goals
  <2>1. Shaped(p)
    BY DEF Serial, Shape
  <2>2. LET changed == [p EXCEPT !.items[place] = item]
        IN  Shaped(changed) /\ changed.id = p.id /\ changed.goals = p.goals
    BY <2>1, EditedPlan
  <2> QED BY <2>1, <2>2
<1> HIDE DEF new
<1>3. /\ pc' \in [Requests -> {"new", "waiting", "ready", "editing", "done"}]
      /\ DOMAIN job' = Requests /\ DOMAIN rows' = Requests /\ DOMAIN draft' = Requests
      /\ Locking'
      /\ \A q \in Requests : pc'[q] = IF q = r THEN "done" ELSE pc[q]
      /\ \A q \in Requests \ {r} : job'[q] = job[q] /\ draft'[q] = draft[q]
  BY <1>1, LeaveFacts DEF Serial, Running
<1>4. Shape'
  <2>1. \A x : Shaped(x)' <=> Shaped(x)
    BY DEF Shaped
  <2> QED BY <1>1, <1>2, <1>3, <2>1 DEF Serial, Shape
<1>5. Fresh'
  BY <1>1, <1>2, <1>3 DEF Serial, Fresh, GoalsAfter
<1>6. OneActivePlan' /\ PlanCoversGoals'
  BY <1>1, <1>2 DEF Serial, OneActivePlan, PlanCoversGoals
<1> QED BY <1>3, <1>4, <1>5, <1>6 DEF Serial

LEMMA FailSerial ==
    ASSUME Serial, NEW r \in Requests, BreakDeadlock(r) \/ Fail(r)
    PROVE  Serial'
<1>1. Running(r) /\ Leave(r) /\ UNCHANGED <<goals, plans>>
  BY DEF BreakDeadlock, Fail, Deadlocked, Running, database
<1>2. /\ pc' \in [Requests -> {"new", "waiting", "ready", "editing", "done"}]
      /\ DOMAIN job' = Requests /\ DOMAIN rows' = Requests /\ DOMAIN draft' = Requests
      /\ Locking'
      /\ \A q \in Requests : pc'[q] = IF q = r THEN "done" ELSE pc[q]
      /\ \A q \in Requests \ {r} : job'[q] = job[q] /\ draft'[q] = draft[q]
  BY <1>1, LeaveFacts DEF Serial
<1>3. \A x : Shaped(x)' <=> Shaped(x)
  BY DEF Shaped
<1>4. Shape' /\ Fresh' /\ OneActivePlan' /\ PlanCoversGoals'
  BY <1>1, <1>2, <1>3 DEF Serial, Shape, Fresh, GoalsAfter, OneActivePlan, PlanCoversGoals
<1> QED BY <1>2, <1>4 DEF Serial

LEMMA SerialNext == Serial /\ [Next]_vars => Serial'
<1> SUFFICES ASSUME Serial, [Next]_vars PROVE Serial'
  OBVIOUS
<1>1. CASE NextDay \/ UNCHANGED vars
  <2>1. UNCHANGED <<goals, plans, advisory, pc, job, rows, draft>>
    BY <1>1 DEF NextDay, vars, requests, database
  <2>2. \A x : Shaped(x)' <=> Shaped(x)
    BY DEF Shaped
  <2> QED BY <2>1, <2>2 DEF Serial, Shape, Locking, Running, Fresh, GoalsAfter,
                            OneActivePlan, PlanCoversGoals
<1>2. CASE \E r \in Requests :
              \/ AskToRegenerate(r) \/ ReadPlan(r) \/ ChangeGoal(r)
              \/ EndSession(r) \/ StartDaily(r) \/ EditItem(r)
              \/ Prepare(r) \/ Commit(r) \/ CommitEdit(r) \/ BreakDeadlock(r) \/ Fail(r)
  BY <1>2, ReadSerial, StartSerial, EditSerial, PrepareSerial, CommitSerial,
     CommitEditSerial, FailSerial
<1> QED BY <1>1, <1>2 DEF Next

LEMMA AlwaysSerial == Spec => []Serial
<1> QED BY SerialInit, SerialNext, PTL DEF Spec

\* A student never has two active plans, however many regenerations run, fail or deadlock.
THEOREM NeverTwoPlans == Spec => []OneActivePlan
<1>1. Serial => OneActivePlan
  BY DEF Serial
<1> QED BY <1>1, AlwaysSerial, PTL

\* The active plan is always one made for the goals that are active now.
THEOREM GoalsArePlanned == Spec => []PlanCoversGoals
<1>1. Serial => PlanCoversGoals
  BY DEF Serial
<1> QED BY <1>1, AlwaysSerial, PTL

\* However the requests wait for the advisory lock and for each other's rows, one of them
\* can go on, or PostgreSQL finds the deadlock it is part of.
THEOREM NeverStuck == Spec => []SomeoneCanGoOn
<1>1. Serial => SomeoneCanGoOn
  <2> SUFFICES ASSUME Serial, NEW r \in Requests, Running(r),
                      \A q \in Requests : pc[q] # "editing"
               PROVE  SomeoneCanGoOn
    BY DEF SomeoneCanGoOn
  <2>1. CASE advisory = Nobody
    BY <2>1, RequestAssumption DEF Serial, Locking, Running, SomeoneCanGoOn
  <2>2. CASE advisory # Nobody
    <3>1. PICK h \in Requests : advisory = h /\ pc[h] = "ready"
      BY <2>2 DEF Serial, Locking
    <3>2. CASE Free(h, Wanted(h))
      BY <3>1, <3>2 DEF SomeoneCanGoOn
    <3>3. CASE ~Free(h, Wanted(h))
      <4>1. PICK q \in Requests \ {h} : rows[q] \cap Wanted(h) # {}
        BY <3>3 DEF Free
      <4>2. pc[q] = "waiting"
        BY <3>1, <4>1 DEF Serial, Locking, Running
      <4>3. Deadlocked(h, q)
        BY <3>1, <4>1, <4>2 DEF Deadlocked
      <4> QED BY <4>3 DEF SomeoneCanGoOn
    <3> QED BY <3>2, <3>3
  <2> QED BY <2>1, <2>2
<1> QED BY <1>1, AlwaysSerial, PTL

----------------------------------------------------------------------------
(* What the student did today stays visible, if items change apart from planning *)

LEMMA KeepsInit == Init => Apart /\ Remembers
<1> SUFFICES ASSUME Init PROVE Apart /\ Remembers
  OBVIOUS
<1>1. Apart
  BY DEF Init, Apart
<1>2. acted \in [Concepts -> Carried \cup {"nothing"}] /\ \A c \in Concepts : acted[c] = "nothing"
  BY DEF Init
<1>3. \A r \in Requests : pc[r] # "ready"
  BY DEF Init
<1>4. \A p \in plans : Whole(p)
  <2>1. Kept(<<>>, day) = {}
    BY DEF Kept
  <2>2. Whole(NewPlan(0, goals, <<>>))
    BY <2>1, NewPlanFacts DEF Whole
  <2> QED BY <2>2 DEF Init
<1> QED BY <1>1, <1>2, <1>3, <1>4 DEF Remembers, Shows

\* A step that changes neither plans nor what is shown, and lets nobody in.
LEMMA FrameKeeps ==
    ASSUME Keeps, UNCHANGED <<day, plans, acted>>,
           \A q \in Requests : pc'[q] \in {"ready", "editing"} =>
               pc[q] = pc'[q] /\ draft'[q] = draft[q]
    PROVE  Apart' /\ Remembers'
<1>1. Apart'
  <2> SUFFICES ASSUME NEW r \in Requests, pc'[r] = "editing"
               PROVE  /\ \A q \in Requests : pc'[q] # "ready"
                      /\ \E p \in plans' : p.id = draft'[r].old
                      /\ \E k \in Names :
                            /\ draft'[r].touched = {k}
                            /\ \A p \in plans' :
                                  /\ k \in DOMAIN p.items
                                  /\ p.items[k].concept = draft'[r].plan.items[k].concept
                            /\ IsItem(draft'[r].plan.items[k])
    BY DEF Apart, IsItem
  <2>1. pc[r] = "editing" /\ draft'[r] = draft[r] /\ plans' = plans
    OBVIOUS
  <2>2. \A q \in Requests : pc[q] # "ready"
    BY <2>1 DEF Keeps, Apart
  <2> QED BY <2>1, <2>2 DEF Keeps, Apart
<1>2. \A p : (Shows(p)' <=> Shows(p)) /\ (CarriedToday(p)' <=> CarriedToday(p))
  BY DEF Shows, CarriedToday
<1>3. Remembers'
  <2>1. ASSUME NEW r \in Requests, pc'[r] = "ready"
        PROVE  (Shows(draft[r].plan) /\ Whole(draft[r].plan) /\ CarriedToday(draft[r].plan))'
    <3>1. pc[r] = "ready" /\ draft'[r] = draft[r]
      BY <2>1
    <3>2. Shows(draft[r].plan) /\ Whole(draft[r].plan) /\ CarriedToday(draft[r].plan)
      BY <3>1 DEF Keeps, Remembers
    <3> QED BY <3>1, <3>2 DEF Shows, Whole, CarriedToday, IsItem
  <2>2. /\ acted' \in [Concepts -> Carried \cup {"nothing"}]
        /\ plans' = {} => \A c \in Concepts : acted'[c] = "nothing"
    BY DEF Keeps, Remembers
  <2>3. ASSUME NEW p \in plans' PROVE Shows(p)' /\ Whole(p)'
    BY <1>2 DEF Keeps, Remembers, Whole, IsItem
  <2> QED BY <2>1, <2>2, <2>3 DEF Remembers
<1> QED BY <1>1, <1>3

LEMMA ArriveKeeps ==
    ASSUME Keeps, NEW r \in Requests,
           AskToRegenerate(r) \/ ReadPlan(r) \/ ChangeGoal(r) \/ EndSession(r) \/ StartDaily(r)
    PROVE  Apart' /\ Remembers'
<1>1. Go(r, "waiting") \/ Go(r, "done")
  BY DEF AskToRegenerate, ReadPlan, ChangeGoal, EndSession, StartDaily, Start
<1>2. UNCHANGED <<day, plans, acted, draft>>
  BY DEF AskToRegenerate, ReadPlan, ChangeGoal, EndSession, StartDaily, database, history
<1>3. \A q \in Requests : pc'[q] \in {"ready", "editing"} => pc[q] = pc'[q]
  BY <1>1 DEF Go, Keeps, Serial, Shape
<1> QED BY <1>2, <1>3, FrameKeeps

LEMMA FailKeeps ==
    ASSUME Keeps, NEW r \in Requests, BreakDeadlock(r) \/ Fail(r)
    PROVE  Apart' /\ Remembers'
<1>1. Running(r) /\ Leave(r) /\ UNCHANGED <<day, plans, acted>>
  BY DEF BreakDeadlock, Fail, Deadlocked, Running, database, history
<1>2. /\ \A q \in Requests : pc'[q] = IF q = r THEN "done" ELSE pc[q]
      /\ \A q \in Requests \ {r} : draft'[q] = draft[q]
  BY <1>1, LeaveFacts DEF Keeps, Serial
<1> QED BY <1>1, <1>2, FrameKeeps

\* What update_item can make of an item is an item of its concept.
LEMMA EditsFacts ==
    ASSUME NEW i, IsItem(i), NEW e \in Edits(i)
    PROVE  e.concept = i.concept /\ IsItem(e)
<1>1. ASSUME NEW x, IsItem(x), NEW d
      PROVE  (Rescheduled(x, d)).concept = x.concept /\ IsItem(Rescheduled(x, d))
  BY <1>1 DEF Rescheduled, IsItem
<1>2. ASSUME NEW x, IsItem(x), NEW t
      PROVE  (Marked(x, t)).concept = x.concept /\ IsItem(Marked(x, t))
  BY <1>2 DEF Marked, IsItem
<1>3. ASSUME NEW d
      PROVE  ([i EXCEPT !.date = d]).concept = i.concept /\ IsItem([i EXCEPT !.date = d])
  BY DEF IsItem
<1> DEFINE dates    == {day + n : n \in Moves}
           statuses == {"pending", "completed", "skipped"}
<1>4. \/ \E d \in dates : e = Rescheduled(i, d)
      \/ \E t \in statuses : e = Marked(i, t)
      \/ \E d \in dates, t \in statuses : e = Marked([i EXCEPT !.date = d], t)
  BY DEF Edits
<1>5. CASE \E d \in dates : e = Rescheduled(i, d)
  BY <1>1, <1>5
<1>6. CASE \E t \in statuses : e = Marked(i, t)
  BY <1>2, <1>6
<1>7. CASE \E d \in dates, t \in statuses : e = Marked([i EXCEPT !.date = d], t)
  <2>1. PICK d \in dates, t \in statuses : e = Marked([i EXCEPT !.date = d], t)
    BY <1>7
  <2> DEFINE x == [i EXCEPT !.date = d]
  <2>2. x.concept = i.concept /\ IsItem(x)
    BY <1>3
  <2> HIDE DEF x
  <2>3. (Marked(x, t)).concept = x.concept /\ IsItem(Marked(x, t))
    BY <1>2, <2>2
  <2> QED BY <2>1, <2>2, <2>3 DEF x
<1> QED BY <1>4, <1>5, <1>6, <1>7

LEMMA EditKeeps ==
    ASSUME Keeps, PatchesRace = FALSE, NEW r \in Requests, EditItem(r)
    PROVE  Apart' /\ Remembers'
<1>1. /\ \A q \in Requests : pc[q] # "ready"
      /\ Go(r, "editing") /\ UNCHANGED <<day, plans, acted>>
  BY DEF EditItem, database, history
<1>2. /\ pc'[r] = "editing" /\ \A q \in Requests \ {r} : pc'[q] = pc[q]
  BY <1>1 DEF Go, Keeps, Serial, Shape
<1> DEFINE writes(p, k, item) ==
               draft' = [draft EXCEPT ![r] =
                   [old |-> p.id, touched |-> {k},
                    plan |-> [NoPlan EXCEPT !.items = [n \in {k} |-> item]]]]
<1>2a. PICK p \in plans :
          \E k \in DOMAIN p.items : \E item \in Edits(p.items[k]) : writes(p, k, item)
  BY DEF EditItem
<1>2b. PICK k \in DOMAIN p.items : \E item \in Edits(p.items[k]) : writes(p, k, item)
  BY <1>2a
<1>3. PICK item \in Edits(p.items[k]) : writes(p, k, item)
  BY <1>2b
<1>4. /\ draft'[r].old = p.id /\ draft'[r].touched = {k}
      /\ draft'[r].plan.items[k] = item
      /\ \A q \in Requests \ {r} : draft'[q] = draft[q]
  BY <1>3 DEF Keeps, Serial, Shape, NoPlan
<1>5. item.concept = p.items[k].concept /\ IsItem(item)
  BY EditsFacts DEF Keeps, Remembers, Whole
<1>6. plans = {p} /\ k \in Names
  BY DEF Keeps, Serial, OneActivePlan, Shape, Shaped
<1>7. Apart'
  <2> DEFINE edits(q, d) ==
                 /\ \E x \in plans : x.id = d.old
                 /\ \E n \in Names :
                       /\ d.touched = {n}
                       /\ \A x \in plans : /\ n \in DOMAIN x.items
                                           /\ x.items[n].concept = d.plan.items[n].concept
                       /\ IsItem(d.plan.items[n])
  <2>1. ASSUME NEW q \in Requests, pc'[q] = "editing", q # r
        PROVE  edits(q, draft'[q])
    <3>1. pc[q] = "editing" /\ draft'[q] = draft[q]
      BY <1>2, <1>4, <2>1
    <3> QED BY <3>1 DEF Keeps, Apart
  <2>2. edits(r, draft'[r])
    <3> DEFINE d == draft'[r]
    <3>1. d.old = p.id /\ d.touched = {k} /\ d.plan.items[k] = item
      BY <1>4
    <3> HIDE DEF d
    <3>2. edits(r, d)
      BY <1>5, <1>6, <3>1
    <3> QED BY <3>2 DEF d
  <2>3. \A q \in Requests : pc'[q] = "editing" => edits(q, draft'[q])
    BY <2>1, <2>2
  <2>4. \A q \in Requests : pc'[q] # "ready"
    BY <1>1, <1>2
  <2> QED BY <1>1, <2>3, <2>4 DEF Apart, IsItem
<1>8. Remembers'
  <2>1. \A q \in Requests : pc'[q] # "ready"
    BY <1>1, <1>2
  <2>2. \A x : Shows(x)' <=> Shows(x)
    BY <1>1 DEF Shows
  <2> QED BY <1>1, <2>1, <2>2 DEF Keeps, Remembers, Whole, IsItem
<1> QED BY <1>7, <1>8

\* Planning carries over whatever was done today.
LEMMA PrepareKeeps ==
    ASSUME Keeps, PatchesRace = FALSE, NEW r \in Requests, Prepare(r)
    PROVE  Apart' /\ Remembers'
<1>1. /\ pc[r] = "waiting" /\ advisory = Nobody
      /\ \A q \in Requests : pc[q] # "editing"
      /\ Go(r, "ready") /\ UNCHANGED <<day, plans, acted>>
  BY DEF Prepare, database, history
<1>2. pc'[r] = "ready" /\ \A q \in Requests \ {r} : pc'[q] = pc[q]
  BY <1>1 DEF Go, Keeps, Serial, Shape
<1>3. \A q \in Requests : pc[q] # "ready"
  BY <1>1, RequestAssumption DEF Keeps, Serial, Locking
<1>4. Apart'
  BY <1>1, <1>2 DEF Apart
<1>5. PICK due, p :
          /\ due = Due(Current, job[r].covered, job[r].attempted)
          /\ CarriedToday(p)
          /\ \A k \in Kept(Ticked(Current.items, due), day) :
                 k \in DOMAIN p.items /\ p.items[k] = Ticked(Current.items, due)[k]
          /\ \A k \in DOMAIN p.items :
                 k \in Kept(Ticked(Current.items, due), day) \/ IsItem(p.items[k])
          /\ draft' = [draft EXCEPT ![r] =
                 [old |-> IF plans = {} THEN -1 ELSE Current.id, touched |-> due, plan |-> p]]
  BY PrepareFacts DEF Keeps
<1>6. draft'[r].plan = p
  BY <1>5 DEF Keeps, Serial, Shape
<1>7. Whole(p)
  <2> DEFINE items == Ticked(Current.items, due)
  <2>1. Whole(Current)
    BY CurrentFacts, NoPlanFacts DEF Keeps, Remembers, Whole
  <2>2. \A k \in DOMAIN items : IsItem(items[k])
    BY <2>1, TickedFacts DEF Whole
  <2>3. Kept(items, day) \subseteq DOMAIN items
    BY DEF Kept
  <2> HIDE DEF items
  <2>4. \A k \in DOMAIN p.items : k \in Kept(items, day) => IsItem(p.items[k])
    BY <1>5, <2>2, <2>3 DEF items
  <2> QED BY <1>5, <2>4 DEF Whole, items
<1>8. Shows(p)
  <2> SUFFICES ASSUME NEW c \in Concepts, acted[c] # "nothing"
               PROVE  \E i \in DOMAIN p.items :
                         /\ p.items[i].concept = c
                         /\ p.items[i].status = acted[c]
                         /\ p.items[i].when = day
    BY DEF Shows
  <2> DEFINE items == Ticked(Current.items, due)
  <2>1. plans # {} /\ Current \in plans
    BY CurrentFacts DEF Keeps, Remembers
  <2>2. PICK i \in DOMAIN Current.items :
            /\ Current.items[i].concept = c
            /\ Current.items[i].status = acted[c]
            /\ Current.items[i].when = day
    BY <2>1 DEF Keeps, Remembers, Shows
  <2>3. acted[c] \in Carried
    BY DEF Keeps, Remembers
  <2>4. i \notin due
    BY <1>5, <2>2, <2>3 DEF Due, Open, Carried
  <2>5. i \in DOMAIN items /\ items[i] = Current.items[i]
    BY <2>2, <2>4, TickedFacts
  <2>6. i \in Kept(items, day)
    BY <2>2, <2>3, <2>5 DEF Kept
  <2>7. i \in DOMAIN p.items /\ p.items[i] = items[i]
    BY <1>5, <2>6
  <2> HIDE DEF items
  <2> QED BY <2>2, <2>5, <2>7
<1>9. Remembers'
  <2>1. \A x : Shows(x)' <=> Shows(x)
    BY <1>1 DEF Shows
  <2>2. ASSUME NEW q \in Requests, pc'[q] = "ready"
        PROVE  (Shows(draft[q].plan) /\ Whole(draft[q].plan) /\ CarriedToday(draft[q].plan))'
    <3>1. q = r
      BY <1>2, <1>3, <2>2
    <3> QED BY <1>1, <1>5, <1>6, <1>7, <1>8, <3>1 DEF Shows, Whole, CarriedToday, IsItem
  <2>3. \A x \in plans' : Shows(x)' /\ Whole(x)'
    BY <1>1, <2>1 DEF Keeps, Remembers, Whole, IsItem
  <2> QED BY <1>1, <2>2, <2>3 DEF Keeps, Remembers
<1> QED BY <1>4, <1>9

\* The plan that is committed shows what was done, and what the session ticked off.
LEMMA CommitKeeps ==
    ASSUME Keeps, PatchesRace = FALSE, NEW r \in Requests, Commit(r)
    PROVE  Apart' /\ Remembers'
<1> DEFINE p      == draft[r].plan
           done   == {i \in DOMAIN p.items : p.items[i].status = "completed"}
           ticked == {p.items[i].concept : i \in done}
<1>1. /\ pc[r] = "ready" /\ Leave(r) /\ day' = day /\ acted' = Credit(r)
      /\ plans' = {x \in plans : x.id # draft[r].old} \cup {p}
  BY DEF Commit
<1>2. plans' = {p}
  BY <1>1 DEF Keeps, Serial, Fresh
<1>3. \A q \in Requests : pc'[q] = IF q = r THEN "done" ELSE pc[q]
  BY <1>1, LeaveFacts DEF Keeps, Serial, Running
<1>4. \A q \in Requests : pc'[q] # "ready" /\ pc'[q] # "editing"
  BY <1>1, <1>3 DEF Keeps, Serial, Locking, Apart
<1>5. Apart'
  BY <1>4 DEF Apart
<1>6. Shows(p) /\ Whole(p) /\ CarriedToday(p)
  BY <1>1 DEF Keeps, Remembers
<1> HIDE DEF p
<1>7. /\ acted' \in [Concepts -> Carried \cup {"nothing"}]
      /\ \A c \in Concepts :
            \/ acted'[c] = acted[c]
            \/ acted'[c] = "completed" /\ c \in ticked /\ p.made = day
  BY <1>1 DEF Credit, Keeps, Remembers, Carried, p
<1>8. ASSUME NEW c \in Concepts, acted'[c] # "nothing"
      PROVE  \E i \in DOMAIN p.items :
                /\ p.items[i].concept = c
                /\ p.items[i].status = acted'[c]
                /\ p.items[i].when = day
  <2>1. CASE acted'[c] = acted[c]
    BY <1>6, <1>8, <2>1 DEF Shows
  <2>2. CASE acted'[c] = "completed" /\ c \in ticked /\ p.made = day
    <3>1. PICK i \in DOMAIN p.items :
              p.items[i].status = "completed" /\ p.items[i].concept = c
      BY <2>2
    <3>2. p.items[i].when = day
      BY <1>6, <2>2, <3>1 DEF CarriedToday, Carried
    <3> QED BY <2>2, <3>1, <3>2
  <2> QED BY <1>7, <2>1, <2>2
<1>9. \A x \in plans' : Shows(x)' /\ Whole(x)'
  <2> SUFFICES ASSUME NEW x, x = p PROVE Shows(x)' /\ Whole(x)'
    BY <1>2
  <2> QED BY <1>1, <1>6, <1>8 DEF Shows, Whole, IsItem
<1> QED BY <1>2, <1>4, <1>5, <1>7, <1>9 DEF Remembers

\* A changed item is shown as it is now; the other requests' items are still there.
LEMMA CommitEditKeeps ==
    ASSUME Keeps, PatchesRace = FALSE, NEW r \in Requests, CommitEdit(r)
    PROVE  Apart' /\ Remembers'
<1> DEFINE place == CHOOSE k \in draft[r].touched : TRUE
           item  == draft[r].plan.items[place]
           new(p) == IF p.id = draft[r].old THEN [p EXCEPT !.items[place] = item] ELSE p
<1>1. /\ pc[r] = "editing" /\ Leave(r) /\ day' = day
      /\ plans' = {new(x) : x \in plans}
      /\ acted' = [acted EXCEPT ![item.concept] =
             IF item.status \in Carried /\ item.when = day THEN item.status ELSE "nothing"]
  BY DEF CommitEdit
<1>2. PICK k \in Names :
          /\ draft[r].touched = {k}
          /\ \A x \in plans : /\ k \in DOMAIN x.items
                              /\ x.items[k].concept = draft[r].plan.items[k].concept
          /\ IsItem(draft[r].plan.items[k])
  BY <1>1 DEF Keeps, Apart
<1>3. place = k
  BY <1>2
<1>4. PICK p \in plans : p.id = draft[r].old
  BY <1>1 DEF Keeps, Apart
<1>5. plans = {p} /\ Shaped(p) /\ Shows(p) /\ Whole(p)
  BY DEF Keeps, Serial, OneActivePlan, Shape, Remembers
<1>6. k \in DOMAIN p.items /\ p.items[k].concept = item.concept /\ IsItem(item)
  BY <1>2, <1>3, <1>5
<1> DEFINE q == [p EXCEPT !.items[place] = item]
<1>7. plans' = {q}
  BY <1>1, <1>4, <1>5
<1> HIDE DEF item, place
<1>8. q.id = p.id /\ q.items = [p.items EXCEPT ![k] = item] /\ DOMAIN q.items = DOMAIN p.items
  BY <1>3, <1>5, EditedPlan
<1> HIDE DEF q
<1>9. q.items[k] = item /\ \A i \in DOMAIN p.items \ {k} : q.items[i] = p.items[i]
  BY <1>6, <1>8
<1>10. \A i \in DOMAIN q.items : IsItem(q.items[i]) /\ q.items[i].concept = p.items[i].concept
  BY <1>5, <1>6, <1>8, <1>9 DEF Whole
<1>11. /\ \A x \in Requests : pc'[x] = IF x = r THEN "done" ELSE pc[x]
       /\ \A x \in Requests \ {r} : draft'[x] = draft[x]
  BY <1>1, LeaveFacts DEF Keeps, Serial, Running
<1>12. \A x \in Requests : pc'[x] # "ready"
  BY <1>1, <1>11 DEF Keeps, Apart
<1>13. Apart'
  <2> SUFFICES ASSUME NEW x \in Requests, pc'[x] = "editing"
               PROVE  /\ q.id = draft'[x].old
                      /\ \E n \in Names :
                            /\ draft'[x].touched = {n}
                            /\ n \in DOMAIN q.items
                            /\ q.items[n].concept = draft'[x].plan.items[n].concept
                            /\ IsItem(draft'[x].plan.items[n])
    BY <1>7, <1>12 DEF Apart, IsItem
  <2>1. pc[x] = "editing" /\ draft'[x] = draft[x]
    BY <1>11
  <2>2. p.id = draft[x].old
    BY <1>5, <2>1 DEF Keeps, Apart
  <2>3. PICK n \in Names :
            /\ draft[x].touched = {n}
            /\ \A y \in plans : /\ n \in DOMAIN y.items
                                /\ y.items[n].concept = draft[x].plan.items[n].concept
            /\ IsItem(draft[x].plan.items[n])
    BY <2>1 DEF Keeps, Apart
  <2>4. n \in DOMAIN p.items /\ p.items[n].concept = draft[x].plan.items[n].concept
    BY <1>5, <2>3
  <2> QED BY <1>8, <1>10, <2>1, <2>2, <2>3, <2>4
<1>14. acted' \in [Concepts -> Carried \cup {"nothing"}]
  BY <1>1 DEF Keeps, Remembers
<1>15. ASSUME NEW c \in Concepts, acted'[c] # "nothing"
       PROVE  \E i \in DOMAIN q.items :
                 /\ q.items[i].concept = c
                 /\ q.items[i].status = acted'[c]
                 /\ q.items[i].when = day
  <2>1. CASE c = item.concept
    <3>1. acted'[c] = item.status /\ item.when = day
      BY <1>1, <1>15, <2>1 DEF Keeps, Remembers
    <3> QED BY <1>6, <1>8, <1>9, <2>1, <3>1
  <2>2. CASE c # item.concept
    <3>1. acted'[c] = acted[c]
      BY <1>1, <2>2 DEF Keeps, Remembers
    <3>2. PICK i \in DOMAIN p.items :
              /\ p.items[i].concept = c
              /\ p.items[i].status = acted[c]
              /\ p.items[i].when = day
      BY <1>5, <1>15, <3>1 DEF Shows
    <3>3. i # k
      BY <1>6, <2>2, <3>2
    <3> QED BY <1>8, <1>9, <3>1, <3>2, <3>3
  <2> QED BY <2>1, <2>2
<1>16. \A x \in plans' : Shows(x)' /\ Whole(x)'
  <2> SUFFICES ASSUME NEW x, x = q PROVE Shows(x)' /\ Whole(x)'
    BY <1>7
  <2> QED BY <1>1, <1>10, <1>15 DEF Shows, Whole, IsItem
<1> QED BY <1>7, <1>12, <1>13, <1>14, <1>16 DEF Remembers

\* At midnight today's actions become yesterday's.
LEMMA NextDayKeeps == ASSUME Keeps, NextDay PROVE Apart' /\ Remembers'
<1>1. /\ UNCHANGED <<plans, pc, draft>>
      /\ acted' = [c \in Concepts |-> "nothing"]
  BY DEF NextDay, requests
<1>2. Apart'
  BY <1>1 DEF Keeps, Apart, IsItem
<1>3. \A x : Shows(x)'
  BY <1>1 DEF Shows
<1>4. Remembers'
  BY <1>1, <1>3 DEF Keeps, Remembers, Whole, IsItem, CarriedToday
<1> QED BY <1>2, <1>4

LEMMA KeepsNext == ASSUME PatchesRace = FALSE PROVE Keeps /\ [Next]_vars => Keeps'
<1> SUFFICES ASSUME Keeps, [Next]_vars PROVE Keeps'
  OBVIOUS
<1>1. Serial'
  BY SerialNext DEF Keeps
<1>2. CASE UNCHANGED vars
  <2>1. UNCHANGED <<day, plans, acted, pc, draft>>
    BY <1>2 DEF vars, database, requests, history
  <2>2. Apart' /\ Remembers'
    BY <2>1, FrameKeeps
  <2> QED BY <1>1, <2>2 DEF Keeps
<1>3. CASE Next
  <2>1. CASE NextDay
    BY <1>1, <2>1, NextDayKeeps DEF Keeps
  <2>2. CASE \E r \in Requests :
                 \/ AskToRegenerate(r) \/ ReadPlan(r) \/ ChangeGoal(r)
                 \/ EndSession(r) \/ StartDaily(r) \/ EditItem(r)
                 \/ Prepare(r) \/ Commit(r) \/ CommitEdit(r) \/ BreakDeadlock(r) \/ Fail(r)
    <3>1. PICK r \in Requests :
                 \/ AskToRegenerate(r) \/ ReadPlan(r) \/ ChangeGoal(r)
                 \/ EndSession(r) \/ StartDaily(r) \/ EditItem(r)
                 \/ Prepare(r) \/ Commit(r) \/ CommitEdit(r) \/ BreakDeadlock(r) \/ Fail(r)
      BY <2>2
    <3>2. Apart' /\ Remembers'
      BY <3>1, ArriveKeeps, EditKeeps, PrepareKeeps, CommitKeeps, CommitEditKeeps, FailKeeps
    <3> QED BY <1>1, <3>2 DEF Keeps
  <2> QED BY <1>3, <2>1, <2>2 DEF Next
<1> QED BY <1>2, <1>3

\* If items do not change while a plan is being made, nothing the student completed or
\* skipped today disappears from the plan before midnight.
THEOREM TodayIsVisible == ASSUME PatchesRace = FALSE PROVE Spec => []TodaysActionsKept
<1>1. Init => Keeps
  BY SerialInit, KeepsInit DEF Keeps
<1>2. Keeps /\ [Next]_vars => Keeps'
  BY KeepsNext
<1>3. Keeps => TodaysActionsKept
  BY DEF Keeps, Remembers, Shows, TodaysActionsKept
<1> QED BY <1>1, <1>2, <1>3, PTL DEF Spec

----------------------------------------------------------------------------
(* What was done today is not asked for again today *)

\* Where a plan made today has two items for a concept, what is open waits for tomorrow,
\* unless the student put the concept back.
RestedOn(p, today, back) ==
    p.made = today =>
        \A j, k \in DOMAIN p.items :
            /\ j # k /\ p.items[j].concept = p.items[k].concept
            /\ p.items[j].concept \notin back
            /\ p.items[j].status \in Open
            => p.items[j].date > today

Rested(p) == RestedOn(p, day, moved)

\* No plan is from the future, so that at midnight none is today's.
Resting ==
    /\ \A p \in plans : p.made <= day /\ Rested(p)
    /\ \A r \in Requests : pc[r] = "ready" =>
           draft[r].plan.made <= day /\ Rested(draft[r].plan)

Rests == Typed /\ Keeps /\ Resting

\* Two items of a new plan for one concept: one of them was done today, and the other is new.
LEMMA NewPlanRested ==
    ASSUME day \in Nat, student \in [Concepts -> Standings],
           NEW r \in Ids, NEW gs \in [Goals -> GoalRows \cup {NoGoal}], NEW items
    PROVE  Rested(NewPlan(r, gs, items))
<1> DEFINE p == NewPlan(r, gs, items)
           kept == Kept(items, day)
           new == NewConcepts(gs, items)
<1>1. /\ DOMAIN p.items = kept \cup {<<r, c>> : c \in new}
      /\ \A k \in kept : p.items[k] = items[k]
      /\ \A c \in new : <<r, c>> \notin kept => p.items[<<r, c>>] = NewItem(c, gs, items)
  BY NewPlanItems
<1>2. \A c \in new :
          /\ NewItem(c, gs, items).concept = c
          /\ c \in {items[k].concept : k \in kept} => NewItem(c, gs, items).date > day
  BY NewItemFacts
<1>3. \A k \in kept : items[k].status \notin Open
  BY DEF Kept, Open, Carried
<1> HIDE DEF p, kept, new
<1>4. ASSUME NEW j \in DOMAIN p.items, NEW k \in DOMAIN p.items, j # k,
             p.items[j].concept = p.items[k].concept, p.items[j].status \in Open
      PROVE  p.items[j].date > day
  <2>1. j \notin kept
    BY <1>1, <1>3, <1>4
  <2>2. PICK c \in new : j = <<r, c>>
    BY <1>1, <2>1
  <2>3. p.items[j] = NewItem(c, gs, items) /\ p.items[j].concept = c
    BY <1>1, <1>2, <2>1, <2>2
  <2>4. k \in kept
    <3>1. SUFFICES ASSUME k \notin kept PROVE FALSE
      OBVIOUS
    <3>2. PICK e \in new : k = <<r, e>>
      BY <1>1, <3>1
    <3>3. p.items[k].concept = e
      BY <1>1, <1>2, <3>1, <3>2
    <3> QED BY <1>4, <2>2, <2>3, <3>2, <3>3
  <2>5. items[k].concept = c
    BY <1>1, <1>4, <2>3, <2>4
  <2>6. c \in {items[n].concept : n \in kept}
    BY <2>4, <2>5
  <2> QED BY <1>2, <2>3, <2>6
<1> QED BY <1>4 DEF Rested, RestedOn, p

LEMMA InitResting == Init => Resting
<1> SUFFICES ASSUME Init PROVE Resting
  OBVIOUS
<1>1. goals \in [Goals -> GoalRows \cup {NoGoal}] /\ day \in Nat /\ student \in [Concepts -> Standings]
  BY InitTyped DEF Typed, TypeOK
<1>2. NewPlan(0, goals, <<>>).made = day /\ Rested(NewPlan(0, goals, <<>>))
  <2>1. NewPlan(0, goals, <<>>).made = day
    BY NewPlanItems
  <2>2. 0 \in Ids
    BY DEF Ids
  <2> QED BY <1>1, <2>1, <2>2, NewPlanRested
<1>3. \A p \in plans : p.made <= day /\ Rested(p)
  BY <1>1, <1>2 DEF Init
<1> QED BY <1>3 DEF Init, Resting

\* A step of the same day that changes no plan, but may put concepts back.
LEMMA FrameRests ==
    ASSUME Rests, UNCHANGED <<day, plans, moved>>,
           \A q \in Requests : pc'[q] = "ready" => pc[q] = "ready" /\ draft'[q] = draft[q]
    PROVE  Resting'
<1>1. \A p : Rested(p)' <=> Rested(p)
  BY DEF Rested
<1> QED BY <1>1 DEF Rests, Resting

LEMMA PrepareRests == ASSUME Rests, NEW r \in Requests, Prepare(r) PROVE Resting'
<1> DEFINE due   == Due(Current, job[r].covered, job[r].attempted)
           items == Ticked(Current.items, due)
           p     == NewPlan(r, GoalsAfter(r), items)
<1>1. /\ UNCHANGED <<day, plans, moved>> /\ advisory = Nobody /\ Go(r, "ready")
      /\ draft' = [draft EXCEPT ![r] = [old |-> IF plans = {} THEN -1 ELSE Current.id,
                                        touched |-> due, plan |-> p]]
  BY DEF Prepare, SeenGoals, database, history
<1>2. Rested(p) /\ p.made = day
  <2> DEFINE gs == GoalsAfter(r)
  <2>1. gs \in [Goals -> GoalRows \cup {NoGoal}] /\ day \in Nat /\ student \in [Concepts -> Standings]
    BY GoalsAfterType DEF Rests, Typed, TypeOK
  <2> HIDE DEF items, gs
  <2> QED BY <2>1, NewPlanRested, NewPlanItems DEF gs
<1>3. \A q \in Requests : pc'[q] = "ready" => q = r
  BY <1>1, RequestAssumption DEF Go, Rests, Keeps, Serial, Shape, Locking
<1>4. draft'[r].plan = p
  BY <1>1 DEF Rests, Typed, TypeOK
<1> HIDE DEF p
<1>5. \A x : Rested(x)' <=> Rested(x)
  BY <1>1 DEF Rested
<1>6. \A x \in plans' : x.made <= day' /\ Rested(x)'
  BY <1>1, <1>5 DEF Rests, Resting
<1>7. \A q \in Requests : pc'[q] = "ready" =>
          (draft[q].plan.made)' <= day' /\ Rested(draft[q].plan)'
  <2>1. day \in Nat
    BY DEF Rests, Typed, TypeOK
  <2>2. ASSUME NEW q \in Requests, pc'[q] = "ready"
        PROVE  (draft[q].plan.made)' <= day' /\ Rested(draft[q].plan)'
    <3>1. draft'[q].plan = p
      BY <1>3, <1>4, <2>2
    <3>2. RestedOn(p, day', moved')
      BY <1>1, <1>2 DEF Rested
    <3> QED BY <1>1, <1>2, <2>1, <3>1, <3>2 DEF Rested
  <2> QED BY <2>2
<1> QED BY <1>6, <1>7 DEF Resting

LEMMA CommitRests == ASSUME Rests, NEW r \in Requests, Commit(r) PROVE Resting'
<1>1. /\ pc[r] = "ready" /\ Leave(r) /\ UNCHANGED <<day, moved>>
      /\ plans' = {x \in plans : x.id # draft[r].old} \cup {draft[r].plan}
  BY DEF Commit
<1>2. \A q \in Requests : pc'[q] # "ready"
  <2>1. \A q \in Requests : pc'[q] = IF q = r THEN "done" ELSE pc[q]
    BY <1>1, LeaveFacts DEF Rests, Keeps, Serial, Running
  <2> QED BY <1>1, <2>1 DEF Rests, Keeps, Serial, Locking
<1>3. \A x : Rested(x)' <=> Rested(x)
  BY <1>1 DEF Rested
<1> QED BY <1>1, <1>2, <1>3 DEF Rests, Resting

\* An item that is changed and stays open is one that the student put back.
LEMMA CommitEditRests == ASSUME Rests, NEW r \in Requests, CommitEdit(r) PROVE Resting'
<1> DEFINE place == CHOOSE k \in draft[r].touched : TRUE
           item  == draft[r].plan.items[place]
           new(p) == IF p.id = draft[r].old THEN [p EXCEPT !.items[place] = item] ELSE p
<1>1. /\ pc[r] = "editing" /\ Leave(r) /\ day' = day
      /\ plans' = {new(x) : x \in plans}
      /\ moved' = IF item.status \in Open THEN moved \cup {item.concept} ELSE moved
  BY DEF CommitEdit
<1>2. PICK k \in Names :
          /\ draft[r].touched = {k}
          /\ \A x \in plans : /\ k \in DOMAIN x.items
                              /\ x.items[k].concept = draft[r].plan.items[k].concept
  BY <1>1 DEF Rests, Keeps, Apart
<1>3. place = k
  BY <1>2
<1>4. PICK p \in plans : p.id = draft[r].old
  BY <1>1 DEF Rests, Keeps, Apart
<1>5. plans = {p} /\ Shaped(p) /\ p.made <= day /\ Rested(p)
  BY DEF Rests, Resting, Keeps, Serial, OneActivePlan, Shape
<1>6. k \in DOMAIN p.items /\ p.items[k].concept = item.concept
  BY <1>2, <1>3, <1>5
<1> DEFINE q == [p EXCEPT !.items[place] = item]
<1>7. plans' = {q}
  BY <1>1, <1>4, <1>5
<1> HIDE DEF item, place
<1>8. q.made = p.made /\ q.items = [p.items EXCEPT ![k] = item] /\ DOMAIN q.items = DOMAIN p.items
  BY <1>3, <1>5, EditedPlan
<1> HIDE DEF q
<1>9. q.items[k] = item /\ \A i \in DOMAIN p.items \ {k} : q.items[i] = p.items[i]
  BY <1>6, <1>8
<1>10. RestedOn(q, day', moved')
  <2> SUFFICES ASSUME q.made = day,
                      NEW i \in DOMAIN q.items, NEW j \in DOMAIN q.items,
                      i # j, q.items[i].concept = q.items[j].concept,
                      q.items[i].concept \notin moved', q.items[i].status \in Open
               PROVE  q.items[i].date > day
    BY <1>1 DEF RestedOn
  <2>1. i # k
    BY <1>1, <1>9
  <2>2. q.items[i] = p.items[i] /\ q.items[j].concept = p.items[j].concept
    BY <1>6, <1>8, <1>9, <2>1
  <2>3. p.items[i].concept \notin moved
    BY <1>1, <2>2
  <2> QED BY <1>5, <1>8, <2>2, <2>3 DEF Rested, RestedOn
<1>11. \A x \in Requests : pc'[x] # "ready"
  <2>1. \A x \in Requests : pc'[x] = IF x = r THEN "done" ELSE pc[x]
    BY <1>1, LeaveFacts DEF Rests, Keeps, Serial, Running
  <2> QED BY <1>1, <2>1 DEF Rests, Keeps, Apart
<1>12. \A x \in plans' : x.made <= day' /\ Rested(x)'
  <2> SUFFICES ASSUME NEW x, x = q PROVE x.made <= day /\ Rested(x)'
    BY <1>1, <1>7
  <2> QED BY <1>5, <1>8, <1>10 DEF Rested
<1> QED BY <1>11, <1>12 DEF Resting

\* At midnight there is no plan for today any more.
LEMMA NextDayRests == ASSUME Rests, NextDay PROVE Resting'
<1>1. day' = day + 1 /\ UNCHANGED <<plans, pc, draft>>
  BY DEF NextDay, requests
<1>2. ASSUME NEW p, p.made \in Int, p.made <= day PROVE p.made <= day' /\ Rested(p)'
  <2>1. day \in Nat
    BY DEF Rests, Typed, TypeOK
  <2>2. p.made # day' /\ p.made <= day'
    BY <1>1, <1>2, <2>1
  <2> QED BY <2>2 DEF Rested, RestedOn
<1>3. \A p \in plans : p.made \in Int /\ p.made <= day
  BY DEF Rests, Resting, Typed, TypeOK, IsPlan
<1>4. \A r \in Requests : pc[r] = "ready" =>
          draft[r].plan.made \in Int /\ draft[r].plan.made <= day
  BY DEF Rests, Resting, Typed, TypeOK, IsDraft, IsPlan
<1>5. \A r \in Requests : pc'[r] = "ready" =>
          (draft[r].plan.made)' <= day' /\ Rested(draft[r].plan)'
  <2>1. ASSUME NEW r \in Requests, pc'[r] = "ready"
        PROVE  (draft[r].plan.made)' <= day' /\ Rested(draft[r].plan)'
    <3>1. draft[r].plan.made \in Int /\ draft[r].plan.made <= day /\ draft' = draft
      BY <1>1, <1>4, <2>1
    <3>2. draft[r].plan.made <= day' /\ draft[r].plan.made # day'
      BY <1>1, <3>1 DEF Rests, Typed, TypeOK
    <3> QED BY <3>1, <3>2 DEF Rested, RestedOn
  <2> QED BY <2>1
<1>6. \A p \in plans' : p.made <= day' /\ Rested(p)'
  <2>1. ASSUME NEW p \in plans PROVE p.made <= day' /\ Rested(p)'
    BY <1>2, <1>3
  <2> QED BY <1>1, <2>1
<1> QED BY <1>5, <1>6 DEF Resting

LEMMA RestsNext == ASSUME PatchesRace = FALSE PROVE Rests /\ [Next]_vars => Rests'
<1> SUFFICES ASSUME Rests, [Next]_vars PROVE Resting'
  BY TypedNext, KeepsNext DEF Rests
<1>1. ASSUME NEW r \in Requests,
             \/ AskToRegenerate(r) \/ ReadPlan(r) \/ ChangeGoal(r)
             \/ EndSession(r) \/ StartDaily(r) \/ EditItem(r)
      PROVE  Resting'
  <2>1. Go(r, "waiting") \/ Go(r, "done") \/ Go(r, "editing")
    BY <1>1 DEF AskToRegenerate, ReadPlan, ChangeGoal, EndSession, StartDaily, EditItem, Start
  <2>2. UNCHANGED <<day, plans, moved>> /\ \A q \in Requests \ {r} : draft'[q] = draft[q]
    BY <1>1 DEF AskToRegenerate, ReadPlan, ChangeGoal, EndSession, StartDaily, EditItem,
                database, history, Rests, Typed, TypeOK
  <2>3. \A q \in Requests : pc'[q] = "ready" => q # r /\ pc[q] = "ready"
    BY <2>1 DEF Go, Rests, Typed, TypeOK
  <2> QED BY <2>2, <2>3, FrameRests
<1>2. ASSUME NEW r \in Requests, BreakDeadlock(r) \/ Fail(r) PROVE Resting'
  <2>1. Running(r) /\ Leave(r) /\ UNCHANGED <<day, plans, moved>>
    BY <1>2 DEF BreakDeadlock, Fail, Deadlocked, Running, database, history
  <2>2. /\ \A q \in Requests : pc'[q] = IF q = r THEN "done" ELSE pc[q]
        /\ \A q \in Requests \ {r} : draft'[q] = draft[q]
    BY <2>1, LeaveFacts DEF Rests, Keeps, Serial
  <2> QED BY <2>1, <2>2, FrameRests
<1>3. CASE UNCHANGED vars
  BY <1>3, FrameRests DEF vars, database, requests, history
<1>4. CASE NextDay
  BY <1>4, NextDayRests
<1>5. CASE \E r \in Requests :
              \/ AskToRegenerate(r) \/ ReadPlan(r) \/ ChangeGoal(r)
              \/ EndSession(r) \/ StartDaily(r) \/ EditItem(r)
              \/ Prepare(r) \/ Commit(r) \/ CommitEdit(r) \/ BreakDeadlock(r) \/ Fail(r)
  BY <1>1, <1>2, <1>5, PrepareRests, CommitRests, CommitEditRests
<1> QED BY <1>3, <1>4, <1>5 DEF Next

\* If items do not change while a plan is being made, what the student completed or
\* skipped today is not asked for again today, unless the student put it back.
THEOREM DoneForToday == ASSUME PatchesRace = FALSE PROVE Spec => []NotDueAgainToday
<1>1. Init => Rests
  BY InitTyped, SerialInit, KeepsInit, InitResting DEF Rests, Keeps
<1>2. Rests /\ [Next]_vars => Rests'
  BY RestsNext
<1>3. Rests => NotDueAgainToday
  <2> SUFFICES ASSUME Rests, NEW p \in plans, NEW c \in Concepts \ moved,
                      p.made = day, acted[c] # "nothing",
                      NEW i \in DOMAIN p.items, p.items[i].concept = c, p.items[i].status \in Open
               PROVE  p.items[i].date > day
    BY DEF NotDueAgainToday
  <2>1. PICK k \in DOMAIN p.items : p.items[k].concept = c /\ p.items[k].status = acted[c]
    BY DEF Rests, Keeps, Remembers, Shows
  <2>2. acted[c] \in Carried
    BY DEF Rests, Keeps, Remembers
  <2>3. i # k
    BY <2>1, <2>2 DEF Open, Carried
  <2> QED BY <2>1, <2>3 DEF Rests, Resting, Rested, RestedOn
<1> QED BY <1>1, <1>2, <1>3, PTL DEF Spec

----------------------------------------------------------------------------
(* Every plan that is made meets its deadlines and its prerequisites *)

LEMMA DivisionIsMonotone ==
    ASSUME NEW a \in Nat, NEW b \in Nat, a <= b, NEW n \in Nat \ {0}
    PROVE  a \div n <= b \div n
<1> DEFINE x == a \div n
           y == b \div n
<1>1. x \in Int /\ y \in Int /\ n * x <= a /\ b < n * (y + 1)
  OBVIOUS
<1> HIDE DEF x, y
<1>2. n * x < n * (y + 1)
  BY <1>1
<1>3. x < y + 1
  BY <1>1, <1>2
<1> QED BY <1>1, <1>3 DEF x, y

\* At so many a day, the last of n is learned within the days there are.
LEMMA PaceIsEnough ==
    ASSUME NEW n \in Nat \ {0}, NEW days \in Nat \ {0}, NEW k \in Nat, k < n
    PROVE  k \div Later(1, (n + days - 1) \div days) <= days - 1
<1> DEFINE q    == (n + days - 1) \div days
           pace == Later(1, q)
           m    == k \div pace
<1>1. q \in Int /\ n + days - 1 < days * (q + 1)
  OBVIOUS
<1> HIDE DEF q
<1>2. pace \in Nat \ {0} /\ q <= pace
  BY <1>1 DEF Later
<1> HIDE DEF pace
<1>3. m \in Nat /\ pace * m <= k
  BY <1>2
<1> HIDE DEF m
<1>4. n <= days * q
  <2>1. days * (q + 1) = days * q + days /\ days * q \in Int
    BY <1>1
  <2> QED BY <1>1, <2>1
<1>5. days * q <= days * pace
  BY <1>1, <1>2
<1>6. pace * m < pace * days
  <2>1. days * pace = pace * days /\ days * pace \in Int /\ days * q \in Int /\ pace * m \in Int
    BY <1>1, <1>2, <1>3
  <2> QED BY <1>3, <1>4, <1>5, <2>1
<1>7. m < days
  BY <1>2, <1>3, <1>6
<1> QED BY <1>3, <1>7 DEF m, pace, q

\* A goal asks for what it has left to learn by its target date, or today.
LEMMA LearnedInTime ==
    ASSUME NEW g \in GoalRows, NEW st, NEW c \in ToLearn(g, st), NEW today \in Int,
           NEW d \in LearnDates(g, c, st, today), g.target # NoDate
    PROVE  d <= Later(g.target, today)
<1> DEFINE n == Cardinality(ToLearn(g, st))
           k == Place(g, c, st)
           days == Later(1, g.target - today + 1)
<1>1. d = today + k \div Pace(g, st, today)
  BY LearnDatesFacts
<1>2. n \in Nat \ {0} /\ k \in Nat /\ k < n
  BY PlaceFacts
<1>3. g.target \in Int
  BY DEF GoalRows
<1>4. days \in Nat \ {0} /\ today + (days - 1) = Later(g.target, today)
  BY <1>3 DEF Later
<1>5. Pace(g, st, today) = Later(1, (n + days - 1) \div days)
  BY <1>2 DEF Pace, PaceFor
<1> HIDE DEF n, k, days
<1>6. k \div Pace(g, st, today) <= days - 1
  BY <1>2, <1>4, <1>5, PaceIsEnough
<1>7. k \div Pace(g, st, today) \in Int
  <2>1. Pace(g, st, today) \in Nat \ {0}
    BY <1>2, <1>3, PaceFacts DEF Pace, n
  <2> QED BY <1>2, <2>1
<1> QED BY <1>1, <1>4, <1>6, <1>7

\* What is asked for in a new plan is what it adds; what was done is what it keeps.
LEMMA NewPlanAsks ==
    ASSUME day \in Nat, student \in [Concepts -> Standings],
           NEW r \in Ids, NEW gs \in [Goals -> GoalRows \cup {NoGoal}],
           NEW items, \A c : <<r, c>> \notin Kept(items, day)
    PROVE  LET p == NewPlan(r, gs, items)
           IN  /\ p.goals = gs
               /\ DoneIn(p) = {items[k].concept : k \in Kept(items, day)}
               /\ \A c : Asked(p, c) =
                      {NewItem(x, gs, items).date : x \in {c} \cap NewConcepts(gs, items)}
<1> DEFINE p == NewPlan(r, gs, items)
           kept == Kept(items, day)
           new == NewConcepts(gs, items)
           item(c) == NewItem(c, gs, items)
<1>1. /\ p.goals = gs
      /\ DOMAIN p.items = kept \cup {<<r, c>> : c \in new}
      /\ \A k \in kept : p.items[k] = items[k]
      /\ \A c \in new : <<r, c>> \notin kept => p.items[<<r, c>>] = item(c)
  BY NewPlanItems
<1>2. \A c \in new : item(c).concept = c /\ item(c).status \in Open
  BY NewItemFacts
<1>3. \A k \in kept : items[k].status \in Carried
  BY DEF Kept
<1>4. \A s : ~(s \in Open /\ s \in Carried)
  BY DEF Open, Carried
<1>5. \A c : <<r, c>> \notin kept
  OBVIOUS
<1> HIDE DEF p, kept, new, item
<1>6. \A c \in new : <<r, c>> \in DOMAIN p.items /\ p.items[<<r, c>>] = item(c)
  BY <1>1, <1>5
<1>7. {k \in DOMAIN p.items : p.items[k].status \in Carried} = kept
  BY <1>1, <1>2, <1>3, <1>4, <1>6
<1>8. DoneIn(p) = {items[k].concept : k \in kept}
  BY <1>1, <1>7 DEF DoneIn
<1>9. ASSUME NEW c PROVE Asked(p, c) = {item(x).date : x \in {c} \cap new}
  <2>1. {k \in DOMAIN p.items : p.items[k].concept = c /\ p.items[k].status \in Open}
            = {<<r, x>> : x \in {c} \cap new}
    BY <1>1, <1>2, <1>3, <1>4, <1>6
  <2>2. Asked(p, c) = {p.items[i].date : i \in {<<r, x>> : x \in {c} \cap new}}
    BY <2>1 DEF Asked
  <2>3. \A x \in {c} \cap new : p.items[<<r, x>>].date = item(x).date
    BY <1>6
  <2> QED BY <2>2, <2>3
<1> QED BY <1>1, <1>8, <1>9 DEF p, kept, new, item

\* What is left of a goal is asked for on the days the goal gives it, rest apart.
LEMMA GoalIsAsked ==
    ASSUME day \in Nat, student \in [Concepts -> Standings],
           NEW gs \in [Goals -> GoalRows \cup {NoGoal}], NEW items,
           NEW g \in Active(gs), NEW c \in ToLearn(g, student)
    PROVE  LET done == {items[k].concept : k \in Kept(items, day)}
           IN  /\ c \in Concepts /\ g \in GoalRows
               /\ \E d \in LearnDates(g, c, student, day) :
                     Rest(d, c, day, done) \in NewDates(c, gs, items)
<1>1. g \in GoalRows
  BY DEF Active
<1>2. c \in Concepts
  BY <1>1 DEF ToLearn, GoalRows
<1>3. PICK d : d \in LearnDates(g, c, student, day)
  <2>1. day + Place(g, c, student) \div Pace(g, student, day) \in LearnDates(g, c, student, day)
    BY <1>1, LearnDatesFacts
  <2> QED BY <2>1
<1>4. Rest(d, c, day, {items[k].concept : k \in Kept(items, day)}) \in NewDates(c, gs, items)
  BY <1>3 DEF NewDates, Dates
<1> QED BY <1>1, <1>2, <1>3, <1>4

LEMMA NewPlanInTime ==
    ASSUME day \in Nat, student \in [Concepts -> Standings],
           NEW r \in Ids, NEW gs \in [Goals -> GoalRows \cup {NoGoal}],
           NEW items, \A c : <<r, c>> \notin Kept(items, day)
    PROVE  MeetsDeadlines(NewPlan(r, gs, items))
<1> DEFINE p == NewPlan(r, gs, items)
           done == {items[k].concept : k \in Kept(items, day)}
<1>1. /\ p.goals = gs /\ DoneIn(p) = done
      /\ \A c : Asked(p, c) = {NewItem(x, gs, items).date : x \in {c} \cap NewConcepts(gs, items)}
  BY NewPlanAsks
<1> HIDE DEF p
<1> SUFFICES ASSUME NEW g \in Active(gs), NEW c \in g.concepts, ~student[c].learned
             PROVE  \E d \in Asked(p, c) : g.target # NoDate =>
                        d <= Later(g.target, IF c \in done THEN day + 1 ELSE day)
  BY <1>1 DEF MeetsDeadlines, p
<1>2. c \in ToLearn(g, student)
  BY DEF ToLearn
<1>3. PICK d \in LearnDates(g, c, student, day) : Rest(d, c, day, done) \in NewDates(c, gs, items)
  BY <1>2, GoalIsAsked
<1>4. c \in Concepts /\ g \in GoalRows
  BY <1>2, GoalIsAsked
<1>5. c \in NewConcepts(gs, items)
  BY <1>3, <1>4 DEF NewConcepts
<1> DEFINE f == NewItem(c, gs, items).date
<1>6. f \in Asked(p, c)
  BY <1>1, <1>5
<1>7. f \in Int /\ Rest(d, c, day, done) \in Int /\ f <= Rest(d, c, day, done)
  BY <1>3, <1>5, NewItemFacts
<1>8. d \in Int /\ day <= d
  BY <1>4, LearnDatesFacts
<1> HIDE DEF f, done
<1>9. ASSUME g.target # NoDate PROVE f <= Later(g.target, IF c \in done THEN day + 1 ELSE day)
  <2>1. d <= Later(g.target, day) /\ g.target \in Int
    BY <1>2, <1>4, <1>9, LearnedInTime DEF GoalRows
  <2> QED BY <1>7, <1>8, <2>1 DEF Rest, Later
<1> QED BY <1>6, <1>9

LEMMA NewPlanInOrder ==
    ASSUME Acyclic, day \in Nat, student \in [Concepts -> Standings],
           NEW r \in Ids, NEW gs \in [Goals -> GoalRows \cup {NoGoal}],
           NEW items, \A c : <<r, c>> \notin Kept(items, day)
    PROVE  PrerequisitesFirst(NewPlan(r, gs, items))
<1> DEFINE p == NewPlan(r, gs, items)
           done == {items[k].concept : k \in Kept(items, day)}
<1>1. /\ p.goals = gs /\ DoneIn(p) = done
      /\ \A c : Asked(p, c) = {NewItem(x, gs, items).date : x \in {c} \cap NewConcepts(gs, items)}
  BY NewPlanAsks
<1> HIDE DEF p, done
<1> SUFFICES ASSUME NEW e \in Prerequisites,
                    \A g \in Active(gs) : e[2] \in g.concepts => e[1] \in g.concepts,
                    \A c \in {e[1], e[2]} : /\ ~student[c].learned /\ c \notin done
                                            /\ ReviewDates(c, student, day) = {},
                    NEW d \in Asked(p, e[1]), NEW f \in Asked(p, e[2])
             PROVE  d <= f
  BY <1>1 DEF PrerequisitesFirst, p
<1> DEFINE x == e[1]
           y == e[2]
<1>2. <<x, y>> \in Prerequisites
  BY GraphAssumption
<1>3. /\ \A g \in Active(gs) : y \in g.concepts => x \in g.concepts
      /\ ~student[x].learned /\ x \notin done /\ y \notin done
      /\ ReviewDates(y, student, day) = {}
  OBVIOUS
<1>4. /\ x \in NewConcepts(gs, items) /\ d = NewItem(x, gs, items).date
      /\ y \in NewConcepts(gs, items) /\ f = NewItem(y, gs, items).date
  BY <1>1
<1> HIDE DEF x, y
<1>5. /\ \A n \in NewDates(x, gs, items) : n \in Int /\ d <= n
      /\ f \in NewDates(y, gs, items) /\ d \in NewDates(x, gs, items)
  BY <1>4, NewItemFacts
<1>6. PICK g \in Active(gs) : f \in LearnDates(g, y, student, day)
  <2>1. PICK n : /\ n \in (UNION {LearnDates(g, y, student, day) : g \in Active(gs)})
                              \cup ReviewDates(y, student, day)
                 /\ f = Rest(n, y, day, done)
    BY <1>5 DEF NewDates, Dates, done
  <2>2. f = n
    BY <1>3, <2>1 DEF Rest
  <2> QED BY <1>3, <2>1, <2>2
<1>7. g \in GoalRows
  BY DEF Active
<1>8. y \in ToLearn(g, student) /\ f = day + Place(g, y, student) \div Pace(g, student, day)
  BY <1>6, <1>7, LearnDatesFacts
<1>9. x \in ToLearn(g, student) /\ x \in g.concepts /\ y \in g.concepts
  BY <1>3, <1>8 DEF ToLearn
<1>10. PICK n \in LearnDates(g, x, student, day) : Rest(n, x, day, done) \in NewDates(x, gs, items)
  BY <1>9, GoalIsAsked DEF done
<1>11. n = day + Place(g, x, student) \div Pace(g, student, day)
  BY <1>7, <1>10, LearnDatesFacts
<1>12. d <= n
  BY <1>3, <1>5, <1>10 DEF Rest
<1>13. Place(g, x, student) <= Place(g, y, student)
  <2> DEFINE left == ToLearn(g, student)
             xs == Before[g.concepts][x] \cap left
             ys == Before[g.concepts][y] \cap left
  <2>1. g.concepts \in SUBSET Concepts
    BY <1>7 DEF GoalRows
  <2>2. xs \subseteq ys
    BY <1>2, <1>9, <2>1, PrerequisiteFollowsLess
  <2>3. left \in SUBSET Concepts /\ ys \in SUBSET left
    BY <2>1 DEF ToLearn
  <2>4. IsFiniteSet(ys)
    BY <2>3, FS_Subset, GraphAssumption
  <2>5. Cardinality(xs) <= Cardinality(ys)
    BY <2>2, <2>4, FS_Subset
  <2> QED BY <2>5 DEF Place
<1>14. /\ Place(g, x, student) \in Nat /\ Place(g, y, student) \in Nat
       /\ Pace(g, student, day) \in Nat \ {0}
  <2>1. /\ Place(g, x, student) \in Nat /\ Place(g, y, student) \in Nat
        /\ Cardinality(ToLearn(g, student)) \in Nat
    BY <1>7, <1>8, <1>9, PlaceFacts
  <2>2. g.target \in Int \cup {NoDate} /\ day \in Int
    BY <1>7 DEF GoalRows
  <2> QED BY <2>1, <2>2, PaceFacts DEF Pace
<1>15. Place(g, x, student) \div Pace(g, student, day) <= Place(g, y, student) \div Pace(g, student, day)
  BY <1>13, <1>14, DivisionIsMonotone
<1>16. /\ Place(g, x, student) \div Pace(g, student, day) \in Int
       /\ Place(g, y, student) \div Pace(g, student, day) \in Int
  BY <1>14
<1> QED BY <1>5, <1>8, <1>11, <1>12, <1>15, <1>16

\* The items of committed plans are named by requests that are done, and those of a plan
\* about to be committed by them and its own: the names it adds are new.
NamesAreDone ==
    /\ \A p \in plans : \A k \in DOMAIN p.items : k[1] \in Requests => pc[k[1]] = "done"
    /\ \A r \in Requests : pc[r] = "ready" =>
           \A k \in DOMAIN draft[r].plan.items :
               k[1] \in Requests \ {r} => pc[k[1]] = "done"

NamesTyped == Typed /\ NamesAreDone

LEMMA InitNames == Init => NamesAreDone
<1> SUFFICES ASSUME Init PROVE NamesAreDone
  OBVIOUS
<1>1. \A k \in DOMAIN NewPlan(0, goals, <<>>).items : k[1] = 0
  <2>1. Kept(<<>>, day) = {}
    BY DEF Kept
  <2>2. DOMAIN NewPlan(0, goals, <<>>).items =
            Kept(<<>>, day) \cup {<<0, c>> : c \in NewConcepts(goals, <<>>)}
    BY NewPlanItems
  <2> QED BY <2>1, <2>2
<1> QED BY <1>1, RequestAssumption DEF Init, NamesAreDone

\* A step that only starts or ends requests.
LEMMA FrameNames ==
    ASSUME NamesTyped, plans' = plans,
           \A q \in Requests : pc[q] = "done" => pc'[q] = "done",
           \A q \in Requests : pc'[q] = "ready" => pc[q] = "ready" /\ draft'[q] = draft[q]
    PROVE  NamesAreDone'
  BY DEF NamesTyped, NamesAreDone

LEMMA LeaveNames ==
    ASSUME NamesTyped, NEW r \in Requests, Leave(r)
    PROVE  /\ \A q \in Requests : pc'[q] = IF q = r THEN "done" ELSE pc[q]
           /\ \A q \in Requests \ {r} : draft'[q] = draft[q]
  BY DEF Leave, Go, NamesTyped, Typed, TypeOK

\* What Prepare makes: none of the names that it adds is in use.
LEMMA PrepareMakes ==
    ASSUME NamesTyped, NEW r \in Requests, Prepare(r)
    PROVE  \E gs, items :
               /\ gs \in [Goals -> GoalRows \cup {NoGoal}]
               /\ draft'[r].plan = NewPlan(r, gs, items)
               /\ \A q \in Requests \ {r} : draft'[q] = draft[q]
               /\ \A k \in Kept(items, day) : k[1] \in Requests => pc[k[1]] = "done"
               /\ \A c : <<r, c>> \notin Kept(items, day)
<1> DEFINE due   == Due(Current, job[r].covered, job[r].attempted)
           items == Ticked(Current.items, due)
           gs    == GoalsAfter(r)
<1>1. /\ pc[r] = "waiting"
      /\ draft' = [draft EXCEPT ![r] = [old |-> IF plans = {} THEN -1 ELSE Current.id,
                                        touched |-> due, plan |-> NewPlan(r, gs, items)]]
  BY DEF Prepare, SeenGoals
<1>2. gs \in [Goals -> GoalRows \cup {NoGoal}]
  BY GoalsAfterType DEF NamesTyped
<1>3. \A k \in DOMAIN Current.items : k[1] \in Requests => pc[k[1]] = "done"
  BY CurrentFacts, NoPlanFacts DEF NamesTyped, NamesAreDone
<1>4. Kept(items, day) \subseteq DOMAIN Current.items
  BY TickedFacts DEF Kept
<1>5. \A c : <<r, c>> \notin Kept(items, day)
  <2> SUFFICES ASSUME NEW c, <<r, c>> \in Kept(items, day) PROVE FALSE
    OBVIOUS
  <2>1. <<r, c>>[1] = r
    OBVIOUS
  <2>2. pc[r] = "done"
    BY <1>3, <1>4, <2>1
  <2> QED BY <1>1, <2>2
<1>6. DOMAIN draft = Requests
  BY DEF NamesTyped, Typed, TypeOK
<1> HIDE DEF gs, items, due
<1>7. draft'[r].plan = NewPlan(r, gs, items) /\ \A q \in Requests \ {r} : draft'[q] = draft[q]
  BY <1>1, <1>6
<1> QED BY <1>2, <1>3, <1>4, <1>5, <1>7

LEMMA PrepareNames == ASSUME NamesTyped, NEW r \in Requests, Prepare(r) PROVE NamesAreDone'
<1>1. PICK gs, items :
          /\ gs \in [Goals -> GoalRows \cup {NoGoal}]
          /\ draft'[r].plan = NewPlan(r, gs, items)
          /\ \A q \in Requests \ {r} : draft'[q] = draft[q]
          /\ \A k \in Kept(items, day) : k[1] \in Requests => pc[k[1]] = "done"
  BY PrepareMakes
<1>2. DOMAIN NewPlan(r, gs, items).items =
          Kept(items, day) \cup {<<r, c>> : c \in NewConcepts(gs, items)}
  BY NewPlanItems
<1>3. \A k \in DOMAIN draft'[r].plan.items : k[1] \in Requests \ {r} => pc[k[1]] = "done"
  BY <1>1, <1>2
<1>4. /\ plans' = plans /\ pc[r] # "done"
      /\ \A q \in Requests : pc'[q] = IF q = r THEN "ready" ELSE pc[q]
  BY DEF Prepare, Go, database, NamesTyped, Typed, TypeOK
<1> QED BY <1>1, <1>3, <1>4 DEF NamesTyped, NamesAreDone

LEMMA CommitNames == ASSUME NamesTyped, NEW r \in Requests, Commit(r) PROVE NamesAreDone'
<1>1. /\ pc[r] = "ready" /\ Leave(r)
      /\ plans' = {p \in plans : p.id # draft[r].old} \cup {draft[r].plan}
  BY DEF Commit
<1>2. /\ \A q \in Requests : pc'[q] = IF q = r THEN "done" ELSE pc[q]
      /\ \A q \in Requests \ {r} : draft'[q] = draft[q]
  BY <1>1, LeaveNames
<1>3. \A k \in DOMAIN draft[r].plan.items : k[1] \in Requests => pc'[k[1]] = "done"
  BY <1>1, <1>2 DEF NamesTyped, NamesAreDone
<1>4. \A p \in plans' : \A k \in DOMAIN p.items : k[1] \in Requests => pc'[k[1]] = "done"
  BY <1>1, <1>2, <1>3 DEF NamesTyped, NamesAreDone
<1>5. \A q \in Requests : pc'[q] = "ready" =>
          \A k \in DOMAIN draft'[q].plan.items : k[1] \in Requests \ {q} => pc'[k[1]] = "done"
  BY <1>2 DEF NamesTyped, NamesAreDone
<1> QED BY <1>4, <1>5 DEF NamesAreDone

LEMMA CommitEditNames ==
    ASSUME NamesTyped, NEW r \in Requests, CommitEdit(r)
    PROVE  NamesAreDone'
<1> DEFINE place == CHOOSE k \in draft[r].touched : TRUE
           item  == draft[r].plan.items[place]
           new(p) == IF p.id = draft[r].old THEN [p EXCEPT !.items[place] = item] ELSE p
<1>1. Leave(r) /\ plans' = {new(p) : p \in plans}
  BY DEF CommitEdit
<1> HIDE DEF place, item
<1>2. ASSUME NEW p \in plans PROVE DOMAIN new(p).items = DOMAIN p.items
  <2>1. Shaped(p)
    BY DEF NamesTyped, Typed, TypeOK, IsPlan, Shaped
  <2>2. DOMAIN ([p EXCEPT !.items[place] = item]).items = DOMAIN p.items
    BY <2>1, EditedPlan
  <2> QED BY <2>2
<1> HIDE DEF new
<1>3. /\ \A q \in Requests : pc'[q] = IF q = r THEN "done" ELSE pc[q]
      /\ \A q \in Requests \ {r} : draft'[q] = draft[q]
  BY <1>1, LeaveNames
<1> QED BY <1>1, <1>2, <1>3 DEF NamesTyped, NamesAreDone

LEMMA NamesNext == NamesTyped /\ [Next]_vars => NamesTyped'
<1> SUFFICES ASSUME NamesTyped, [Next]_vars PROVE NamesAreDone'
  BY TypedNext DEF NamesTyped
<1>1. CASE NextDay \/ UNCHANGED vars
  BY <1>1, FrameNames DEF NextDay, vars, requests, database
<1>2. ASSUME NEW r \in Requests,
             \/ AskToRegenerate(r) \/ ReadPlan(r) \/ ChangeGoal(r)
             \/ EndSession(r) \/ StartDaily(r) \/ EditItem(r)
      PROVE  NamesAreDone'
  <2>1. Arrives(r) /\ (Go(r, "waiting") \/ Go(r, "done") \/ Go(r, "editing"))
    BY <1>2 DEF AskToRegenerate, ReadPlan, ChangeGoal, EndSession, StartDaily, EditItem, Start
  <2>2. plans' = plans /\ \A q \in Requests \ {r} : draft'[q] = draft[q]
    BY <1>2 DEF AskToRegenerate, ReadPlan, ChangeGoal, EndSession, StartDaily, EditItem,
                database, NamesTyped, Typed, TypeOK
  <2>3. /\ \A q \in Requests : pc'[q] = "ready" => q # r /\ pc[q] = "ready"
        /\ \A q \in Requests : pc[q] = "done" => pc'[q] = "done"
    BY <2>1 DEF Arrives, Go, NamesTyped, Typed, TypeOK
  <2> QED BY <2>2, <2>3, FrameNames
<1>3. ASSUME NEW r \in Requests, BreakDeadlock(r) \/ Fail(r) PROVE NamesAreDone'
  <2>1. Leave(r) /\ plans' = plans
    BY <1>3 DEF BreakDeadlock, Fail, database
  <2>2. /\ \A q \in Requests : pc'[q] = IF q = r THEN "done" ELSE pc[q]
        /\ \A q \in Requests \ {r} : draft'[q] = draft[q]
    BY <2>1, LeaveNames
  <2> QED BY <2>1, <2>2, FrameNames
<1>4. CASE \E r \in Requests :
              \/ AskToRegenerate(r) \/ ReadPlan(r) \/ ChangeGoal(r)
              \/ EndSession(r) \/ StartDaily(r) \/ EditItem(r)
              \/ Prepare(r) \/ Commit(r) \/ CommitEdit(r) \/ BreakDeadlock(r) \/ Fail(r)
  BY <1>2, <1>3, <1>4, PrepareNames, CommitNames, CommitEditNames
<1> QED BY <1>1, <1>4 DEF Next

\* Only Prepare makes a waiting request ready.
LEMMA OnlyPrepare ==
    ASSUME Typed, [Next]_vars, NEW r \in Requests, pc[r] = "waiting", pc'[r] = "ready"
    PROVE  Prepare(r)
<1>1. pc' # pc
  OBVIOUS
<1>2. PICK q \in Requests :
          \/ AskToRegenerate(q) \/ ReadPlan(q) \/ ChangeGoal(q)
          \/ EndSession(q) \/ StartDaily(q) \/ EditItem(q)
          \/ Prepare(q) \/ Commit(q) \/ CommitEdit(q) \/ BreakDeadlock(q) \/ Fail(q)
  BY <1>1 DEF Next, NextDay, vars, requests
<1>3. CASE ~Prepare(q)
  <2>1. Go(q, "waiting") \/ Go(q, "done") \/ Go(q, "editing")
    BY <1>2, <1>3 DEF AskToRegenerate, ReadPlan, ChangeGoal, EndSession, StartDaily, EditItem,
                Commit, CommitEdit, BreakDeadlock, Fail, Start, Leave
  <2> QED BY <2>1 DEF Go, Typed, TypeOK
<1>4. CASE Prepare(q)
  <2>1. Go(q, "ready")
    BY <1>4 DEF Prepare
  <2>2. q = r
    BY <2>1 DEF Go, Typed, TypeOK
  <2> QED BY <1>4, <2>2
<1> QED BY <1>3, <1>4

\* If no concepts need each other in a circle, every plan that is made, whatever else
\* runs, asks for what the goals have left to learn in time, prerequisites first.
THEOREM PlansAreSound == ASSUME Acyclic PROVE Spec => SchedulesWell
<1>1. Init => NamesTyped
  BY InitTyped, InitNames DEF NamesTyped
<1>2. NamesTyped /\ [Next]_vars => NamesTyped'
  BY NamesNext
<1>3. NamesTyped /\ [Next]_vars =>
          [\A r \in Requests :
              pc[r] = "waiting" /\ pc'[r] = "ready" =>
                  MeetsDeadlines(draft'[r].plan) /\ PrerequisitesFirst(draft'[r].plan)]_vars
  <2> SUFFICES ASSUME NamesTyped, [Next]_vars, NEW r \in Requests,
                      pc[r] = "waiting", pc'[r] = "ready"
               PROVE  MeetsDeadlines(draft'[r].plan) /\ PrerequisitesFirst(draft'[r].plan)
    OBVIOUS
  <2>1. Prepare(r)
    BY OnlyPrepare DEF NamesTyped
  <2>2. PICK gs, items :
          /\ gs \in [Goals -> GoalRows \cup {NoGoal}]
            /\ draft'[r].plan = NewPlan(r, gs, items)
            /\ \A c : <<r, c>> \notin Kept(items, day)
    BY <2>1, PrepareMakes
  <2>3. day \in Nat /\ student \in [Concepts -> Standings] /\ r \in Ids
    BY DEF NamesTyped, Typed, TypeOK
  <2>4. MeetsDeadlines(NewPlan(r, gs, items)) /\ PrerequisitesFirst(NewPlan(r, gs, items))
    BY <2>2, <2>3, NewPlanInTime, NewPlanInOrder
  <2> QED BY <2>2, <2>4
<1> QED BY <1>1, <1>2, <1>3, PTL DEF Spec, SchedulesWell
=============================================================================
