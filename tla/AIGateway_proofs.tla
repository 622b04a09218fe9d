--------------------------- MODULE AIGateway_proofs ---------------------------
(***************************************************************************)
(* A day's overspending is bounded, for any number of concurrent callers,  *)
(* any budget and any number of providers. The argument counts units: each *)
(* caller has at most one for every provider, which it may still cause to  *)
(* be booked (owed), or which is booked but not yet counted in Redis.      *)
(***************************************************************************)
EXTENDS AIGateway, FiniteSetTheorems, TLAPS

Units == Callers \X (1 .. Targets)

Owed == {u \in Units :
            \/ call[u[1]].stage = "asked" /\ u[2] >= call[u[1]].target
            \/ call[u[1]].stage = "booked" /\ u[2] > call[u[1]].target}

Uncounted == {u \in Units : call[u[1]].stage = "booked" /\ u[2] = call[u[1]].target}

TypeOK ==
    /\ today \in Nat
    /\ ledger \in Nat /\ counter \in Nat /\ forgotten \in Nat
    /\ call \in [Callers -> Calls]

\* Redis and what it forgot account for what was booked, but for the units
\* that are yet to be counted.
Accounted == ledger <= counter + forgotten + Cardinality(Uncounted)

\* What is booked and what may be booked without another check.
Foreseen == ledger + Cardinality(Owed) <= Budget - 1 + Cardinality(Units) + forgotten

Books == TypeOK /\ Accounted /\ Foreseen

----------------------------------------------------------------------------
LEMMA UnitsFinite ==
    /\ IsFiniteSet(Units)
    /\ Cardinality(Units) = Targets * Cardinality(Callers)
    /\ Cardinality(Units) \in Nat
<1>1. IsFiniteSet(1 .. Targets) /\ Cardinality(1 .. Targets) = Targets
  BY FS_Interval, GatewayAssumption
<1>2. IsFiniteSet(Units) /\ Cardinality(Units) = Cardinality(Callers) * Cardinality(1 .. Targets)
  BY <1>1, FS_Product, GatewayAssumption DEF Units
<1>3. Cardinality(Callers) \in Nat
  BY FS_CardinalityType, GatewayAssumption
<1> QED  BY <1>1, <1>2, <1>3, FS_CardinalityType, GatewayAssumption

\* Sets of units: how large they are together, and apart.
LEMMA UnitSets ==
    ASSUME NEW S \in SUBSET Units, NEW T \in SUBSET Units
    PROVE  /\ Cardinality(S) \in Nat
           /\ S \cap T = {} => Cardinality(S) + Cardinality(T) <= Cardinality(Units)
           /\ S \subseteq T => Cardinality(S) <= Cardinality(T)
           /\ \A u \in T : S = T \ {u} => Cardinality(S) = Cardinality(T) - 1
<1>1. IsFiniteSet(S) /\ IsFiniteSet(T) /\ IsFiniteSet(S \cup T)
  BY UnitsFinite, FS_Subset, FS_Union
<1>2. Cardinality(S) \in Nat /\ Cardinality(T) \in Nat
  BY <1>1, FS_CardinalityType
<1>3. S \cap T = {} => Cardinality(S) + Cardinality(T) <= Cardinality(Units)
  <2>1. Cardinality(S \cup T) <= Cardinality(Units)
    BY UnitsFinite, FS_Subset
  <2>2. S \cap T = {} => Cardinality(S \cup T) = Cardinality(S) + Cardinality(T) - 0
    BY <1>1, FS_Union, FS_EmptySet
  <2> QED  BY <1>2, <2>1, <2>2
<1>4. S \subseteq T => Cardinality(S) <= Cardinality(T)
  BY <1>1, FS_Subset
<1>5. ASSUME NEW u \in T, S = T \ {u} PROVE Cardinality(S) = Cardinality(T) - 1
  BY <1>1, <1>5, FS_RemoveElement
<1> QED  BY <1>2, <1>3, <1>4, <1>5

\* What a step of one caller leaves alone.
LEMMA OthersKept ==
    ASSUME NEW c \in Callers, \A d \in Callers : d # c => call'[d] = call[d]
    PROVE  \A u \in Units : u[1] # c =>
                (u \in Owed' <=> u \in Owed) /\ (u \in Uncounted' <=> u \in Uncounted)
  BY DEF Owed, Uncounted, Units

LEMMA EndedCall ==
    ASSUME NEW o \in Outcomes
    PROVE  Ended(o) \in Calls /\ Ended(o).stage = "ended"
<1>1. Ended(o) = [stage |-> "ended", kind |-> "text", target |-> 1, tries |-> 0, reply |-> o]
  BY DEF Ended, Outside
<1>2. 1 \in 1 .. Targets /\ 0 \in 0 .. 1
  BY GatewayAssumption
<1> QED  BY <1>1, <1>2 DEF Calls, Kinds

\* A check lets a caller start with the first provider or ends its call.
LEMMA CheckedCall ==
    ASSUME NEW kind \in Kinds, NEW tries \in 0 .. 1, NEW spent \in Nat
    PROVE  /\ Checked(kind, tries, spent) \in Calls
           /\ Checked(kind, tries, spent).stage \in {"ended", "asked"}
           /\ Checked(kind, tries, spent).stage = "asked" => spent < Budget
<1>1. "permanent" \in Outcomes /\ "good" \in Outcomes
  BY DEF Outcomes
<1>2. 1 \in 1 .. Targets
  BY GatewayAssumption
<1>3. CASE spent >= Budget
  BY <1>1, <1>3, EndedCall DEF Checked
<1>4. CASE ~(spent >= Budget)
  <2>1. Checked(kind, tries, spent) = Asking(kind, 1, tries)
    BY <1>4 DEF Checked
  <2>2. spent < Budget
    BY <1>4, GatewayAssumption
  <2> QED  BY <1>1, <1>2, <2>1, <2>2 DEF Asking, Calls
<1> QED  BY <1>3, <1>4

\* After an answer only the providers that come after are left.
LEMMA FollowedCall ==
    ASSUME NEW k \in Calls, k.stage = "booked"
    PROVE  /\ Followed(k) \in Calls
           /\ Followed(k).stage \in {"ended", "again", "asked"}
           /\ Followed(k).stage = "asked" => Followed(k).target = k.target + 1
<1>1. \A o \in Outcomes : Ended(o) \in Calls /\ Ended(o).stage = "ended"
  BY EndedCall
<1>2. CASE k.reply = "good"
  BY <1>1, <1>2 DEF Followed, Outcomes
<1>3. CASE k.reply = "bad" /\ k.tries > 0
  <2>1. k.tries - 1 \in 0 .. 1 /\ 1 \in 1 .. Targets
    BY <1>3, GatewayAssumption DEF Calls
  <2>2. Followed(k) = [k EXCEPT !.stage = "again", !.target = 1, !.tries = k.tries - 1]
    BY <1>3 DEF Followed
  <2> QED  BY <2>1, <2>2 DEF Calls
<1>4. CASE k.reply = "cut"
  BY <1>1, <1>4 DEF Followed, Outcomes
<1>5. CASE k.reply \in {"transient", "permanent"} /\ k.target < Providers(k.kind)
  <2>0. k.target \in Int /\ Providers(k.kind) \in Int
    BY GatewayAssumption DEF Calls, Providers
  <2>1. k.target + 1 \in 1 .. Targets
    BY <1>5, GatewayAssumption DEF Calls, Providers
  <2>2. Followed(k) = Asking(k.kind, k.target + 1, k.tries)
    BY <1>5, <2>0 DEF Followed
  <2> QED  BY <2>1, <2>2 DEF Asking, Calls, Outcomes
<1>6. CASE k.reply \in {"transient", "permanent"} /\ ~(k.target < Providers(k.kind))
  <2>1. k.target >= Providers(k.kind)
    BY <1>6, GatewayAssumption DEF Calls, Providers
  <2> QED  BY <1>1, <1>6, <2>1 DEF Followed, Outcomes
<1>7. CASE k.reply \notin {"good", "cut", "transient", "permanent"} /\ ~(k.reply = "bad" /\ k.tries > 0)
  BY <1>1, <1>7 DEF Followed, Outcomes
<1> QED  BY <1>2, <1>3, <1>4, <1>5, <1>6, <1>7

----------------------------------------------------------------------------
LEMMA BooksInit == Init => Books
<1> SUFFICES ASSUME Init PROVE Books
  OBVIOUS
<1>1. TypeOK
  BY GatewayAssumption DEF Init, TypeOK, Calls, Idle, Outside, Kinds, Outcomes
<1>2. Owed = {} /\ Uncounted = {}
  BY DEF Init, Owed, Uncounted, Units, Idle, Outside
<1>3. Cardinality({}) = 0
  BY FS_EmptySet
<1> QED  BY <1>1, <1>2, <1>3, UnitsFinite, GatewayAssumption DEF Init, Books, Accounted, Foreseen

\* A caller that passes the check owes no more than its units.
LEMMA CheckKeeps ==
    ASSUME Books, NEW c \in Callers, call[c].stage \in {"idle", "again"},
           NEW kind \in Kinds, NEW tries \in 0 .. 1, NEW spent \in SpentToday,
           call' = [call EXCEPT ![c] = Checked(kind, tries, spent)],
           UNCHANGED <<today, ledger, counter, forgotten>>
    PROVE  Books'
<1> DEFINE k == Checked(kind, tries, spent)
<1>0. spent \in Nat
  BY DEF Books, TypeOK, SpentToday
<1>1. k \in Calls /\ k.stage \in {"ended", "asked"} /\ (k.stage = "asked" => spent < Budget)
  BY <1>0, CheckedCall
<1>2. TypeOK'
  BY <1>1 DEF Books, TypeOK
<1>3. call'[c] = k /\ \A d \in Callers : d # c => call'[d] = call[d]
  BY DEF Books, TypeOK
<1> HIDE DEF k
<1>4. Uncounted' = Uncounted
  BY <1>1, <1>3, OthersKept DEF Books, Uncounted, Units
<1>5. Accounted'
  BY <1>4 DEF Books, Accounted
<1>6. Owed \in SUBSET Units /\ Owed' \in SUBSET Units /\ Uncounted \in SUBSET Units
  BY DEF Owed, Uncounted, Units
<1>7. CASE k.stage = "ended"
  <2>1. Owed' \subseteq Owed
    BY <1>3, <1>7, OthersKept DEF Books, Owed, Units
  <2>2. Cardinality(Owed') <= Cardinality(Owed)
    BY <1>6, <2>1, UnitSets
  <2> QED  BY <1>2, <1>5, <1>6, <2>2, UnitSets, UnitsFinite, GatewayAssumption
           DEF Books, Foreseen, TypeOK
<1>8. CASE k.stage = "asked"
  <2>1. Owed' \cap Uncounted' = {}
    BY <1>2 DEF Owed, Uncounted, Units, TypeOK, Calls
  <2>2. Cardinality(Owed') + Cardinality(Uncounted) <= Cardinality(Units)
    BY <1>4, <1>6, <2>1, UnitSets
  <2>3. Cardinality(Owed') \in Nat /\ Cardinality(Uncounted) \in Nat /\ Cardinality(Units) \in Nat
    BY <1>6, UnitSets, UnitsFinite
  <2>4. spent < Budget
    BY <1>1, <1>8
  <2>5. ledger <= Budget - 1 + forgotten + Cardinality(Uncounted)
    BY <2>3, <2>4, GatewayAssumption DEF Books, TypeOK, Accounted, SpentToday
  <2> QED  BY <1>2, <1>5, <2>2, <2>3, <2>5, GatewayAssumption DEF Books, Foreseen, TypeOK
<1> QED  BY <1>1, <1>7, <1>8

\* An answer turns a unit that was owed into one that is to be counted.
LEMMA AnswerKeeps ==
    ASSUME Books, NEW c \in Callers, Answer(c)
    PROVE  Books'
<1>1. Owed \in SUBSET Units /\ Owed' \in SUBSET Units
        /\ Uncounted \in SUBSET Units /\ Uncounted' \in SUBSET Units
  BY DEF Owed, Uncounted, Units
<1>2. call[c].stage = "asked" /\ call[c] \in Calls
  BY DEF Answer, Books, TypeOK
<1> DEFINE unit == <<c, call[c].target>>
<1>3. unit \in Units /\ unit \in Owed /\ unit \notin Uncounted
  BY <1>2 DEF Units, Owed, Uncounted, Calls
<1>4. ASSUME NEW reply \in Replies(call[c].kind), ledger' = ledger + 1,
             call' = [call EXCEPT ![c] = [@ EXCEPT !.stage = "booked", !.reply = reply]],
             UNCHANGED <<today, counter, forgotten>>
      PROVE  Books'
  <2> DEFINE k == [call[c] EXCEPT !.stage = "booked", !.reply = reply]
  <2>1. k \in Calls /\ k.stage = "booked" /\ k.target = call[c].target
    BY <1>2, <1>4 DEF Calls, Replies, Outcomes
  <2>2. call' = [call EXCEPT ![c] = k]
    BY <1>4
  <2> HIDE DEF k
  <2>3. TypeOK'
    BY <1>4, <2>1, <2>2 DEF Books, TypeOK
  <2>4. call'[c] = k /\ \A d \in Callers : d # c => call'[d] = call[d]
    BY <2>2 DEF Books, TypeOK
  <2>5. Owed' = Owed \ {unit}
    <3>1. ASSUME NEW u \in Units, u[1] = c PROVE u \in Owed' <=> u \in Owed \ {unit}
      BY <1>2, <2>1, <2>4, <3>1 DEF Owed, Units, Calls
    <3>2. ASSUME NEW u \in Units, u[1] # c PROVE u \in Owed' <=> u \in Owed \ {unit}
      BY <2>4, <3>2, OthersKept
    <3> QED  BY <1>1, <3>1, <3>2
  <2>6. Uncounted = Uncounted' \ {unit} /\ unit \in Uncounted'
    <3>1. ASSUME NEW u \in Units, u[1] = c PROVE u \in Uncounted' <=> u = unit
      BY <2>1, <2>4, <3>1 DEF Uncounted, Units, Calls
    <3>2. ASSUME NEW u \in Units, u[1] = c PROVE u \notin Uncounted
      BY <1>2, <3>2 DEF Uncounted
    <3>3. ASSUME NEW u \in Units, u[1] # c PROVE u \in Uncounted' <=> u \in Uncounted
      BY <2>4, <3>3, OthersKept
    <3> QED  BY <1>1, <1>3, <3>1, <3>2, <3>3
  <2>7. Cardinality(Owed') = Cardinality(Owed) - 1 /\ Cardinality(Uncounted') = Cardinality(Uncounted) + 1
    <3>1. Cardinality(Owed') = Cardinality(Owed) - 1
      BY <1>1, <1>3, <2>5, UnitSets
    <3>2. Cardinality(Uncounted) = Cardinality(Uncounted') - 1
      BY <1>1, <2>6, UnitSets
    <3>3. Cardinality(Uncounted) \in Nat /\ Cardinality(Uncounted') \in Nat
      BY <1>1, UnitSets
    <3> QED  BY <3>1, <3>2, <3>3
  <2> QED  BY <1>1, <1>4, <2>3, <2>7, UnitSets, UnitsFinite, GatewayAssumption
           DEF Books, Foreseen, Accounted, TypeOK
<1>5. ASSUME call' = [call EXCEPT ![c] = Ended("crash")],
             UNCHANGED <<today, ledger, counter, forgotten>>
      PROVE  Books'
  <2>1. Ended("crash") \in Calls /\ Ended("crash").stage = "ended"
    BY EndedCall DEF Outcomes
  <2>2. TypeOK' /\ call'[c] = Ended("crash") /\ \A d \in Callers : d # c => call'[d] = call[d]
    BY <1>5, <2>1 DEF Books, TypeOK
  <2>3. Owed' \subseteq Owed
    BY <1>5, <2>1, <2>2, OthersKept DEF Books, Owed, Units
  <2>4. Uncounted' = Uncounted
    BY <1>2, <1>5, <2>1, <2>2, OthersKept DEF Books, Uncounted, Units
  <2>5. Cardinality(Owed') <= Cardinality(Owed)
    BY <1>1, <2>3, UnitSets
  <2> QED  BY <1>1, <1>5, <2>2, <2>4, <2>5, UnitSets, UnitsFinite, GatewayAssumption
           DEF Books, Foreseen, Accounted, TypeOK
<1> QED  BY <1>4, <1>5 DEF Answer

\* Counting a unit moves it into Redis, or into what Redis forgot.
LEMMA CountKeeps ==
    ASSUME Books, NEW c \in Callers, Count(c)
    PROVE  Books'
<1>1. Owed \in SUBSET Units /\ Owed' \in SUBSET Units
        /\ Uncounted \in SUBSET Units /\ Uncounted' \in SUBSET Units
  BY DEF Owed, Uncounted, Units
<1>2. call[c].stage = "booked" /\ call[c] \in Calls
  BY DEF Count, Books, TypeOK
<1> DEFINE unit == <<c, call[c].target>>  k == Followed(call[c])
<1>3. unit \in Uncounted
  BY <1>2 DEF Units, Uncounted, Calls
<1>4. k \in Calls /\ k.stage \in {"ended", "again", "asked"}
        /\ (k.stage = "asked" => k.target = call[c].target + 1)
  BY <1>2, FollowedCall
<1>5. call' = [call EXCEPT ![c] = k]
  BY DEF Count
<1> HIDE DEF k
<1>6. TypeOK' /\ call'[c] = k /\ \A d \in Callers : d # c => call'[d] = call[d]
  BY <1>4, <1>5 DEF Count, Books, TypeOK
<1>7. Owed' \subseteq Owed
  <2>1. ASSUME NEW u \in Units, u[1] = c, u \in Owed' PROVE u \in Owed
    BY <1>2, <1>4, <1>6, <2>1 DEF Owed, Units, Calls
  <2> QED  BY <1>1, <1>6, <2>1, OthersKept
<1>8. Uncounted' = Uncounted \ {unit}
  <2>1. ASSUME NEW u \in Units, u[1] = c PROVE u \notin Uncounted' /\ (u \in Uncounted => u = unit)
    BY <1>2, <1>4, <1>6, <2>1 DEF Uncounted, Units
  <2>2. ASSUME NEW u \in Units, u[1] # c PROVE u \in Uncounted' <=> u \in Uncounted \ {unit}
    BY <1>6, <2>2, OthersKept
  <2> QED  BY <1>1, <2>1, <2>2
<1>9. Cardinality(Owed') <= Cardinality(Owed) /\ Cardinality(Uncounted') = Cardinality(Uncounted) - 1
  BY <1>1, <1>3, <1>7, <1>8, UnitSets
<1> QED  BY <1>1, <1>6, <1>9, UnitSets, UnitsFinite, GatewayAssumption
         DEF Count, Books, Foreseen, Accounted, TypeOK

\* The steps that change no call keep the books.
LEMMA BooksStep == Books /\ [Next]_vars => Books'
<1> SUFFICES ASSUME Books, [Next]_vars PROVE Books'
  OBVIOUS
<1>0. /\ Owed \in SUBSET Units /\ Uncounted \in SUBSET Units
      /\ Cardinality(Owed) \in Nat /\ Cardinality(Uncounted) \in Nat /\ Cardinality(Units) \in Nat
      /\ Cardinality(Owed) <= Cardinality(Units)
  <2>1. Owed \in SUBSET Units /\ Uncounted \in SUBSET Units
    BY DEF Owed, Uncounted
  <2>2. Units \in SUBSET Units
    OBVIOUS
  <2> QED  BY <2>1, <2>2, UnitSets, UnitsFinite
<1>1. ASSUME NEW c \in Callers, Request(c) PROVE Books'
  <2>1. PICK kind \in Kinds : \E spent \in SpentToday :
            call' = [call EXCEPT ![c] = Checked(kind, Tries(kind), spent)]
    BY <1>1 DEF Request
  <2>2. Tries(kind) \in 0 .. 1
    BY DEF Tries
  <2> QED  BY <1>1, <2>1, <2>2, CheckKeeps DEF Request
<1>2. ASSUME NEW c \in Callers, Answer(c) PROVE Books'
  BY <1>2, AnswerKeeps
<1>3. ASSUME NEW c \in Callers, Count(c) PROVE Books'
  BY <1>3, CountKeeps
<1>4. ASSUME NEW c \in Callers, AskAgain(c) PROVE Books'
  <2>1. call[c].kind \in Kinds /\ call[c].tries \in 0 .. 1
    BY DEF Books, TypeOK, Calls
  <2>2. PICK spent \in SpentToday :
            call' = [call EXCEPT ![c] = Checked(call[c].kind, call[c].tries, spent)]
    BY <1>4 DEF AskAgain
  <2> QED  BY <1>4, <2>1, <2>2, CheckKeeps DEF AskAgain
<1>5. ASSUME NEW c \in Callers, Return(c) PROVE Books'
  <2>1. Idle \in Calls /\ Idle.stage = "idle"
    BY GatewayAssumption DEF Idle, Outside, Calls, Kinds, Outcomes
  <2>2. TypeOK' /\ call'[c] = Idle /\ call[c].stage = "ended"
          /\ \A d \in Callers : d # c => call'[d] = call[d]
    BY <1>5, <2>1 DEF Return, Books, TypeOK
  <2>3. Owed' = Owed /\ Uncounted' = Uncounted
    BY <1>5, <2>1, <2>2, OthersKept DEF Return, Books, Owed, Uncounted, Units
  <2> QED  BY <1>5, <2>2, <2>3 DEF Return, Books, Accounted, Foreseen
<1>6. CASE LoseCounter
  <2>1. Owed' = Owed /\ Uncounted' = Uncounted
    BY <1>6 DEF LoseCounter, Owed, Uncounted
  <2> QED  BY <1>0, <1>6, <2>1, GatewayAssumption DEF LoseCounter, Books, TypeOK, Accounted, Foreseen
<1>7. CASE Midnight
  <2>1. Owed' = Owed /\ Uncounted' = Uncounted
    BY <1>7 DEF Midnight, Owed, Uncounted
  <2> QED  BY <1>0, <1>7, <2>1, GatewayAssumption DEF Midnight, Books, TypeOK, Accounted, Foreseen
<1>8. CASE UNCHANGED vars
  BY <1>8 DEF vars, Books, TypeOK, Accounted, Foreseen, Owed, Uncounted
<1> QED  BY <1>1, <1>2, <1>3, <1>4, <1>5, <1>6, <1>7, <1>8 DEF Next, Works

THEOREM BooksKept == Spec => []Books
  BY BooksInit, BooksStep, PTL DEF Spec

\* The costs booked for a day pass the budget by no more than the calls under way and what
\* Redis forgot, whatever the number of callers.
THEOREM OverspendIsBounded == Spec => []OverspendBounded
<1>1. Books => OverspendBounded
  <2> SUFFICES ASSUME Books PROVE OverspendBounded
    OBVIOUS
  <2>1. Cardinality(Owed) \in Nat
    BY UnitSets DEF Owed
  <2> QED  BY <2>1, UnitsFinite, GatewayAssumption DEF Books, Foreseen, OverspendBounded, TypeOK
<1> QED  BY <1>1, BooksKept, PTL
============================================================================
