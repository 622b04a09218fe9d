--------------------------- MODULE ConceptGraph_proofs ---------------------------
(***************************************************************************)
(* Theorems of ConceptGraph for any documents, names, batches, answers of  *)
(* the model and number of attempts.                                       *)
(***************************************************************************)
EXTENDS ConceptGraph, TLAPS

----------------------------------------------------------------------------
(* Graphs: what an accepted edge does to an acyclic relation. *)

\* Without cycles, every set at all has an element that needs no other.
LEMMA AcyclicAnywhere ==
    ASSUME NEW R, Acyclic(R), NEW S, S # {}
    PROVE  \E c \in S : \A p \in S : <<p, c>> \notin R
<1> DEFINE T == S \cap Nodes(R)
<1>1. ASSUME NEW p, NEW c, <<p, c>> \in R
      PROVE  p \in Nodes(R) /\ c \in Nodes(R)
  BY <1>1 DEF Nodes
<1>2. CASE T = {}
  BY <1>1, <1>2
<1>3. CASE T # {}
  <2>1. PICK c \in T : \A p \in T : <<p, c>> \notin R
    BY <1>3 DEF Acyclic
  <2> QED  BY <1>1, <2>1
<1> QED  BY <1>2, <1>3

LEMMA AcyclicSubset ==
    ASSUME NEW R, Acyclic(R), NEW Q, Q \subseteq R
    PROVE  Acyclic(Q)
<1> SUFFICES ASSUME NEW S \in SUBSET Nodes(Q), S # {}
             PROVE  \E c \in S : \A p \in S : <<p, c>> \notin Q
  BY DEF Acyclic
<1> QED  BY AcyclicAnywhere

\* An edge from s to t closes no cycle unless t leads to s.
LEMMA AcyclicAdd ==
    ASSUME NEW R, Acyclic(R), NEW s, NEW t, ~Reaches(R, t, s)
    PROVE  Acyclic(R \cup {<<s, t>>})
<1> SUFFICES ASSUME NEW S, S # {}
             PROVE  \E c \in S : \A p \in S : <<p, c>> \notin R \cup {<<s, t>>}
  BY DEF Acyclic
<1>1. PICK C : t \in C /\ s \notin C /\ \A e \in R : e[1] \in C => e[2] \in C
  BY DEF Reaches
<1>2. ASSUME NEW p \in C, NEW c, <<p, c>> \in R
      PROVE  c \in C
  BY <1>1, <1>2
<1>3. CASE S \ C # {}
  <2>1. PICK c \in S \ C : \A p \in S \ C : <<p, c>> \notin R
    BY <1>3, AcyclicAnywhere
  <2> QED  BY <1>1, <1>2, <2>1
<1>4. CASE S \ C = {}
  <2>1. PICK c \in S : \A p \in S : <<p, c>> \notin R
    BY AcyclicAnywhere
  <2> QED  BY <1>1, <1>4, <2>1
<1> QED  BY <1>3, <1>4

\* What leads somewhere still does with more edges.
LEMMA ReachesMore ==
    ASSUME NEW R, NEW Q, R \subseteq Q, NEW a, NEW b, Reaches(R, a, b)
    PROVE  Reaches(Q, a, b)
<1> SUFFICES ASSUME NEW S, a \in S, \A e \in Q : e[1] \in S => e[2] \in S
             PROVE  b \in S
  BY DEF Reaches
<1> DEFINE T == S \cap (Nodes(R) \cup {a})
<1>1. \A e \in R : e[1] \in T => e[2] \in T
  BY DEF Nodes
<1> QED  BY <1>1 DEF Reaches

LEMMA MorePrerequisites ==
    ASSUME NEW F, NEW G, F \subseteq G
    PROVE  Prerequisites(F) \subseteq Prerequisites(G)
BY DEF Prerequisites

\* The prerequisites of a set of facts with one more.
LEMMA OneMorePrerequisite ==
    ASSUME NEW G, NEW c
    PROVE  Prerequisites(G \cup {Fact(c)}) \subseteq
             Prerequisites(G) \cup (IF c.type = "prerequisite" THEN {<<c.source, c.target>>} ELSE {})
BY DEF Prerequisites, Fact
----------------------------------------------------------------------------
(* Types *)

LEMMA FactOfClaim ==
    ASSUME NEW c \in Claims
    PROVE  /\ Fact(c) \in Facts
           /\ Fact(c).source = c.source /\ Fact(c).target = c.target /\ Fact(c).type = c.type
BY DEF Claims, Facts, Fact

LEMMA CanonicalIsClaim ==
    ASSUME NEW c \in Claims
    PROVE  Canonical(c) \in Claims /\ Canonical(c).type # "specialisation"
BY DEF Claims, Canonical, Kinds

LEMMA NamedIsThere ==
    ASSUME NEW f, NEW k \in Names(f)
    PROVE  Named(f, k) \in DOMAIN f /\ f[Named(f, k)] = k
BY DEF Names, Named

LEMMA BestAreClaims ==
    ASSUME NEW C \in SUBSET Claims
    PROVE  /\ Best(C) \subseteq Claims
           /\ \A c \in Best(C) : c.source # c.target /\ c.type # "specialisation"
BY CanonicalIsClaim DEF Best

LEMMA WithIsPartial ==
    ASSUME NEW f, NEW A, NEW B, IsPartial(f, A, B), NEW x \in A, NEW y \in B
    PROVE  IsPartial(With(f, x, y), A, B)
BY DEF IsPartial, With

LEMMA ClaimsAreTyped ==
    ASSUME TypeOK, NEW d \in Docs, NEW a \in Answer, NEW id, IsPartial(id, Keys, Ids),
           NEW K \in SUBSET DOMAIN id
    PROVE  ClaimsOf(d, a, K, id) \subseteq Claims
<1>1. \A k \in DOMAIN id : id[k] \in Ids
  BY DEF IsPartial
<1>2. ASSUME NEW r \in a.relations, {r.source, r.target} \subseteq DOMAIN id
      PROVE  [source |-> id[r.source], target |-> id[r.target], type |-> r.type,
              strength |-> r.strength] \in Claims
  <2>1. r.type \in Kinds /\ r.strength \in Nat
    BY DEF Answer
  <2> QED  BY <1>1, <1>2, <2>1 DEF Claims
<1>3. ASSUME NEW k \in K, NEW p \in DOMAIN id
      PROVE  [source |-> id[p], target |-> id[k], type |-> "prerequisite", strength |-> 7] \in Claims
  BY <1>1 DEF Claims, Kinds
<1>4. ASSUME NEW k, NEW n \in Near(d, k)
      PROVE  n[2] \in Kinds
  <2>1. PICK b \in DOMAIN got[d] : \E f \in got[d][b] : n \in f.near
    BY DEF Near, FoundIn, Saying
  <2>2. got[d][b] \in SUBSET Extracted
    BY FindingAssumption DEF TypeOK, IsPartial
  <2> QED  BY <2>1, <2>2 DEF Extracted
<1>5. ASSUME NEW k \in K, NEW n \in Near(d, k), n[1] \in DOMAIN id
      PROVE  [source |-> IF n[2] = "related" THEN id[k] ELSE id[n[1]],
              target |-> IF n[2] = "related" THEN id[n[1]] ELSE id[k],
              type |-> n[2], strength |-> IF n[2] = "related" THEN 5 ELSE 6] \in Claims
  BY <1>1, <1>4, <1>5 DEF Claims
<1> QED  BY <1>2, <1>3, <1>5 DEF ClaimsOf

LEMMA MovedIsId ==
    ASSUME TypeOK, NEW d \in Docs, NEW c \in Ids
    PROVE  Moved(d, c) \in Ids
<1> DEFINE P(k) == k \in DOMAIN plan[d].ids /\ k \notin plan[d].merged /\ plan[d].ids[k] = c
<1>1. \A k \in DOMAIN plan[d].ids : Remapped(d)[k] \in Ids
  BY NamedIsThere DEF Remapped, TypeOK, IsPlan, IsPartial
<1>2. CASE \E k \in DOMAIN plan[d].ids : k \notin plan[d].merged /\ plan[d].ids[k] = c
  <2> DEFINE k == CHOOSE k \in DOMAIN plan[d].ids : k \notin plan[d].merged /\ plan[d].ids[k] = c
  <2>1. k \in DOMAIN plan[d].ids
    BY <1>2
  <2>2. Moved(d, c) = Remapped(d)[k]
    BY <1>2 DEF Moved
  <2> QED  BY <1>1, <2>1, <2>2
<1>3. CASE ~\E k \in DOMAIN plan[d].ids : k \notin plan[d].merged /\ plan[d].ids[k] = c
  BY <1>3 DEF Moved
<1> QED  BY <1>2, <1>3

LEMMA StartedIsPlan ==
    ASSUME TypeOK, NEW d \in Docs
    PROVE  /\ IsPlan(Started(d))
           /\ \A c \in (Started(d)).todo : c.source # c.target /\ c.type # "specialisation"
<1> DEFINE C == {Repointed(d, c) : c \in plan[d].todo}
<1>1. ASSUME NEW c \in plan[d].todo
      PROVE  Repointed(d, c) \in Claims
  <2>1. c \in Claims
    BY DEF TypeOK, IsPlan
  <2>2. Moved(d, c.source) \in Ids /\ Moved(d, c.target) \in Ids
    BY <2>1, MovedIsId DEF Claims
  <2> QED  BY <2>1, <2>2 DEF Claims, Repointed
<1>2. IsPartial(Remapped(d), Keys, Ids)
  BY NamedIsThere DEF Remapped, TypeOK, IsPlan, IsPartial
<1>3. plan[d].merged \subseteq Keys
  BY DEF TypeOK, IsPlan
<1>4. Best(C) \subseteq Claims /\ \A c \in Best(C) : c.source # c.target /\ c.type # "specialisation"
  BY <1>1, BestAreClaims
<1> QED  BY <1>2, <1>3, <1>4 DEF Started, IsPlan, TypeOK

LEMMA ConsideredIsPlan ==
    ASSUME NEW p, IsPlan(p), NEW c \in p.todo
    PROVE  IsPlan(Considered(p, c))
<1>1. c \in Claims /\ Fact(c) \in Facts
  BY FactOfClaim DEF IsPlan
<1> QED  BY <1>1 DEF IsPlan, Considered

LEMMA NoPlanIsPlan == IsPlan(NoPlan)
BY DEF NoPlan, IsPlan, IsPartial

LEMMA NothingIsPartial ==
    ASSUME NEW A, NEW B
    PROVE  IsPartial(<<>>, A, B)
BY DEF IsPartial

\* A new concept gets a name of the plan, and an id of it.
LEMMA GivenIsTyped ==
    ASSUME TypeOK, NEW d \in Docs, NEW c \in IdsOf(d)
    PROVE  c \in Ids /\ Givable(d, c) \subseteq Keys
BY DEF TypeOK, IsPlan, IsPartial, IdsOf, Givable

LEMMA OrphansAreIds ==
    ASSUME TypeOK, NEW d \in Docs
    PROVE  Orphans(d) \subseteq Ids
BY DEF TypeOK, Orphans

\* Deleting only takes away.
LEMMA WithoutTypes ==
    ASSUME TypeOK, NEW C, Without(C)
    PROVE  /\ DOMAIN name' \subseteq DOMAIN name
           /\ \A c \in DOMAIN name' : name'[c] = name[c]
           /\ edges' \subseteq edges
BY DEF Without

\* Removing a document, or what its attempts saved, keeps the types of the tables.
LEMMA RemoveTypes ==
    ASSUME TypeOK, NEW d \in Docs,
           NEW waiting \in {"cleaning", "deleting"}, NEW done \in {"failed", "deleted"},
           Remove(d, waiting, done)
    PROVE  /\ DOMAIN name' \subseteq Ids /\ \A c \in DOMAIN name' : name'[c] \in Keys
           /\ edges' \subseteq Facts
           /\ links' \subseteq Docs \X Ids
           /\ doomed' \in [Docs -> SUBSET Ids]
           /\ pc' \in [Docs -> {"extracting", "linking", "planned", "saving", "saved", "ready",
                                "failing", "cleaning", "failed", "deleting", "deleted"}]
<1>1. PICK C \in SUBSET Orphans(d) :
        IF C \cap Held = {}
        THEN /\ Without(C)
             /\ links' = {l \in links : l[1] # d /\ l[2] \notin C}
             /\ Go(d, done)
             /\ UNCHANGED doomed
        ELSE /\ doomed' = [doomed EXCEPT ![d] = C]
             /\ Go(d, waiting)
             /\ UNCHANGED stored
  BY DEF Remove
<1>2. C \subseteq Ids
  BY OrphansAreIds
<1>3. /\ DOMAIN name' \subseteq Ids /\ \A c \in DOMAIN name' : name'[c] \in Keys
      /\ edges' \subseteq Facts
  BY <1>1, WithoutTypes DEF TypeOK, stored
<1>4. links' \subseteq Docs \X Ids /\ doomed' \in [Docs -> SUBSET Ids]
  BY <1>1, <1>2 DEF TypeOK, stored
<1> QED  BY <1>1, <1>3, <1>4 DEF Go, TypeOK

\* What Plan plans: its names are among the document's, its ids and claims are typed.
LEMMA PlannedIsPlan ==
    ASSUME TypeOK, NEW d \in Docs, NEW a \in Answers \cup {NoAnswer}, NEW K \in Cuts(d)
    PROVE  IsPlan(Planned(d, a, K))
<1>1. a \in Answer
  BY AnswerAssumption DEF Answer, NoAnswer
<1>2. K \subseteq Keys /\ Names(name) \subseteq Keys
  BY DEF Cuts, Found, Names, TypeOK
<1>3. ASSUME NEW k \in K
      PROVE  IdOf(d, a, K, k) \in Ids
  <2> DEFINE l == IF SameAs(a, K, k) = {} THEN k ELSE CHOOSE l \in SameAs(a, K, k) : TRUE
  <2>1. l \in Keys
    BY <1>2 DEF SameAs
  <2>2. IF Matched(l) THEN Named(name, l) \in Ids ELSE Own(d, l) \in Ids
    BY <2>1, NamedIsThere DEF Matched, Own, Ids, TypeOK
  <2> QED  BY <2>2 DEF IdOf
<1> DEFINE id == [k \in K \cup Names(name) |-> IF k \in K THEN IdOf(d, a, K, k) ELSE Named(name, k)]
<1>4. IsPartial(id, Keys, Ids) /\ K \subseteq DOMAIN id
  BY <1>2, <1>3, NamedIsThere DEF IsPartial, TypeOK
<1>5. IsPartial([k \in K |-> id[k]], Keys, Ids)
  BY <1>2, <1>4 DEF IsPartial
<1>6. ClaimsOf(d, a, K, id) \subseteq Claims
  BY <1>1, <1>4, ClaimsAreTyped
<1> QED  BY <1>2, <1>5, <1>6 DEF IsPlan, NoPlan, Planned

----------------------------------------------------------------------------
(* TypeOK is inductive *)

LEMMA TypeInit == Init => TypeOK
BY NoPlanIsPlan, NothingIsPartial DEF Init, TypeOK

LEMMA TypeStep == TypeOK /\ [Next]_vars => TypeOK'
<1> SUFFICES ASSUME TypeOK, [Next]_vars
             PROVE  TypeOK'
  OBVIOUS
<1>1. ASSUME NEW d \in Docs, NEW b \in Batches[d], ExtractBatch(d, b)
      PROVE  TypeOK'
  <2>1. PICK found \in Findings : got' = [got EXCEPT ![d] = With(got[d], b, found)]
    BY <1>1 DEF ExtractBatch, TypeOK, IsPartial
  <2>2. IsPartial(With(got[d], b, found), Batches[d], Findings)
    BY WithIsPartial DEF TypeOK
  <2>3. \A e \in Docs : IsPartial(got'[e], Batches[e], Findings)
    BY <2>1, <2>2 DEF TypeOK
  <2>4. \/ UNCHANGED cache
        \/ \E f \in Findings : cache' = [cache EXCEPT ![d] = With(cache[d], b, f)]
    BY <1>1 DEF ExtractBatch
  <2>5. DOMAIN cache' = Docs /\ \A e \in Docs : IsPartial(cache'[e], Batches[e], Findings)
    BY <2>4, WithIsPartial DEF TypeOK
  <2> QED  BY <1>1, <2>1, <2>3, <2>5 DEF ExtractBatch, Go, TypeOK, stored
<1>2. ASSUME NEW d \in Docs, Expire(d)
      PROVE  TypeOK'
  BY <1>2, NothingIsPartial DEF Expire, TypeOK, stored, working
<1>3. ASSUME NEW d \in Docs, Plan(d)
      PROVE  TypeOK'
  <2>1. PICK K \in Cuts(d), a \in Answers \cup {NoAnswer} :
          plan' = [plan EXCEPT ![d] = Planned(d, a, K)]
    BY <1>3 DEF Plan
  <2>2. IsPlan(Planned(d, a, K))
    BY PlannedIsPlan
  <2> QED  BY <1>3, <2>1, <2>2 DEF Plan, Go, TypeOK, stored
<1>4. ASSUME NEW d \in Docs, Begin(d)
      PROVE  TypeOK'
  BY <1>4, StartedIsPlan DEF Begin, Go, TypeOK, stored
<1>5. ASSUME NEW d \in Docs, Consider(d)
      PROVE  TypeOK'
  <2>1. PICK c \in Strongest(plan[d].todo) : plan' = [plan EXCEPT ![d] = Considered(plan[d], c)]
    BY <1>5 DEF Consider
  <2>2. IsPlan(Considered(plan[d], c))
    BY ConsideredIsPlan DEF TypeOK, Strongest
  <2> QED  BY <1>5, <2>1, <2>2 DEF Consider, TypeOK, stored
<1>6. ASSUME NEW d \in Docs, Store(d)
      PROVE  TypeOK'
  <2>1. PICK given \in [IdsOf(d) \ DOMAIN name -> DOMAIN plan[d].ids] :
          /\ \A c \in DOMAIN given : given[c] \in Givable(d, c)
          /\ name' = [c \in DOMAIN name \cup DOMAIN given |->
                         IF c \in DOMAIN name THEN name[c] ELSE given[c]]
          /\ relics' = relics \cup {c \in DOMAIN given : given[c] \in plan[d].merged}
    BY <1>6 DEF Store
  <2>2. \A c \in DOMAIN given : c \in Ids /\ given[c] \in Keys
    BY <2>1, GivenIsTyped
  <2>3. DOMAIN name' \subseteq Ids /\ \A c \in DOMAIN name' : name'[c] \in Keys
    BY <2>1, <2>2 DEF TypeOK
  <2>4. relics' \subseteq Ids
    BY <2>1, <2>2 DEF TypeOK
  <2>5. edges' \subseteq Facts
    BY <1>6, FactOfClaim DEF Store, TypeOK, IsPlan
  <2>6. links' \subseteq Docs \X Ids
    BY <1>6, GivenIsTyped DEF Store, TypeOK
  <2> QED  BY <1>6, <2>3, <2>4, <2>5, <2>6, NoPlanIsPlan DEF Store, Go, TypeOK
<1>7. ASSUME NEW d \in Docs, Finish(d)
      PROVE  TypeOK'
  BY <1>7, NothingIsPartial DEF Finish, Go, TypeOK, stored
<1>8. ASSUME NEW d \in Docs, Retry(d)
      PROVE  TypeOK'
  BY <1>8, NothingIsPartial, NoPlanIsPlan DEF Retry, Go, TypeOK, stored
<1>9. ASSUME NEW d \in Docs, Fail(d)
      PROVE  TypeOK'
  BY <1>9, NothingIsPartial, NoPlanIsPlan DEF Fail, Go, TypeOK, stored
<1>10. ASSUME NEW d \in Docs, Clean(d)
       PROVE  TypeOK'
  <2>1. Remove(d, "cleaning", "failed")
    BY <1>10 DEF Clean
  <2> QED  BY <1>10, <2>1, RemoveTypes DEF Clean, TypeOK
<1>11. ASSUME NEW d \in Docs, Delete(d)
       PROVE  TypeOK'
  <2>1. Remove(d, "deleting", "deleted")
    BY <1>11 DEF Delete
  <2> QED  BY <1>11, <2>1, RemoveTypes, NothingIsPartial, NoPlanIsPlan DEF Delete, TypeOK
<1>12. ASSUME NEW d \in Docs, FinishRemove(d)
       PROVE  TypeOK'
  <2>1. /\ DOMAIN name' \subseteq Ids /\ \A c \in DOMAIN name' : name'[c] \in Keys
        /\ edges' \subseteq Facts
    BY <1>12, WithoutTypes DEF FinishRemove, TypeOK
  <2> QED  BY <1>12, <2>1 DEF FinishRemove, Go, TypeOK
<1>13. CASE UNCHANGED vars
  BY <1>13 DEF TypeOK, vars, stored, working
<1> QED  BY <1>1, <1>2, <1>3, <1>4, <1>5, <1>6, <1>7, <1>8, <1>9, <1>10, <1>11, <1>12, <1>13
         DEF Next

\* The tables, the lock, the caches and the plans have their types, whatever is extracted,
\* answered, retried and deleted.
THEOREM TypeCorrect == Spec => []TypeOK
BY TypeInit, TypeStep, PTL DEF Spec

----------------------------------------------------------------------------
(* What a step does to who is saving, and to what is stored. *)

Exclusive == \A d \in Docs : pc[d] = "saving" => lock = d

\* Nothing is renamed or added, and what is being saved is not deleted.
OnlyLoses ==
    /\ edges' \subseteq edges
    /\ DOMAIN name' \subseteq DOMAIN name
    /\ \A c \in DOMAIN name' : name'[c] = name[c]
    /\ Held \subseteq DOMAIN name'

Begun(d)     == /\ pc[d] = "planned" /\ plan'[d] = Started(d)
                /\ edges' = edges /\ name' = name
Weighed(d)   == /\ pc[d] = "saving" /\ edges' = edges /\ name' = name
                /\ \E c \in Strongest(plan[d].todo) : plan'[d] = Considered(plan[d], c)
Continues(d) == pc[d] = "saving" /\ plan'[d] = plan[d] /\ OnlyLoses

LEMMA DeleteOnlyLoses ==
    ASSUME NEW C, C \cap Held = {}, Without(C)
    PROVE  OnlyLoses
BY DEF Without, OnlyLoses, Held

LEMMA ExclusiveStep ==
    TypeOK /\ Exclusive /\ [Next]_vars => Exclusive'
<1> SUFFICES ASSUME TypeOK, Exclusive, [Next]_vars
             PROVE  Exclusive'
  OBVIOUS
<1> USE DEF Exclusive, TypeOK, Go
<1>1. ASSUME NEW d \in Docs, NEW b \in Batches[d], ExtractBatch(d, b)
      PROVE  Exclusive'
  BY <1>1 DEF ExtractBatch
<1>2. ASSUME NEW d \in Docs, Expire(d) \/ Consider(d)
      PROVE  Exclusive'
  BY <1>2 DEF Expire, Consider, working
<1>3. ASSUME NEW d \in Docs, Plan(d) \/ Finish(d)
      PROVE  Exclusive'
  BY <1>3 DEF Plan, Finish
<1>4. ASSUME NEW d \in Docs, Begin(d)
      PROVE  Exclusive'
  BY <1>4, NobodyAssumption DEF Begin
<1>5. ASSUME NEW d \in Docs, Store(d)
      PROVE  Exclusive'
  BY <1>5 DEF Store
<1>6. ASSUME NEW d \in Docs, Retry(d) \/ Fail(d)
      PROVE  Exclusive'
  BY <1>6 DEF Retry, Fail
<1>7. ASSUME NEW d \in Docs, Clean(d) \/ Delete(d) \/ FinishRemove(d)
      PROVE  Exclusive'
  BY <1>7 DEF Clean, Delete, Remove, FinishRemove
<1>8. CASE UNCHANGED vars
  BY <1>8 DEF vars, working
<1> QED  BY <1>1, <1>2, <1>3, <1>4, <1>5, <1>6, <1>7, <1>8 DEF Next

\* Who is saving after a step has begun, has considered a claim, or goes on as it was.
LEMMA SavingStep ==
    ASSUME TypeOK, Exclusive, [Next]_vars, NEW d \in Docs, pc'[d] = "saving"
    PROVE  Begun(d) \/ Weighed(d) \/ Continues(d)
<1> USE DEF TypeOK, Go
<1>1. Held \subseteq DOMAIN name
  BY DEF Held
<1>2. ASSUME NEW e \in Docs, NEW b \in Batches[e], ExtractBatch(e, b)
      PROVE  Continues(d)
  BY <1>1, <1>2 DEF ExtractBatch, Continues, OnlyLoses, stored
<1>3. ASSUME NEW e \in Docs, Expire(e)
      PROVE  Continues(d)
  BY <1>1, <1>3 DEF Expire, Continues, OnlyLoses, stored, working
<1>4. ASSUME NEW e \in Docs, Plan(e) \/ Finish(e) \/ Retry(e) \/ Fail(e)
      PROVE  Continues(d)
  BY <1>1, <1>4 DEF Plan, Finish, Retry, Fail, Continues, OnlyLoses, stored
<1>5. ASSUME NEW e \in Docs, Begin(e)
      PROVE  Begun(d) \/ Continues(d)
  BY <1>1, <1>5 DEF Begin, Begun, Continues, OnlyLoses, stored
<1>6. ASSUME NEW e \in Docs, Consider(e)
      PROVE  Weighed(d) \/ Continues(d)
  BY <1>1, <1>6 DEF Consider, Weighed, Continues, OnlyLoses, stored
<1>7. ASSUME NEW e \in Docs, Store(e)
      PROVE  FALSE
  BY <1>7 DEF Store, Exclusive
<1>8. ASSUME NEW e \in Docs, Clean(e) \/ Delete(e)
      PROVE  Continues(d)
  <2>1. OnlyLoses
    <3>1. \/ UNCHANGED stored
          \/ \E C \in SUBSET Orphans(e) : C \cap Held = {} /\ Without(C)
      BY <1>8 DEF Clean, Delete, Remove
    <3> QED  BY <1>1, <3>1, DeleteOnlyLoses DEF OnlyLoses, stored
  <2>2. pc[d] = "saving" /\ plan'[d] = plan[d]
    BY <1>8 DEF Clean, Delete, Remove
  <2> QED  BY <2>1, <2>2 DEF Continues
<1>9. ASSUME NEW e \in Docs, FinishRemove(e)
      PROVE  Continues(d)
  BY <1>9, DeleteOnlyLoses DEF FinishRemove, Continues
<1>10. CASE UNCHANGED vars
  BY <1>1, <1>10 DEF vars, Continues, OnlyLoses, stored, working
<1> QED  BY <1>2, <1>3, <1>4, <1>5, <1>6, <1>7, <1>8, <1>9, <1>10 DEF Next

\* Only Store adds to what is stored.
LEMMA StoredStep ==
    ASSUME TypeOK, [Next]_vars
    PROVE  \/ edges' \subseteq edges /\ DOMAIN name' \subseteq DOMAIN name /\ relics' = relics
              /\ \A c \in DOMAIN name' : name'[c] = name[c]
           \/ \E d \in Docs : Store(d)
<1>1. ASSUME NEW e \in Docs, Clean(e) \/ Delete(e) \/ FinishRemove(e)
      PROVE  /\ edges' \subseteq edges /\ DOMAIN name' \subseteq DOMAIN name /\ relics' = relics
             /\ \A c \in DOMAIN name' : name'[c] = name[c]
  <2>1. relics' = relics /\ (UNCHANGED stored \/ \E C : Without(C))
    BY <1>1 DEF Clean, Delete, Remove, FinishRemove
  <2> QED  BY <2>1, WithoutTypes DEF stored
<1>2. CASE UNCHANGED <<stored, relics>>
  BY <1>2 DEF stored
<1>3. ASSUME NEW e \in Docs, NEW b \in Batches[e], ExtractBatch(e, b)
      PROVE  UNCHANGED <<stored, relics>>
  BY <1>3 DEF ExtractBatch
<1>4. ASSUME NEW e \in Docs,
             Expire(e) \/ Plan(e) \/ Begin(e) \/ Consider(e) \/ Finish(e) \/ Retry(e) \/ Fail(e)
      PROVE  UNCHANGED <<stored, relics>>
  BY <1>4 DEF Expire, Plan, Begin, Consider, Finish, Retry, Fail
<1> QED  BY <1>1, <1>2, <1>3, <1>4 DEF Next, vars

----------------------------------------------------------------------------
(* No cycles, nothing twice *)

\* What is being saved has all that is stored, and what has been accepted.
Contains(d) == edges \subseteq plan[d].graph /\ \A c \in plan[d].taken : Fact(c) \in plan[d].graph

Contained == \A d \in Docs : pc[d] = "saving" => Contains(d)

NoCycles ==
    /\ NoPrerequisiteCycle
    /\ \A d \in Docs : pc[d] = "saving" => Acyclic(Prerequisites(plan[d].graph))

\* No fact is said twice, or of a concept and itself; specialisations are turned round.
Plain(F) == \A e, f \in F : e.source # e.target /\ ~SameFact(e, f) /\ e.type # "specialisation"

Once ==
    /\ Plain(edges)
    /\ \A d \in Docs : pc[d] = "saving" =>
          /\ Plain(plan[d].graph)
          /\ \A c \in plan[d].todo : c.source # c.target /\ c.type # "specialisation"

Sound == TypeOK /\ Exclusive /\ Contained /\ NoCycles /\ Once

\* The fields of a plan when a claim has been considered.
LEMMA ConsideredFields ==
    ASSUME NEW p, IsPlan(p), NEW c
    PROVE  LET q == Considered(p, c)
           IN  /\ q.todo = p.todo \ {c}
               /\ q.merged = p.merged /\ q.ids = p.ids
               /\ \/ q.graph = p.graph /\ q.taken = p.taken /\ q.left = p.left
                  \/ /\ q.graph = p.graph /\ q.taken = p.taken /\ q.left = p.left \cup {c}
                     /\ ClosesCycle(c, p.graph)
                  \/ /\ q.graph = p.graph \cup {Fact(c)} /\ q.taken = p.taken \cup {c}
                     /\ q.left = p.left
                     /\ ~ClosesCycle(c, p.graph) /\ ~IsPresent(Fact(c), p.graph)
BY DEF IsPlan, Considered

LEMMA ContainedStep ==
    TypeOK /\ Exclusive /\ Contained /\ [Next]_vars => Contained'
<1> SUFFICES ASSUME TypeOK, Exclusive, Contained, [Next]_vars, NEW d \in Docs, pc'[d] = "saving"
             PROVE  Contains(d)'
  BY DEF Contained
<1>1. CASE Begun(d)
  BY <1>1 DEF Begun, Started, Contains
<1>2. CASE Weighed(d)
  <2>1. IsPlan(plan[d]) /\ Contains(d)
    BY <1>2 DEF TypeOK, Weighed, Contained
  <2>2. PICK c \in Strongest(plan[d].todo) : plan'[d] = Considered(plan[d], c)
    BY <1>2 DEF Weighed
  <2>3. /\ plan[d].graph \subseteq plan'[d].graph
        /\ \A t \in plan'[d].taken : t \in plan[d].taken \/ Fact(t) \in plan'[d].graph
    BY <2>1, <2>2, ConsideredFields
  <2> QED  BY <1>2, <2>1, <2>3 DEF Contains, Weighed
<1>3. CASE Continues(d)
  BY <1>3 DEF Continues, Contained, Contains, OnlyLoses
<1> QED  BY <1>1, <1>2, <1>3, SavingStep

\* A claim that is accepted closes no cycle.
LEMMA AcceptedIsAcyclic ==
    ASSUME NEW G, Acyclic(Prerequisites(G)), NEW c, ~ClosesCycle(c, G)
    PROVE  Acyclic(Prerequisites(G \cup {Fact(c)}))
<1>1. CASE c.type = "prerequisite"
  <2>1. ~Reaches(Prerequisites(G), c.target, c.source)
    BY <1>1 DEF ClosesCycle
  <2>2. Acyclic(Prerequisites(G) \cup {<<c.source, c.target>>})
    BY <2>1, AcyclicAdd
  <2> QED  BY <1>1, <2>2, OneMorePrerequisite, AcyclicSubset
<1>2. CASE c.type # "prerequisite"
  BY <1>2, OneMorePrerequisite, AcyclicSubset
<1> QED  BY <1>1, <1>2

LEMMA NoCyclesStep ==
    TypeOK /\ Exclusive /\ Contained /\ NoCycles /\ [Next]_vars => NoCycles'
<1> SUFFICES ASSUME TypeOK, Exclusive, Contained, NoCycles, [Next]_vars
             PROVE  NoCycles'
  OBVIOUS
<1>1. NoPrerequisiteCycle'
  <2>1. CASE edges' \subseteq edges
    BY <2>1, MorePrerequisites, AcyclicSubset DEF NoCycles, NoPrerequisiteCycle
  <2>2. ASSUME NEW d \in Docs, Store(d)
        PROVE  NoPrerequisiteCycle'
    <3>1. edges' \subseteq plan[d].graph /\ Acyclic(Prerequisites(plan[d].graph))
      BY <2>2 DEF Store, Contained, Contains, NoCycles
    <3> QED  BY <3>1, MorePrerequisites, AcyclicSubset DEF NoPrerequisiteCycle
  <2> QED  BY <2>1, <2>2, StoredStep
<1>2. ASSUME NEW d \in Docs, pc'[d] = "saving"
      PROVE  Acyclic(Prerequisites(plan'[d].graph))
  <2>1. CASE Begun(d)
    BY <2>1 DEF Begun, Started, NoCycles, NoPrerequisiteCycle
  <2>2. CASE Weighed(d)
    <3>1. IsPlan(plan[d]) /\ Acyclic(Prerequisites(plan[d].graph))
      BY <2>2 DEF TypeOK, Weighed, NoCycles
    <3>2. PICK c \in Strongest(plan[d].todo) : plan'[d] = Considered(plan[d], c)
      BY <2>2 DEF Weighed
    <3>3. \/ plan'[d].graph = plan[d].graph
          \/ plan'[d].graph = plan[d].graph \cup {Fact(c)} /\ ~ClosesCycle(c, plan[d].graph)
      BY <3>1, <3>2, ConsideredFields
    <3> QED  BY <3>1, <3>3, AcceptedIsAcyclic
  <2>3. CASE Continues(d)
    BY <2>3 DEF Continues, NoCycles
  <2> QED  BY <1>2, <2>1, <2>2, <2>3, SavingStep
<1> QED  BY <1>1, <1>2 DEF NoCycles

\* An accepted claim says nothing that is said already.
LEMMA AcceptedIsPlain ==
    ASSUME NEW G \in SUBSET Facts, Plain(G), NEW c \in Claims, ~IsPresent(Fact(c), G),
           c.source # c.target, c.type # "specialisation"
    PROVE  Plain(G \cup {Fact(c)})
<1>1. /\ Fact(c) \in Facts
      /\ Fact(c).source = c.source /\ Fact(c).target = c.target /\ Fact(c).type = c.type
  BY FactOfClaim
<1>2. \A e \in G : ~SameFact(e, Fact(c))
  <2> SUFFICES ASSUME NEW e \in G, SameFact(e, Fact(c))
               PROVE  FALSE
    OBVIOUS
  <2>1. e.type = "related" /\ Fact(c).type = "related"
    BY <1>1 DEF SameFact
  <2>2. e = Reversed(Fact(c))
    BY <1>1, <2>1 DEF SameFact, Reversed, Facts
  <2> QED  BY <2>1, <2>2 DEF IsPresent
<1>3. \A e \in G : ~SameFact(Fact(c), e)
  <2> SUFFICES ASSUME NEW e \in G, SameFact(Fact(c), e)
               PROVE  FALSE
    OBVIOUS
  <2>1. e.type = "related" /\ Fact(c).type = "related"
    BY <1>1 DEF SameFact, Plain
  <2>2. e = Reversed(Fact(c))
    BY <1>1, <2>1 DEF SameFact, Reversed, Facts
  <2> QED  BY <2>1, <2>2 DEF IsPresent
<1>4. ~SameFact(Fact(c), Fact(c))
  BY <1>1 DEF SameFact
<1> QED  BY <1>1, <1>2, <1>3, <1>4 DEF Plain

LEMMA OnceStep ==
    TypeOK /\ Exclusive /\ Contained /\ Once /\ [Next]_vars => Once'
<1> SUFFICES ASSUME TypeOK, Exclusive, Contained, Once, [Next]_vars
             PROVE  Once'
  OBVIOUS
<1>1. Plain(edges')
  <2>1. CASE edges' \subseteq edges
    BY <2>1 DEF Once, Plain
  <2>2. ASSUME NEW d \in Docs, Store(d)
        PROVE  Plain(edges')
    <3>1. edges' \subseteq plan[d].graph /\ Plain(plan[d].graph)
      BY <2>2 DEF Store, Contained, Contains, Once
    <3> QED  BY <3>1 DEF Plain
  <2> QED  BY <2>1, <2>2, StoredStep
<1>2. ASSUME NEW d \in Docs, pc'[d] = "saving"
      PROVE  /\ Plain(plan'[d].graph)
             /\ \A c \in plan'[d].todo : c.source # c.target /\ c.type # "specialisation"
  <2>1. CASE Begun(d)
    BY <2>1, StartedIsPlan DEF Begun, Started, Once
  <2>2. CASE Weighed(d)
    <3>1. /\ IsPlan(plan[d]) /\ Plain(plan[d].graph)
          /\ \A c \in plan[d].todo : c.source # c.target /\ c.type # "specialisation"
      BY <2>2 DEF TypeOK, Weighed, Once
    <3>2. PICK c \in Strongest(plan[d].todo) : plan'[d] = Considered(plan[d], c)
      BY <2>2 DEF Weighed
    <3>3. c \in plan[d].todo /\ c \in Claims /\ plan[d].graph \in SUBSET Facts
      BY <3>1 DEF Strongest, IsPlan
    <3>4. /\ plan'[d].todo \subseteq plan[d].todo
          /\ \/ plan'[d].graph = plan[d].graph
             \/ /\ plan'[d].graph = plan[d].graph \cup {Fact(c)}
                /\ ~IsPresent(Fact(c), plan[d].graph)
      BY <3>1, <3>2, ConsideredFields
    <3>5. Plain(plan'[d].graph)
      BY <3>1, <3>3, <3>4, AcceptedIsPlain
    <3> QED  BY <3>1, <3>4, <3>5
  <2>3. CASE Continues(d)
    BY <2>3 DEF Continues, Once
  <2> QED  BY <1>2, <2>1, <2>2, <2>3, SavingStep
<1> QED  BY <1>1, <1>2 DEF Once

LEMMA SoundInit == Init => Sound
<1> SUFFICES ASSUME Init
             PROVE  Sound
  OBVIOUS
<1>1. Prerequisites({}) = {}
  BY DEF Prerequisites
<1>2. NoCycles
  BY <1>1 DEF Init, NoCycles, NoPrerequisiteCycle, Acyclic, Nodes
<1> QED  BY <1>2, TypeInit DEF Init, Sound, Exclusive, Contained, Once, Plain

LEMMA SoundStep == Sound /\ [Next]_vars => Sound'
BY TypeStep, ExclusiveStep, ContainedStep, NoCyclesStep, OnceStep DEF Sound

\* "no circular prerequisite chains" (concept_graph.py), whatever the model claims and
\* however documents are processed, tried again and deleted together.
THEOREM NeverACycle == Spec => []NoPrerequisiteCycle
<1>1. Sound => NoPrerequisiteCycle
  BY DEF Sound, NoCycles
<1> QED  BY <1>1, SoundInit, SoundStep, PTL DEF Spec

\* No relationship is stored in two equivalent forms, or of a concept with itself.
THEOREM EachFactOnce == Spec => []FactsStoredOnce
<1>1. Sound => FactsStoredOnce
  BY DEF Sound, Once, Plain, FactsStoredOnce
<1> QED  BY <1>1, SoundInit, SoundStep, PTL DEF Spec

----------------------------------------------------------------------------
(* One concept of a name *)

\* A name that is being saved and was merged into nothing takes the concept of that name
\* that there is. What is being saved is locked, so that none of it is deleted meanwhile.
Taken(d) ==
    \A k \in DOMAIN plan[d].ids \ plan[d].merged :
        k \in Names(name) => plan[d].ids[k] \in DOMAIN name

Distinct == NewNamesOnce /\ \A d \in Docs : pc[d] = "saving" => Taken(d)

LEMMA DistinctStep ==
    TypeOK /\ Exclusive /\ Distinct /\ [Next]_vars => Distinct'
<1> SUFFICES ASSUME TypeOK, Exclusive, Distinct, [Next]_vars
             PROVE  Distinct'
  OBVIOUS
<1>1. NewNamesOnce'
  <2>1. CASE /\ DOMAIN name' \subseteq DOMAIN name /\ relics' = relics
             /\ \A c \in DOMAIN name' : name'[c] = name[c]
    BY <2>1 DEF Distinct, NewNamesOnce
  <2>2. ASSUME NEW d \in Docs, Store(d)
        PROVE  NewNamesOnce'
    <3>1. PICK given \in [IdsOf(d) \ DOMAIN name -> DOMAIN plan[d].ids] :
            /\ \A c \in DOMAIN given : given[c] \in Givable(d, c)
            /\ name' = [c \in DOMAIN name \cup DOMAIN given |->
                           IF c \in DOMAIN name THEN name[c] ELSE given[c]]
            /\ relics' = relics \cup {c \in DOMAIN given : given[c] \in plan[d].merged}
      BY <2>2 DEF Store
    <3>2. Taken(d)
      BY <2>2 DEF Store, Distinct
    <3>3. ASSUME NEW c \in DOMAIN given, given[c] \notin plan[d].merged
          PROVE  given[c] \notin Names(name) /\ plan[d].ids[given[c]] = c
      <4>1. given[c] \in DOMAIN plan[d].ids /\ plan[d].ids[given[c]] = c /\ c \notin DOMAIN name
        BY <3>1 DEF Givable
      <4> QED  BY <3>2, <3>3, <4>1 DEF Taken
    <3>4. ASSUME NEW c \in DOMAIN name', NEW o \in DOMAIN name', c \notin relics', o \notin relics',
                 name'[c] = name'[o]
          PROVE  c = o
      <4>1. CASE c \in DOMAIN name /\ o \in DOMAIN name
        BY <3>1, <3>4, <4>1 DEF Distinct, NewNamesOnce
      <4>2. CASE c \in DOMAIN given /\ o \in DOMAIN given
        BY <3>1, <3>3, <3>4, <4>2
      <4>3. CASE c \in DOMAIN name /\ o \in DOMAIN given
        BY <3>1, <3>3, <3>4, <4>3 DEF Names
      <4>4. CASE c \in DOMAIN given /\ o \in DOMAIN name
        BY <3>1, <3>3, <3>4, <4>4 DEF Names
      <4> QED  BY <3>1, <4>1, <4>2, <4>3, <4>4
    <3> QED  BY <3>4 DEF NewNamesOnce
  <2> QED  BY <2>1, <2>2, StoredStep
<1>2. ASSUME NEW d \in Docs, pc'[d] = "saving"
      PROVE  Taken(d)'
  <2>1. CASE Begun(d)
    <3>1. plan'[d].ids = Remapped(d) /\ plan'[d].merged = plan[d].merged /\ name' = name
      BY <2>1 DEF Begun, Started
    <3> QED  BY <3>1, NamedIsThere DEF Taken, Remapped
  <2>2. CASE Weighed(d)
    <3>1. IsPlan(plan[d]) /\ Taken(d) /\ name' = name
      BY <2>2 DEF Weighed, TypeOK, Distinct
    <3>2. plan'[d].ids = plan[d].ids /\ plan'[d].merged = plan[d].merged
      BY <2>2, <3>1, ConsideredFields DEF Weighed
    <3> QED  BY <3>1, <3>2 DEF Taken
  <2>3. CASE Continues(d)
    <3>1. Taken(d) /\ plan'[d] = plan[d] /\ OnlyLoses /\ lock = d /\ d # Nobody
      BY <2>3, NobodyAssumption DEF Continues, Distinct, Exclusive
    <3>2. Names(name') \subseteq Names(name)
      BY <3>1 DEF OnlyLoses, Names
    <3>3. IdsOf(d) \cap DOMAIN name \subseteq DOMAIN name'
      BY <3>1 DEF OnlyLoses, Held
    <3> QED  BY <3>1, <3>2, <3>3 DEF Taken, IdsOf
  <2> QED  BY <1>2, <2>1, <2>2, <2>3, SavingStep
<1> QED  BY <1>1, <1>2 DEF Distinct

\* _persist looks new names up again under the lock: of two concepts of one name, one was
\* created for a name its plan had merged into another. Those (relics) do come to share a
\* name with another concept, by concurrency alone (NewNamesOnce).
THEOREM NeverTwoOfAName == Spec => []NewNamesOnce
<1> DEFINE Inv == TypeOK /\ Exclusive /\ Distinct
<1>1. Init => Inv
  BY TypeInit DEF Init, Exclusive, Distinct, NewNamesOnce
<1>2. Inv /\ [Next]_vars => Inv'
  BY TypeStep, ExclusiveStep, DistinctStep
<1>3. Inv => NewNamesOnce
  BY DEF Distinct
<1> QED  BY <1>1, <1>2, <1>3, PTL DEF Spec

----------------------------------------------------------------------------
(* Why a prerequisite is left out *)

Before(d)    == plan[d].graph \ {Fact(t) : t \in plan[d].taken}
Stronger(d, c) == {Fact(t) : t \in {x \in plan[d].taken : x.strength >= c.strength}}

\* Claims come strongest first, and each that is left out had its reason when it was.
Ordered(d) == \A t \in plan[d].taken, c \in plan[d].todo : t.strength >= c.strength
Excused(d) ==
    \A c \in plan[d].left :
        Reaches(Prerequisites(Before(d) \cup Stronger(d, c)), c.target, c.source)

Reasoned == \A d \in Docs : pc[d] = "saving" => Contains(d) /\ Ordered(d) /\ Excused(d)

\* Considering a claim keeps the order and the reasons.
LEMMA WeighedIsReasoned ==
    ASSUME TypeOK, NEW d \in Docs, Weighed(d), Contains(d), Ordered(d), Excused(d)
    PROVE  Ordered(d)' /\ Excused(d)'
<1>1. IsPlan(plan[d])
  BY DEF TypeOK
<1>2. PICK c \in Strongest(plan[d].todo) : plan'[d] = Considered(plan[d], c)
  BY DEF Weighed
<1>3. /\ c \in plan[d].todo /\ \A o \in plan[d].todo : o.strength <= c.strength
      /\ \A x \in plan[d].todo \cup plan[d].taken \cup plan[d].left : x.strength \in Nat
  BY <1>1, <1>2 DEF Strongest, IsPlan, Claims
<1>4. plan'[d].todo = plan[d].todo \ {c}
  BY <1>1, <1>2, ConsideredFields
<1>5. CASE plan'[d].graph = plan[d].graph /\ plan'[d].taken = plan[d].taken
            /\ plan'[d].left = plan[d].left
  BY <1>4, <1>5 DEF Ordered, Excused, Before, Stronger
<1>6. CASE plan'[d].graph = plan[d].graph /\ plan'[d].taken = plan[d].taken
            /\ plan'[d].left = plan[d].left \cup {c} /\ ClosesCycle(c, plan[d].graph)
  <2>1. Ordered(d)'
    BY <1>4, <1>6 DEF Ordered
  <2>2. plan[d].graph \subseteq Before(d) \cup Stronger(d, c)
    BY <1>3 DEF Before, Stronger, Ordered
  <2>3. Reaches(Prerequisites(Before(d) \cup Stronger(d, c)), c.target, c.source)
    BY <1>6, <2>2, MorePrerequisites, ReachesMore DEF ClosesCycle
  <2>4. Excused(d)'
    BY <1>6, <2>3 DEF Excused, Before, Stronger
  <2> QED  BY <2>1, <2>4
<1>7. CASE plan'[d].graph = plan[d].graph \cup {Fact(c)} /\ plan'[d].taken = plan[d].taken \cup {c}
            /\ plan'[d].left = plan[d].left /\ ~IsPresent(Fact(c), plan[d].graph)
  <2>1. Ordered(d)'
    BY <1>3, <1>4, <1>7 DEF Ordered
  <2>2. Fact(c) \notin plan[d].graph
    BY <1>7 DEF IsPresent
  <2>3. Before(d)' = Before(d)
    BY <1>7, <2>2 DEF Before
  <2>4. ASSUME NEW l \in plan[d].left
        PROVE  Reaches(Prerequisites(Before(d)' \cup Stronger(d, l)'), l.target, l.source)
    <3>1. Stronger(d, l) \subseteq Stronger(d, l)'
      BY <1>7 DEF Stronger
    <3>2. Reaches(Prerequisites(Before(d) \cup Stronger(d, l)), l.target, l.source)
      BY DEF Excused
    <3> QED  BY <2>3, <3>1, <3>2, MorePrerequisites, ReachesMore
  <2>5. Excused(d)'
    BY <1>7, <2>4 DEF Excused
  <2> QED  BY <2>1, <2>5
<1> QED  BY <1>1, <1>2, <1>5, <1>6, <1>7, ConsideredFields

LEMMA ReasonedStep ==
    TypeOK /\ Exclusive /\ Contained /\ Reasoned /\ [Next]_vars => Reasoned'
<1> SUFFICES ASSUME TypeOK, Exclusive, Contained, Reasoned, [Next]_vars,
                    NEW d \in Docs, pc'[d] = "saving"
             PROVE  (Contains(d) /\ Ordered(d) /\ Excused(d))'
  BY DEF Reasoned
<1>1. Contains(d)'
  BY ContainedStep DEF Contained
<1>2. CASE Begun(d)
  <2>1. plan'[d].taken = {} /\ plan'[d].left = {}
    BY <1>2 DEF Begun, Started
  <2> QED  BY <1>1, <2>1 DEF Ordered, Excused
<1>3. CASE Weighed(d)
  <2>1. Contains(d) /\ Ordered(d) /\ Excused(d)
    BY <1>3 DEF Reasoned, Weighed
  <2> QED  BY <1>1, <1>3, <2>1, WeighedIsReasoned
<1>4. CASE Continues(d)
  <2>1. Ordered(d) /\ Excused(d) /\ plan'[d] = plan[d]
    BY <1>4 DEF Reasoned, Continues
  <2> QED  BY <1>1, <2>1 DEF Ordered, Excused, Before, Stronger
<1> QED  BY <1>1, <1>2, <1>3, <1>4, SavingStep

\* "edges are accepted strongest-first": a prerequisite is left out only for facts stored
\* before, or claims at least as strong, that lead the other way.
THEOREM LeftOutRightly == Spec => []LeftOutForAReason
<1> DEFINE Inv == TypeOK /\ Exclusive /\ Contained /\ Reasoned
<1>1. Init => Inv
  BY TypeInit DEF Init, Exclusive, Contained, Reasoned
<1>2. Inv /\ [Next]_vars => Inv'
  BY TypeStep, ExclusiveStep, ContainedStep, ReasonedStep
<1>3. Inv => LeftOutForAReason
  BY DEF Reasoned, Excused, Before, Stronger, LeftOutForAReason
<1> QED  BY <1>1, <1>2, <1>3, PTL DEF Spec

=============================================================================
