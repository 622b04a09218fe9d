------------------------------ MODULE ConceptGraph ------------------------------
(***************************************************************************)
(* The concepts and relationships of one student (one subject), written by *)
(* the workers that process the student's documents: concepts are          *)
(* extracted batch by batch, matched with the concepts there are, related  *)
(* by the model, and saved under a per-user advisory lock                  *)
(* (services/content/concept_extractor.py, concept_graph.py,               *)
(* document_processor._persist, db/repositories/concept.py). The life of a *)
(* document is DocumentPipeline's; here it only matters that an attempt    *)
(* may fail anywhere, be repeated or be taken back, and that documents are *)
(* deleted.                                                                *)
(*                                                                         *)
(* A concept's id (uuid) is named by the document, the attempt and the     *)
(* normalised name it was made for.                                        *)
(***************************************************************************)
EXTENDS Integers, FiniteSets

CONSTANTS
    Docs,         \* documents, each processed by one worker at a time
    Keys,         \* normalised names
    Batches,      \* the batches of chunks of each document, in order: 1..n
    Findings,     \* what the model may extract from a batch
    Answers,      \* what the model may say of the concepts of a document
    MaxConcepts,  \* max_concepts_per_document
    MaxTries,     \* bound: attempts at each document
    Nobody        \* holder of a free advisory lock

Ids == Docs \X Nat \X Keys

Kinds  == {"prerequisite", "related", "generalisation", "specialisation"}
Facts  == [source : Ids, target : Ids, type : Kinds]
Claims == [source : Ids, target : Ids, type : Kinds, strength : Nat]

\* An extracted concept: its name, what it needs, what it is near to.
Extracted == [key : Keys, needs : SUBSET Keys, near : SUBSET (Keys \X (Kinds \ {"prerequisite"}))]

\* Duplicates: pairs of a new name and an existing one, or one of an earlier batch.
Answer == [duplicates : SUBSET (Keys \X Keys),
           relations  : SUBSET [source : Keys, target : Keys, type : Kinds, strength : Nat]]

ASSUME BatchAssumption ==
    /\ Batches \in [Docs -> SUBSET Nat]
    /\ MaxConcepts \in Nat
    /\ MaxTries \in [Docs -> Nat]
ASSUME FindingAssumption == Findings \subseteq SUBSET Extracted
\* Bound: a name the model merges into another is not what a third one is merged into.
ASSUME AnswerAssumption ==
    /\ Answers \subseteq Answer
    /\ \A a \in Answers : \A p, q \in a.duplicates : p[2] # q[1] /\ (p[1] = q[1] => p = q)
ASSUME NobodyAssumption == Nobody \notin Docs

VARIABLES
    name,    \* concepts, committed: the normalised name of each id
    edges,   \* concept_relationships, committed
    links,   \* document_section_concepts, committed: <<document, concept>>
    lock,    \* who holds pg_advisory_xact_lock(concepts:user)
    pc,      \* where each document is
    try,     \* the attempt it is at
    got,     \* the batches it has extracted
    cache,   \* ExtractionCache: what Redis has of each document's batches
    plan,    \* GraphPlan, and in "saving" what _persist is about to write
    doomed,  \* the concepts a deletion waits to delete
    relics   \* history: concepts created for a name their plan had merged into another

stored  == <<name, edges, links>>
working == <<lock, pc, try, got, plan>>
vars    == <<stored, working, cache, doomed, relics>>

NoPlan == [ids |-> <<>>, merged |-> {}, todo |-> {}, taken |-> {}, left |-> {}, graph |-> {}]

\* A function on some of A.
IsPartial(f, A, B) == DOMAIN f \subseteq A /\ f \in [DOMAIN f -> B]

\* todo: claims to consider; taken, left: those accepted and dropped; graph: what is
\* stored, with the accepted ones.
IsPlan(p) ==
    /\ p \in [ids : {p.ids}, merged : SUBSET Keys, todo : SUBSET Claims,
              taken : SUBSET Claims, left : SUBSET Claims, graph : SUBSET Facts]
    /\ IsPartial(p.ids, Keys, Ids)

TypeOK ==
    /\ DOMAIN name \subseteq Ids /\ \A c \in DOMAIN name : name[c] \in Keys
    /\ edges \subseteq Facts
    /\ links \subseteq Docs \X Ids
    /\ lock \in Docs \cup {Nobody}
    /\ pc \in [Docs -> {"extracting", "linking", "planned", "saving", "saved", "ready",
                        "failing", "cleaning", "failed", "deleting", "deleted"}]
    /\ try \in [Docs -> Nat]
    /\ DOMAIN got = Docs /\ DOMAIN cache = Docs /\ DOMAIN plan = Docs
    /\ \A d \in Docs : /\ IsPartial(got[d], Batches[d], Findings)
                       /\ IsPartial(cache[d], Batches[d], Findings)
                       /\ IsPlan(plan[d])
    /\ doomed \in [Docs -> SUBSET Ids]
    /\ relics \subseteq Ids

----------------------------------------------------------------------------
(* Concepts *)

Names(concepts) == {concepts[c] : c \in DOMAIN concepts}

\* The concept of that name; where two share one, the code takes either.
Named(concepts, k) == CHOOSE c \in DOMAIN concepts : concepts[c] = k

Own(d, k) == <<d, try[d], k>>

\* merge_candidates: a concept is found in some batches, and needs what any of them says.
FoundIn(d, k)    == {b \in DOMAIN got[d] : \E f \in got[d][b] : f.key = k}
Found(d)         == {k \in Keys : FoundIn(d, k) # {}}
Saying(d, b, k)  == {f \in got[d][b] : f.key = k}
Needs(d, k)      == UNION {f.needs \ {k} : f \in UNION {Saying(d, b, k) : b \in FoundIn(d, k)}}

\* Of several things said of k and l, that of the first batch counts.
Near(d, k) ==
    {n \in UNION {f.near : f \in UNION {Saying(d, b, k) : b \in FoundIn(d, k)}} :
        /\ n[1] # k
        /\ \E b \in FoundIn(d, k) :
              /\ \E f \in Saying(d, b, k) : n \in f.near
              /\ \A a \in FoundIn(d, k) : a < b =>
                    \A f \in Saying(d, a, k) : \A m \in f.near : m[1] # n[1]}

\* extract: at most max_concepts_per_document; which are taught in the most sections is open.
Cuts(d) ==
    {K \in SUBSET Found(d) :
        /\ Cardinality(K) <= MaxConcepts
        /\ K = Found(d) \/ Cardinality(K) = MaxConcepts}

----------------------------------------------------------------------------
(* Relationships *)

Prerequisites(facts) ==
    {<<f.source, f.target>> : f \in {g \in facts : g.type = "prerequisite"}}

Nodes(R) == {e[1] : e \in R} \cup {e[2] : e \in R}

\* _reachable: b is in every set that has a and, with x, whatever x leads to.
Reaches(R, a, b) ==
    \A S \in SUBSET (Nodes(R) \cup {a}) :
        a \in S /\ (\A e \in R : e[1] \in S => e[2] \in S) => b \in S

Fact(c) == [source |-> c.source, target |-> c.target, type |-> c.type]
Reversed(f) == [f EXCEPT !.source = f.target, !.target = f.source]

\* Mutant of Canonical: specialisations are stored as they come.
AsGiven(c) == c

\* canonical_edge: "B specialisation A" is stored as "A generalisation B".
Canonical(c) ==
    IF c.type = "specialisation"
    THEN [c EXCEPT !.source = c.target, !.target = c.source, !.type = "generalisation"]
    ELSE c

\* The strongest claim of each fact, none of a concept about itself.
Best(claims) ==
    LET forms == {Canonical(c) : c \in claims}
    IN  {c \in forms : c.source # c.target
                       /\ \A o \in forms : Fact(o) = Fact(c) => o.strength <= c.strength}

\* The plan's claims: what the model answered, and what was extracted with the concepts K;
\* id: the concept of each name there is one for.
ClaimsOf(d, a, K, id) ==
    {[source |-> id[r.source], target |-> id[r.target], type |-> r.type, strength |-> r.strength] :
        r \in {x \in a.relations : {x.source, x.target} \subseteq DOMAIN id}}
    \cup UNION {
        {[source |-> id[p], target |-> id[k], type |-> "prerequisite", strength |-> 7] :
            p \in Needs(d, k) \cap DOMAIN id}
        \cup {[source |-> IF n[2] = "related" THEN id[k] ELSE id[n[1]],
               target |-> IF n[2] = "related" THEN id[n[1]] ELSE id[k],
               type |-> n[2], strength |-> IF n[2] = "related" THEN 5 ELSE 6] :
            n \in {x \in Near(d, k) : x[1] \in DOMAIN id}} : k \in K}

----------------------------------------------------------------------------
(* Extracting *)

Go(d, step) == pc' = [pc EXCEPT ![d] = step]

With(f, x, y) == [z \in DOMAIN f \cup {x} |-> IF z = x THEN y ELSE f[z]]

\* _extract_batch: the cached result, else the model's, which is cached unless empty. Redis
\* may fail to keep it. Bound: the last attempt caches nothing, since none would read it.
ExtractBatch(d, b) ==
    /\ pc[d] = "extracting"
    /\ b \notin DOMAIN got[d]
    /\ \/ /\ b \in DOMAIN cache[d]
          /\ got' = [got EXCEPT ![d] = With(got[d], b, cache[d][b])]
          /\ UNCHANGED cache
       \/ /\ b \notin DOMAIN cache[d]
          /\ \E found \in Findings :
                /\ got' = [got EXCEPT ![d] = With(got[d], b, found)]
                /\ \/ /\ found # {} /\ try[d] < MaxTries[d]
                      /\ cache' = [cache EXCEPT ![d] = With(cache[d], b, found)]
                   \/ UNCHANGED cache
    /\ IF DOMAIN got'[d] = Batches[d] THEN Go(d, "linking") ELSE UNCHANGED pc
    /\ UNCHANGED <<stored, lock, try, plan, doomed, relics>>

\* The cached results expire.
Expire(d) ==
    /\ cache[d] # <<>>
    /\ cache' = [cache EXCEPT ![d] = <<>>]
    /\ UNCHANGED <<stored, working, doomed, relics>>

\* An exact duplicate of an existing concept.
Matched(k) == k \in Names(name)

\* What the model says k duplicates: an existing concept, or another candidate.
SameAs(a, K, k) ==
    {l \in Keys : <<k, l>> \in a.duplicates /\ ~Matched(k) /\ k # l /\ (Matched(l) \/ l \in K)}

\* The concept name k stands for.
IdOf(d, a, K, k) ==
    LET l == IF SameAs(a, K, k) = {} THEN k ELSE CHOOSE l \in SameAs(a, K, k) : TRUE
    IN  IF Matched(l) THEN Named(name, l) ELSE Own(d, l)

Planned(d, a, K) ==
    LET id == [k \in K \cup Names(name) |-> IF k \in K THEN IdOf(d, a, K, k) ELSE Named(name, k)]
    IN  [NoPlan EXCEPT !.ids    = [k \in K |-> id[k]],
                       !.merged = {k \in K : Matched(k) \/ SameAs(a, K, k) # {}},
                       !.todo   = ClaimsOf(d, a, K, id)]

NoAnswer == [duplicates |-> {}, relations |-> {}]

\* ConceptGraphBuilder.plan, on the concepts read without a lock. A failed answer is an
\* empty one.
Plan(d) ==
    /\ pc[d] = "linking"
    /\ \E K \in Cuts(d), a \in Answers \cup {NoAnswer} :
          plan' = [plan EXCEPT ![d] = Planned(d, a, K)]
    /\ Go(d, "planned")
    /\ UNCHANGED <<stored, lock, try, got, cache, doomed, relics>>

----------------------------------------------------------------------------
(* Saving *)

\* Mutant of Remapped: what another worker created since is not looked for.
RemappedNever(d) == plan[d].ids

\* _persist: a new name that has been created since, concurrently or by an earlier attempt,
\* takes the concept there is; a merged one keeps what it was merged into.
Remapped(d) ==
    [k \in DOMAIN plan[d].ids |->
        IF k \notin plan[d].merged /\ k \in Names(name) THEN Named(name, k)
        ELSE plan[d].ids[k]]

\* remap: from the id that was planned to the one that is used.
Moved(d, c) ==
    IF \E k \in DOMAIN plan[d].ids : k \notin plan[d].merged /\ plan[d].ids[k] = c
    THEN Remapped(d)[CHOOSE k \in DOMAIN plan[d].ids : k \notin plan[d].merged /\ plan[d].ids[k] = c]
    ELSE c

IdsOf(d) == {plan[d].ids[k] : k \in DOMAIN plan[d].ids}

\* The existing concepts a transaction updates and links, and so has locked.
Held == IF lock = Nobody THEN {} ELSE IdsOf(lock) \cap DOMAIN name

Repointed(d, c) == [c EXCEPT !.source = Moved(d, c.source), !.target = Moved(d, c.target)]

\* The plan with the names and relationships looked up again, under the lock.
Started(d) ==
    [ids |-> Remapped(d), merged |-> plan[d].merged,
     todo |-> Best({Repointed(d, c) : c \in plan[d].todo}),
     taken |-> {}, left |-> {}, graph |-> edges]

\* Mutant of Begin: two documents are saved at a time.
BeginUnlocked(d) ==
    /\ pc[d] = "planned"
    /\ \A x \in Docs : doomed[x] = {}
    /\ plan' = [plan EXCEPT ![d] = Started(d)]
    /\ lock' = d
    /\ Go(d, "saving")
    /\ UNCHANGED <<stored, try, got, cache, doomed, relics>>

\* The advisory lock is taken, the concepts and relationships are read again; existing
\* concepts are updated, which waits for a deletion that has begun.
Begin(d) ==
    /\ pc[d] = "planned"
    /\ lock = Nobody
    /\ \A x \in Docs : doomed[x] = {}
    /\ plan' = [plan EXCEPT ![d] = Started(d)]
    /\ lock' = d
    /\ Go(d, "saving")
    /\ UNCHANGED <<stored, try, got, cache, doomed, relics>>

\* Mutant of Strongest: claims are considered in any order.
AnyClaim(claims) == claims

Strongest(claims) == {c \in claims : \A o \in claims : o.strength <= c.strength}

IsPresent(f, graph) == f \in graph \/ (f.type = "related" /\ Reversed(f) \in graph)

\* Mutant of ClosesCycle: only a direct contradiction is seen.
ContradictsOnly(c, graph) ==
    c.type = "prerequisite" /\ Reversed(Fact(c)) \in graph

ClosesCycle(c, graph) ==
    c.type = "prerequisite" /\ Reaches(Prerequisites(graph), c.target, c.source)

\* A plan when claim c has been considered: there already, left out, or accepted.
Considered(p, c) ==
    IF IsPresent(Fact(c), p.graph) THEN [p EXCEPT !.todo = p.todo \ {c}]
    ELSE IF ClosesCycle(c, p.graph)
    THEN [p EXCEPT !.todo = p.todo \ {c}, !.left = p.left \cup {c}]
    ELSE [p EXCEPT !.todo = p.todo \ {c}, !.taken = p.taken \cup {c},
                   !.graph = p.graph \cup {Fact(c)}]

\* filter_edges takes the claims one by one, the strongest first.
Consider(d) ==
    /\ pc[d] = "saving"
    /\ \E c \in Strongest(plan[d].todo) : plan' = [plan EXCEPT ![d] = Considered(plan[d], c)]
    /\ UNCHANGED <<stored, lock, pc, try, got, cache, doomed, relics>>

\* Every end of every accepted claim is a concept: else the foreign key is violated.
EndsExist(d) ==
    \A c \in plan[d].taken : {c.source, c.target} \subseteq DOMAIN name \cup IdsOf(d)

\* The name a new concept is given: that of the first candidate it stands for. What others
\* were merged into comes before them, unless it stands for another concept now.
Givable(d, c) ==
    LET K == {k \in DOMAIN plan[d].ids : plan[d].ids[k] = c}
    IN  IF K \subseteq plan[d].merged THEN K ELSE K \ plan[d].merged

\* Concepts, links and relationships are committed; the document's former sections, and
\* with them their links, are replaced.
Store(d) ==
    /\ pc[d] = "saving" /\ plan[d].todo = {} /\ EndsExist(d)
    /\ \E given \in [IdsOf(d) \ DOMAIN name -> DOMAIN plan[d].ids] :
          /\ \A c \in DOMAIN given : given[c] \in Givable(d, c)
          /\ name' = [c \in DOMAIN name \cup DOMAIN given |->
                         IF c \in DOMAIN name THEN name[c] ELSE given[c]]
          /\ relics' = relics \cup {c \in DOMAIN given : given[c] \in plan[d].merged}
    /\ edges' = edges \cup {Fact(c) : c \in plan[d].taken}
    /\ links' = {l \in links : l[1] # d} \cup {<<d, c>> : c \in IdsOf(d)}
    /\ plan' = [plan EXCEPT ![d] = NoPlan]
    /\ lock' = Nobody
    /\ Go(d, "saved")
    /\ UNCHANGED <<try, got, cache, doomed>>

\* _index and _finalize.
Finish(d) ==
    /\ pc[d] = "saved"
    /\ Go(d, "ready")
    /\ got' = [got EXCEPT ![d] = <<>>]
    /\ UNCHANGED <<stored, lock, try, cache, plan, doomed, relics>>

Attempting == {"extracting", "linking", "planned", "saving", "saved"}

\* Another attempt, from the start: after an error that may pass or the death of the worker,
\* wherever it was, or confirmed by the student. A transaction is rolled back.
Retry(d) ==
    /\ pc[d] \in Attempting \cup {"failing", "cleaning", "failed"}
    /\ try[d] < MaxTries[d]
    /\ try' = [try EXCEPT ![d] = try[d] + 1]
    /\ got' = [got EXCEPT ![d] = <<>>]
    /\ plan' = [plan EXCEPT ![d] = NoPlan]
    /\ lock' = IF lock = d THEN Nobody ELSE lock
    /\ doomed' = [doomed EXCEPT ![d] = {}]
    /\ Go(d, "extracting")
    /\ UNCHANGED <<stored, cache, relics>>

\* The attempt fails for good: the AI, the file or the foreign key refuses.
Fail(d) ==
    /\ pc[d] \in Attempting
    /\ got' = [got EXCEPT ![d] = <<>>]
    /\ plan' = [plan EXCEPT ![d] = NoPlan]
    /\ lock' = IF lock = d THEN Nobody ELSE lock
    /\ Go(d, "failing")
    /\ UNCHANGED <<stored, try, cache, doomed, relics>>

----------------------------------------------------------------------------
(* Deleting documents, and what failed attempts have left *)

\* Concepts gone take their relationships and links with them.
Without(C) ==
    /\ name' = [c \in DOMAIN name \ C |-> name[c]]
    /\ edges' = {e \in edges : e.source \notin C /\ e.target \notin C}

\* delete_orphaned_extracted, as its statement sees it when it starts: the document's
\* concepts that no other document links, less those that carry learning data.
Orphans(d) ==
    {c \in DOMAIN name : <<d, c>> \in links /\ \A x \in Docs \ {d} : <<x, c>> \notin links}

\* The document's sections and orphans go. Concepts another worker has locked are waited
\* for, and then deleted for what the statement saw before.
Remove(d, waiting, done) ==
    \E C \in SUBSET Orphans(d) :
        IF C \cap Held = {}
        THEN /\ Without(C)
             /\ links' = {l \in links : l[1] # d /\ l[2] \notin C}
             /\ Go(d, done)
             /\ UNCHANGED doomed
        ELSE /\ doomed' = [doomed EXCEPT ![d] = C]
             /\ Go(d, waiting)
             /\ UNCHANGED stored

\* _fail takes back what the attempts have saved.
Clean(d) ==
    /\ pc[d] = "failing"
    /\ Remove(d, "cleaning", "failed")
    /\ UNCHANGED <<lock, try, got, cache, plan, relics>>

\* The document's row is not deleted while _persist or _fail holds it.
Delete(d) ==
    /\ pc[d] \notin {"saving", "cleaning", "deleting", "deleted"}
    /\ Remove(d, "deleting", "deleted")
    /\ got' = [got EXCEPT ![d] = <<>>]
    /\ plan' = [plan EXCEPT ![d] = NoPlan]
    /\ UNCHANGED <<lock, try, cache, relics>>

FinishRemove(d) ==
    /\ pc[d] \in {"cleaning", "deleting"}
    /\ doomed[d] \cap Held = {}
    /\ Without(doomed[d])
    /\ links' = {l \in links : l[1] # d /\ l[2] \notin doomed[d]}
    /\ doomed' = [doomed EXCEPT ![d] = {}]
    /\ Go(d, IF pc[d] = "deleting" THEN "deleted" ELSE "failed")
    /\ UNCHANGED <<lock, try, got, cache, plan, relics>>

----------------------------------------------------------------------------
(* Specification *)

Init ==
    /\ name = <<>>
    /\ edges = {} /\ links = {}
    /\ lock = Nobody
    /\ pc = [d \in Docs |-> "extracting"]
    /\ try = [d \in Docs |-> 1]
    /\ got = [d \in Docs |-> <<>>]
    /\ cache = [d \in Docs |-> <<>>]
    /\ plan = [d \in Docs |-> NoPlan]
    /\ doomed = [d \in Docs |-> {}]
    /\ relics = {}

Next ==
    \E d \in Docs :
        \/ \E b \in Batches[d] : ExtractBatch(d, b)
        \/ Expire(d) \/ Plan(d) \/ Begin(d) \/ Consider(d) \/ Store(d) \/ Finish(d)
        \/ Retry(d) \/ Fail(d) \/ Clean(d) \/ Delete(d) \/ FinishRemove(d)

Spec == Init /\ [][Next]_vars

----------------------------------------------------------------------------
(* Properties *)

\* Every set of concepts has one that needs none of the others.
Acyclic(R) ==
    \A S \in SUBSET Nodes(R) : S # {} => \E c \in S : \A p \in S : <<p, c>> \notin R

\* "Invariant: no circular prerequisite chains" (concept_graph.py), whatever the model
\* answers for however many documents, in any order: plans and sessions walk this graph.
NoPrerequisiteCycle == Acyclic(Prerequisites(edges))

\* Two relationships that say the same of the same concepts, one the other way round.
SameFact(e, f) ==
    /\ e.source = f.target /\ e.target = f.source
    /\ \/ e.type = "related" /\ f.type = "related"
       \/ e.type = "generalisation" /\ f.type = "specialisation"

\* Each fact is stored once: no relationship of a concept with itself, none in both of two
\* equivalent forms (canonical_edge, filter_edges).
FactsStoredOnce ==
    \A e, f \in edges : e.source # e.target /\ ~SameFact(e, f)

\* Two documents, or two attempts at one, never create two concepts for one name, as long
\* as the plans had not merged it into another (_persist looks new names up again under the
\* lock). For a merged name it does not: a concept is created for one (relics) when what it
\* was merged into is not stored when the plan is saved, because it is gone, or because it
\* was itself new in the plan and another document has created it since.
NewNamesOnce ==
    \A c, o \in DOMAIN name \ relics : name[c] = name[o] => c = o

\* A prerequisite is left out only if relationships stored before, or claimed at least as
\* strongly, already lead the other way ("edges are accepted strongest-first").
LeftOutForAReason ==
    \A d \in Docs : pc[d] = "saving" =>
        \A c \in plan[d].left :
            LET stronger == {Fact(t) : t \in {x \in plan[d].taken : x.strength >= c.strength}}
                before   == plan[d].graph \ {Fact(t) : t \in plan[d].taken}
            IN  Reaches(Prerequisites(before \cup stronger), c.target, c.source)
=============================================================================
