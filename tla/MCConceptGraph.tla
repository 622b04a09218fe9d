----------------------------- MODULE MCConceptGraph -----------------------------
(* Instance of ConceptGraph for TLC: two documents about the same three names, with *)
(* contradictory claims about what needs what, and a name merged into another.     *)
EXTENDS ConceptGraph

CONSTANTS x, y, z, d1, d2

\* One document in two batches, one in a single batch that is tried again.
MCBatches == [d \in Docs |-> IF d = d1 THEN {1, 2} ELSE {1}]
MCTries   == [d \in Docs |-> IF d = d1 THEN 1 ELSE 2]

One(k, needs, near) == [key |-> k, needs |-> needs, near |-> near]

MCFindings == {{One(x, {y}, {}), One(y, {}, {<<x, "related">>})},
               {One(y, {x}, {<<z, "specialisation">>})},
               {One(z, {y}, {<<y, "generalisation">>, <<x, "related">>})}}

Rel(s, t, kind, n) == [source |-> s, target |-> t, type |-> kind, strength |-> n]

MCAnswers == {[duplicates |-> {<<y, x>>}, relations |-> {}],
              [duplicates |-> {}, relations |-> {Rel(x, z, "prerequisite", 9), Rel(z, y, "prerequisite", 8)}]}
=============================================================================
