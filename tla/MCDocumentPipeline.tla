------------------------- MODULE MCDocumentPipeline -------------------------
(* Instances of DocumentPipeline for TLC. Workers and concepts are alike; the *)
(* runs that only check safety may use that.                                  *)
EXTENDS DocumentPipeline, TLC

Alike == Permutations(Workers) \cup Permutations(Names)
=============================================================================
