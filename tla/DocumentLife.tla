---------------------------- MODULE DocumentLife ----------------------------
(***************************************************************************)
(* What the pipeline promises the owner of a document: what was found in   *)
(* it appears all at once when the document becomes ready, and stays as it *)
(* is until the document is deleted; an attempt that fails leaves nothing. *)
(***************************************************************************)
CONSTANT Names

VARIABLES
    stage,    \* the status the owner sees
    content   \* the concepts the document has contributed

Init == stage = "pending" /\ content = {}

\* A confirmation starts an attempt, the first one or another one after a failure.
Submit ==
    /\ stage \in {"pending", "failed"} /\ stage' = "processing"
    /\ content' = {}

Publish ==
    /\ stage = "processing" /\ stage' = "ready"
    /\ content' \in SUBSET Names

\* The file is refused, or the attempt fails.
GiveUp ==
    /\ stage \in {"pending", "processing"} /\ stage' = "failed"
    /\ content' = {}

Delete ==
    /\ stage # "deleted" /\ stage' = "deleted"
    /\ content' = {}

Next == Submit \/ Publish \/ GiveUp \/ Delete

Spec == Init /\ [][Next]_<<stage, content>>
=============================================================================
