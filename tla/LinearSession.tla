---------------------------- MODULE LinearSession ----------------------------
(***************************************************************************)
(* What the session manager promises its callers: a session is one history *)
(* to which accepted messages are appended one at a time, each at most     *)
(* once, until one of them ends it.                                        *)
(***************************************************************************)
EXTENDS Sequences

CONSTANT Requests

VARIABLES
    history,  \* the requests whose turns the session remembers, in order
    ended     \* the session is completed

Init == history = <<>> /\ ended = FALSE

\* One turn: request r is remembered, and may end the session.
Turn(r) ==
    /\ ~ended
    /\ \A i \in DOMAIN history : history[i] # r
    /\ history' = Append(history, r)
    /\ ended' \in BOOLEAN

Next == \E r \in Requests : Turn(r)

Spec == Init /\ [][Next]_<<history, ended>>
=============================================================================
