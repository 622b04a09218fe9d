---------------------------- MODULE MCSessionStore ----------------------------
(* Instance of SessionStore for TLC. *)
EXTENDS SessionStore
=============================================================================
