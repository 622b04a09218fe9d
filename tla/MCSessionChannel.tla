--------------------------- MODULE MCSessionChannel ---------------------------
(* Three connections of one page, a message and a request without a socket:  *)
(* enough for an old handler, a new one and a request to meet.               *)
EXTENDS SessionChannel
=============================================================================
