----------------------------- MODULE MCAIGateway -----------------------------
(* Concurrent requests of one student. *)
EXTENDS AIGateway, TLC

Alike == Permutations(Callers)
=============================================================================
