------------------------------ MODULE AIGateway ------------------------------
(* The client every AI call goes through: the daily budget, the fallback     *)
(* provider, the second try after unusable output, and the ledger of costs.  *)
(* Each recorded call costs one unit. The ledger is the database table,      *)
(* written in a transaction of its own; the counter is the Redis key of the  *)
(* day, from which the budget is read.                                       *)
EXTENDS Integers, FiniteSets

CONSTANTS
    Callers,        \* the student's requests that use the AI
    Budget,         \* units a student may spend in a day
    Targets,        \* providers a task may use: the first and its fallback
    LastDay,        \* bound: days
    MaxForgotten    \* bound: units Redis may forget in a day

ASSUME GatewayAssumption ==
    /\ IsFiniteSet(Callers)
    /\ Budget \in Nat \ {0} /\ Targets \in Nat \ {0}
    /\ LastDay \in Nat /\ MaxForgotten \in Nat

VARIABLES
    today,
    ledger,         \* what the database says was spent today
    counter,        \* what Redis says; a missing key counts as nothing spent
    forgotten,      \* units counted today that Redis has not, or has no longer
    call            \* the call each caller has under way

vars == <<today, ledger, counter, forgotten, call>>

Kinds == {"json", "text", "stream", "embed"}
Tries(kind) == IF kind = "json" THEN 1 ELSE 0       \* retries of complete_json
Providers(kind) == IF kind = "embed" THEN 1 ELSE Targets

(* How a request to one provider ends, after the retries of its transport:  *)
(* text, text that does not parse, an error worth another turn or not, or a *)
(* stream that breaks off, or turns unreadable, after its first piece.      *)
Replies(kind) ==
    {"good", "transient", "permanent"} \cup
    (IF kind = "json" THEN {"bad"} ELSE {}) \cup
    (IF kind = "stream" THEN {"cut", "garbled"} ELSE {})

(* What a caller gets in the end; a crash is an exception nobody expects.    *)
Outcomes == {"good", "transient", "permanent", "crash"}

Outside(stage, reply) ==
    [stage |-> stage, kind |-> "text", target |-> 1, tries |-> 0, reply |-> reply]
Idle == Outside("idle", "good")
Ended(outcome) == Outside("ended", outcome)
Asking(kind, target, tries) ==
    [stage |-> "asked", kind |-> kind, target |-> target, tries |-> tries, reply |-> "good"]

Init ==
    /\ today = 0
    /\ ledger = 0
    /\ counter = 0
    /\ forgotten = 0
    /\ call = [c \in Callers |-> Idle]

(* check_budget reads Redis, and the table only when Redis fails. It is done *)
(* once for the first provider and its fallback together.                    *)
SpentToday == {counter, ledger}

Checked(kind, tries, spent) ==
    IF spent >= Budget THEN Ended("permanent") ELSE Asking(kind, 1, tries)

Request(c) ==
    /\ call[c].stage = "idle"
    /\ \E kind \in Kinds, spent \in SpentToday :
            call' = [call EXCEPT ![c] = Checked(kind, Tries(kind), spent)]
    /\ UNCHANGED <<today, ledger, counter, forgotten>>

(* Every answer is booked, also an error, whatever becomes of the caller.    *)
(* Without the database the call ends in an exception.                       *)
Answer(c) ==
    /\ call[c].stage = "asked"
    /\ \/ \E reply \in Replies(call[c].kind) :
            /\ ledger' = ledger + 1
            /\ call' = [call EXCEPT ![c] = [@ EXCEPT !.stage = "booked", !.reply = reply]]
       \/ /\ call' = [call EXCEPT ![c] = Ended("crash")]
          /\ UNCHANGED ledger
    /\ UNCHANGED <<today, counter, forgotten>>

(* What follows an answer: the text is used or asked for again, or the       *)
(* fallback is tried, but not once part of a stream has been shown.          *)
Followed(k) ==
    CASE k.reply = "good" -> Ended("good")
      [] k.reply = "bad" /\ k.tries > 0 ->
            [k EXCEPT !.stage = "again", !.target = 1, !.tries = @ - 1]
      [] k.reply = "cut" -> Ended("transient")
      [] k.reply \in {"transient", "permanent"} /\ k.target < Providers(k.kind) ->
            Asking(k.kind, k.target + 1, k.tries)
      [] k.reply \in {"transient", "permanent"} /\ k.target >= Providers(k.kind) ->
            Ended(k.reply)
      [] OTHER -> Ended("permanent")

(* The cost is counted in Redis after it was booked, or not when Redis fails. *)
Count(c) ==
    /\ call[c].stage = "booked"
    /\ \/ counter' = counter + 1 /\ UNCHANGED forgotten
       \/ forgotten < MaxForgotten /\ forgotten' = forgotten + 1 /\ UNCHANGED counter
    /\ call' = [call EXCEPT ![c] = Followed(@)]
    /\ UNCHANGED <<today, ledger>>

(* Mutant: only the first of the two questions is checked. *)
AskAgainUnchecked(c) ==
    /\ call[c].stage = "again"
    /\ call' = [call EXCEPT ![c] = Asking(call[c].kind, 1, call[c].tries)]
    /\ UNCHANGED <<today, ledger, counter, forgotten>>

AskAgain(c) ==
    /\ call[c].stage = "again"
    /\ \E spent \in SpentToday :
            call' = [call EXCEPT ![c] = Checked(call[c].kind, call[c].tries, spent)]
    /\ UNCHANGED <<today, ledger, counter, forgotten>>

Return(c) ==
    /\ call[c].stage = "ended"
    /\ call' = [call EXCEPT ![c] = Idle]
    /\ UNCHANGED <<today, ledger, counter, forgotten>>

(* Redis comes back empty. *)
LoseCounter ==
    /\ counter > 0
    /\ forgotten + counter <= MaxForgotten
    /\ forgotten' = forgotten + counter
    /\ counter' = 0
    /\ UNCHANGED <<today, ledger, call>>

(* Another day has another key, and another part of the table. *)
Midnight ==
    /\ today < LastDay
    /\ today' = today + 1
    /\ ledger' = 0 /\ counter' = 0 /\ forgotten' = 0
    /\ UNCHANGED call

Works(c) == Answer(c) \/ Count(c) \/ AskAgain(c) \/ Return(c)
Next ==
    \/ \E c \in Callers : Request(c) \/ Works(c)
    \/ LoseCounter
    \/ Midnight

Spec == Init /\ [][Next]_vars
-----------------------------------------------------------------------------
Calls == [stage : {"idle", "asked", "booked", "again", "ended"}, kind : Kinds,
          target : 1 .. Targets, tries : 0 .. 1, reply : Outcomes \cup {"bad", "cut", "garbled"}]

(* What is booked for a day is at most the budget, one unit short of which a *)
(* call is still made, and what the calls under way may cost: each was       *)
(* checked before it was booked, and a call costs a unit with every provider *)
(* it tries. What Redis forgets comes on top (check_budget, record). What a  *)
(* provider charges for a call that record fails to book is in no account.   *)
OverspendBounded ==
    ledger <= Budget - 1 + Targets * Cardinality(Callers) + forgotten
=============================================================================
