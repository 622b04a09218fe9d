----------------------------- MODULE SessionStore -----------------------------
(***************************************************************************)
(* How concurrent requests share the persisted state of one learning       *)
(* session (services/learning_engine/session_manager.py): a Redis lock     *)
(* with a time to live, a checkpoint in the PostgreSQL row, a hot copy of  *)
(* it in Redis, and the rows a turn's transaction adds.                    *)
(*                                                                         *)
(* A request is one REST call or one WebSocket message. It takes the lock, *)
(* reads the row and then the hot copy, runs the turn on the newer of the  *)
(* two, commits, writes the hot copy and unlocks; each of these is a step  *)
(* of its own and the process may die between any two. What a turn does to *)
(* the tutoring state is module LearningSession; here a state is its turn  *)
(* number, its status, the open question, the next event index, and the    *)
(* requests whose effects it contains.                                     *)
(***************************************************************************)
EXTENDS Integers, Sequences

CONSTANTS
    MaxRequests,  \* bound: how many requests arrive
    Nobody,       \* holder of a free lock
    NoCopy,       \* no (reachable) copy in Redis
    LockCanFail   \* TRUE: the lock may expire under its holder, or be unavailable

\* Requests are numbered in the order in which they arrive.
Requests == 1..MaxRequests

ASSUME RequestsAssumption == MaxRequests \in Nat /\ Nobody \notin Requests
ASSUME LockAssumption == LockCanFail \in BOOLEAN

VARIABLES
    row,      \* learning_sessions: status column and metadata.checkpoint
    records,  \* what the committed turns inserted, in commit order
    hot,      \* session:{id}:state in Redis
    lock,     \* lock:session:{id}: the request whose token it holds
    pc,       \* where each request is
    message,  \* what each request asks for
    seen,     \* the status column each request loaded
    state,    \* the session state each request works on
    reading,  \* the checkpoint a reader loaded from the row, or NoCopy
    view      \* the requests whose effects the reader was last shown

store   == <<row, records, hot>>
process == <<pc, message, seen, state>>
reader  == <<reading, view>>
vars    == <<store, lock, process, reader>>

Statuses == {"initialising", "active", "paused", "completed"}
Kinds    == {"begin", "answer", "other", "end", "pause", "unpause"}

\* applied: the requests whose effects the state contains, in order.
Checkpoints == [turn: Nat, status: Statuses, question: Nat, events: Nat,
                applied: Seq(Requests)]
Messages    == [kind: Kinds, question: Nat]
Records     == [by: Requests, first: Nat, count: Nat, answered: Nat, ended: BOOLEAN]

Holding  == {"locked", "read", "running", "committed", "leaving"}
Finished == {"done", "dead"}

\* The values the variables take; proved in SessionStore_proofs for every constant.
TypeOK ==
    /\ row \in [status: Statuses, checkpoint: Checkpoints]
    /\ records \in Seq(Records)
    /\ hot = NoCopy \/ hot \in Checkpoints
    /\ lock \in Requests \cup {Nobody}
    /\ pc \in [Requests -> {"new"} \cup Holding \cup Finished]
    /\ message \in [Requests -> Messages]
    /\ seen \in [Requests -> Statuses]
    /\ state \in [Requests -> Checkpoints]
    /\ reading = NoCopy \/ reading \in Checkpoints
    /\ view \in Seq(Requests)

----------------------------------------------------------------------------
(* Decisions *)

\* Mutant of Newest: PostgreSQL is only read when Redis has nothing.
HotFirst(copy, durable) == IF copy # NoCopy THEN copy ELSE durable

\* load_state: the copy with the higher turn number, the hot one if equal.
Newest(copy, durable) ==
    IF copy # NoCopy /\ copy.turn >= durable.turn THEN copy ELSE durable

\* Mutant of Accepts: an answer is taken for whatever question is open.
AcceptsAnyAnswer(s, m) ==
    \/ m.kind = "begin"   /\ s.status = "initialising"
    \/ m.kind = "answer"  /\ s.status \in {"active", "paused"} /\ s.question # 0
    \/ m.kind = "other"   /\ s.status \in {"active", "paused"}
    \/ m.kind = "end"
    \/ m.kind = "pause"   /\ s.status = "active"
    \/ m.kind = "unpause" /\ s.status = "paused"

\* What each kind of request needs of the state; otherwise it changes nothing.
Accepts(s, m) ==
    \/ m.kind = "begin"   /\ s.status = "initialising"
    \/ m.kind = "answer"  /\ s.status \in {"active", "paused"}
                          /\ s.question # 0 /\ s.question = m.question
    \/ m.kind = "other"   /\ s.status \in {"active", "paused"}
    \/ m.kind = "end"
    \/ m.kind = "pause"   /\ s.status = "active"
    \/ m.kind = "unpause" /\ s.status = "paused"

\* end_session has a summary to fall back on; pausing needs no AI.
NeedsAI(m) == m.kind \in {"begin", "answer", "other"}

\* The state after r's turn on s: q is the question then open, n the events logged.
After(s, r, n, status, q) ==
    [turn |-> s.turn + 1, status |-> status, question |-> q,
     events |-> s.events + n, applied |-> Append(s.applied, r)]

Ends(s, r, n) == After(s, r, n, "completed", 0)

\* Question ids are fresh: the turn that asks one names it. An answer closes its
\* question; another message keeps an open one, or leads to the first one.
NextQuestions(s, m) ==
    IF m.kind = "other" /\ s.question # 0 THEN {s.question} ELSE {0, s.turn + 1}

\* The states r's turn on s can produce; only an answer, or asking for it, leads to
\* the end.
Outcomes(s, r, n, m) ==
    IF m.kind = "pause" THEN {After(s, r, n, "paused", s.question)}
    ELSE IF m.kind = "unpause" THEN {After(s, r, n, "active", s.question)}
    ELSE IF m.kind = "end" THEN {Ends(s, r, n)}
    ELSE {After(s, r, n, "active", q) : q \in NextQuestions(s, m)}
            \cup (IF m.kind = "answer" THEN {Ends(s, r, n)} ELSE {})

----------------------------------------------------------------------------
(* Requests *)

Go(r, step) == pc' = [pc EXCEPT ![r] = step]

NoMessage == [kind |-> "begin", question |-> 0]

\* What create persists, also to Redis: a planned session at turn 0, with its first
\* event logged.
Planned == [turn |-> 0, status |-> "initialising", question |-> 0, events |-> 1,
            applied |-> <<>>]

\* r is over and forgets what it was working on.
Leave(r, step) ==
    /\ Go(r, step)
    /\ message' = [message EXCEPT ![r] = NoMessage]
    /\ seen' = [seen EXCEPT ![r] = "initialising"]
    /\ state' = [state EXCEPT ![r] = Planned]

Arrives(r) == pc[r] = "new" /\ \A q \in Requests : q < r => pc[q] # "new"

\* Mutant of Receive: no lock is taken.
ReceiveUnlocked(r, m) ==
    /\ Arrives(r)
    /\ message' = [message EXCEPT ![r] = m]
    /\ Go(r, "locked")
    /\ UNCHANGED <<lock, store, seen, state, reader>>

\* _lock: refused while somebody holds the lock; without Redis r goes on.
Receive(r, m) ==
    /\ Arrives(r)
    /\ \/ /\ lock = Nobody
          /\ lock' = r
          /\ message' = [message EXCEPT ![r] = m]
          /\ Go(r, "locked")
       \/ /\ lock # Nobody
          /\ Go(r, "done")
          /\ UNCHANGED <<lock, message>>
       \/ /\ LockCanFail
          /\ message' = [message EXCEPT ![r] = m]
          /\ Go(r, "locked")
          /\ UNCHANGED lock
    /\ UNCHANGED <<store, seen, state, reader>>

\* Mutant of ReadRow: an ended session is loaded like any other.
ReadRowUnchecked(r) ==
    /\ pc[r] = "locked"
    /\ Go(r, "read")
    /\ seen' = [seen EXCEPT ![r] = row.status]
    /\ state' = [state EXCEPT ![r] = row.checkpoint]
    /\ UNCHANGED <<store, lock, message, reader>>

\* _row: a session that has ended takes no more messages.
ReadRow(r) ==
    /\ pc[r] = "locked"
    /\ IF row.status = "completed" THEN Leave(r, "leaving")
       ELSE /\ Go(r, "read")
            /\ seen' = [seen EXCEPT ![r] = row.status]
            /\ state' = [state EXCEPT ![r] = row.checkpoint]
            /\ UNCHANGED message
    /\ UNCHANGED <<store, lock, reader>>

\* load_state and validate_message.
ReadHot(r) ==
    /\ pc[r] = "read"
    /\ \E copy \in {hot, NoCopy} :
          LET s == Newest(copy, state[r]) IN
          IF Accepts(s, message[r])
          THEN /\ Go(r, "running")
               /\ state' = [state EXCEPT ![r] = s]
               /\ UNCHANGED <<message, seen>>
          ELSE Leave(r, "leaving")
    /\ UNCHANGED <<store, lock, reader>>

\* Mutant of FailForNow: the failed turn has already replaced the hot copy.
FailForNowCached(r) ==
    /\ pc[r] = "running" /\ NeedsAI(message[r])
    /\ hot' \in Outcomes(state[r], r, 1, message[r])
    /\ Leave(r, "leaving")
    /\ UNCHANGED <<row, records, lock, reader>>

\* An AI failure a retry may help: rolled back, nothing kept.
FailForNow(r) ==
    /\ pc[r] = "running" /\ NeedsAI(message[r])
    /\ Leave(r, "leaving")
    /\ UNCHANGED <<store, lock, reader>>

\* r's message is dropped and the session ends in its place: the session's token
\* budget is used up, or no retry helps an AI failure; after a failure the row is
\* read again.
EndInstead(r) ==
    /\ pc[r] = "running" /\ NeedsAI(message[r])
    /\ message' = [message EXCEPT ![r] = [kind |-> "end", question |-> 0]]
    /\ seen' \in {seen, [seen EXCEPT ![r] = row.status]}
    /\ UNCHANGED <<store, lock, pc, state, reader>>

\* Every turn logs something, but for a hint the question does not have.
EventCounts(m) == IF m.kind = "other" THEN {0, 1} ELSE {1}

\* The rows inserted when r's turn, on the state it loaded, becomes s: n events, and
\* the attempt if an answer was graded.
Record(r, n, s) ==
    [by |-> r, first |-> state[r].events, count |-> n,
     answered |-> IF message[r].kind = "answer" THEN message[r].question ELSE 0,
     ended |-> s.status = "completed"]

\* Mutant of Commit: event_index is not advanced.
CommitSameIndex(r) ==
    /\ pc[r] = "running"
    /\ \E n \in EventCounts(message[r]) :
       \E s \in Outcomes(state[r], r, 0, message[r]) :
          /\ records' = Append(records, Record(r, n, s))
          /\ row' = [status |-> IF s.status = seen[r] THEN row.status ELSE s.status,
                     checkpoint |-> s]
          /\ state' = [state EXCEPT ![r] = s]
    /\ Go(r, "committed")
    /\ UNCHANGED <<hot, lock, message, seen, reader>>

\* The turn runs on r's copy, and _persist commits what comes out. The update names
\* only the columns that differ from what r loaded, so a status that r leaves as it
\* was is not written.
Commit(r) ==
    /\ pc[r] = "running"
    /\ \E n \in EventCounts(message[r]) :
       \E s \in Outcomes(state[r], r, n, message[r]) :
          /\ records' = Append(records, Record(r, n, s))
          /\ row' = [status |-> IF s.status = seen[r] THEN row.status ELSE s.status,
                     checkpoint |-> s]
          /\ state' = [state EXCEPT ![r] = s]
    /\ Go(r, "committed")
    /\ UNCHANGED <<hot, lock, message, seen, reader>>

\* The hot copy is written after the commit, if Redis can be reached.
WriteHot(r) ==
    /\ pc[r] = "committed"
    /\ hot' \in {hot, state[r]}
    /\ Leave(r, "leaving")
    /\ UNCHANGED <<row, records, lock, reader>>

\* _unlock: only r's own token is deleted; on an error the key stays until it expires.
Unlock(r) ==
    /\ pc[r] = "leaving"
    /\ lock' \in {lock, IF lock = r THEN Nobody ELSE lock}
    /\ Go(r, "done")
    /\ UNCHANGED <<store, message, seen, state, reader>>

\* The process dies, or the task is cancelled and cannot reach Redis.
Crash(r) ==
    /\ pc[r] \in Holding
    /\ Leave(r, "dead")
    /\ UNCHANGED <<store, lock, reader>>

\* Mutant of LockExpires: turns outlive the lock.
LockExpiresEarly ==
    /\ lock # Nobody
    /\ lock' = Nobody
    /\ UNCHANGED <<store, process, reader>>

\* Mutant of LockExpires: the key has no time to live.
LockWithoutTTL == FALSE /\ UNCHANGED vars

\* LOCK_TTL_SECONDS. A lock that does not fail outlives every turn.
LockExpires ==
    /\ lock # Nobody
    /\ LockCanFail \/ pc[lock] \in Finished
    /\ lock' = Nobody
    /\ UNCHANGED <<store, process, reader>>

\* The hot copy expires, is evicted or is lost with a Redis restart.
LoseHot ==
    /\ hot # NoCopy
    /\ hot' = NoCopy
    /\ UNCHANGED <<row, records, lock, process, reader>>

----------------------------------------------------------------------------
(* resume: reading needs no lock *)

ViewRow ==
    /\ reading = NoCopy
    /\ reading' = row.checkpoint
    /\ UNCHANGED <<store, lock, process, view>>

ViewHot ==
    /\ reading # NoCopy
    /\ \E copy \in {hot, NoCopy} : view' = Newest(copy, reading).applied
    /\ reading' = NoCopy
    /\ UNCHANGED <<store, lock, process>>

----------------------------------------------------------------------------

Init ==
    /\ row = [status |-> "initialising", checkpoint |-> Planned]
    /\ records = <<>>
    /\ hot = Planned
    /\ lock = Nobody
    /\ pc = [r \in Requests |-> "new"]
    /\ message = [r \in Requests |-> NoMessage]
    /\ seen = [r \in Requests |-> "initialising"]
    /\ state = [r \in Requests |-> Planned]
    /\ reading = NoCopy
    /\ view = <<>>

\* A client may answer any question it was ever shown, again or late.
Sendable ==
    [kind: {"answer"}, question: 1..row.checkpoint.turn]
        \cup [kind: Kinds \ {"answer"}, question: {0}]

Step(r) ==
    \/ ReadRow(r) \/ ReadHot(r) \/ FailForNow(r) \/ EndInstead(r)
    \/ Commit(r) \/ WriteHot(r) \/ Unlock(r)

Next ==
    \/ \E r \in Requests :
          \/ \E m \in Sendable : Receive(r, m)
          \/ Step(r)
          \/ Crash(r)
    \/ LockExpires
    \/ LoseHot
    \/ ViewRow
    \/ ViewHot

Spec == Init /\ [][Next]_vars

\* A live request goes on, and Redis expires keys.
Fairness == (\A r \in Requests : WF_vars(Step(r))) /\ WF_vars(LockExpires)

FairSpec == Spec /\ Fairness
----------------------------------------------------------------------------
(* Properties. All of them need a lock that does not fail. *)

\* No committed turn is lost, and none is remembered that was not committed: the
\* checkpoint contains the effects of exactly the turns whose rows are in the
\* database, in commit order ("a lost or stale Redis entry never loses progress").
NoTurnLost ==
    /\ row.checkpoint.turn = Len(records)
    /\ Len(row.checkpoint.applied) = Len(records)
    /\ \A i \in 1..Len(records) : row.checkpoint.applied[i] = records[i].by

\* Where the events of the i-th turn start.
FirstIndex(i) == IF i > Len(records) THEN row.checkpoint.events ELSE records[i].first

\* session_events is one ordered log: every turn numbers its events from where the
\* turn before stopped, so no index is missing or used twice.
EventLogContiguous ==
    /\ FirstIndex(1) = Planned.events
    /\ \A i \in 1..Len(records) : records[i].first + records[i].count = FirstIndex(i + 1)

\* A question is graded at most once, however often and however late its answer is
\* sent, and each grading belongs to a turn the session remembers.
AnsweredOnce ==
    \A i, j \in 1..Len(records) :
        records[i].answered = records[j].answered /\ records[i].answered # 0 => i = j

\* A session is completed at most once and nothing is committed after that (reviews
\* are scheduled and the session counted with it); the status column says what the
\* checkpoint says.
CompletedOnce ==
    /\ \A i \in 1..Len(records) : records[i].ended => i = Len(records)
    /\ row.status = row.checkpoint.status

\* The hot copy is never ahead of PostgreSQL, and with the same turn it is the same
\* state: load_state may prefer it on a tie.
HotIsBehind ==
    hot # NoCopy =>
        /\ hot.turn <= row.checkpoint.turn
        /\ hot.turn = row.checkpoint.turn => hot = row.checkpoint

\* Turns are serialised: two requests are never both between loading the state and
\* having written it.
TurnsSerialised ==
    \A r, s \in Requests : pc[r] \in Holding /\ pc[s] \in Holding => r = s

\* A reader is never shown an older state, or another history, than before.
ViewNeverGoesBack ==
    [][ /\ Len(view') >= Len(view)
        /\ \A i \in 1..Len(view) : view'[i] = view[i] ]_view

\* A request that died with the lock does not shut the session for ever.
LockIsReleased == (lock # Nobody) ~> (lock = Nobody)

\* The store is a linear session.
Linear == INSTANCE LinearSession WITH
    history <- row.checkpoint.applied, ended <- row.status = "completed"
RefinesLinearSession == Linear!Spec
=============================================================================
