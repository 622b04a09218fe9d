------------------------- MODULE SessionStore_proofs -------------------------
(***************************************************************************)
(* Proofs about SessionStore for any number of requests, when the lock     *)
(* does not fail.                                                          *)
(***************************************************************************)
EXTENDS SessionStore, TLAPS

\* Only the holder of the lock is past _lock.
OnlyHolder == \A r \in Requests : pc[r] \in Holding => lock = r

\* What a turn works on is what the database holds.
CopiesCurrent ==
    \A r \in Requests :
        /\ pc[r] \in {"read", "running", "committed"} => state[r] = row.checkpoint
        /\ pc[r] \in {"read", "running"} => seen[r] = row.status
        /\ pc[r] \in {"read", "running"} => row.status # "completed"
        /\ pc[r] = "running" => Accepts(state[r], message[r])

\* A request is remembered once, when its turn has committed.
AppliedOnce ==
    \A i \in 1..Len(row.checkpoint.applied) :
        pc[row.checkpoint.applied[i]] \in {"committed", "leaving", "done", "dead"}

\* The open question is not among the graded ones, and no id is from the future.
QuestionsFresh ==
    /\ row.checkpoint.question <= row.checkpoint.turn
    /\ \A i \in 1..Len(records) :
          /\ records[i].answered <= row.checkpoint.turn
          /\ records[i].answered # 0 => records[i].answered # row.checkpoint.question

\* The last record ends the session exactly when the checkpoint says it is completed.
EndRecorded ==
    \A i \in 1..Len(records) : records[i].ended => row.checkpoint.status = "completed"

\* What holds of the requests in progress.
RequestsInv == OnlyHolder /\ CopiesCurrent /\ AppliedOnce

\* What holds of what is stored.
StoreInv ==
    /\ HotIsBehind
    /\ NoTurnLost
    /\ EventLogContiguous
    /\ CompletedOnce
    /\ EndRecorded
    /\ QuestionsFresh
    /\ AnsweredOnce

Inv == TypeOK /\ RequestsInv /\ StoreInv

-----------------------------------------------------------------------------
(* What a turn makes of a state *)

\* What `create` persists is a checkpoint.
LEMMA PlannedIsCheckpoint == Planned \in Checkpoints
BY DEF Planned, Checkpoints, Statuses

\* load_state returns one of its two candidates.
LEMMA NewestIsCheckpoint ==
    ASSUME NEW copy, copy = NoCopy \/ copy \in Checkpoints, NEW s \in Checkpoints
    PROVE  Newest(copy, s) \in Checkpoints
BY DEF Newest

\* A turn adds one to the turn number and its request to the history, and opens no
\* question but the old one or one named after the turn.
LEMMA OutcomeFacts ==
    ASSUME NEW s \in Checkpoints, NEW r \in Requests, NEW n \in Nat,
           NEW m \in Messages, NEW o \in Outcomes(s, r, n, m)
    PROVE  /\ o \in Checkpoints
           /\ o.turn = s.turn + 1
           /\ o.events = s.events + n
           /\ o.applied = Append(s.applied, r)
           /\ o.question \in {0, s.question, s.turn + 1}
           /\ m.kind = "answer" => o.question \in {0, s.turn + 1}
<1>1. PICK status \in Statuses, q \in {0, s.question, s.turn + 1} :
          /\ o = After(s, r, n, status, q)
          /\ m.kind = "answer" => q \in {0, s.turn + 1}
  <2>1. CASE m.kind = "pause"
    BY <2>1 DEF Outcomes, Statuses
  <2>2. CASE m.kind = "unpause"
    BY <2>2 DEF Outcomes, Statuses
  <2>3. CASE m.kind = "end"
    BY <2>3 DEF Outcomes, Ends, Statuses
  <2>4. CASE m.kind \in {"answer", "begin", "other"}
    BY <2>4 DEF Outcomes, Ends, NextQuestions, Statuses
  <2> QED
    BY <2>1, <2>2, <2>3, <2>4 DEF Messages, Kinds
<1>2. /\ s.turn \in Nat /\ s.question \in Nat /\ s.events \in Nat
      /\ s.applied \in Seq(Requests)
  BY DEF Checkpoints
<1>3. Append(s.applied, r) \in Seq(Requests)
  BY <1>2
<1> QED
  BY <1>1, <1>2, <1>3 DEF After, Checkpoints

\* What a commit writes, named: n events and the new state s.
LEMMA CommitFacts ==
    ASSUME TypeOK, NEW r \in Requests, Commit(r)
    PROVE  \E n \in Nat : \E s \in Outcomes(state[r], r, n, message[r]) :
              /\ s \in Checkpoints
              /\ Record(r, n, s) \in Records
              /\ records' = Append(records, Record(r, n, s))
              /\ row' = [status |-> IF s.status = seen[r] THEN row.status ELSE s.status,
                         checkpoint |-> s]
              /\ state' = [state EXCEPT ![r] = s]
<1>0. PICK n \in EventCounts(message[r]) :
          \E s \in Outcomes(state[r], r, n, message[r]) :
          /\ records' = Append(records, Record(r, n, s))
          /\ row' = [status |-> IF s.status = seen[r] THEN row.status ELSE s.status,
                     checkpoint |-> s]
          /\ state' = [state EXCEPT ![r] = s]
  BY DEF Commit
<1>1. PICK s \in Outcomes(state[r], r, n, message[r]) :
          /\ records' = Append(records, Record(r, n, s))
          /\ row' = [status |-> IF s.status = seen[r] THEN row.status ELSE s.status,
                     checkpoint |-> s]
          /\ state' = [state EXCEPT ![r] = s]
  BY <1>0
<1>2. n \in Nat
  BY DEF EventCounts
<1>3. state[r] \in Checkpoints /\ message[r] \in Messages
  BY DEF TypeOK
<1>4. s \in Checkpoints
  BY <1>2, <1>3, OutcomeFacts
<1>5. Record(r, n, s) \in Records
  BY <1>2, <1>3 DEF Record, Records, Checkpoints, Messages
<1> QED
  BY <1>1, <1>2, <1>4, <1>5

-----------------------------------------------------------------------------
(* Types *)

\* A created session has the right types.
LEMMA InitTypeOK == Init => TypeOK
BY RequestsAssumption, PlannedIsCheckpoint
   DEF Init, TypeOK, NoMessage, Messages, Kinds, Statuses, Holding, Finished, Planned, Checkpoints

\* A request that is over has the right types.
LEMMA LeaveType ==
    ASSUME TypeOK, NEW r \in Requests, NEW step \in {"leaving", "dead"}, Leave(r, step)
    PROVE  /\ pc' \in [Requests -> {"new"} \cup Holding \cup Finished]
           /\ message' \in [Requests -> Messages]
           /\ seen' \in [Requests -> Statuses]
           /\ state' \in [Requests -> Checkpoints]
<1>1. step \in {"new"} \cup Holding \cup Finished
  BY DEF Holding, Finished
<1>2. NoMessage \in Messages /\ "initialising" \in Statuses
  BY DEF NoMessage, Messages, Kinds, Statuses
<1> QED
  BY <1>1, <1>2, PlannedIsCheckpoint DEF Leave, Go, TypeOK

\* Every step keeps the types, whatever the lock does.
LEMMA NextTypeOK == TypeOK /\ [Next]_vars => TypeOK'
<1> SUFFICES ASSUME TypeOK, [Next]_vars PROVE TypeOK'
  OBVIOUS
<1> USE DEF store, process, reader
<1>1. ASSUME NEW r \in Requests, NEW m \in Sendable, Receive(r, m) PROVE TypeOK'
  <2>1. m \in Messages
    BY DEF Sendable, Messages, Kinds, TypeOK, Checkpoints
  <2>2. {"locked", "done"} \subseteq {"new"} \cup Holding \cup Finished
    BY DEF Holding, Finished
  <2> QED
    BY <1>1, <2>1, <2>2 DEF Receive, Go, TypeOK
<1>2. ASSUME NEW r \in Requests, ReadRow(r) PROVE TypeOK'
  <2>1. CASE row.status = "completed"
    BY <1>2, <2>1, LeaveType DEF ReadRow, TypeOK
  <2>2. CASE row.status # "completed"
    <3>1. "read" \in Holding
      BY DEF Holding
    <3> QED
      BY <1>2, <2>2, <3>1 DEF ReadRow, Go, TypeOK
  <2> QED
    BY <2>1, <2>2
<1>3. ASSUME NEW r \in Requests, ReadHot(r) PROVE TypeOK'
  <2>1. PICK copy \in {hot, NoCopy} :
            LET s == Newest(copy, state[r]) IN
            IF Accepts(s, message[r])
            THEN /\ Go(r, "running")
                 /\ state' = [state EXCEPT ![r] = s]
                 /\ UNCHANGED <<message, seen>>
            ELSE Leave(r, "leaving")
    BY <1>3 DEF ReadHot
  <2>2. Newest(copy, state[r]) \in Checkpoints
    BY NewestIsCheckpoint DEF TypeOK
  <2>3. CASE Accepts(Newest(copy, state[r]), message[r])
    <3>1. "running" \in Holding
      BY DEF Holding
    <3> QED
      BY <1>3, <2>1, <2>2, <2>3, <3>1 DEF ReadHot, Go, TypeOK
  <2>4. CASE ~Accepts(Newest(copy, state[r]), message[r])
    BY <1>3, <2>1, <2>4, LeaveType DEF ReadHot, TypeOK
  <2> QED
    BY <2>3, <2>4
<1>4. ASSUME NEW r \in Requests, FailForNow(r) PROVE TypeOK'
  BY <1>4, LeaveType DEF FailForNow, TypeOK
<1>5. ASSUME NEW r \in Requests, EndInstead(r) PROVE TypeOK'
  <2>1. [kind |-> "end", question |-> 0] \in Messages
    BY DEF Messages, Kinds
  <2> QED
    BY <1>5, <2>1 DEF EndInstead, TypeOK
<1>6. ASSUME NEW r \in Requests, Commit(r) PROVE TypeOK'
  <2>1. PICK n \in Nat : \E s \in Outcomes(state[r], r, n, message[r]) :
            /\ s \in Checkpoints
            /\ Record(r, n, s) \in Records
            /\ records' = Append(records, Record(r, n, s))
            /\ row' = [status |-> IF s.status = seen[r] THEN row.status ELSE s.status,
                       checkpoint |-> s]
            /\ state' = [state EXCEPT ![r] = s]
    BY <1>6, CommitFacts
  <2>2. row' \in [status: Statuses, checkpoint: Checkpoints]
    BY <2>1 DEF TypeOK, Checkpoints
  <2>3. records' \in Seq(Records) /\ state' \in [Requests -> Checkpoints]
    BY <2>1 DEF TypeOK
  <2>4. pc' \in [Requests -> {"new"} \cup Holding \cup Finished]
    BY <1>6 DEF Commit, Go, TypeOK, Holding
  <2> QED
    BY <1>6, <2>2, <2>3, <2>4 DEF Commit, TypeOK
<1>7. ASSUME NEW r \in Requests, WriteHot(r) PROVE TypeOK'
  BY <1>7, LeaveType DEF WriteHot, TypeOK
<1>8. ASSUME NEW r \in Requests, Unlock(r) PROVE TypeOK'
  BY <1>8 DEF Unlock, Go, TypeOK, Holding, Finished
<1>9. ASSUME NEW r \in Requests, Crash(r) PROVE TypeOK'
  BY <1>9, LeaveType DEF Crash, TypeOK
<1>10. CASE LockExpires
  BY <1>10 DEF LockExpires, TypeOK
<1>11. CASE LoseHot
  BY <1>11 DEF LoseHot, TypeOK
<1>12. CASE ViewRow
  BY <1>12 DEF ViewRow, TypeOK
<1>13. CASE ViewHot
  <2>1. PICK copy \in {hot, NoCopy} : view' = Newest(copy, reading).applied
    BY <1>13 DEF ViewHot
  <2>2. Newest(copy, reading) \in Checkpoints
    BY <1>13, NewestIsCheckpoint DEF ViewHot, TypeOK
  <2>3. view' \in Seq(Requests)
    BY <2>1, <2>2 DEF Checkpoints
  <2> QED
    BY <1>13, <2>3 DEF ViewHot, TypeOK
<1>14. CASE UNCHANGED vars
  BY <1>14 DEF vars, TypeOK
<1> QED
  BY <1>1, <1>2, <1>3, <1>4, <1>5, <1>6, <1>7, <1>8, <1>9, <1>10, <1>11, <1>12,
     <1>13, <1>14 DEF Next, Step

\* Every variable keeps its type: what is read from Redis or the row is always a whole
\* checkpoint, also with a lock that fails.
THEOREM TypeCorrect == Spec => []TypeOK
<1>1. Init => TypeOK
  BY InitTypeOK
<1>2. TypeOK /\ [Next]_vars => TypeOK'
  BY NextTypeOK
<1> QED
  BY <1>1, <1>2, PTL DEF Spec

-----------------------------------------------------------------------------
(* Serialised turns *)

\* The invariant holds of a created session: nobody holds anything yet.
LEMMA InitInv == Init => Inv
<1> SUFFICES ASSUME Init PROVE Inv
  OBVIOUS
<1>1. TypeOK
  BY InitTypeOK
<1>2. RequestsInv
  BY DEF Init, RequestsInv, OnlyHolder, CopiesCurrent, AppliedOnce, Holding, Planned
<1>3. StoreInv
  BY DEF Init, StoreInv, HotIsBehind, NoTurnLost, EventLogContiguous, CompletedOnce,
         EndRecorded, QuestionsFresh, AnsweredOnce, Planned, FirstIndex
<1> QED
  BY <1>1, <1>2, <1>3 DEF Inv

\* What is stored is only looked at through the row, the records and the hot copy.
LEMMA StoreInvUnchanged ==
    ASSUME StoreInv, UNCHANGED store PROVE StoreInv'
BY DEF store, StoreInv, HotIsBehind, NoTurnLost, EventLogContiguous, CompletedOnce,
       EndRecorded, QuestionsFresh, AnsweredOnce, FirstIndex

\* On the state a serialised turn works on, the copy in Redis makes no difference.
LEMMA NewestIsCurrent ==
    ASSUME TypeOK, HotIsBehind, NEW copy \in {hot, NoCopy}
    PROVE  Newest(copy, row.checkpoint) = row.checkpoint
<1>1. row.checkpoint.turn \in Nat
  BY DEF TypeOK, Checkpoints
<1>2. hot # NoCopy => hot.turn \in Nat
  BY DEF TypeOK, Checkpoints
<1> QED
  BY <1>1, <1>2 DEF Newest, HotIsBehind

\* The steps of the requests, but for the commit, keep what holds of the requests.
LEMMA RequestsStep ==
    ASSUME ~LockCanFail, Inv, NEW r \in Requests,
           \/ \E m \in Sendable : Receive(r, m)
           \/ ReadRow(r) \/ ReadHot(r) \/ FailForNow(r) \/ EndInstead(r)
           \/ WriteHot(r) \/ Unlock(r) \/ Crash(r)
    PROVE  RequestsInv'
<1> USE DEF store, reader, Inv, RequestsInv
<1>0. \A i \in 1..Len(row.checkpoint.applied) : row.checkpoint.applied[i] \in Requests
  BY DEF TypeOK, Checkpoints
<1>1. ASSUME NEW m \in Sendable, Receive(r, m) PROVE RequestsInv'
  <2>1. OnlyHolder'
    BY <1>1, RequestsAssumption
       DEF Receive, Arrives, Go, OnlyHolder, Holding, TypeOK
  <2>2. CopiesCurrent'
    BY <1>1 DEF Receive, Arrives, Go, CopiesCurrent, TypeOK
  <2>3. AppliedOnce'
    BY <1>0, <1>1 DEF Receive, Arrives, Go, AppliedOnce, TypeOK
  <2> QED
    BY <2>1, <2>2, <2>3
<1>2. CASE ReadRow(r)
  <2>1. OnlyHolder'
    BY <1>2 DEF ReadRow, Leave, Go, OnlyHolder, Holding, TypeOK
  <2>2. CopiesCurrent'
    BY <1>2 DEF ReadRow, Leave, Go, CopiesCurrent, TypeOK
  <2>3. AppliedOnce'
    BY <1>0, <1>2 DEF ReadRow, Leave, Go, AppliedOnce, TypeOK
  <2> QED
    BY <2>1, <2>2, <2>3
<1>3. CASE ReadHot(r)
  <2>0. /\ pc[r] = "read" /\ UNCHANGED <<store, lock, reader>>
        /\ \/ /\ Go(r, "running") /\ Accepts(row.checkpoint, message[r])
              /\ state' = [state EXCEPT ![r] = row.checkpoint]
              /\ UNCHANGED <<message, seen>>
           \/ Leave(r, "leaving")
    BY <1>3, NewestIsCurrent DEF ReadHot, CopiesCurrent, StoreInv
  <2>1. OnlyHolder'
    BY <2>0 DEF Leave, Go, OnlyHolder, Holding, TypeOK
  <2>2. CopiesCurrent'
    BY <2>0 DEF Leave, Go, CopiesCurrent, TypeOK
  <2>3. AppliedOnce'
    BY <1>0, <2>0 DEF Leave, Go, AppliedOnce, TypeOK
  <2> QED
    BY <2>1, <2>2, <2>3
<1>4. CASE FailForNow(r)
  <2>1. OnlyHolder'
    BY <1>4 DEF FailForNow, Leave, Go, OnlyHolder, Holding, TypeOK
  <2>2. CopiesCurrent'
    BY <1>4 DEF FailForNow, Leave, Go, CopiesCurrent, TypeOK
  <2>3. AppliedOnce'
    BY <1>0, <1>4 DEF FailForNow, Leave, Go, AppliedOnce, TypeOK
  <2> QED
    BY <2>1, <2>2, <2>3
<1>5. CASE EndInstead(r)
  <2>1. OnlyHolder' /\ AppliedOnce'
    BY <1>5 DEF EndInstead, OnlyHolder, AppliedOnce
  <2>2. Accepts(state[r], message'[r])
    BY <1>5 DEF EndInstead, Accepts, TypeOK
  <2>3. CopiesCurrent'
    BY <1>5, <2>2 DEF EndInstead, CopiesCurrent, TypeOK
  <2> QED
    BY <2>1, <2>3
<1>6. CASE WriteHot(r)
  <2>1. OnlyHolder'
    BY <1>6 DEF WriteHot, Leave, Go, OnlyHolder, Holding, TypeOK
  <2>2. CopiesCurrent'
    BY <1>6 DEF WriteHot, Leave, Go, CopiesCurrent, TypeOK
  <2>3. AppliedOnce'
    BY <1>0, <1>6 DEF WriteHot, Leave, Go, AppliedOnce, TypeOK
  <2> QED
    BY <2>1, <2>2, <2>3
<1>7. CASE Unlock(r)
  <2>1. OnlyHolder'
    BY <1>7, RequestsAssumption DEF Unlock, Go, OnlyHolder, Holding, TypeOK
  <2>2. CopiesCurrent'
    BY <1>7 DEF Unlock, Go, CopiesCurrent, TypeOK
  <2>3. AppliedOnce'
    BY <1>0, <1>7 DEF Unlock, Go, AppliedOnce, TypeOK
  <2> QED
    BY <2>1, <2>2, <2>3
<1>8. CASE Crash(r)
  <2>1. OnlyHolder'
    BY <1>8 DEF Crash, Leave, Go, OnlyHolder, Holding, TypeOK
  <2>2. CopiesCurrent'
    BY <1>8 DEF Crash, Leave, Go, CopiesCurrent, TypeOK
  <2>3. AppliedOnce'
    BY <1>0, <1>8 DEF Crash, Leave, Go, AppliedOnce, Holding, TypeOK
  <2> QED
    BY <2>1, <2>2, <2>3
<1> QED
  BY <1>1, <1>2, <1>3, <1>4, <1>5, <1>6, <1>7, <1>8

\* The commit is where a turn could overwrite another one.
LEMMA CommitStep ==
    ASSUME ~LockCanFail, Inv, NEW r \in Requests, Commit(r)
    PROVE  RequestsInv' /\ StoreInv'
<1> USE DEF Inv
<1> DEFINE old == row.checkpoint
<1>0. PICK k \in Nat : k = Len(records)
  BY DEF TypeOK
<1>1. PICK n \in Nat : \E s \in Outcomes(state[r], r, n, message[r]) :
          /\ s \in Checkpoints
          /\ Record(r, n, s) \in Records
          /\ records' = Append(records, Record(r, n, s))
          /\ row' = [status |-> IF s.status = seen[r] THEN row.status ELSE s.status,
                     checkpoint |-> s]
          /\ state' = [state EXCEPT ![r] = s]
  BY CommitFacts
<1>2. PICK s \in Outcomes(state[r], r, n, message[r]) :
          /\ s \in Checkpoints
          /\ Record(r, n, s) \in Records
          /\ records' = Append(records, Record(r, n, s))
          /\ row' = [status |-> IF s.status = seen[r] THEN row.status ELSE s.status,
                     checkpoint |-> s]
          /\ state' = [state EXCEPT ![r] = s]
  BY <1>1
<1>3. /\ state[r] = old /\ seen[r] = row.status /\ row.status # "completed"
      /\ Accepts(old, message[r]) /\ lock = r /\ pc[r] = "running"
  BY DEF Commit, RequestsInv, CopiesCurrent, OnlyHolder, Holding
<1>4. /\ old \in Checkpoints /\ message[r] \in Messages
      /\ old.turn \in Nat /\ old.question \in Nat /\ old.events \in Nat
      /\ old.applied \in Seq(Requests) /\ records \in Seq(Records)
  BY DEF TypeOK, Checkpoints
<1>5. /\ s.turn = old.turn + 1
      /\ s.events = old.events + n
      /\ s.applied = Append(old.applied, r)
      /\ s.question \in {0, old.question, old.turn + 1}
      /\ message[r].kind = "answer" => s.question \in {0, old.turn + 1}
  <2>1. state[r] \in Checkpoints
    BY <1>3, <1>4
  <2>2. /\ s.turn = state[r].turn + 1
        /\ s.events = state[r].events + n
        /\ s.applied = Append(state[r].applied, r)
        /\ s.question \in {0, state[r].question, state[r].turn + 1}
        /\ message[r].kind = "answer" => s.question \in {0, state[r].turn + 1}
    BY <1>4, <2>1, OutcomeFacts
  <2> QED
    BY <1>3, <2>2
<1>6. /\ row'.checkpoint = s /\ row'.status = s.status
      /\ hot' = hot
  BY <1>2, <1>3 DEF Commit
<1> DEFINE new == Record(r, n, s)
<1>7. /\ new.by = r /\ new.first = old.events /\ new.count = n
      /\ new.answered = IF message[r].kind = "answer" THEN message[r].question ELSE 0
      /\ new.ended <=> s.status = "completed"
      /\ new \in Records
  BY <1>2, <1>3 DEF Record
<1>8. /\ Len(records') = k + 1 /\ Len(records) = k
      /\ \A i \in 1..k : records'[i] = records[i] /\ records[i] \in Records
      /\ records'[k + 1] = new
      /\ 1..(k + 1) = (1..k) \cup {k + 1}
  BY <1>0, <1>2, <1>4, <1>7
<1>9. /\ Len(s.applied) = Len(old.applied) + 1
      /\ \A i \in 1..Len(old.applied) : s.applied[i] = old.applied[i]
      /\ s.applied[Len(old.applied) + 1] = r
  BY <1>4, <1>5
<1>10. /\ k = old.turn /\ k = Len(old.applied)
       /\ \A i \in 1..k : old.applied[i] = records[i].by
  BY <1>0 DEF StoreInv, NoTurnLost
<1>11. NoTurnLost'
  <2>1. \A i \in 1..(k + 1) : s.applied[i] = records'[i].by
    BY <1>7, <1>8, <1>9, <1>10
  <2>2. s.turn = k + 1 /\ Len(s.applied) = k + 1
    BY <1>5, <1>9, <1>10
  <2> QED
    BY <1>6, <1>8, <2>1, <2>2 DEF NoTurnLost
<1>12. HotIsBehind'
  <2>1. hot # NoCopy => hot.turn <= old.turn /\ hot.turn \in Nat
    BY DEF StoreInv, HotIsBehind, TypeOK, Checkpoints
  <2> QED
    BY <1>4, <1>5, <1>6, <2>1 DEF HotIsBehind
<1>13. EventLogContiguous'
  <2>1. /\ FirstIndex(1) = Planned.events
        /\ \A i \in 1..k : records[i].first + records[i].count = FirstIndex(i + 1)
        /\ FirstIndex(k + 1) = old.events
    BY <1>8 DEF StoreInv, EventLogContiguous, FirstIndex
  <2>2. \A i \in 1..k : FirstIndex(i)' = records[i].first /\ FirstIndex(i) = records[i].first
    BY <1>8 DEF FirstIndex
  <2>3. FirstIndex(k + 1)' = old.events
    BY <1>7, <1>8 DEF FirstIndex
  <2>4. FirstIndex(k + 2)' = s.events
    BY <1>6, <1>8 DEF FirstIndex
  <2>5. FirstIndex(1)' = Planned.events
    <3>1. CASE k = 0
      BY <2>1, <2>3, <3>1
    <3>2. CASE k # 0
      BY <1>8, <2>1, <2>2, <3>2
    <3> QED
      BY <3>1, <3>2
  <2>6. ASSUME NEW i \in 1..k
        PROVE  records'[i].first + records'[i].count = FirstIndex(i + 1)'
    <3>1. FirstIndex(i + 1)' = FirstIndex(i + 1)
      <4>1. CASE i = k
        BY <2>1, <2>3, <4>1
      <4>2. CASE i # k
        <5>1. i + 1 \in 1..k
          BY <1>8, <4>2
        <5> QED
          BY <2>2, <5>1
      <4> QED
        BY <4>1, <4>2
    <3> QED
      BY <1>8, <2>1, <3>1
  <2>7. records'[k + 1].first + records'[k + 1].count = FirstIndex(k + 2)'
    BY <1>5, <1>7, <1>8, <2>4
  <2>8. (k + 1) + 1 = k + 2
    BY <1>8
  <2> QED
    BY <1>8, <2>5, <2>6, <2>7, <2>8 DEF EventLogContiguous
<1>14. \A i \in 1..k : ~records[i].ended
  BY <1>0, <1>3 DEF StoreInv, EndRecorded, CompletedOnce
<1>15. CompletedOnce' /\ EndRecorded'
  BY <1>6, <1>7, <1>8, <1>14 DEF CompletedOnce, EndRecorded
<1>16. \A i \in 1..k :
          /\ records[i].answered \in Nat
          /\ records[i].answered <= old.turn
          /\ records[i].answered # 0 => records[i].answered # old.question
  BY <1>8 DEF StoreInv, QuestionsFresh, Records
<1>17. /\ old.question <= old.turn
       /\ new.answered # 0 => message[r].kind = "answer" /\ new.answered = old.question
       /\ new.answered \in Nat
  BY <1>3, <1>4, <1>7 DEF StoreInv, QuestionsFresh, Accepts, Messages
<1>18. QuestionsFresh'
  <2>1. s.question <= s.turn
    BY <1>4, <1>5, <1>17
  <2>2. ASSUME NEW i \in 1..k
        PROVE  /\ records'[i].answered <= s.turn
               /\ records'[i].answered # 0 => records'[i].answered # s.question
    <3>0. records'[i] = records[i]
      BY <1>8
    <3>1. /\ records[i].answered \in Nat
          /\ records[i].answered <= old.turn
          /\ records[i].answered # 0 => records[i].answered # old.question
      BY <1>16
    <3>2. PICK a \in Nat : a = records[i].answered
      BY <3>1
    <3>3. a <= old.turn /\ (a # 0 => a # old.question) /\ records'[i].answered = a
      BY <3>0, <3>1, <3>2
    <3> QED
      BY <1>4, <1>5, <3>3
  <2>3. /\ new.answered <= s.turn
        /\ new.answered # 0 => new.answered # s.question
    BY <1>4, <1>5, <1>17
  <2>4. \A i \in 1..(k + 1) :
            /\ records'[i].answered <= s.turn
            /\ records'[i].answered # 0 => records'[i].answered # s.question
    BY <1>8, <2>2, <2>3
  <2> QED
    BY <1>6, <1>8, <2>1, <2>4 DEF QuestionsFresh
<1>19. AnsweredOnce'
  BY <1>8, <1>16, <1>17 DEF AnsweredOnce, StoreInv
<1>20. OnlyHolder'
  BY DEF Commit, Go, RequestsInv, OnlyHolder, Holding, TypeOK
<1>21. CopiesCurrent'
  <2>1. ASSUME NEW q \in Requests, q # r PROVE pc'[q] \notin Holding
    BY <1>3, <2>1 DEF Commit, Go, RequestsInv, OnlyHolder, TypeOK
  <2>2. pc'[r] = "committed" /\ state'[r] = s
    BY <1>2 DEF Commit, Go, TypeOK
  <2> QED
    BY <1>6, <2>1, <2>2 DEF CopiesCurrent, Holding
<1>22. AppliedOnce'
  <2>1. ASSUME NEW i \in 1..Len(old.applied)
        PROVE  pc'[old.applied[i]] \in {"committed", "leaving", "done", "dead"}
    <3>1. old.applied[i] \in Requests
      BY <1>4
    <3> QED
      BY <3>1 DEF Commit, Go, RequestsInv, AppliedOnce, TypeOK
  <2>2. pc'[r] = "committed"
    BY DEF Commit, Go, TypeOK
  <2> QED
    <3>1. ASSUME NEW i \in 1..Len(s.applied)
          PROVE  pc'[s.applied[i]] \in {"committed", "leaving", "done", "dead"}
      <4>1. CASE i \in 1..Len(old.applied)
        BY <1>9, <2>1, <4>1
      <4>2. CASE i = Len(old.applied) + 1
        BY <1>9, <2>2, <4>2
      <4>3. Len(old.applied) \in Nat
        BY <1>4
      <4> QED
        BY <1>9, <4>1, <4>2, <4>3
    <3> QED
      BY <1>6, <3>1 DEF AppliedOnce
<1> QED
  BY <1>11, <1>12, <1>13, <1>15, <1>18, <1>19, <1>20, <1>21, <1>22
     DEF RequestsInv, StoreInv

\* Every step keeps the invariant: only requests that hold the lock, and of these only
\* the commit, touch what it is about.
LEMMA NextInv == ASSUME ~LockCanFail PROVE Inv /\ [Next]_vars => Inv'
<1> SUFFICES ASSUME Inv, [Next]_vars PROVE Inv'
  OBVIOUS
<1>1. TypeOK'
  BY NextTypeOK DEF Inv
<1>2. RequestsInv' /\ StoreInv'
  <2>1. ASSUME NEW r \in Requests, Commit(r) PROVE RequestsInv' /\ StoreInv'
    BY <2>1, CommitStep
  <2>2. ASSUME NEW r \in Requests, WriteHot(r) PROVE RequestsInv' /\ StoreInv'
    <3>1. hot' \in {hot, row.checkpoint} /\ UNCHANGED <<row, records>>
      BY <2>2 DEF WriteHot, Inv, RequestsInv, CopiesCurrent
    <3>2. row.checkpoint.turn \in Nat
      BY DEF Inv, TypeOK, Checkpoints
    <3>3. StoreInv'
      BY <3>1, <3>2
         DEF Inv, StoreInv, HotIsBehind, NoTurnLost, EventLogContiguous, CompletedOnce,
             EndRecorded, QuestionsFresh, AnsweredOnce, FirstIndex
    <3> QED
      BY <2>2, <3>3, RequestsStep
  <2>3. ASSUME NEW r \in Requests,
               \/ \E m \in Sendable : Receive(r, m)
               \/ ReadRow(r) \/ ReadHot(r) \/ FailForNow(r) \/ EndInstead(r)
               \/ Unlock(r) \/ Crash(r)
        PROVE  RequestsInv' /\ StoreInv'
    <3>1. UNCHANGED store
      BY <2>3 DEF store, reader, Receive, ReadRow, ReadHot, FailForNow, EndInstead,
                  Unlock, Crash
    <3> QED
      BY <2>3, <3>1, RequestsStep, StoreInvUnchanged DEF Inv
  <2>4. CASE LockExpires
    <3>1. OnlyHolder'
      BY <2>4 DEF LockExpires, process, store, reader, Inv, RequestsInv, OnlyHolder,
                  TypeOK, Holding, Finished
    <3>2. CopiesCurrent' /\ AppliedOnce'
      BY <2>4 DEF LockExpires, process, store, reader, Inv, RequestsInv, CopiesCurrent,
                  AppliedOnce
    <3> QED
      BY <2>4, <3>1, <3>2, StoreInvUnchanged DEF LockExpires, RequestsInv, Inv
  <2>5. CASE LoseHot
    <3>1. RequestsInv'
      BY <2>5 DEF LoseHot, process, reader, Inv, RequestsInv, OnlyHolder,
                  CopiesCurrent, AppliedOnce
    <3>2. StoreInv'
      BY <2>5 DEF LoseHot, Inv, StoreInv, HotIsBehind, NoTurnLost, EventLogContiguous,
                  CompletedOnce, EndRecorded, QuestionsFresh, AnsweredOnce, FirstIndex
    <3> QED
      BY <3>1, <3>2
  <2>6. CASE ViewRow \/ ViewHot \/ UNCHANGED vars
    <3>1. UNCHANGED <<store, lock, process>>
      BY <2>6 DEF ViewRow, ViewHot, vars
    <3>2. RequestsInv'
      BY <3>1 DEF process, store, Inv, RequestsInv, OnlyHolder, CopiesCurrent, AppliedOnce
    <3> QED
      BY <3>1, <3>2, StoreInvUnchanged DEF Inv
  <2> QED
    BY <2>1, <2>2, <2>3, <2>4, <2>5, <2>6 DEF Next, Step
<1> QED
  BY <1>1, <1>2 DEF Inv

\* The invariant the safety theorems follow from.
LEMMA Invariance == ASSUME ~LockCanFail PROVE Spec => []Inv
<1>1. Init => Inv
  BY InitInv
<1>2. Inv /\ [Next]_vars => Inv'
  BY NextInv
<1> QED
  BY <1>1, <1>2, PTL DEF Spec

\* While the lock holds, two requests are never both in a turn.
THEOREM Serialised == ASSUME ~LockCanFail PROVE Spec => []TurnsSerialised
<1>1. Inv => TurnsSerialised
  BY DEF Inv, RequestsInv, OnlyHolder, TurnsSerialised
<1> QED
  BY <1>1, Invariance, PTL

\* While the lock holds, the checkpoint contains exactly the committed turns, in order,
\* for any number of requests, crashes, failed Redis writes and lost hot copies.
THEOREM NothingLost == ASSUME ~LockCanFail PROVE Spec => []NoTurnLost
<1>1. Inv => NoTurnLost
  BY DEF Inv, StoreInv
<1> QED
  BY <1>1, Invariance, PTL

\* While the lock holds, the event log has no gap and no index twice.
THEOREM LogContiguous == ASSUME ~LockCanFail PROVE Spec => []EventLogContiguous
<1>1. Inv => EventLogContiguous
  BY DEF Inv, StoreInv
<1> QED
  BY <1>1, Invariance, PTL

\* While the lock holds, no question is graded twice.
THEOREM GradedOnce == ASSUME ~LockCanFail PROVE Spec => []AnsweredOnce
<1>1. Inv => AnsweredOnce
  BY DEF Inv, StoreInv
<1> QED
  BY <1>1, Invariance, PTL

\* While the lock holds, a session is completed at most once and nothing follows.
THEOREM EndsOnce == ASSUME ~LockCanFail PROVE Spec => []CompletedOnce
<1>1. Inv => CompletedOnce
  BY DEF Inv, StoreInv
<1> QED
  BY <1>1, Invariance, PTL

\* While the lock holds, Redis is never ahead of PostgreSQL.
THEOREM HotBehind == ASSUME ~LockCanFail PROVE Spec => []HotIsBehind
<1>1. Inv => HotIsBehind
  BY DEF Inv, StoreInv
<1> QED
  BY <1>1, Invariance, PTL

\* While the lock holds, the store implements a linear session.
THEOREM Implements == ASSUME ~LockCanFail PROVE Spec => RefinesLinearSession
<1>1. Init => Linear!Init
  BY DEF Init, Linear!Init, Planned
<1>2. ASSUME Inv, [Next]_vars
      PROVE  [Linear!Next]_<<row.checkpoint.applied, row.status = "completed">>
  <2>1. ASSUME NEW r \in Requests, Commit(r) PROVE Linear!Next
    <3> USE DEF Inv, RequestsInv
    <3>1. PICK n \in Nat : \E s \in Outcomes(state[r], r, n, message[r]) :
              /\ s \in Checkpoints
              /\ Record(r, n, s) \in Records
              /\ records' = Append(records, Record(r, n, s))
              /\ row' = [status |-> IF s.status = seen[r] THEN row.status ELSE s.status,
                         checkpoint |-> s]
              /\ state' = [state EXCEPT ![r] = s]
      BY <1>2, <2>1, CommitFacts
    <3>2. PICK s \in Outcomes(state[r], r, n, message[r]) : row'.checkpoint = s
      BY <3>1
    <3>3. /\ state[r] = row.checkpoint /\ row.status # "completed" /\ pc[r] = "running"
          /\ state[r] \in Checkpoints /\ message[r] \in Messages
      BY <1>2, <2>1 DEF Commit, CopiesCurrent, TypeOK
    <3>4. s.applied = Append(row.checkpoint.applied, r)
      <4>1. s.applied = Append(state[r].applied, r)
        BY <3>3, OutcomeFacts
      <4> QED
        BY <3>3, <4>1
    <3>5. \A i \in DOMAIN row.checkpoint.applied : row.checkpoint.applied[i] # r
      <4>1. row.checkpoint.applied \in Seq(Requests)
        BY <1>2 DEF TypeOK, Checkpoints
      <4> QED
        BY <1>2, <3>3, <4>1 DEF AppliedOnce
    <3> QED
      BY <3>2, <3>3, <3>4, <3>5 DEF Linear!Next, Linear!Turn
  <2>2. CASE UNCHANGED row
    BY <2>2
  <2>3. (\E r \in Requests : Commit(r)) \/ UNCHANGED row
    BY <1>2 DEF Next, Step, Receive, ReadRow, ReadHot, FailForNow, EndInstead, WriteHot,
                Unlock, Crash, LockExpires, LoseHot, ViewRow, ViewHot, vars, store
  <2> QED
    BY <2>1, <2>2, <2>3
<1> QED
  BY <1>1, <1>2, Invariance, PTL DEF Spec, RefinesLinearSession, Linear!Spec

-----------------------------------------------------------------------------
(* Readers *)

\* One history continues another.
Continues(new, old) == Len(old) <= Len(new) /\ \A i \in 1..Len(old) : new[i] = old[i]

\* A copy counts the turns it contains, and contains only what is committed.
Committed(copy) ==
    /\ copy.turn = Len(copy.applied)
    /\ Continues(row.checkpoint.applied, copy.applied)

\* What a reader was shown and what it has loaded since are committed, and the second
\* continues the first; so does the hot copy what is loaded, when it is not older.
ReadersInv ==
    /\ Continues(row.checkpoint.applied, view)
    /\ hot # NoCopy => Committed(hot)
    /\ reading # NoCopy => Committed(reading) /\ Continues(reading.applied, view)

\* Continuing is transitive.
LEMMA ContinuesTransitive ==
    ASSUME NEW s \in Seq(Requests), NEW t \in Seq(Requests), NEW u \in Seq(Requests),
           Continues(u, t), Continues(t, s)
    PROVE  Continues(u, s)
<1>1. Len(s) \in Nat /\ Len(t) \in Nat /\ Len(u) \in Nat
  OBVIOUS
<1> QED
  BY <1>1 DEF Continues

\* Of two parts of one history the longer one continues the other.
LEMMA LongerContinues ==
    ASSUME NEW s \in Seq(Requests), NEW t \in Seq(Requests), NEW u \in Seq(Requests),
           Continues(u, s), Continues(u, t), Len(s) <= Len(t)
    PROVE  Continues(t, s)
<1>1. Len(s) \in Nat /\ Len(t) \in Nat /\ Len(u) \in Nat
  OBVIOUS
<1> QED
  BY <1>1 DEF Continues

\* The histories are sequences of requests.
LEMMA Histories ==
    ASSUME TypeOK
    PROVE  /\ row.checkpoint.applied \in Seq(Requests)
           /\ view \in Seq(Requests)
           /\ hot # NoCopy => hot.applied \in Seq(Requests)
           /\ reading # NoCopy => reading.applied \in Seq(Requests)
BY DEF TypeOK, Checkpoints

\* A commit continues the history of the row, and every other step keeps it.
LEMMA HistoryGrows ==
    ASSUME ~LockCanFail, Inv, [Next]_vars
    PROVE  Continues(row'.checkpoint.applied, row.checkpoint.applied)
<1> DEFINE old == row.checkpoint.applied
<1>0. old \in Seq(Requests)
  BY Histories DEF Inv
<1>1. ASSUME NEW r \in Requests, Commit(r) PROVE Continues(row'.checkpoint.applied, old)
  <2>1. PICK n \in Nat : \E s \in Outcomes(state[r], r, n, message[r]) :
            /\ s \in Checkpoints
            /\ row' = [status |-> IF s.status = seen[r] THEN row.status ELSE s.status,
                       checkpoint |-> s]
    BY <1>1, CommitFacts DEF Inv
  <2>2. PICK s \in Outcomes(state[r], r, n, message[r]) : row'.checkpoint = s
    BY <2>1
  <2>3. /\ state[r] = row.checkpoint
        /\ state[r] \in Checkpoints /\ message[r] \in Messages
    BY <1>1 DEF Commit, Inv, RequestsInv, CopiesCurrent, TypeOK
  <2>4. s.applied = Append(old, r)
    BY <2>3, OutcomeFacts
  <2> QED
    BY <1>0, <2>2, <2>4 DEF Continues
<1>2. CASE UNCHANGED row
  BY <1>0, <1>2 DEF Continues
<1>3. (\E r \in Requests : Commit(r)) \/ UNCHANGED row
  BY DEF Next, Step, Receive, ReadRow, ReadHot, FailForNow, EndInstead, WriteHot, Unlock,
         Crash, LockExpires, LoseHot, ViewRow, ViewHot, vars, store
<1> QED
  BY <1>1, <1>2, <1>3

\* What is shown next continues what was shown before, and is committed.
LEMMA ViewHotContinues ==
    ASSUME Inv, ReadersInv, ViewHot
    PROVE  /\ Continues(view', view)
           /\ Continues(row.checkpoint.applied, view')
<1>1. PICK copy \in {hot, NoCopy} : view' = Newest(copy, reading).applied
  BY DEF ViewHot
<1>2. reading # NoCopy /\ Committed(reading) /\ Continues(reading.applied, view)
  BY DEF ViewHot, ReadersInv
<1>3. CASE view' = reading.applied
  BY <1>2, <1>3 DEF Committed
<1>4. CASE copy = hot /\ hot # NoCopy /\ hot.turn >= reading.turn /\ view' = hot.applied
  <2>1. Committed(hot)
    BY <1>4 DEF ReadersInv
  <2>2. /\ hot.applied \in Seq(Requests) /\ reading.applied \in Seq(Requests)
        /\ row.checkpoint.applied \in Seq(Requests) /\ view \in Seq(Requests)
    BY <1>2, <1>4, Histories DEF Inv
  <2>3. Len(reading.applied) <= Len(hot.applied)
    BY <1>2, <1>4, <2>1, <2>2 DEF Committed
  <2>4. Continues(hot.applied, reading.applied)
    BY <1>2, <2>1, <2>2, <2>3, LongerContinues DEF Committed
  <2>5. Continues(hot.applied, view)
    BY <1>2, <2>2, <2>4, ContinuesTransitive
  <2> QED
    BY <1>4, <2>1, <2>5 DEF Committed
<1> QED
  BY <1>1, <1>3, <1>4 DEF Newest

\* A created session has not been read.
LEMMA InitReaders == Init => ReadersInv
BY DEF Init, ReadersInv, Committed, Continues, Planned

\* Every step keeps what the readers rely on: the row's history only grows, and the hot
\* copy is only ever the checkpoint of a turn that has committed.
LEMMA NextReaders == ASSUME ~LockCanFail PROVE Inv /\ ReadersInv /\ [Next]_vars => ReadersInv'
<1> SUFFICES ASSUME Inv, ReadersInv, [Next]_vars PROVE ReadersInv'
  OBVIOUS
<1> DEFINE old == row.checkpoint.applied
           new == row'.checkpoint.applied
<1>0. /\ TypeOK /\ TypeOK'
      /\ old \in Seq(Requests) /\ new \in Seq(Requests)
      /\ Continues(new, old)
  BY NextTypeOK, Histories, HistoryGrows DEF Inv, TypeOK, Checkpoints
<1>1. ASSUME NEW copy \in Checkpoints, Committed(copy)
      PROVE  copy.turn = Len(copy.applied) /\ Continues(new, copy.applied)
  BY <1>0, <1>1, ContinuesTransitive DEF Committed, Checkpoints
<1>2. view' \in Seq(Requests) /\ Continues(new, view')
  <2>1. CASE ViewHot
    BY <1>0, <2>1, ViewHotContinues, ContinuesTransitive DEF TypeOK
  <2>2. CASE UNCHANGED view
    BY <1>0, <2>2, ContinuesTransitive DEF ReadersInv, TypeOK
  <2> QED
    BY <2>1, <2>2
       DEF Next, Step, Receive, ReadRow, ReadHot, FailForNow, EndInstead, Commit, WriteHot,
           Unlock, Crash, LockExpires, LoseHot, ViewRow, vars, reader, process, store
<1>3. hot' # NoCopy => hot'.turn = Len(hot'.applied) /\ Continues(new, hot'.applied)
  <2>1. ASSUME NEW r \in Requests, WriteHot(r), hot' # hot
        PROVE  hot'.turn = Len(hot'.applied) /\ Continues(new, hot'.applied)
    <3>1. hot' = row.checkpoint /\ row' = row
      BY <2>1 DEF WriteHot, Inv, RequestsInv, CopiesCurrent
    <3>2. row.checkpoint.turn = Len(old)
      BY DEF Inv, StoreInv, NoTurnLost
    <3> QED
      BY <1>0, <3>1, <3>2 DEF Continues
  <2>2. CASE hot' = hot
    BY <1>1, <2>2 DEF ReadersInv, Inv, TypeOK
  <2>3. CASE hot' = NoCopy
    BY <2>3
  <2>4. hot' = hot \/ hot' = NoCopy \/ (\E r \in Requests : WriteHot(r) /\ hot' # hot)
    BY DEF Next, Step, Receive, ReadRow, ReadHot, FailForNow, EndInstead, Commit,
           Unlock, Crash, LockExpires, LoseHot, ViewRow, ViewHot, vars, store
  <2> QED
    BY <2>1, <2>2, <2>3, <2>4
<1>4. reading' # NoCopy => /\ reading'.turn = Len(reading'.applied)
                           /\ Continues(new, reading'.applied)
                           /\ Continues(reading'.applied, view')
  <2>1. CASE ViewRow
    <3>1. reading' = row.checkpoint /\ row' = row /\ view' = view
      BY <2>1 DEF ViewRow, store
    <3>2. row.checkpoint.turn = Len(old)
      BY DEF Inv, StoreInv, NoTurnLost
    <3> QED
      BY <1>0, <3>1, <3>2 DEF ReadersInv
  <2>2. CASE ViewHot
    BY <2>2 DEF ViewHot
  <2>3. CASE UNCHANGED reader
    BY <1>1, <2>3 DEF reader, ReadersInv, Inv, TypeOK
  <2> QED
    BY <2>1, <2>2, <2>3
       DEF Next, Step, Receive, ReadRow, ReadHot, FailForNow, EndInstead, Commit, WriteHot,
           Unlock, Crash, LockExpires, LoseHot, vars
<1> QED
  BY <1>2, <1>3, <1>4 DEF ReadersInv, Committed

\* While the lock holds, a client that resumes is never shown an older state or another
\* history than before, though it reads the row and the hot copy in two steps and takes
\* no lock.
THEOREM ReadersMonotonic == ASSUME ~LockCanFail PROVE Spec => ViewNeverGoesBack
<1>1. Init => ReadersInv
  BY InitReaders
<1>2. Inv /\ ReadersInv /\ [Next]_vars => ReadersInv'
  BY NextReaders
<1>3. Inv /\ ReadersInv /\ [Next]_vars
          => [ /\ Len(view') >= Len(view)
               /\ \A i \in 1..Len(view) : view'[i] = view[i] ]_view
  <2> SUFFICES ASSUME Inv, ReadersInv, [Next]_vars, view' # view
               PROVE  Len(view') >= Len(view) /\ \A i \in 1..Len(view) : view'[i] = view[i]
    OBVIOUS
  <2>1. ViewHot
    BY DEF Next, Step, Receive, ReadRow, ReadHot, FailForNow, EndInstead, Commit, WriteHot,
           Unlock, Crash, LockExpires, LoseHot, ViewRow, vars, reader, process, store
  <2>2. view \in Seq(Requests) /\ view' \in Seq(Requests)
    BY NextTypeOK DEF Inv, TypeOK
  <2> QED
    BY <2>1, <2>2, ViewHotContinues DEF Continues
<1> QED
  BY <1>1, <1>2, <1>3, Invariance, PTL DEF Spec, ViewNeverGoesBack

=============================================================================
