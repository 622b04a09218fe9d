------------------------ MODULE SessionChannel_proofs ------------------------
(***************************************************************************)
(* That a running session has somebody to pause it, for any number of      *)
(* connections, messages and requests.                                     *)
(***************************************************************************)
EXTENDS SessionChannel, TLAPS

StagesKnown == stage \in [Sockets -> Stages]

\* The lock is held by a handler that needs it, or by one that died with it.
LockIsUsed == \A s \in Sockets : lock = s => stage[s] \in Holding \cup {"gone"}

ChannelInv == StagesKnown /\ LockIsUsed /\ ActiveIsAttended

USE DEF Alive, Stages, Holding

-----------------------------------------------------------------------------
\* A step of one handler touches no other handler, and only its own lock.
OwnStep(s) ==
    /\ \E to \in Stages : stage' = [stage EXCEPT ![s] = to]
    /\ lock' \in {lock, s, Nobody}
    /\ lock' = s => stage'[s] \in Holding \cup {"gone"}

LEMMA OwnStepKeepsLock ==
    ASSUME NEW s \in Sockets, StagesKnown, LockIsUsed, OwnStep(s)
    PROVE  StagesKnown' /\ LockIsUsed'
<1>1. PICK to \in Stages : stage' = [stage EXCEPT ![s] = to]
  BY DEF OwnStep
<1>2. StagesKnown'
  BY <1>1 DEF StagesKnown
<1>3. ASSUME NEW r \in Sockets, lock' = r
      PROVE  stage'[r] \in Holding \cup {"gone"}
  <2>1. CASE r = s
    BY <2>1, <1>3 DEF OwnStep
  <2>2. CASE r # s
    <3>1. lock = r /\ stage'[r] = stage[r]
      BY <1>1, <1>3, <2>2, ChannelAssumption DEF OwnStep, StagesKnown
    <3>2. QED
      BY <3>1 DEF LockIsUsed
  <2>3. QED
    BY <2>1, <2>2
<1>4. QED
  BY <1>2, <1>3 DEF LockIsUsed

\* As long as the handler that moved stays, a running session is attended.
LEMMA StayingAttends ==
    ASSUME NEW s \in Sockets, StagesKnown, NEW to \in Alive,
           stage' = [stage EXCEPT ![s] = to]
    PROVE  ActiveIsAttended'
<1>1. stage'[s] \in Alive
  BY DEF StagesKnown
<1>2. QED
  BY <1>1 DEF ActiveIsAttended, Attended

\* Nor does it matter who was not there before, as long as nobody resumes it.
LEMMA AbsentDoesNotMatter ==
    ASSUME NEW s \in Sockets, StagesKnown, ActiveIsAttended, stage[s] \notin Alive,
           NEW to \in Stages, stage' = [stage EXCEPT ![s] = to],
           session' = session, unattended' = unattended
    PROVE  ActiveIsAttended'
<1>1. ASSUME NEW r \in Sockets, stage[r] \in Alive
      PROVE  stage'[r] \in Alive
  <2>1. r # s
    BY <1>1
  <2>2. QED
    BY <1>1, <2>1 DEF StagesKnown
<1>2. QED
  BY <1>1 DEF ActiveIsAttended, Attended

-----------------------------------------------------------------------------
LEMMA InitChannel == Init => ChannelInv
<1>1. SUFFICES ASSUME Init PROVE ChannelInv
  OBVIOUS
<1>2. StagesKnown
  BY <1>1 DEF Init, StagesKnown
<1>3. LockIsUsed
  BY <1>1, ChannelAssumption DEF Init, LockIsUsed
<1>4. ActiveIsAttended
  BY <1>1 DEF Init, ActiveIsAttended
<1>5. QED
  BY <1>2, <1>3, <1>4 DEF ChannelInv

\* What follows a turn: the handler listens again, or leaves an ended session.
LEMMA ShownKeeps ==
    ASSUME ChannelInv, NEW s \in Sockets, NEW from \in Alive, NEW waiting,
           Shown(s, from, waiting)
    PROVE  ChannelInv'
<1> USE DEF ChannelInv
<1>1. CASE session' = "ended"
  <2>1. stage' = [stage EXCEPT ![s] = "gone"] /\ lock' = Nobody
    BY <1>1 DEF Shown, At
  <2>2. OwnStep(s)
    BY <2>1, ChannelAssumption DEF OwnStep
  <2>3. ActiveIsAttended'
    BY <1>1 DEF ActiveIsAttended, Attended
  <2>4. QED
    BY <2>2, <2>3, OwnStepKeepsLock
<1>2. CASE session' # "ended"
  <2>1. stage' = [stage EXCEPT ![s] = "listening"] /\ lock' = Nobody
    BY <1>2 DEF Shown, At
  <2>2. OwnStep(s)
    BY <2>1, ChannelAssumption DEF OwnStep
  <2>3. QED
    BY <2>1, <2>2, OwnStepKeepsLock, StayingAttends
<1>3. QED
  BY <1>1, <1>2

\* A step that leaves the handler alive keeps the invariant.
LEMMA StayingKeeps ==
    ASSUME ChannelInv, NEW s \in Sockets, NEW to \in Alive,
           stage' = [stage EXCEPT ![s] = to],
           lock' \in {lock, s, Nobody}, lock' = s => to \in Holding
    PROVE  ChannelInv'
<1>1. stage'[s] = to
  BY DEF ChannelInv, StagesKnown
<1>2. OwnStep(s)
  BY <1>1 DEF OwnStep
<1>3. QED
  BY <1>2, OwnStepKeepsLock, StayingAttends DEF ChannelInv

\* The handler of a connection, step by step.
LEMMA HandleKeeps ==
    ASSUME ChannelInv, NEW s \in Sockets, Handle(s)
    PROVE  ChannelInv'
<1> USE DEF ChannelInv
<1>1. CASE Open(s)
  <2>1. stage[s] = "opening" /\ lock' = lock /\ lock # s
    BY <1>1 DEF Open, At, LockIsUsed
  <2>2. CASE session = "ended"
    <3>1. stage' = [stage EXCEPT ![s] = "gone"] /\ session' = session
      BY <1>1, <2>2 DEF Open, At
    <3>2. OwnStep(s)
      BY <2>1, <3>1 DEF OwnStep
    <3>3. ActiveIsAttended'
      BY <2>2, <3>1 DEF ActiveIsAttended, Attended
    <3>4. QED
      BY <3>2, <3>3, OwnStepKeepsLock
  <2>3. CASE session # "ended"
    <3>1. \E to \in Alive : stage' = [stage EXCEPT ![s] = to]
      BY <1>1, <2>3 DEF Open, At
    <3>2. QED
      BY <2>1, <3>1, StayingKeeps
  <2>4. QED
    BY <2>2, <2>3
<1>2. CASE BusyOpening(s)
  <2>1. stage' = [stage EXCEPT ![s] = "leaving"] /\ lock' = lock /\ lock # s
    BY <1>2 DEF BusyOpening, Decline, At, LockIsUsed
  <2>2. QED
    BY <2>1, StayingKeeps
<1>3. CASE TakeLock(s)
  <2>1. \E to \in {"starting", "resuming", "pausing"} : stage' = [stage EXCEPT ![s] = to]
    BY <1>3 DEF TakeLock, At
  <2>2. lock' = s
    BY <1>3 DEF TakeLock
  <2>3. QED
    BY <2>1, <2>2, StayingKeeps
<1>4. CASE FindEnded(s)
  <2>1. stage' = [stage EXCEPT ![s] = "leaving"] /\ lock' = Nobody
    BY <1>4 DEF FindEnded, Decline, At
  <2>2. QED
    BY <2>1, ChannelAssumption, StayingKeeps
<1>5. CASE Start(s)
  BY <1>5, ShownKeeps DEF Start
<1>6. CASE Resume(s)
  BY <1>6, ShownKeeps DEF Resume
<1>7. CASE TakeMessage(s)
  <2>1. stage[s] = "listening" /\ stage \in [Sockets -> Stages] /\ lock # s
    BY <1>7 DEF TakeMessage, StagesKnown, LockIsUsed
  <2>2. CASE lock' = s /\ stage' = [stage EXCEPT ![s] = "working"]
    BY <2>2, StayingKeeps
  <2>3. CASE lock' = lock /\ stage' = stage
    <3>1. stage' = [stage EXCEPT ![s] = "listening"]
      BY <2>1, <2>3
    <3>2. QED
      BY <2>1, <2>3, <3>1, StayingKeeps
  <2>4. QED
    BY <1>7, <2>2, <2>3 DEF TakeMessage
<1>8. CASE Work(s)
  <2>1. Shown(s, "working", Tail(up[s]))
    BY <1>8 DEF Work
  <2>2. QED
    BY <2>1, ShownKeeps
<1>9. CASE RefuseMessage(s)
  <2>1. stage' = [stage EXCEPT ![s] = "listening"] /\ lock' = Nobody
    BY <1>9 DEF RefuseMessage, At
  <2>2. QED
    BY <2>1, ChannelAssumption, StayingKeeps
<1>10. CASE Break(s)
  <2>1. stage' = [stage EXCEPT ![s] = "leaving"]
    BY <1>10 DEF Break, At
  <2>2. lock' \in {lock, Nobody} /\ lock' # s
    BY <1>10, ChannelAssumption DEF Break
  <2>3. QED
    BY <2>1, <2>2, StayingKeeps
<1>11. CASE LeaveBusy(s)
  <2>1. /\ stage[s] = "leaving" /\ stage' = [stage EXCEPT ![s] = "gone"]
        /\ lock' = lock /\ session' = session
        /\ unattended' = (unattended \/ Unwatched)
    BY <1>11 DEF LeaveBusy, At
  <2>2. lock # s
    BY <2>1 DEF LockIsUsed
  <2>3. OwnStep(s)
    BY <2>1, <2>2 DEF OwnStep
  <2>4. ASSUME ~Unwatched
        PROVE  \E r \in Sockets : stage'[r] \in Alive
    <3>1. lock \in Sockets /\ stage[lock] \in Alive
      BY <2>4 DEF Unwatched
    <3>2. stage'[lock] = stage[lock]
      BY <2>1, <2>2, <3>1 DEF StagesKnown
    <3>3. QED
      BY <3>1, <3>2
  <2>5. ActiveIsAttended'
    BY <2>1, <2>4 DEF ActiveIsAttended, Attended
  <2>6. QED
    BY <2>3, <2>5, OwnStepKeepsLock
<1>12. CASE Pause(s)
  <2>1. /\ stage' = [stage EXCEPT ![s] = "gone"] /\ lock' = Nobody
        /\ session' # "active"
    BY <1>12 DEF Pause, At
  <2>2. OwnStep(s)
    BY <2>1, ChannelAssumption DEF OwnStep
  <2>3. ActiveIsAttended'
    BY <2>1 DEF ActiveIsAttended, Attended
  <2>4. QED
    BY <2>2, <2>3, OwnStepKeepsLock
<1>13. CASE PauseFails(s)
  <2>1. /\ stage' = [stage EXCEPT ![s] = "gone"]
        /\ lock' \in {lock, Nobody} /\ session' = session
        /\ unattended' = (unattended \/ \A r \in Sockets \ {s} : stage[r] \notin Alive)
    BY <1>13 DEF PauseFails, At
  <2>2. OwnStep(s)
    BY <2>1, ChannelAssumption DEF OwnStep, StagesKnown
  <2>3. ASSUME NEW r \in Sockets \ {s}, stage[r] \in Alive
        PROVE  stage'[r] \in Alive
    BY <2>1, <2>3 DEF StagesKnown
  <2>4. ActiveIsAttended'
    BY <2>1, <2>3 DEF ActiveIsAttended, Attended
  <2>5. QED
    BY <2>2, <2>4, OwnStepKeepsLock
<1>14. QED
  BY <1>1, <1>2, <1>3, <1>4, <1>5, <1>6, <1>7, <1>8, <1>9, <1>10, <1>11, <1>12, <1>13 DEF Handle

-----------------------------------------------------------------------------
\* Every step.
LEMMA StepKeepsChannel == ChannelInv /\ [Next]_vars => ChannelInv'
<1> SUFFICES ASSUME ChannelInv, [Next]_vars PROVE ChannelInv'
  OBVIOUS
<1> USE DEF ChannelInv
<1>1. ASSUME UNCHANGED server
      PROVE  ChannelInv'
  BY <1>1 DEF server, StagesKnown, LockIsUsed, ActiveIsAttended, Attended
<1>2. CASE UNCHANGED vars
  BY <1>1, <1>2 DEF vars
<1>3. CASE TicketRefused \/ NoTicket \/ RetryByHand \/ LeavePage
  BY <1>1, <1>3 DEF TicketRefused, NoTicket, RetryByHand, LeavePage
<1>4. CASE \E kind \in {"answer", "end"} : Sends(kind)
  BY <1>1, <1>4 DEF Sends
<1>5. ASSUME NEW s \in Sockets,
             \/ Connect(s) \/ Receive(s) \/ NoticeLoss(s)
             \/ Accept(s) \/ Refuse(s) \/ Handle(s) \/ Cut(s)
      PROVE  ChannelInv'
  <2>1. CASE Receive(s) \/ NoticeLoss(s) \/ Cut(s)
    BY <1>1, <2>1 DEF Receive, NoticeLoss, Cut
  <2>2. CASE Handle(s)
    BY <2>2, HandleKeeps
  <2>3. CASE Connect(s) \/ Accept(s) \/ Refuse(s)
    <3>1. /\ stage[s] \in {"unused", "joining"}
          /\ \E to \in {"joining", "opening", "gone"} : stage' = [stage EXCEPT ![s] = to]
          /\ lock' = lock /\ session' = session /\ unattended' = unattended
      BY <2>3 DEF Connect, Accept, Refuse, At
    <3>2. lock # s
      BY <3>1 DEF LockIsUsed
    <3>3. OwnStep(s)
      BY <3>1, <3>2 DEF OwnStep
    <3>4. stage[s] \notin Alive
      BY <3>1
    <3>5. QED
      BY <3>1, <3>3, <3>4, OwnStepKeepsLock, AbsentDoesNotMatter
  <2>4. QED
    BY <1>5, <2>1, <2>2, <2>3
<1>6. CASE RequestStarts
  <2>1. lock' = Request /\ stage' = stage /\ session' = session /\ unattended' = unattended
    BY <1>6 DEF RequestStarts
  <2>2. QED
    BY <2>1, ChannelAssumption DEF StagesKnown, LockIsUsed, ActiveIsAttended, Attended
<1>7. CASE RequestEnds
  <2>1. lock' = Nobody /\ stage' = stage
    BY <1>7 DEF RequestEnds
  <2>2. Attended \/ (session' = session /\ (unattended => unattended')) \/ unattended'
    BY <1>7 DEF RequestEnds, Becomes
  <2>3. QED
    BY <2>1, <2>2, ChannelAssumption DEF StagesKnown, LockIsUsed, ActiveIsAttended, Attended
<1>8. CASE Crash
  <2>1. /\ stage' = [s \in Sockets |->
                        IF stage[s] \in Alive \cup {"joining"} THEN "gone" ELSE stage[s]]
        /\ lock' = lock /\ unattended' = TRUE
    BY <1>8 DEF Crash
  <2>2. StagesKnown'
    BY <2>1 DEF StagesKnown
  <2>3. LockIsUsed'
    BY <2>1 DEF LockIsUsed
  <2>4. ActiveIsAttended'
    BY <2>1 DEF ActiveIsAttended, Attended
  <2>5. QED
    BY <2>2, <2>3, <2>4
<1>9. CASE LockExpires
  <2>1. lock' = Nobody /\ stage' = stage /\ session' = session /\ unattended' = unattended
    BY <1>9 DEF LockExpires
  <2>2. QED
    BY <2>1, ChannelAssumption DEF StagesKnown, LockIsUsed, ActiveIsAttended, Attended
<1>10. QED
  BY <1>2, <1>3, <1>4, <1>5, <1>6, <1>7, <1>8, <1>9 DEF Next

(* A session whose clock runs has a handler that will pause it, however many *)
(* connections, cuts, errors, crashes and requests there are, from the moment *)
(* one finds or makes it active until a crash, a pause that fails, or a       *)
(* request without a socket takes away the last one.                          *)
THEOREM RunningIsAttended == Spec => []ActiveIsAttended
<1>1. ChannelInv => ActiveIsAttended
  BY DEF ChannelInv
<1>2. QED
  BY InitChannel, StepKeepsChannel, <1>1, PTL DEF Spec
=============================================================================
