---------------------------- MODULE SessionChannel ----------------------------
(* The live channel of a study session: a page that connects with a ticket,  *)
(* reconnects when the connection drops and waits for its turns to complete, *)
(* and the server's handler of each connection, which begins or resumes the  *)
(* session, runs the turns and pauses the session when it leaves. Handlers   *)
(* and requests without a socket (REST, SSE) share the lock of the session;  *)
(* what a turn does to the session is module LearningSession.                *)
EXTENDS Integers, Sequences

CONSTANTS
    Nobody,         \* holder of a free lock
    Request,        \* holder of a lock that a request without a socket took
    MaxRetries,     \* reconnections in a row before the page gives up
    MaxFaults,      \* bound: cuts, refusals, crashes, turns that raise
    MaxMessages,    \* bound: messages the student sends
    MaxRequests     \* bound: requests without a socket

\* Connections are numbered in order; each but the first follows a fault.
Sockets == 1 .. (MaxFaults + 1)

ASSUME ChannelAssumption ==
    /\ MaxRetries \in Nat /\ MaxFaults \in Nat /\ MaxMessages \in Nat /\ MaxRequests \in Nat
    /\ Nobody \notin Sockets /\ Request \notin Sockets /\ Nobody # Request

VARIABLES
    session,        \* its status
    lock,
    unattended,     \* it was left without a handler that would pause it, see Attended
    request,        \* a request without a socket is under way
    stage,          \* where each connection's handler is
    link,           \* "up", "cut" by the network, or "shut" by the server
    up, down,       \* what is on its way to the server, and to the page
    page,           \* the student's side
    faults, messages, requests  \* counts for the bounds

server == <<session, lock, unattended, request, stage>>
wire == <<link, up, down>>
counts == <<faults, messages, requests>>
vars == <<server, wire, page, counts>>

Alive == {"opening", "beginning", "unpausing", "starting", "resuming", "listening",
          "working", "leaving", "pausing"}
Stages == Alive \cup {"unused", "joining", "gone"}
Holding == {"starting", "resuming", "working", "pausing"}

Init ==
    /\ session = "planned"
    /\ lock = Nobody
    /\ unattended = FALSE
    /\ request = FALSE
    /\ stage = [s \in Sockets |-> "unused"]
    /\ link = [s \in Sockets |-> "up"]
    /\ up = [s \in Sockets |-> <<>>]
    /\ down = [s \in Sockets |-> <<>>]
    /\ page = [conn |-> "connecting", attempt |-> 0, busy |-> FALSE, socket |-> 0]
    /\ faults = 0 /\ messages = 0 /\ requests = 0

-----------------------------------------------------------------------------
(* The page *)

At(s, from, to) == stage[s] = from /\ stage' = [stage EXCEPT ![s] = to]
Fault == faults < MaxFaults /\ faults' = faults + 1
Mine(s) == page.socket = s /\ page.conn \in {"joining", "open"}

\* What a dropped connection still carries is not read.
Unread(s) == down' = [r \in Sockets |-> IF r = s THEN <<>> ELSE down[r]]

\* scheduleRetry
Retrying ==
    IF page.attempt >= MaxRetries THEN [page EXCEPT !.conn = "failed", !.socket = 0]
    ELSE [page EXCEPT !.conn = "connecting", !.attempt = @ + 1, !.socket = 0]

(* A ticket is asked for, and refused for a session that has ended. It opens *)
(* one connection, of this session.                                          *)
Connect(s) ==
    /\ page.conn = "connecting"
    /\ session # "ended"
    /\ s > 1 => stage[s - 1] # "unused"
    /\ At(s, "unused", "joining")
    /\ page' = [page EXCEPT !.conn = "joining", !.socket = s]
    /\ UNCHANGED <<session, lock, unattended, request, wire, counts>>

TicketRefused ==
    /\ page.conn = "connecting"
    /\ session = "ended"
    /\ page' = [page EXCEPT !.conn = "closed"]
    /\ UNCHANGED <<server, wire, counts>>

NoTicket ==
    /\ page.conn = "connecting"
    /\ Fault
    /\ page' = Retrying
    /\ UNCHANGED <<server, wire, messages, requests>>

Sends(kind) ==
    /\ page.conn = "open"
    /\ ~page.busy
    /\ messages < MaxMessages
    /\ messages' = messages + 1
    /\ page' = [page EXCEPT !.busy = TRUE]
    /\ up' = [up EXCEPT ![page.socket] = IF link[page.socket] = "up" THEN Append(@, kind) ELSE @]
    /\ UNCHANGED <<server, link, down, faults, requests>>

(* Every view of the session and every error ends the wait; the server's     *)
(* normal closure ends the reconnecting.                                     *)
Seen(event) ==
    IF event = "close" THEN [page EXCEPT !.conn = "closed", !.socket = 0]
    ELSE [page EXCEPT !.busy = FALSE]

Receive(s) ==
    /\ Mine(s)
    /\ down[s] # <<>>
    /\ page' = Seen(Head(down[s]))
    /\ down' = [down EXCEPT ![s] = Tail(@)]
    /\ UNCHANGED <<server, link, up, counts>>

NoticeLoss(s) ==
    /\ Mine(s)
    /\ link[s] = "cut" \/ (link[s] = "shut" /\ down[s] = <<>>)
    /\ page' = Retrying
    /\ Unread(s)
    /\ UNCHANGED <<server, link, up, counts>>

RetryByHand ==
    /\ page.conn = "failed"
    /\ page' = [page EXCEPT !.conn = "connecting", !.attempt = 0]
    /\ UNCHANGED <<server, wire, counts>>

LeavePage ==
    /\ page.conn \notin {"left", "closed"}
    /\ page' = [page EXCEPT !.conn = "left", !.socket = 0]
    /\ link' = [s \in Sockets |-> IF s = page.socket /\ link[s] = "up" THEN "cut" ELSE link[s]]
    /\ Unread(page.socket)
    /\ UNCHANGED <<server, up, counts>>

-----------------------------------------------------------------------------
(* The handler of a connection *)

\* What the server sends over a connection that is cut is lost.
Send(s, events) ==
    down' = IF link[s] = "cut" THEN down ELSE [down EXCEPT ![s] = @ \o events]

\* The handler returns, which closes the connection.
Shut(s) ==
    /\ link' = IF link[s] = "cut" THEN link ELSE [link EXCEPT ![s] = "shut"]
    /\ up' = [up EXCEPT ![s] = <<>>]

Accept(s) ==
    /\ At(s, "joining", "opening")
    /\ page' = IF Mine(s) THEN [page EXCEPT !.conn = "open", !.attempt = 0] ELSE page
    /\ UNCHANGED <<session, lock, unattended, request, wire, counts>>

\* The ticket is used up, late or for another session; the account is inactive.
Refuse(s) ==
    /\ At(s, "joining", "gone")
    /\ Fault
    /\ Shut(s)
    /\ UNCHANGED <<session, lock, unattended, request, down, page, messages, requests>>

(* open_channel: begin, resume, or show what is there. *)
Open(s) ==
    /\ \/ session = "planned" /\ At(s, "opening", "beginning") /\ UNCHANGED wire
       \/ session = "paused" /\ At(s, "opening", "unpausing") /\ UNCHANGED wire
       \/ /\ session = "active" /\ At(s, "opening", "listening")
          /\ Send(s, <<"view">>) /\ UNCHANGED <<link, up>>
       \/ session = "ended" /\ At(s, "opening", "gone") /\ Send(s, <<"view", "close">>) /\ Shut(s)
    /\ unattended' = (unattended /\ session # "active")
    /\ UNCHANGED <<session, lock, request, page, counts>>

\* An error while opening is shown, and the connection closed in good order.
Decline(s, from) ==
    /\ At(s, from, "leaving")
    /\ Send(s, <<"error", "close">>)
    /\ UNCHANGED <<session, unattended, request, link, up, page, counts>>

BusyOpening(s) ==
    /\ lock # Nobody
    /\ \E from \in {"beginning", "unpausing"} : Decline(s, from)
    /\ UNCHANGED lock

TakeLock(s) ==
    /\ lock = Nobody
    /\ lock' = s
    /\ \/ At(s, "beginning", "starting")
       \/ At(s, "unpausing", "resuming")
       \/ At(s, "leaving", "pausing")
    /\ UNCHANGED <<session, unattended, request, wire, page, counts>>

FindEnded(s) ==
    /\ session = "ended"
    /\ \E from \in {"starting", "resuming"} : Decline(s, from)
    /\ lock' = Nobody

Attended == \E s \in Sockets : stage[s] \in Alive

(* The session after a turn: in use, ended, or as it was when the AI failed  *)
(* in a way that may pass. Only a planned session can begin. Whoever has a   *)
(* handler when it changes has somebody who will pause it.                   *)
Becomes(status) ==
    /\ session' = status
    /\ unattended' = (~Attended /\ (unattended \/ status # session))

Shown(s, from, waiting) ==
    /\ lock' = Nobody
    /\ IF session' = "ended"
       THEN At(s, from, "gone") /\ Send(s, <<"view", "close">>) /\ Shut(s)
       ELSE /\ At(s, from, "listening") /\ Send(s, <<"view">>)
            /\ up' = [up EXCEPT ![s] = waiting] /\ UNCHANGED link

Start(s) ==
    /\ session # "ended"
    /\ \/ session = "planned" /\ \E status \in {"planned", "active", "ended"} : Becomes(status)
       \/ session # "planned" /\ Becomes(session)
    /\ Shown(s, "starting", up[s])
    /\ UNCHANGED <<request, page, counts>>

Resume(s) ==
    /\ session # "ended"
    /\ Becomes(IF session = "paused" THEN "active" ELSE session)
    /\ Shown(s, "resuming", up[s])
    /\ UNCHANGED <<request, page, counts>>

\* Mutant: a message that finds the session busy gets no answer.
TakeMessageQuietly(s) ==
    /\ stage[s] = "listening"
    /\ up[s] # <<>>
    /\ \/ /\ lock = Nobody /\ lock' = s
          /\ stage' = [stage EXCEPT ![s] = "working"]
          /\ UNCHANGED <<up, down>>
       \/ /\ lock = Nobody
          /\ Send(s, <<"error">>)
          /\ up' = [up EXCEPT ![s] = Tail(@)]
          /\ UNCHANGED <<lock, stage>>
       \/ /\ lock # Nobody
          /\ up' = [up EXCEPT ![s] = Tail(@)]
          /\ UNCHANGED <<lock, stage, down>>
    /\ UNCHANGED <<session, unattended, request, link, page, counts>>

(* A message is handled, or refused: it is no message, one too many in a     *)
(* minute, or finds the session busy.                                        *)
TakeMessage(s) ==
    /\ stage[s] = "listening"
    /\ up[s] # <<>>
    /\ \/ /\ lock = Nobody /\ lock' = s
          /\ stage' = [stage EXCEPT ![s] = "working"]
          /\ UNCHANGED <<up, down>>
       \/ /\ Send(s, <<"error">>)
          /\ up' = [up EXCEPT ![s] = Tail(@)]
          /\ UNCHANGED <<lock, stage>>
    /\ UNCHANGED <<session, unattended, request, link, page, counts>>

\* What a turn may make of the session; an ended one takes no more messages, a
\* planned one only its end.
AfterTurn(kind) ==
    CASE kind = "end" /\ session # "ended" -> {"ended"}
      [] kind = "answer" /\ session \in {"active", "paused"} -> {"active", "ended", session}
      [] OTHER -> {}

Work(s) ==
    /\ stage[s] = "working"
    /\ \E status \in AfterTurn(Head(up[s])) : Becomes(status)
    /\ Shown(s, "working", Tail(up[s]))
    /\ UNCHANGED <<request, page, counts>>

RefuseMessage(s) ==
    /\ At(s, "working", "listening")
    /\ lock' = Nobody
    /\ Send(s, <<"error">>)
    /\ up' = [up EXCEPT ![s] = Tail(@)]
    /\ UNCHANGED <<session, unattended, request, link, page, counts>>

Noticing == {"opening", "starting", "listening", "working"}
Failing == {"opening", "beginning", "unpausing", "starting", "resuming", "working"}

\* Mutant: only a disconnection is followed by a pause, not another exception.
BreakUnpaused(s) ==
    /\ \/ link[s] = "cut" /\ stage[s] \in Noticing /\ UNCHANGED <<link, up, faults>>
       \/ Fault /\ stage[s] \in Failing /\ Shut(s)
    /\ At(s, stage[s], IF link[s] = "cut" THEN "leaving" ELSE "gone")
    /\ lock' = IF lock = s THEN Nobody ELSE lock
    /\ UNCHANGED <<session, unattended, request, down, page, messages, requests>>

(* The server notices a lost connection when it sends or listens. Redis or   *)
(* the database raises while the channel opens or within a turn, which is    *)
(* rolled back.                                                              *)
Break(s) ==
    /\ \/ link[s] = "cut" /\ stage[s] \in Noticing /\ UNCHANGED faults
       \/ Fault /\ stage[s] \in Failing
    /\ At(s, stage[s], "leaving")
    /\ lock' = IF lock = s THEN Nobody ELSE lock
    /\ UNCHANGED <<session, unattended, request, wire, page, messages, requests>>

(* The handler that leaves pauses the session, unless it is busy.            *)
Unwatched == lock \notin Sockets \/ stage[lock] \notin Alive
LeaveBusy(s) ==
    /\ lock # Nobody
    /\ At(s, "leaving", "gone")
    /\ Shut(s)
    /\ unattended' = (unattended \/ Unwatched)
    /\ UNCHANGED <<session, lock, request, down, page, counts>>

(* An error of the pause itself is logged, and the session stays as it is.    *)
PauseFails(s) ==
    /\ Fault
    /\ \E from \in {"leaving", "pausing"} : At(s, from, "gone")
    /\ lock' = IF lock = s THEN Nobody ELSE lock
    /\ Shut(s)
    /\ unattended' = (unattended \/ \A r \in Sockets \ {s} : stage[r] \notin Alive)
    /\ UNCHANGED <<session, request, down, page, messages, requests>>

Pause(s) ==
    /\ At(s, "pausing", "gone")
    /\ session' = IF session = "active" THEN "paused" ELSE session
    /\ lock' = Nobody
    /\ Shut(s)
    /\ UNCHANGED <<unattended, request, down, page, counts>>

-----------------------------------------------------------------------------
(* Requests without a socket, and what goes wrong *)

Kinds == {"pause", "resume", "end", "message"}

RequestStarts ==
    /\ requests < MaxRequests
    /\ requests' = requests + 1
    /\ lock = Nobody
    /\ lock' = Request
    /\ request' = TRUE
    /\ UNCHANGED <<session, unattended, stage, wire, page, faults, messages>>

AfterRequest(kind) ==
    CASE kind = "pause" -> {IF session = "active" THEN "paused" ELSE session}
      [] kind = "resume" -> {IF session = "paused" THEN "active" ELSE session}
      [] kind = "end" -> {session, "ended"}
      [] kind = "message" -> {session} \cup (IF session = "ended" THEN {} ELSE {"active", "ended"})

RequestEnds ==
    /\ request
    /\ request' = FALSE
    /\ lock' = Nobody
    /\ \E kind \in Kinds : \E status \in AfterRequest(kind) : Becomes(status)
    /\ UNCHANGED <<stage, wire, page, counts>>

Cut(s) ==
    /\ Fault
    /\ stage[s] # "unused" /\ link[s] = "up"
    /\ link' = [link EXCEPT ![s] = "cut"]
    /\ UNCHANGED <<server, up, down, page, messages, requests>>

(* The server process dies; its locks stay until they expire. *)
Crash ==
    /\ Fault
    /\ \E s \in Sockets : stage[s] \in Alive
    /\ stage' = [s \in Sockets |-> IF stage[s] \in Alive \cup {"joining"} THEN "gone" ELSE stage[s]]
    /\ link' = [s \in Sockets |-> IF stage[s] = "unused" \/ link[s] = "shut" THEN link[s] ELSE "cut"]
    /\ request' = FALSE
    /\ unattended' = TRUE
    /\ up' = [s \in Sockets |-> <<>>]
    /\ UNCHANGED <<session, lock, down, page, messages, requests>>

LockExpires ==
    /\ \/ lock \in Sockets /\ stage[lock] = "gone"
       \/ lock = Request /\ ~request
    /\ lock' = Nobody
    /\ UNCHANGED <<session, unattended, request, stage, wire, page, counts>>

Handle(s) ==
    \/ Open(s) \/ BusyOpening(s) \/ TakeLock(s) \/ FindEnded(s) \/ Start(s) \/ Resume(s)
    \/ TakeMessage(s) \/ Work(s) \/ RefuseMessage(s) \/ Break(s) \/ LeaveBusy(s) \/ Pause(s)
    \/ PauseFails(s)

Next ==
    \/ TicketRefused \/ NoTicket \/ RetryByHand \/ LeavePage
    \/ \E kind \in {"answer", "end"} : Sends(kind)
    \/ \E s \in Sockets :
            \/ Connect(s) \/ Receive(s) \/ NoticeLoss(s)
            \/ Accept(s) \/ Refuse(s) \/ Handle(s) \/ Cut(s)
    \/ RequestStarts \/ RequestEnds \/ Crash \/ LockExpires

(* The page's timers, the server's turns, which time limits end, and the     *)
(* expiry of a lock; nothing makes the student, the network or a fault act.  *)
Fairness ==
    /\ WF_vars(TicketRefused \/ \E s \in Sockets : Connect(s))
    /\ \A s \in Sockets :
            /\ WF_vars(Receive(s)) /\ WF_vars(NoticeLoss(s))
            /\ WF_vars(Accept(s) \/ Refuse(s)) /\ WF_vars(Handle(s))
    /\ WF_vars(RequestEnds) /\ WF_vars(LockExpires)

Spec == Init /\ [][Next]_vars
FairSpec == Spec /\ Fairness
-----------------------------------------------------------------------------
(* A session whose clock runs has a handler that will pause it: the last     *)
(* connection to leave does, however connections of one page overlap and     *)
(* refuse each other the lock, and so does whoever connects to it again      *)
(* after one of the exceptions: a request that ran it while nobody was       *)
(* connected or kept the last handler from the lock, a crash, and a pause    *)
(* that itself failed in the last handler (session_socket's finally, pause). *)
ActiveIsAttended ==
    session = "active" => unattended \/ Attended

(* Who waits for a turn gets its result or an error, or is told that the     *)
(* connection is closed or lost, whatever is cut or dies in between          *)
(* (session_socket, SessionSocket, applyEvent).                              *)
WaitingEnds == page.busy ~> (~page.busy \/ page.conn \in {"closed", "failed", "left"})

(* "A dropped connection is retried" (session-socket.ts): the page stops for *)
(* good only when the session has ended.                                     *)
ClosedOnlyWhenEnded == page.conn = "closed" => session = "ended"
=============================================================================
