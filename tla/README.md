# PrepBud ("School in a Box") in TLA+

PrepBud is an adaptive tutor. A student uploads documents; background workers extract
concepts from them; the student then works through learning sessions, in which a state graph
driven by a language model explains, asks, grades and decides what comes next; mastery, spaced
reviews and a study plan follow from the answers. This directory holds TLA+ models of the parts
in which order, failure and concurrency matter, TLC configurations that check them on small
instances, and TLAPS proofs of their main safety properties for every value of the constants.

All source paths below are relative to `src/`; `app/` stands for `backend/app/`.

## 1. Inventory

| Component | Where | State it keeps | Operations |
|---|---|---|---|
| Learning session engine | `app/services/learning_engine/orchestrator.py`, `state.py`, `concept_selector.py` | `SessionState`: status, what is awaited, current concept and queue, mastery snapshot, attempts, open question, frustration evidence, counters | one turn per message: begin, response, acknowledge, follow-up, hint, end; the nodes select, decide, explain, ask, evaluate, ease, wrap, schedule |
| Session persistence and locking | `session_manager.py`, `db/models/session.py` | PostgreSQL row with checkpoint, event and attempt rows; hot copy and lock in Redis | create, handle, begin, pause, unpause, resume |
| Session channel | `app/api/sessions.py`, `frontend/src/lib/session-socket.ts`, `stores/session-store.ts` | connections, the client's view | open, post (SSE), socket, reconnect, pause on disconnect |
| Document pipeline | `app/api/documents.py`, `app/workers/*`, `app/services/content/document_processor.py`, `indexer.py` | document row, sections, links, concepts; S3 object; Qdrant points; Redis lock; Celery queue | upload-url, confirm-upload, delete, process, re-index, retry |
| Concept graph | `app/services/content/concept_extractor.py`, `concept_graph.py`, `_persist` of `document_processor.py` | concepts, their relationships and links to documents; the cache of extracted batches | extract a batch, plan, save (no cycles, no duplicates), delete with the last document |
| Student model | `app/services/student_model/*` | mastery rows and a Redis cache of them, reviews, misconceptions | record_attempt, snapshot, schedule_review, decay |
| Assessment | `app/services/assessment/*` | stored questions | generate and normalise a question, match and grade an answer |
| Study plan | `app/services/study_plan/*`, `app/api/study_plan.py`, `app/workers/maintenance_tasks.py` | plans and their items | ensure, regenerate, on_session_completed, update_item, mark_overdue |
| AI gateway | `app/ai/*` | traces, spent budget in Redis | complete, embed, check and record cost |
| Middleware | `app/core/middleware.py` | sliding windows in Redis | hit |
| The rest | curriculum, goals, profile, dashboard, authentication, text extraction, prompts, web pages | rows written in one transaction, or none | CRUD, pure functions |

How they interact: a session turn calls the AI gateway, writes mastery through the student model
in its own transaction, and on completion makes the study plan regenerate. A processed document
adds concepts and edges, and makes the plan regenerate. Deleting a document may delete concepts
that sessions and plans refer to. Redis is at once cache, lock service and broker; every part but
the broker goes on without it. The pairs that share state without a common transaction are the
session row and its hot copy, the mastery rows and their cache, and the document row, file,
vectors and queue.

What is hard here: two tabs or a retry sending messages to one session; a lock that is skipped
without Redis and expires under its holder; a process dying between commit and cache write;
turns that are rolled back after grading; a worker killed with a lock in its name; a delete
request in the middle of processing; a queue that may have taken a task although it reported an
error; the many ways in which re-teaching, re-queueing and switching could lose a concept or
never end; two documents that name the same concepts and contradict each other; a plan that is
being made while the student ticks an item of the old one; answers of two sessions on one mastery
row; a page that reconnects while its old connection is still at work; AI calls that all passed one
check of the budget. `PROJECT.json` lists these hazards at their lines.

What makes each component correct, in short: a session always asks for something the server
accepts, forgets no target, grades a question once and ends; its stored history is linear
whatever crashes; a document's row, sections, vectors and concepts agree with its status, what
the student has learned is not deleted, and tasks end; the plan is unique per user and loses no
action of the student; a cached mastery is one that was committed; prerequisites stay acyclic.

## 2. Modules

| Module | Models | Kind |
|---|---|---|
| `LearningSession` | the tutor's decisions, one action per message kind | specification |
| `LinearSession` | what the session manager promises: one history, appended to, that ends once | abstract specification |
| `SessionStore` | lock, row, hot copy, commit and resume with concurrent requests and crashes; implements `LinearSession` | specification |
| `SessionChannel` | the page's connections, their handlers, and requests without a socket, on one session | specification |
| `StudentModel` | one mastery row, its misconception, and the row's copy in Redis | state and operations |
| `Assessment` | questions as they are stored, and how an answer is graded | pure operators |
| `LearningTurn` | turns of several sessions, readers and the daily job; composes `StudentModel` and `Assessment` | specification |
| `PlanGenerator` | `generate_plan`: order, pace, dates | pure operators |
| `StudyPlan` | the transactions that make and change one student's plan; uses `PlanGenerator` | specification |
| `DocumentLife` | what the pipeline promises: a document is pending, processed, ready with its content, failed or deleted | abstract specification |
| `DocumentPipeline` | one document: requests, workers, queue, lock and the stores; implements `DocumentLife` | specification |
| `ConceptGraph` | what the workers of several documents write into one student's graph | specification |
| `AIGateway` | concurrent calls, the budget, the fallback, the ledger and its counter | specification |
| `*_proofs` | the theorems of `LearningSession`, `SessionStore`, `SessionChannel`, `LearningTurn`, `StudyPlan`, `DocumentPipeline`, `ConceptGraph`, `AIGateway` | proofs |
| `MC*` | the instances of these for TLC | model checking |

The modules look at the same program from different sides, each at the grain at which its hazards
are. A turn of a session is one atomic step on the whole tutoring state in `LearningSession`, a
sequence of accesses to lock, row and hot copy in `SessionStore`, a transaction on the student
model in `LearningTurn`, and a lock that is held for a while in `SessionChannel`. That turns are
serialised and all-or-nothing, which the first relies on, is what `SessionStore` shows. In the same
way `DocumentPipeline` follows the life of one document, and `ConceptGraph` what several leave behind.

### LearningSession

Each variable is a field of `SessionState` (`state.py`), named after it or with the field's name in
its comment; `open` and `asked` number the questions, because only the identity of a question
matters. `Begin`, `Answer`, `Acknowledge`, `FollowUp`, `Hint`, `EndSession`, `Pause` and `Unpause`
are the messages; their guards are those of `validate_message` (`session_manager.py`). `Answer`
covers everything a graded answer causes: the student model's new mastery (any level), then
`Decide`, which is `decide_next` in its order: limits, frustration guard, finished concept, and
else another explanation or question. `SwitchTo`, `Ease`, `MoveOn` and `KeepGoing` are its
outcomes; `Explain`, `Ask` and `Finish` are the nodes that end a turn. Initial states are all the
sessions that concept selection can produce for some data (`SelectedReviews`).

Abstractions: mastery and scores are percentages from a small set and every grade is possible;
time is one flag (`timeUp`) that may turn on while the session is not paused; the token and AI
budgets may run out at any message; text is left out except the kind and concept of the last
explanation. A turn that fails and is rolled back is a stutter.

### SessionStore

Each request takes the steps of `_turn`: `Receive` (the Redis lock), `ReadRow`, `ReadHot`
(`load_state` and the validation), `Commit` (`_persist` up to the commit), `WriteHot`, `Unlock`.
`Crash` may happen between any two, `LoseHot` and `LockExpires` at any time, Redis may fail at each
access. A session state is its turn number, status, open question, next event index and the list
of requests whose effects it contains; that list is the ghost that lets properties speak of lost
turns. `ViewRow` and `ViewHot` are the lock-free read of `resume`. `LockCanFail = FALSE` is the
assumption under which the design works: a turn ends within `LOCK_TTL_SECONDS` = 300, and Redis
answers `SET NX`.

### SessionChannel

A connection is numbered; each has a handler (`stage`), a state of the wire (`link`) and what is on
its way in both directions (`up`, `down`). The page's actions are `SessionSocket` and the store's
reaction to events: `Connect`, `NoTicket`, `TicketRefused`, `Receive`, `NoticeLoss`, `RetryByHand`,
`LeavePage`, `Sends`. The handler's are `session_socket`: `Accept` or `Refuse`, `Open`
(`open_channel`), `TakeLock`, `Start`, `Resume`, `TakeMessage`, `Work`, `RefuseMessage`, `Decline`,
and `Break`, `LeaveBusy`, `Pause` and `PauseFails` for the `finally` that pauses the session. An
error of Redis or the database may strike while the channel opens, in a turn (`Break`), or in that
pause itself, which the code only logs (`PauseFails`). `RequestStarts` and
`RequestEnds` are the REST routes and the SSE stream, which have no such `finally`. What a turn makes
of the session is any status it may have then; the events between a message and its
`turn_complete` are left out, because they do not end the waiting, and the rate limiter is a refusal
that may come at any message. `unattended` is a history variable: the session was left without a
handler that would pause it, because who used it last had no socket, a crash took the handler, or
its pause failed or was refused the lock by a request or a dead handler.

### StudentModel, Assessment and LearningTurn

A turn that grades an answer passes `waiting`, `grading`, `graded`, `recorded`, and then asks a
known question, waits for the AI, or closes the session with a review, before it commits; at each
point the AI may fail or an exception undo it. `RecordAttempt` is `record_attempt`, the
misconceptions and their resolution on the turn's own version of the row (`draft`), under the row
lock; `cached` gets that version at once, before the commit, as the code does. `ReadRow` and
`FillCache` are a reader that missed Redis; `DailyDecay` and `DailyInvalidation` the daily job.
`Grading` follows `evaluate`: exact where possible, else by the AI (`Readings`).

Abstractions: levels are logarithmic and few, so that exponential forgetting takes the same from
each of them every day; knowledge tracing is any level on the right side of the old one; intervals
and the ease are integers in hundredths and computed as SM-2 does. The mastery row is there from
the start (the code creates an empty one on first use), and there is one concept with one misconception.

### StudyPlan and PlanGenerator

A request is one transaction in READ COMMITTED. `AskToRegenerate`, `ReadPlan` (`ensure_plan`),
`ChangeGoal`, `EndSession` and `StartDaily` (`mark_overdue`) start one; `Prepare` takes the advisory
lock and computes the plan from what is committed; `Credit` is the part of `on_session_completed`
that ticks items; `Commit` waits for the item rows it updates. `EditItem` and `CommitEdit` are
`update_item`, which takes row locks only. `Fail` and `BreakDeadlock` roll a transaction back. Only
the active plan is kept. `PatchesRace = FALSE` says that items are changed apart from planning.
`GeneratedPlan` is `generate_plan` without priorities and minutes.

### DocumentPipeline

One step is one transaction or one call to another store. `ConfirmRead` to `ConfirmReset` are the
steps of `confirm_upload`; `DeleteStart` to `DeleteOrphans` of `delete_document`; `Deliver` to
`Release` of a Celery task that runs `DocumentProcessor.process` or `reindex`. `Die` is a killed
worker, whose task Celery delivers again (`acks_late`, `reject_on_worker_lost`) unless the hard
time limit killed it, and `TimeUp` the soft time limit. The constant `Failures` names the parts
that may fail, each failure being a disjunct of the action it strikes; so a run says under which
failures its properties hold. What extraction finds is any set of concept names. A lock nobody will
release has the holder `Dead` until `LockExpires`.

`learned` is the set of concepts with committed mastery records or questions. A turn first inserts
(`OpenTurn`, the concept is in `learning`) and then commits (`CommitTurn`). The DELETE of orphaned
concepts, of the delete request and of `_fail`, is two steps accordingly: `DeleteRows` and `Fail`
find the concepts that have no learning data in the statement's snapshot (`FindOrphans`, `doomed`),
`DeleteOrphans` and `FailOrphans` wait until no turn holds one of them through a foreign key and
then delete what was found, with whatever refers to it by now (`DropOrphans`; ON DELETE CASCADE),
or roll back (`KeepOrphans`). Between the two the transaction holds the lock on the document's row,
which the steps that write the row wait for (`RowFree`). The constant `TurnsRace` says whether a turn
may be recording its first data of a concept while such a statement is under way.

### ConceptGraph

`ExtractBatch` is one call of the model for a batch of chunks, or its cached answer; `Plan` merges
candidates, matches them with the concepts it reads without a lock and asks the model for
relationships; `Begin`, `Consider` (once per edge, strongest first, as `filter_edges`) and `Store`
are `_persist` under the advisory lock; `Fail` ends an attempt for good and `Clean` is the `_fail`
that takes back what it has saved; `Retry` starts another one, also when the worker dies there or the
student confirms a failed document. `Delete` removes a document. `Clean` and `Delete` take the
concepts that lose their last link (`Remove`); where another worker has locked one of them,
`FinishRemove` goes on later with the concepts the statement found when it began (`doomed`). A concept
is named by the document, attempt and name it was made for, so that two concepts of one name can be
told apart. The history variable `relics` has the concepts created for a name that their own plan had
merged into another one: the plan had one concept for both, which by the time of saving is another
document's, or gone. Only another attempt reads the cache, so the last one (`MaxTries`) fills none.
Deleting a whole subject is left out.

### AIGateway

A call is checked (`Request`, `AskAgain`), answered by a provider and booked in the database
(`Answer`), counted in Redis (`Count`) and then used, tried with the fallback, or asked again
(`Followed`). The ledger is the truth, the counter what the budget is read from; `LoseCounter` and
a failing `Count` are what Redis forgets. Both know of booked calls only: when `record` fails or is
cancelled the provider has been paid and neither is told, so what is bounded is what is booked. A recorded call costs one unit; the retries within one
request to a provider have one of `Replies` as their outcome.

## 3. Runs

| Run | Instance | What it shows |
|---|---|---|
| `LearningSession` | 2 concepts, mastery 10/70/90, 5 interactions, 3 attempts per concept, 2 failures, 2 activations, 1 hint; 617 164 states | no target is dropped or queued twice; attempts are bounded; what is awaited is servable; each question is graded once and there are only so many; the frustration guard ends the session; a session goes on only within its limits; answering ends it |
| `SessionStore` | 3 requests, a reader, crashes; 168 513 states | no committed turn is lost, the event log has no gap, a question is graded once, completion is final, the hot copy never leads, readers never go back, the store implements `LinearSession`, a dead holder's lock is released |
| `SessionChannel` | 3 connections, 2 faults, 1 message, 1 request without a socket; 263 761 states | a running session has a handler that will pause it, but for the exceptions below; who waits for a turn gets an answer, an error, or is told that the connection is gone |
| `SessionChannelBusy` | 2 connections, 1 fault | finding: a page that reconnects while its old handler holds the lock is told to stop for good |
| `LearningTurn` | 2 turns, a new row and a seasoned one, 2 days, questions of each kind; 922 653 states | every committed answer and detection counts once; forgetting is not counted twice; reviews spread out |
| `StudyPlan` | 3 transactions, 2 concepts, 2 goals, 2 days; 409 870 states | one active plan, made for the active goals; today's actions stay visible and do not come back today; someone can go on; plans meet their dates and put prerequisites first |
| `StudyPlanRace` | the same, items changed while a plan is made | finding: a completed item is open again in the new plan |
| `DocumentPipeline` | 2 workers, 2 confirmations, 1 deletion, 1 retry; AI, storage and broker fail, turns at any time; 272 101 states | a ready document is searchable, deletion is final, a run that was overtaken leaves no vectors, tasks come to an end |
| `DocumentFaults` | 1 worker, 2 confirmations, 1 deletion; everything but the broker fails, the worker is killed or runs out of time, turns apart from deletions; 1 245 385 states | a failed document is clean; learning data is kept; the pipeline implements `DocumentLife`, so what was found appears at once with `ready`, is never redone and stays until the deletion |
| `DocumentStuck` | nothing fails | finding: a document confirmed again before the failed task has released its lock stays in processing for ever |
| `ConceptGraph` | 2 documents, 3 names, 3 batches, one document tried twice, contradictory answers, failures, deletions; 432 439 states | prerequisites stay acyclic; a fact is stored once; a name merged into nothing gets one concept; a prerequisite is left out only for stronger ones |
| `AIGateway` | 3 callers, budget 2, 2 providers, 2 days, 2 forgotten units; 1 390 210 states | what is booked for a day is at most the budget and what the calls under way may add, plus what Redis forgot |

Why the bounds are enough. `LearningSession`: two concepts are enough for a queue that is left,
re-queued and returned to; three attempts with a failure limit of two let the guard fire below the
attempt limit (a concept left early) and at it; the three mastery levels lie below, between and
above the thresholds 20, 40, 60 and 80 that the decisions compare, except that 20 to 40 and 40 to
60 are not told apart from their neighbours by any property here. `SessionStore`: a lost update
needs two requests, a third one tells the two histories apart afterwards. `SessionChannel`: two
faults give an old handler, a new one and one that meets both; one reconnection in a row before
giving up makes `failed` and the manual retry happen. `LearningTurn`: a lost update and a stale copy
need two turns and a reader; the seasoned row is at the edges (two of three right answers, the third
review, an ease near its minimum). `StudyPlan`: two planners and an edit, or the daily job, a
session's end and a goal, which is what each race and the deadlock need; a second day for overdue
items. `DocumentPipeline`: two confirmations are a request and its retry; two workers are enough for
a task and the one that overtakes it; one retry is enough for a last attempt that is not the first.
`MaxBacklog` only bounds how many copies of a re-queued task crashes may produce. `ConceptGraph`:
three names are the shortest cycle that no pair of edges shows, and two documents the fewest that
contradict each other across transactions; larger batches only repeat this. `AIGateway`: three
callers that all passed the check at one unit short of the budget, each with a fallback.

Deadlock is checked in `AIGateway`. Elsewhere a session ends, a request is answered, a queue or a
bound runs dry; `SomeoneCanGoOn` asks the question for `StudyPlan` where it matters.

### Fairness

`KeepsAnswering` in `LearningSession` is about the student, not the code: `AnsweringEnds` asks
whether the tutor lets a student go who keeps answering, whatever the answers. Starting,
acknowledging and answering are weakly fair, which includes that the AI answers some attempt.
`SessionStore` assumes that requests take their steps and that a lock with no live holder expires
(a Redis TTL). `SessionChannel` assumes the same, the page's own timers and reactions, and that a
handler goes on (AI calls have time limits); nothing makes the student, the network or a fault act.
`DocumentPipeline` assumes that each worker goes on taking its next step: a Celery worker runs until
its task ends and then takes the next. A turn that has begun to write commits, and the delete
request's last transaction ends, because requests and transactions have time limits. Nothing else is
assumed of requests. The other modules state
safety only.

### What holds only while something works

* `NoTurnLost` and the rest of `SessionStore` need the lock. It is skipped when Redis fails and
  expires after 300 s under a turn that takes longer; `_persist` compares no turn numbers, so two
  turns from one copy overwrite each other.
* A session goes on within its limits *after graded answers*. `acknowledge` and `respond` look
  neither at the interaction limit nor at the clock, so that a student who only acknowledges and
  asks for hints passes both; the end then comes with the next answer. `docs/LEARNING_ENGINE.md`
  (381-386) says that a session ends when either is reached. The model takes these steps, no
  property forbids them.
* The explanation a re-explanation is told not to repeat is the last of the session. After a switch
  it was about another concept.
* `RefinesDocumentLife`, `ReadyIsFinal` and `FailedIsClean` need a broker that tells the truth: after an error of the
  broker `confirm_upload` puts the old status back even if the task was queued and has finished.
* `ReadyIsSearchable` needs a database and a Redis that answer, and tasks that stay within their
  time limits; any one of the three breaks it (the theorem assumes all three, and TLC finds a
  violation for each alone). With an error of the database after `_finalize`, on the last attempt,
  `_fail` leaves the status alone and yet removes the vectors of the ready document; without the
  lock two attempts remove each other's; and a deletion whose last transaction is rolled back leaves
  a ready document without its vectors and its file.
* `LearnedIsKept` needs `~TurnsRace`. The DELETE of orphaned concepts looks for learning data in its
  snapshot; a turn that has inserted its first mastery row or question of a concept keeps it waiting,
  and once the turn has committed, the concept goes and the new data with it
  (`db/models/mastery.py:33`, `assessment.py:35`). The docstring of `delete_orphaned_extracted`
  (387-388) and `docs/API_CONTRACT.md:316` say that only concepts without learning data go. To see
  it, check `LearnedIsKept` in `DocumentPipeline.cfg`, where `TurnsRace = TRUE`: `DeleteRows`,
  `OpenTurn`, `CommitTurn`, `DeleteOrphans`.
* `OvertakenLeavesNoVectors` speaks of the run that finds its document gone, and needs Qdrant at the
  moment of clean-up; it is tried once. A worker that wrote between the delete request's steps and
  ended before the row was gone leaves its vectors, and also the concepts it linked after the request
  had read which ones there are (`app/api/documents.py:314`): nothing refers to them any more,
  although `docs/API_CONTRACT.md:316` has a deletion remove them. No property claims it.
* A second attempt replaces the sections of the first one (a database error or a killed worker
  after `_persist`). Concepts that only the first one found then have no link to any document, so
  neither the failure nor a deletion removes them.
* `NewNamesOnce` leaves out `relics`, and that is more than a corner. `_persist` looks a name up again
  under the lock only if its plan had not merged it into another. A merged one keeps the id it was
  given: if that was an existing concept which is gone by now, or a new one of the same plan whose
  name another document has created since, a concept is created for the merged name, even if there is
  one of it. The second case needs no failure and no deletion: `d1` plans a new `x` and merges `y`
  into it; `d2` stores `x` and `y`; `d1` then finds its `x` and takes it, but `y` still has the id
  that was planned for `x`, no such concept is stored, and a second `y` is created. That is against
  the comment in `_persist` (`document_processor.py:391`). TLC gives this behaviour for
  `ConceptGraph.cfg` if `\ relics` is left out of `NewNamesOnce`.
* A concept may be deleted together with a link that a worker added while the DELETE waited.
* `TodaysActionsKept` needs `~PatchesRace` (`StudyPlanRace`).
* `NoAttemptLost` is about the row. The copy in Redis may be of a turn that was taken back, or older
  than the row, until it expires; no update starts from it.
* `ActiveIsAttended` excepts sessions last used by a request without a socket, which nobody pauses,
  crashes, and the last handler's own pause, if it meets the lock of a request or of a dead handler
  or fails: an error of the database or of Redis there is logged and the session stays active with no
  handler until somebody connects again. Locks are assumed to be granted and released when Redis is
  asked to. The pause of an old handler may land after a new connection found the session
  active; the next message starts the clock again.

## 4. Proofs

The theorems hold for any number of requests, workers, turns, connections, documents, callers,
concepts, days and retries.

`SessionStore_proofs`. `TypeCorrect` is unconditional; everything else assumes `~LockCanFail`.
The properties are not inductive: that nothing is lost at a commit depends on the committing
request's copy still being the row's checkpoint. So the invariant adds `OnlyHolder` (only the
holder of the lock is past `_lock`), `CopiesCurrent` (what a turn works on is what the database
holds), `AppliedOnce`, `QuestionsFresh` and `EndRecorded`; with them `NothingLost`,
`LogContiguous`, `GradedOnce`, `EndsOnce`, `HotBehind` and `Serialised` follow, and `Implements`
maps each commit to a `Turn` of `LinearSession` and each other step to a stutter.
`ReadersMonotonic` needs `ReadersInv`: what a reader was shown, the row it has loaded since and the
hot copy are all prefixes of the committed history, and the loaded row continues what was shown.
`Newest` prefers the hot copy only if it is not older, and then it continues the loaded row too.

`LearningSession_proofs`. `IInv` conjoins the properties with `CurrentMayTry` (the current concept
is below its attempt limit plus one answer per activation of the guard so far) and
`QuestionsFresh`. `TakeOut` and `QueueUp` say what removing from and appending to a queue
without repetitions gives; `PerformFacts`, `FinishFacts`, `SwitchFacts` and `StayFacts` say what
the nodes establish; `EaseOutcome` and `DecideOutcome` combine them for a graded answer. The
theorems are `Typed`, `Servable`, `TargetsKept`, `AttemptsStayBounded`, `FrustrationIsFinal` and
`WithinLimits`. `GradingCounts` compares the graded questions with the sum of the attempts:
`SumOfOneMore` says what one more attempt does to the sum (see "Recursion" below), and
`QuestionsFresh` that an answered question is a new one. `AnswersAreLimited` follows with
`SumIsBounded`, `OnTargets` (only targets are ever worked on) and `Paced` (a running session has
room for one more answer).

`SessionChannel_proofs`. `ActiveIsAttended` needs `LockIsUsed`: a lock is held by a handler that is
in a turn, or by one that died with it. Then whoever refuses a leaving handler its pause is itself
alive and will come to its own, or is a request, which `unattended` records.

`LearningTurn_proofs`. `NoAttemptLost` is not inductive, because it says nothing of drafts.
`OwnAnswerOnly` adds that the version a turn has drafted is the committed row plus its own answer,
which holds because only the holder of the row lock has one (`WriterHoldsLock`) and it keeps the
lock to its end. `ReviewsSpreadOut` needs `Stretching`: a row with at most one passed review still
has the first interval, so that the fixed second interval is never shorter; from the third on an
ease of at least 1.3 stretches (`Stretches`). `DecayDoesNotShow` needs to tell versions of the row
apart. They were first compared by their fields; the proof failed, and TLC then showed a row and a
copy that agree in all fields but the level and yet come from different answers. So each version
carries the change that made it (`by`, a ghost; the code's rows have `updated_at` and a history).
The invariant (`CopiesAgree`) speaks of every stored, drafted, cached and held row: two of one
version tell the same level today and on every later day. The daily job keeps that because
forgetting that is written down and then goes on comes to the same
(`MaterialisedTellsTheSame`), and `VersionsFresh` says that no copy of a version is there before its
turn writes it.

`StudyPlan_proofs`. `Serial` says who may be in a planning transaction: the holder of the advisory
lock, whose draft was made for the goals that will be committed with it and replaces the plan that
is active now. `NeverTwoPlans` and `GoalsArePlanned` follow. `NeverStuck` follows a waiting chain:
who waits for rows waits for their holder, and two holders that wait for each other are a deadlock
PostgreSQL finds. `TodayIsVisible` assumes `~PatchesRace`; what the planner copied cannot change
before it commits. `DoneForToday` follows the items done today through the generator: `Rest` moves
what was done to tomorrow, and what is kept is not open. `PlansAreSound` is about what
`generate_plan` computes. `BeforeOrders` shows that the recursion behind `topological_order` defines
a function, `PrerequisiteFollowsLess` that a concept comes after what it needs if there are no
cycles (`Acyclic`, which `ConceptGraph` proves of the stored graph), `PlaceFacts` and
`PaceIsEnough` that the last of `n` concepts comes within the days there are. `TypeCorrect` includes that dates
stay dates.

`DocumentPipeline_proofs`. `Deletion` and `Learning` hold under every fault, `Learning` for
`~TurnsRace`: then what a deletion has found and not yet deleted has no learning data, committed or
not (`Spared`). Without the assumption it is false (section 3). For `Deletion` it is
enough that a request goes on only from a status that may be confirmed and that a delete request
ends when the row does (`DInv`). `FailedClean` and `ReadyFinal` assume `"broker" \notin Failures`;
`BInv` adds that an upload that is about to be rejected was never the good one, so that the
unguarded write of `failed` meets nothing that was processed (`NeverGood`). `ImplementsLife` maps
the content of `DocumentLife` to the links, except while the document is processing: an attempt's
links are committed before its status. `StepLife` says what each step does to status and links;
`LInv` adds to `BInv` that a document no attempt was made on has no links. `ReadySearchable`
assumes `Failures \cap {"database", "redis", "time"} = {}`; `RInv` adds that only the holder of the
lock is at work (`Exclusive`), which sections and vectors are there at each of its steps, and that
the document is not ready while an attempt to process it may still fail (`Working`).

`ConceptGraph_proofs`. `Acyclic` is stated for subsets (each has an element that needs no other),
which needs no induction over paths: `AcyclicAdd` shows that an edge whose target does not reach
its source keeps it. The invariant carries the graph a transaction has built so far, which equals
the stored one plus what it took, because only the holder of the advisory lock writes edges, and
deletions only take away. `EachFactOnce`, `NeverTwoOfAName` and `LeftOutRightly` follow the same
transaction. `NeverTwoOfAName` is about `NewNamesOnce`, so about names that were merged into nothing:
what is saved under one is the concept of that name if there is one (`Taken`), and stays it, because
what a transaction uses is locked.

`AIGateway_proofs`. The argument counts units: each caller has one for each provider. `Foreseen`
bounds what is booked together with the units that may still be booked without another check
(`Owed`), and `Accounted` says that Redis and what it forgot make up for the ledger but for the
units that are yet to be counted.

Recursion. The library's induction theorems take an operator as a parameter, which no backend can
instantiate. Where a recursive function is taken over sets of concepts (`Before` of
`PlanGenerator`, the sum behind `SumFunction`), the proofs go by `ConceptInduction` instead, which is
about a set of sets: without a least counterexample (`WFMin`, with the strict subset ordering of a
finite set) there is none. It also shows that the recursion defines a function at all, two partial
ones agreeing where both are defined. Hence the assumption that `Concepts` is finite.

Every safety property and both refinements that the runs check are theorems. Only model-checked:
what is about liveness and fairness (`AnsweringEnds`, `LockIsReleased`, `TasksDrain`,
`OvertakenLeavesNoVectors`, `WaitingEnds`), which TLAPS does not treat; and the three
counterexamples, which are TLC's.

## 5. Not modelled, and the plan

Left out for good: text extraction, chunking, prompts and parsing of model output (pure functions
of text, to the models a free choice of outcomes), CRUD endpoints of one transaction (curriculum,
goals but for their effect on the plan, profile) and the dashboard's read models,
authentication and settings, page rendering, Bayesian knowledge tracing as arithmetic on reals, the
ranking of concepts in `select_concepts`, and what the sliding-window limiter counts.

Partly modelled, and what is missing there: the texts and events of the channel and the order in
which the page shows them; several concepts and misconceptions in one turn; deleting a subject with
all its documents; transport retries and prices of AI calls; the unused synchronous `start` of a session.

What would come next: an abstract specification of the concept graph with a proof that the
detailed one implements it; the liveness of `LearningTurn` and `StudyPlan` requests under fair transactions; `SessionChannel` refined to
`SessionStore`, so that the lock's expiry under a running turn is seen from the page; and the
teachable frontier of `select_concepts` on the graphs that `ConceptGraph` allows.
