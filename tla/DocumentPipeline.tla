--------------------------- MODULE DocumentPipeline ---------------------------
(***************************************************************************)
(* One uploaded document: the API requests that confirm and delete it      *)
(* (api/documents.py), the task queue (workers/*.py) and the workers that  *)
(* process and re-index it (services/content/document_processor.py), on    *)
(* the stores they share: the PostgreSQL row with its sections and         *)
(* concepts, the file in S3, the vectors in Qdrant and the lock in Redis.  *)
(*                                                                         *)
(* A step is one transaction, or one call to another store: requests and   *)
(* workers interleave between them. Text, embeddings and progress reports  *)
(* are left out; what the extractor finds is a set of concept names.       *)
(***************************************************************************)
EXTENDS Integers, FiniteSets, Bags

CONSTANTS
    Names,           \* the concepts the extractor may find
    Workers,         \* worker processes
    Free,            \* holder of a free lock
    Dead,            \* holder of a lock that nobody will release
    MaxConfirms,     \* bound: how many confirm requests are sent
    MaxRetries,      \* task_max_retries
    ReindexRetries,  \* MAX_RETRIES of embedding_tasks
    MaxBacklog,      \* bound: no worker is killed while more tasks wait
    Failures,        \* what may fail: a subset of Parts
    TurnsRace        \* whether a turn may be recording its first learning data of a concept
                     \* while a deletion decides about that concept

Parts == {"ai", "storage", "vectors", "database", "broker", "redis", "death", "time"}

ASSUME LockAssumption == Free \notin Workers /\ Dead \notin Workers /\ Free # Dead
ASSUME BoundsAssumption ==
    MaxConfirms \in Nat /\ MaxRetries \in Nat /\ ReindexRetries \in Nat /\ MaxBacklog \in Nat
ASSUME FailuresAssumption == Failures \subseteq Parts
ASSUME RaceAssumption == TurnsRace \in BOOLEAN

Confirms == 1..MaxConfirms

VARIABLES
    status,     \* processing_status, "deleted" once the row is gone
    embedding,  \* processing_metadata.embedding_status
    sections,   \* whether document_sections has rows for the document
    links,      \* the concepts its sections are linked to
    concepts,   \* the extracted concepts that exist
    learned,    \* those of them with mastery records or questions
    learning,   \* those a turn has inserted the first of them for, without a commit yet
    doomed,     \* those that delete_orphaned_extracted has found without any, and deletes
    file,       \* the object in S3: "unsent" before the upload, "none" once deleted,
                \* "bad" if it is not what was declared
    vectors,    \* whether Qdrant has points for the document
    lock,       \* lock:document:{id}
    queue,      \* the bag of tasks waiting for a worker
    at,         \* where each worker is
    job,        \* the task it works on, unacknowledged
    outcome,    \* what came out of its indexing, or "retry"
    api,        \* where each confirm request is
    seen,       \* the status each confirm request read
    deleter,    \* where the delete request is
    linked      \* the concepts it found linked to the document

row      == <<status, embedding, sections, links>>
graph    == <<concepts, learned, learning, doomed>>
stores   == <<file, vectors>>
workers  == <<at, job, outcome>>
requests == <<api, seen, deleter, linked>>
vars == <<row, graph, stores, lock, queue, workers, requests>>

Statuses == {"pending", "processing", "ready", "failed", "deleted"}
Steps == {"idle", "load", "extract", "persist", "read", "embed", "finalize", "finish",
          "record", "gone", "fail", "orphans", "drop", "release"}
Tasks == [kind: {"process"}, retries: 0..MaxRetries]
            \cup [kind: {"reindex"}, retries: 0..ReindexRetries]
NewTask(kind) == [kind |-> kind, retries |-> 0]

TypeOK ==
    /\ status \in Statuses
    /\ embedding \in {"none", "complete", "failed"}
    /\ sections \in BOOLEAN /\ links \subseteq Names
    /\ concepts \subseteq Names /\ learned \subseteq Names
    /\ learning \subseteq Names /\ doomed \subseteq Names
    /\ file \in {"unsent", "none", "good", "bad"} /\ vectors \in BOOLEAN
    /\ lock \in Workers \cup {Free, Dead}
    /\ IsABag(queue) /\ BagToSet(queue) \subseteq Tasks
    /\ at \in [Workers -> Steps]
    /\ job \in [Workers -> Tasks]
    /\ outcome \in [Workers -> {"none", "complete", "failed", "retry"}]
    /\ api \in [Confirms -> {"new", "head", "reject", "unfile", "claim", "enqueue",
                             "reset", "done"}]
    /\ seen \in [Confirms -> Statuses]
    /\ deleter \in {"idle", "file", "vectors", "linked", "rows", "orphans"}
    /\ linked \subseteq Names

MayFail(part) == part \in Failures
Enqueue(t) == queue' = queue (+) SetToBag({t})
Go(w, step) == at' = [at EXCEPT ![w] = step]
Becomes(w, result) == outcome' = [outcome EXCEPT ![w] = result]

\* Nobody holds the lock on the document's row from one statement to the next: what writes
\* the row waits for that, what only reads it sees the values before.
RowFree == deleter # "orphans" /\ \A w \in Workers : at[w] # "orphans"

----------------------------------------------------------------------------
(* Confirm requests *)

Reply(c, step) == api' = [api EXCEPT ![c] = step]

\* The browser puts the file at the presigned URL, once.
Upload ==
    /\ file = "unsent"
    /\ file' \in {"good", "bad"}
    /\ UNCHANGED <<row, graph, vectors, lock, queue, workers, requests>>

\* can_transition(status, "processing")
Confirmable == {"pending", "failed"}

\* A document that is processing is reported as queued; a ready one is refused.
ConfirmRead(c) ==
    /\ api[c] = "new" /\ \A d \in Confirms : d < c => api[d] # "new"
    /\ seen' = [seen EXCEPT ![c] = status]
    /\ Reply(c, IF status \in Confirmable THEN "head" ELSE "done")
    /\ UNCHANGED <<row, graph, stores, lock, queue, workers, deleter, linked>>

ConfirmHead(c) ==
    /\ api[c] = "head"
    /\ \/ file = "good" /\ Reply(c, "claim")
       \/ file = "bad" /\ Reply(c, "reject")
       \/ (file \notin {"good", "bad"} \/ MayFail("storage")) /\ Reply(c, "done")
    /\ UNCHANGED <<row, graph, stores, lock, queue, workers, seen, deleter, linked>>

\* The declared size or type is wrong: written without looking at the row again, the
\* status only if it was not failed already.
ConfirmReject(c) ==
    /\ api[c] = "reject" /\ RowFree
    /\ IF status = "deleted" THEN Reply(c, "done") /\ UNCHANGED <<status, embedding>>
       ELSE /\ Reply(c, "unfile")
            /\ status' = IF seen[c] = "failed" THEN status ELSE "failed"
            /\ embedding' = "none"
    /\ UNCHANGED <<sections, links, graph, stores, lock, queue, workers, seen, deleter, linked>>

ConfirmUnfile(c) ==
    /\ api[c] = "unfile"
    /\ Reply(c, "done")
    /\ \/ file' = "none"
       \/ MayFail("storage") /\ UNCHANGED file
    /\ UNCHANGED <<row, graph, vectors, lock, queue, workers, seen, deleter, linked>>

\* Mutant of ConfirmClaim: the status is not compared again under the row lock.
ClaimUnchecked(c) ==
    /\ api[c] = "claim" /\ RowFree
    /\ IF status # "deleted"
       THEN status' = "processing" /\ embedding' = "none" /\ Reply(c, "enqueue")
       ELSE Reply(c, "done") /\ UNCHANGED <<status, embedding>>
    /\ UNCHANGED <<sections, links, graph, stores, lock, queue, workers, seen, deleter, linked>>

\* Under the row lock; another status than the one read first is a conflict.
ConfirmClaim(c) ==
    /\ api[c] = "claim" /\ RowFree
    /\ IF status = seen[c]
       THEN status' = "processing" /\ embedding' = "none" /\ Reply(c, "enqueue")
       ELSE Reply(c, "done") /\ UNCHANGED <<status, embedding>>
    /\ UNCHANGED <<sections, links, graph, stores, lock, queue, workers, seen, deleter, linked>>

\* An error of the broker does not tell whether the task was queued.
ConfirmEnqueue(c) ==
    /\ api[c] = "enqueue"
    /\ \/ Reply(c, "done") /\ Enqueue(NewTask("process"))
       \/ /\ MayFail("broker")
          /\ Reply(c, "reset")
          /\ Enqueue(NewTask("process")) \/ UNCHANGED queue
       \/ MayFail("death") /\ Reply(c, "done") /\ UNCHANGED queue
    /\ UNCHANGED <<row, graph, stores, lock, workers, seen, deleter, linked>>

\* The old status is put back, whatever it is by now.
ConfirmReset(c) ==
    /\ api[c] = "reset" /\ RowFree
    /\ Reply(c, "done")
    /\ IF status = "deleted" THEN UNCHANGED <<status, embedding>>
       ELSE status' = seen[c] /\ embedding' = "none"
    /\ UNCHANGED <<sections, links, graph, stores, lock, queue, workers, seen, deleter, linked>>

Confirm(c) ==
    \/ ConfirmRead(c) \/ ConfirmHead(c) \/ ConfirmReject(c) \/ ConfirmUnfile(c)
    \/ ConfirmClaim(c) \/ ConfirmEnqueue(c) \/ ConfirmReset(c)

----------------------------------------------------------------------------
(* The delete request: external copies first. It may be sent again after a 503. *)

DeleteStart ==
    /\ deleter = "idle" /\ status # "deleted"
    /\ deleter' = "file"
    /\ UNCHANGED <<row, graph, stores, lock, queue, workers, api, seen, linked>>

DeleteFile ==
    /\ deleter = "file"
    /\ \/ deleter' = "vectors" /\ file' = "none"
       \/ MayFail("storage") /\ deleter' = "idle" /\ UNCHANGED file
    /\ UNCHANGED <<row, graph, vectors, lock, queue, workers, api, seen, linked>>

DeleteVectors ==
    /\ deleter = "vectors"
    /\ \/ deleter' = "linked" /\ vectors' = FALSE
       \/ MayFail("vectors") /\ deleter' = "idle" /\ UNCHANGED vectors
    /\ UNCHANGED <<row, graph, file, lock, queue, workers, api, seen, linked>>

\* Mutant of Orphans: concepts the student has worked on are deleted too.
OrphansUnchecked(candidates) == candidates \cap concepts

\* delete_orphaned_extracted, once no section is left: the concepts without learning data.
\* One DELETE, which judges them by what was committed when it began.
Orphans(candidates) == (candidates \cap concepts) \ learned

\* It begins, within a transaction that has locked the row.
FindOrphans(candidates) ==
    /\ doomed' = Orphans(candidates)
    /\ TurnsRace \/ doomed' \cap learning = {}
    /\ UNCHANGED <<concepts, learned, learning>>

\* An insert that refers to one of the concepts keeps it waiting. Then it deletes them,
\* without looking again, and what refers to them goes with them (ON DELETE CASCADE).
DropOrphans ==
    /\ doomed \cap learning = {}
    /\ concepts' = concepts \ doomed /\ learned' = learned \ doomed
    /\ doomed' = {} /\ UNCHANGED learning

KeepOrphans == doomed' = {} /\ UNCHANGED <<concepts, learned, learning>>

DeleteLinked ==
    /\ deleter = "linked"
    /\ deleter' = "rows" /\ linked' = links
    /\ UNCHANGED <<row, graph, stores, lock, queue, workers, api, seen>>

\* The concepts were read before the row is locked; what a worker saves in between is
\* not among them.
DeleteRows ==
    /\ deleter = "rows" /\ RowFree
    /\ deleter' = "orphans"
    /\ FindOrphans(linked)
    /\ UNCHANGED <<row, linked, stores, lock, queue, workers, api, seen>>

\* The commit, or the rollback of a request that fails.
DeleteOrphans ==
    /\ deleter = "orphans"
    /\ deleter' = "idle" /\ linked' = {}
    /\ \/ /\ DropOrphans
          /\ status' = "deleted" /\ embedding' = "none" /\ sections' = FALSE /\ links' = {}
       \/ MayFail("database") /\ KeepOrphans /\ UNCHANGED row
    /\ UNCHANGED <<stores, lock, queue, workers, api, seen>>

Delete ==
    \/ DeleteStart \/ DeleteFile \/ DeleteVectors \/ DeleteLinked \/ DeleteRows
    \/ DeleteOrphans

----------------------------------------------------------------------------
(* Workers *)

Quiet(w) == UNCHANGED <<job, outcome, lock, queue, requests>>

\* Mutant of Deliver: no lock is taken.
DeliverUnlocked(w) ==
    /\ at[w] = "idle"
    /\ \E t \in BagToSet(queue) :
          /\ queue' = queue (-) SetToBag({t})
          /\ job' = [job EXCEPT ![w] = t]
          /\ Go(w, "load")
    /\ UNCHANGED <<lock, row, graph, stores, outcome, requests>>

\* A worker takes a task; one whose document is locked is skipped, which acknowledges it.
Deliver(w) ==
    /\ at[w] = "idle"
    /\ \E t \in BagToSet(queue) :
          /\ queue' = queue (-) SetToBag({t})
          /\ \/ /\ lock = Free
                /\ lock' = w
                /\ job' = [job EXCEPT ![w] = t]
                /\ Go(w, "load")
             \/ lock # Free /\ UNCHANGED <<lock, job, at>>
             \/ /\ MayFail("redis")
                /\ job' = [job EXCEPT ![w] = t]
                /\ Go(w, "load")
                /\ UNCHANGED lock
    /\ UNCHANGED <<row, graph, stores, outcome, requests>>

Processes(w) == job[w].kind = "process"

\* _load, and the same check in reindex: a document in another status is skipped.
Load(w) ==
    /\ at[w] = "load"
    /\ Go(w, IF Processes(w)
             THEN IF status = "processing" THEN "extract" ELSE "release"
             ELSE IF status = "ready" THEN "read" ELSE "release")
    /\ UNCHANGED <<row, graph, stores>> /\ Quiet(w)

\* An error that may pass: another attempt, unless this was the last one.
Transient(w) ==
    IF job[w].retries < MaxRetries THEN Go(w, "release") /\ Becomes(w, "retry")
                                   ELSE Go(w, "fail") /\ UNCHANGED outcome

\* Everything from the download to the graph plan. The file may be unreadable or hold no
\* text, and the AI budget may be used up; a missing file is an error of the storage.
Extract(w) ==
    /\ at[w] = "extract"
    /\ \/ file = "good" /\ Go(w, "persist") /\ UNCHANGED outcome
       \/ Go(w, "fail") /\ UNCHANGED outcome
       \/ /\ file # "good" \/ MayFail("storage") \/ MayFail("ai")
          /\ Transient(w)
    /\ UNCHANGED <<row, graph, stores, job, lock, queue, requests>>

\* Mutant of Persist: the status is not checked under the row lock.
PersistUnchecked(w) ==
    /\ at[w] = "persist" /\ RowFree
    /\ \E found \in SUBSET Names : links' = found /\ concepts' = concepts \cup found
    /\ sections' = TRUE
    /\ Go(w, "read")
    /\ UNCHANGED <<status, embedding, learned, learning, doomed, stores, outcome, job, lock, queue, requests>>

\* One transaction: sections are replaced, concepts matched by name are reused.
Persist(w) ==
    /\ at[w] = "persist" /\ RowFree
    /\ \/ /\ status = "processing"
          /\ \E found \in SUBSET Names : links' = found /\ concepts' = concepts \cup found
          /\ sections' = TRUE
          /\ Go(w, "read") /\ UNCHANGED outcome
       \/ /\ status # "processing"
          /\ Go(w, "gone")
          /\ UNCHANGED <<sections, links, concepts, outcome>>
       \/ /\ MayFail("database")
          /\ Transient(w)
          /\ UNCHANGED <<sections, links, concepts>>
    /\ UNCHANGED <<status, embedding, learned, learning, doomed, stores, job, lock, queue, requests>>

\* index_document reads the sections; without any there is nothing to do.
Read(w) ==
    /\ at[w] = "read"
    /\ IF sections THEN Go(w, "embed") /\ UNCHANGED outcome
       ELSE Go(w, IF Processes(w) THEN "finalize" ELSE "record") /\ Becomes(w, "complete")
    /\ UNCHANGED <<row, graph, stores, job, lock, queue, requests>>

\* Embed and upsert, then note it in the database. When processing fails to index, a
\* re-index is scheduled, unless the error is for good; a re-index is tried again.
Embed(w) ==
    /\ at[w] = "embed"
    /\ \/ /\ vectors' = TRUE
          /\ Becomes(w, "complete")
          /\ Go(w, IF Processes(w) THEN "finalize" ELSE "record")
          /\ UNCHANGED queue
       \/ /\ MayFail("ai") \/ MayFail("vectors")
          /\ \/ /\ Processes(w)
                /\ Becomes(w, "failed") /\ Go(w, "finalize")
                /\ Enqueue(NewTask("reindex")) \/ UNCHANGED queue
             \/ /\ ~Processes(w)
                /\ \/ Becomes(w, "failed") /\ Go(w, "record")
                   \/ /\ job[w].retries < ReindexRetries
                      /\ Becomes(w, "retry") /\ Go(w, "release")
                /\ UNCHANGED queue
          /\ UNCHANGED vectors
       \/ /\ MayFail("database")
          /\ vectors' \in {vectors, TRUE}
          /\ IF Processes(w) THEN Transient(w) ELSE Go(w, "release") /\ UNCHANGED outcome
          /\ UNCHANGED queue
    /\ UNCHANGED <<row, graph, file, job, lock, requests>>

Finalize(w) ==
    /\ at[w] = "finalize" /\ RowFree
    /\ \/ /\ status = "processing"
          /\ status' = "ready" /\ embedding' = outcome[w]
          /\ Go(w, "finish") /\ UNCHANGED outcome
       \/ status # "processing" /\ Go(w, "gone") /\ UNCHANGED <<status, embedding, outcome>>
       \/ MayFail("database") /\ Transient(w) /\ UNCHANGED <<status, embedding>>
    /\ UNCHANGED <<sections, links, graph, stores, job, lock, queue, requests>>

\* The document is ready; the study plan is refreshed and the trace closed.
Finish(w) ==
    /\ at[w] = "finish"
    /\ \/ Go(w, "release") /\ UNCHANGED outcome
       \/ MayFail("database") /\ Transient(w)
    /\ UNCHANGED <<row, graph, stores, job, lock, queue, requests>>

\* The end of a re-index: a deleted document has no row to update.
RecordEmbedding(w) ==
    /\ at[w] = "record" /\ RowFree
    /\ embedding' = IF status = "deleted" THEN embedding ELSE outcome[w]
    /\ Go(w, "release")
    /\ UNCHANGED <<status, sections, links, graph, stores>> /\ Quiet(w)

\* Mutant of DropVectors: vectors of a document that has gone are left.
DropFailedOnly(w) ==
    /\ at[w] \in {"gone", "drop"}
    /\ vectors' = IF at[w] = "drop" THEN FALSE ELSE vectors
    /\ Go(w, "release")
    /\ UNCHANGED <<row, graph, file>> /\ Quiet(w)

\* The run was overtaken, or failed: its vectors are removed, if Qdrant can be reached.
DropVectors(w) ==
    /\ at[w] \in {"gone", "drop"}
    /\ vectors' = FALSE \/ (MayFail("vectors") /\ UNCHANGED vectors)
    /\ Go(w, "release")
    /\ UNCHANGED <<row, graph, file>> /\ Quiet(w)

\* Mutant of FailOrphans: the sections stay.
FailKeepingSections(w) ==
    /\ at[w] = "orphans"
    /\ Go(w, "drop")
    /\ status' = "failed" /\ KeepOrphans
    /\ UNCHANGED <<embedding, sections, links, stores>> /\ Quiet(w)

\* _fail: one transaction; a document that is not processing any more is left alone, and
\* an error of the database is only logged.
Fail(w) ==
    /\ at[w] = "fail" /\ RowFree
    /\ \/ status = "processing" /\ Go(w, "orphans") /\ FindOrphans(links)
       \/ (status # "processing" \/ MayFail("database")) /\ Go(w, "drop") /\ UNCHANGED graph
    /\ UNCHANGED <<row, stores>> /\ Quiet(w)

FailOrphans(w) ==
    /\ at[w] = "orphans"
    /\ Go(w, "drop")
    /\ \/ DropOrphans /\ status' = "failed" /\ sections' = FALSE /\ links' = {}
       \/ MayFail("database") /\ KeepOrphans /\ UNCHANGED <<status, sections, links>>
    /\ UNCHANGED <<embedding, stores>> /\ Quiet(w)

NextAttempt(t) == [t EXCEPT !.retries = @ + 1]

\* Mutant of Release: attempts are not counted.
ReleaseForEver(w) ==
    /\ at[w] = "release"
    /\ Go(w, "idle") /\ Becomes(w, "none")
    /\ job' = [job EXCEPT ![w] = NewTask("process")]
    /\ IF outcome[w] = "retry" THEN Enqueue(job[w]) ELSE UNCHANGED queue
    /\ lock' = IF lock = w THEN Free ELSE lock
    /\ UNCHANGED <<row, graph, stores, requests>>

\* The lock is released, then the task is sent again or acknowledged.
Release(w) ==
    /\ at[w] = "release"
    /\ Go(w, "idle") /\ Becomes(w, "none")
    /\ job' = [job EXCEPT ![w] = NewTask("process")]
    /\ \/ outcome[w] = "retry" /\ Enqueue(NextAttempt(job[w]))
       \/ (outcome[w] # "retry" \/ MayFail("broker")) /\ UNCHANGED queue
    /\ \/ lock' = IF lock = w THEN Free ELSE lock
       \/ MayFail("redis") /\ lock' = IF lock = w THEN Dead ELSE lock
    /\ UNCHANGED <<row, graph, stores, requests>>

\* The transaction of a worker that stops in the middle of _fail is rolled back.
RollBack(w) ==
    /\ IF at[w] = "orphans" THEN KeepOrphans ELSE UNCHANGED graph
    /\ UNCHANGED row

\* A worker is killed: its lock stays; its task is queued again, unless it was the hard
\* time limit that killed it.
Die(w) ==
    /\ at[w] # "idle"
    /\ Go(w, "idle") /\ Becomes(w, "none")
    /\ job' = [job EXCEPT ![w] = NewTask("process")]
    /\ \/ MayFail("death") /\ BagCardinality(queue) <= MaxBacklog /\ Enqueue(job[w])
       \/ MayFail("time") /\ UNCHANGED queue
    /\ lock' = IF lock = w THEN Dead ELSE lock
    /\ RollBack(w)
    /\ UNCHANGED <<stores, requests>>

\* The soft time limit is an exception in the main thread: processing fails for good, or,
\* when the event loop was waiting, the task is cancelled and only the lock is released.
TimeUp(w) ==
    /\ MayFail("time") /\ at[w] \notin {"idle", "release"}
    /\ \/ Processes(w) /\ at[w] \notin {"gone", "fail", "orphans", "drop"} /\ Go(w, "fail")
       \/ Go(w, "release")
    /\ Becomes(w, "none")
    /\ RollBack(w)
    /\ UNCHANGED <<stores, job, lock, queue, requests>>

\* processing_lock_ttl_seconds is longer than any task may run.
LockExpires ==
    /\ lock = Dead
    /\ lock' = Free
    /\ UNCHANGED <<row, graph, stores, queue, workers, requests>>

\* A turn inserts the first mastery record or question that refers to concept n.
OpenTurn(n) ==
    /\ n \in concepts \ (learned \cup learning)
    /\ TurnsRace \/ n \notin doomed
    /\ learning' = learning \cup {n}
    /\ UNCHANGED <<row, concepts, learned, doomed, stores, lock, queue, workers, requests>>

\* It commits. One that is rolled back leaves nothing.
CommitTurn(n) ==
    /\ n \in learning
    /\ learning' = learning \ {n} /\ learned' = learned \cup {n}
    /\ UNCHANGED <<row, concepts, doomed, stores, lock, queue, workers, requests>>

Learn(n) == OpenTurn(n) \/ CommitTurn(n)

----------------------------------------------------------------------------

\* create_upload_url
Init ==
    /\ status = "pending" /\ embedding = "none"
    /\ sections = FALSE /\ links = {}
    /\ concepts = {} /\ learned = {} /\ learning = {} /\ doomed = {}
    /\ file = "unsent" /\ vectors = FALSE
    /\ lock = Free /\ queue = EmptyBag
    /\ at = [w \in Workers |-> "idle"]
    /\ job = [w \in Workers |-> NewTask("process")]
    /\ outcome = [w \in Workers |-> "none"]
    /\ api = [c \in Confirms |-> "new"]
    /\ seen = [c \in Confirms |-> "pending"]
    /\ deleter = "idle" /\ linked = {}

Work(w) ==
    \/ Deliver(w) \/ Load(w) \/ Extract(w) \/ Persist(w) \/ Read(w) \/ Embed(w)
    \/ Finalize(w) \/ Finish(w) \/ RecordEmbedding(w) \/ DropVectors(w) \/ Fail(w)
    \/ FailOrphans(w) \/ Release(w)

Next ==
    \/ Upload
    \/ \E c \in Confirms : Confirm(c)
    \/ Delete
    \/ \E w \in Workers : Work(w) \/ Die(w) \/ TimeUp(w)
    \/ LockExpires
    \/ \E n \in Names : Learn(n)

Spec == Init /\ [][Next]_vars

\* Workers take tasks and run, a task ends within its time limit; turns and requests that
\* have begun a transaction end it.
FairSpec ==
    /\ Spec
    /\ \A w \in Workers : WF_vars(Work(w))
    /\ \A n \in Names : WF_vars(CommitTurn(n))
    /\ WF_vars(DeleteOrphans)
----------------------------------------------------------------------------
(* Properties *)

\* A failed document keeps nothing of its attempts, however they ended: _fail removes the
\* sections and links in the transaction that sets the status, and only a confirmation
\* that finds the status failed starts another attempt.
FailedIsClean == status = "failed" => ~sections /\ links = {}

\* "Delete extracted concepts ... carrying no learning data": what the student has worked
\* on is never taken away by the failure or the deletion of the document it was extracted
\* from, with the concept it refers to (delete_orphaned_extracted). That takes ~TurnsRace: the
\* DELETE looks for learning data once, in its snapshot, and what a turn commits while it
\* waits is deleted with the concept.
LearnedIsKept == [][learned \subseteq learned']_vars

\* A document that is ready has its sections, and what is recorded as embedded is in
\* Qdrant until a deletion takes it out.
ReadyIsSearchable ==
    status = "ready" =>
        /\ sections
        /\ embedding = "complete" /\ deleter \notin {"linked", "rows", "orphans"} => vectors

\* "`ready` is never redone": only a deletion ends it.
ReadyIsFinal == [][status = "ready" => status' \in {"ready", "deleted"}]_vars

\* The pipeline implements the life of a document, whatever its requests, tasks and stores
\* do in between: the links of an attempt that is going on are not the document's content
\* yet, and those of a ready document stay what they were when it became ready.
Life == INSTANCE DocumentLife WITH
    stage   <- status,
    content <- IF status = "processing" THEN {} ELSE links
RefinesDocumentLife == Life!Spec

\* Nothing brings a deleted document back, or adds concepts for it: not a request that had
\* read it before, a task that was queued, a worker in the middle of it, or a fault.
DeletedIsFinal == [][status = "deleted" => UNCHANGED row /\ concepts' \subseteq concepts]_vars

\* A run that finds the document deleted takes back the vectors it may have written,
\* and no other task writes them again (the delete request had removed those it found).
OvertakenLeavesNoVectors ==
    \A w \in Workers : [](at[w] = "gone" /\ status = "deleted" => <>[]~vectors)

\* Tasks do not breed: retries and re-indexing come to an end, whatever fails.
TasksDrain == <>[](queue = EmptyBag /\ \A w \in Workers : at[w] = "idle")

\* API contract: confirming again "while `processing` is idempotent" and "on a `failed`
\* document it re-queues processing": whatever is processing has a task that works on it.
ProcessingHasTask ==
    status = "processing" =>
        \/ \E t \in BagToSet(queue) : t.kind = "process"
        \/ \E w \in Workers : at[w] # "idle" /\ Processes(w)
        \/ \E c \in Confirms : api[c] \in {"enqueue", "reset"}
=============================================================================
