---------------------- MODULE DocumentPipeline_proofs ----------------------
(***************************************************************************)
(* Proofs about DocumentPipeline for any number of workers, confirmations, *)
(* retries and concepts. Where a theorem excludes a failing part, it says  *)
(* so in its statement.                                                    *)
(***************************************************************************)
EXTENDS DocumentPipeline, TLAPS

\* A request goes on only from a status that may be confirmed.
SeenFresh ==
    /\ status \in Statuses
    /\ api \in [Confirms -> {"new", "head", "reject", "unfile", "claim", "enqueue",
                             "reset", "done"}]
    /\ seen \in [Confirms -> Statuses]
    /\ \A c \in Confirms : api[c] \notin {"new", "done"} => seen[c] \in Confirmable

\* Only a delete request deletes, and it ends there.
DeleterAlive == deleter # "idle" => status # "deleted"

\* The lock on the row has one holder at a time, and a document that _fail is about to
\* mark is processing until then.
RowLocked ==
    /\ at \in [Workers -> Steps]
    /\ \A w \in Workers : at[w] = "orphans" =>
          /\ status = "processing" /\ deleter # "orphans"
          /\ \A v \in Workers : at[v] = "orphans" => v = w

\* What no fault can break.
DInv == SeenFresh /\ DeleterAlive /\ RowLocked

LEMMA DInvInit == Init => DInv
BY DEF Init, DInv, SeenFresh, DeleterAlive, RowLocked, Statuses, Steps

LEMMA ConfirmDInv == ASSUME DInv, NEW c \in Confirms, Confirm(c) PROVE DInv'
<1> USE DEF DInv, SeenFresh, DeleterAlive, RowLocked, RowFree, Reply, Confirmable, Statuses,
            workers
<1>1. CASE ConfirmRead(c)
  BY <1>1 DEF ConfirmRead, row
<1>2. CASE ConfirmHead(c)
  BY <1>2 DEF ConfirmHead, row
<1>3. CASE ConfirmReject(c)
  BY <1>3 DEF ConfirmReject
<1>4. CASE ConfirmUnfile(c)
  BY <1>4 DEF ConfirmUnfile, row
<1>5. CASE ConfirmClaim(c)
  BY <1>5 DEF ConfirmClaim
<1>6. CASE ConfirmEnqueue(c)
  BY <1>6 DEF ConfirmEnqueue, row
<1>7. CASE ConfirmReset(c)
  BY <1>7 DEF ConfirmReset
<1> QED BY <1>1, <1>2, <1>3, <1>4, <1>5, <1>6, <1>7 DEF Confirm

\* Workers leave the requests alone and change the status only of a document that is
\* processing.
LEMMA WorkerStatus ==
    ASSUME DInv, NEW w \in Workers, Work(w) \/ Die(w) \/ TimeUp(w)
    PROVE  /\ UNCHANGED requests
           /\ \/ status' = status
              \/ status = "processing" /\ status' = "ready" /\ UNCHANGED <<sections, links>>
              \/ status = "processing" /\ status' = "failed" /\ sections' = FALSE /\ links' = {}
<1> USE DEF row, workers, Quiet
<1>1. CASE Deliver(w)
  BY <1>1 DEF Deliver
<1>2. CASE Load(w)
  BY <1>2 DEF Load
<1>3. CASE Extract(w)
  BY <1>3 DEF Extract
<1>4. CASE Persist(w)
  BY <1>4 DEF Persist
<1>5. CASE Read(w)
  BY <1>5 DEF Read
<1>6. CASE Embed(w)
  BY <1>6 DEF Embed
<1>7. CASE Finalize(w)
  BY <1>7 DEF Finalize
<1>8. CASE Finish(w)
  BY <1>8 DEF Finish
<1>9. CASE RecordEmbedding(w)
  BY <1>9 DEF RecordEmbedding
<1>10. CASE DropVectors(w)
  BY <1>10 DEF DropVectors
<1>11. CASE Fail(w) \/ FailOrphans(w)
  BY <1>11 DEF Fail, FailOrphans, DInv, RowLocked
<1>12. CASE Release(w)
  BY <1>12 DEF Release
<1>13. CASE Die(w)
  BY <1>13 DEF Die, RollBack, KeepOrphans
<1>14. CASE TimeUp(w)
  BY <1>14 DEF TimeUp, RollBack, KeepOrphans
<1> QED BY <1>1, <1>2, <1>3, <1>4, <1>5, <1>6, <1>7, <1>8, <1>9, <1>10, <1>11, <1>12,
           <1>13, <1>14 DEF Work

\* A worker locks the row only when nobody else does, and changes the status only then.
LEMMA WorkerLocked ==
    ASSUME DInv, NEW w \in Workers, Work(w) \/ Die(w) \/ TimeUp(w)
    PROVE  RowLocked'
<1>1. deleter' = deleter
  BY WorkerStatus DEF requests
<1> USE DEF DInv, RowLocked, RowFree, Go, Transient, Quiet, Steps
<1>2. CASE Fail(w)
  BY <1>1, <1>2 DEF Fail, row
<1>3. CASE FailOrphans(w)
  BY <1>1, <1>3 DEF FailOrphans
<1>4. CASE Finalize(w)
  BY <1>1, <1>4 DEF Finalize
<1>5. ASSUME status' = status, NEW step \in Steps \ {"orphans"},
             at' = at \/ at' = [at EXCEPT ![w] = step]
      PROVE  RowLocked'
  BY <1>1, <1>5
<1>6. CASE Deliver(w) \/ Load(w) \/ Extract(w) \/ Persist(w) \/ Read(w)
  BY <1>5, <1>6 DEF Deliver, Load, Extract, Persist, Read, row
<1>7. CASE Embed(w) \/ Finish(w) \/ RecordEmbedding(w) \/ DropVectors(w) \/ Release(w)
  BY <1>5, <1>7 DEF Embed, Finish, RecordEmbedding, DropVectors, Release, row
<1>8. CASE Die(w) \/ TimeUp(w)
  BY <1>5, <1>8 DEF Die, TimeUp, RollBack, row
<1> QED BY <1>2, <1>3, <1>4, <1>6, <1>7, <1>8 DEF Work

\* The delete request does not touch confirm requests.
LEMMA DeleteFacts ==
    ASSUME DInv, Delete
    PROVE  DInv' /\ UNCHANGED <<api, seen, at>> /\ (status' = status \/ status' = "deleted")
<1> USE DEF DInv, SeenFresh, DeleterAlive, RowLocked, RowFree, Statuses, row, workers
<1>1. CASE DeleteStart
  BY <1>1 DEF DeleteStart
<1>2. CASE DeleteFile
  BY <1>2 DEF DeleteFile
<1>3. CASE DeleteVectors
  BY <1>3 DEF DeleteVectors
<1>4. CASE DeleteLinked
  BY <1>4 DEF DeleteLinked
<1>5. CASE DeleteRows
  BY <1>5 DEF DeleteRows
<1>6. CASE DeleteOrphans
  BY <1>6 DEF DeleteOrphans
<1> QED BY <1>1, <1>2, <1>3, <1>4, <1>5, <1>6 DEF Delete

LEMMA DInvNext == DInv /\ [Next]_vars => DInv'
<1> SUFFICES ASSUME DInv, [Next]_vars PROVE DInv'
  OBVIOUS
<1>1. CASE Upload \/ LockExpires \/ \E n \in Names : Learn(n)
  BY <1>1 DEF Upload, LockExpires, Learn, OpenTurn, CommitTurn, DInv, SeenFresh, DeleterAlive,
              RowLocked, row, workers, requests
<1>2. ASSUME NEW c \in Confirms, Confirm(c) PROVE DInv'
  BY <1>2, ConfirmDInv
<1>3. CASE Delete
  BY <1>3, DeleteFacts
<1>4. ASSUME NEW w \in Workers, Work(w) \/ Die(w) \/ TimeUp(w) PROVE DInv'
  BY <1>4, WorkerStatus, WorkerLocked DEF DInv, SeenFresh, DeleterAlive, requests, Statuses
<1>5. CASE UNCHANGED vars
  BY <1>5 DEF vars, row, workers, requests, DInv, SeenFresh, DeleterAlive, RowLocked
<1> QED BY <1>1, <1>2, <1>3, <1>4, <1>5 DEF Next

LEMMA DInvAlways == Spec => []DInv
<1> QED BY DInvInit, DInvNext, PTL DEF Spec

----------------------------------------------------------------------------
(* Deletion, under every fault *)

\* A step of a worker keeps the row of a deleted document and adds no concepts for it.
LEMMA WorkerConcepts ==
    ASSUME DInv, status = "deleted", NEW w \in Workers, Work(w) \/ Die(w) \/ TimeUp(w)
    PROVE  UNCHANGED row /\ concepts' \subseteq concepts
<1> USE DEF row, graph, workers, Quiet
<1>1. CASE Deliver(w)
  BY <1>1 DEF Deliver
<1>2. CASE Load(w)
  BY <1>2 DEF Load
<1>3. CASE Extract(w)
  BY <1>3 DEF Extract
<1>4. CASE Persist(w)
  BY <1>4 DEF Persist
<1>5. CASE Read(w)
  BY <1>5 DEF Read
<1>6. CASE Embed(w)
  BY <1>6 DEF Embed
<1>7. CASE Finalize(w)
  BY <1>7 DEF Finalize
<1>8. CASE Finish(w)
  BY <1>8 DEF Finish
<1>9. CASE RecordEmbedding(w)
  BY <1>9 DEF RecordEmbedding
<1>10. CASE DropVectors(w)
  BY <1>10 DEF DropVectors
<1>11. CASE Fail(w) \/ FailOrphans(w)
  BY <1>11 DEF Fail, FailOrphans, DInv, RowLocked
<1>12. CASE Release(w)
  BY <1>12 DEF Release
<1>13. CASE Die(w)
  BY <1>13 DEF Die, RollBack, KeepOrphans
<1>14. CASE TimeUp(w)
  BY <1>14 DEF TimeUp, RollBack, KeepOrphans
<1> QED BY <1>1, <1>2, <1>3, <1>4, <1>5, <1>6, <1>7, <1>8, <1>9, <1>10, <1>11, <1>12,
           <1>13, <1>14 DEF Work

\* Confirming writes at most the status and the embedding status, of a document that
\* exists.
LEMMA ConfirmRow ==
    ASSUME DInv, NEW c \in Confirms, Confirm(c)
    PROVE  /\ UNCHANGED <<sections, links, graph, at>>
           /\ status = "deleted" => UNCHANGED row
<1> USE DEF row, graph, workers
<1>1. CASE ConfirmRead(c)
  BY <1>1 DEF ConfirmRead
<1>2. CASE ConfirmHead(c)
  BY <1>2 DEF ConfirmHead
<1>3. CASE ConfirmReject(c)
  BY <1>3 DEF ConfirmReject
<1>4. CASE ConfirmUnfile(c)
  BY <1>4 DEF ConfirmUnfile
<1>5. CASE ConfirmClaim(c)
  BY <1>5 DEF ConfirmClaim, DInv, SeenFresh, Confirmable
<1>6. CASE ConfirmEnqueue(c)
  BY <1>6 DEF ConfirmEnqueue
<1>7. CASE ConfirmReset(c)
  BY <1>7 DEF ConfirmReset
<1> QED BY <1>1, <1>2, <1>3, <1>4, <1>5, <1>6, <1>7 DEF Confirm

\* Nor does a delete request, which does not reach a row that has gone.
LEMMA DeleteConcepts ==
    ASSUME DInv, Delete
    PROVE  /\ concepts' \subseteq concepts
           /\ status = "deleted" => UNCHANGED row
BY DEF Delete, DeleteStart, DeleteFile, DeleteVectors, DeleteLinked, DeleteRows, DeleteOrphans,
       FindOrphans, DropOrphans, KeepOrphans, row, graph, DInv, DeleterAlive

\* Deletion is final: whatever fails, and whatever requests and tasks were under way.
THEOREM Deletion == Spec => DeletedIsFinal
<1>1. DInv /\ [Next]_vars =>
        [status = "deleted" => UNCHANGED row /\ concepts' \subseteq concepts]_vars
  <2> SUFFICES ASSUME DInv, Next, status = "deleted"
               PROVE  UNCHANGED row /\ concepts' \subseteq concepts
    OBVIOUS
  <2>1. CASE Upload \/ LockExpires \/ \E n \in Names : Learn(n)
    BY <2>1 DEF Upload, LockExpires, Learn, OpenTurn, CommitTurn, graph
  <2>2. ASSUME NEW c \in Confirms, Confirm(c)
        PROVE  UNCHANGED row /\ concepts' \subseteq concepts
    BY <2>2, ConfirmRow DEF graph
  <2>3. CASE Delete
    BY <2>3, DeleteConcepts
  <2>4. ASSUME NEW w \in Workers, Work(w) \/ Die(w) \/ TimeUp(w)
        PROVE  UNCHANGED row /\ concepts' \subseteq concepts
    BY <2>4, WorkerConcepts
  <2> QED BY <2>1, <2>2, <2>3, <2>4 DEF Next
<1> QED BY <1>1, DInvAlways, PTL DEF Spec, DeletedIsFinal

----------------------------------------------------------------------------
(* Learning data, while no turn is recording the first of it for a doomed concept *)

Spared == doomed \cap (learned \cup learning) = {}

\* How any step may change the concepts' part of the state: not at all, by a turn, or by
\* beginning, committing or rolling back the deletion of orphans.
LEMMA StepGraph ==
    ASSUME [Next]_vars
    PROVE  \/ UNCHANGED <<learned, learning, doomed>>
           \/ \E n \in Names : Learn(n)
           \/ \E candidates \in {links, linked} : FindOrphans(candidates)
           \/ DropOrphans
           \/ KeepOrphans
<1> USE DEF graph
<1>1. CASE Upload \/ LockExpires \/ (\E n \in Names : Learn(n)) \/ UNCHANGED vars
  BY <1>1 DEF Upload, LockExpires, vars
<1>2. ASSUME NEW c \in Confirms, Confirm(c) PROVE UNCHANGED graph
  BY <1>2 DEF Confirm, ConfirmRead, ConfirmHead, ConfirmReject, ConfirmUnfile, ConfirmClaim,
         ConfirmEnqueue, ConfirmReset
<1>3. CASE Delete
  BY <1>3 DEF Delete, DeleteStart, DeleteFile, DeleteVectors, DeleteLinked, DeleteRows,
         DeleteOrphans
<1>4. ASSUME NEW w \in Workers, Fail(w) \/ FailOrphans(w) \/ Die(w) \/ TimeUp(w)
      PROVE  UNCHANGED graph \/ FindOrphans(links) \/ DropOrphans \/ KeepOrphans
  BY <1>4 DEF Fail, FailOrphans, Die, TimeUp, RollBack
<1>5. ASSUME NEW w \in Workers, Work(w), ~Fail(w), ~FailOrphans(w)
      PROVE  UNCHANGED <<learned, learning, doomed>>
  BY <1>5 DEF Work, Deliver, Load, Extract, Persist, Read, Embed, Finalize, Finish,
         RecordEmbedding, DropVectors, Release
<1> QED BY <1>1, <1>2, <1>3, <1>4, <1>5 DEF Next

\* Learning data that is committed stays, whatever fails and whoever else deletes the
\* concept's document, unless a turn records its first data of a concept while a deletion
\* decides about that concept. Then it may be lost, so the assumption is needed.
THEOREM Learning == ASSUME ~TurnsRace PROVE Spec => LearnedIsKept
<1>1. Init => Spared
  BY DEF Init, Spared
<1>2. Spared /\ [Next]_vars => Spared' /\ learned \subseteq learned'
  <2> SUFFICES ASSUME Spared, [Next]_vars PROVE Spared' /\ learned \subseteq learned'
    OBVIOUS
  <2> USE DEF Spared
  <2>1. CASE UNCHANGED <<learned, learning, doomed>>
    BY <2>1
  <2>2. ASSUME NEW n \in Names, Learn(n) PROVE Spared' /\ learned \subseteq learned'
    BY <2>2 DEF Learn, OpenTurn, CommitTurn
  <2>3. ASSUME NEW candidates, FindOrphans(candidates)
        PROVE  Spared' /\ learned \subseteq learned'
    BY <2>3 DEF FindOrphans, Orphans
  <2>4. CASE DropOrphans \/ KeepOrphans
    BY <2>4 DEF DropOrphans, KeepOrphans
  <2> QED BY <2>1, <2>2, <2>3, <2>4, StepGraph
<1>3. Spared /\ [Next]_vars => [learned \subseteq learned']_vars
  BY <1>2
<1> QED BY <1>1, <1>2, <1>3, PTL DEF Spec, LearnedIsKept

----------------------------------------------------------------------------
(* Failed and ready documents, while the broker answers *)

\* Nothing of an upload that is not the declared file has been processed.
NeverGood ==
    /\ ~sections /\ links = {} /\ status # "ready"
    /\ \A w \in Workers : at[w] \notin {"persist", "read", "embed", "finalize"}

Rejecting == \E c \in Confirms : api[c] = "reject"

\* The inductive invariant: a file that is about to be rejected was never the good one,
\* and no status is put back.
BInv ==
    /\ DInv
    /\ at \in [Workers -> Steps]
    /\ FailedIsClean
    /\ \A c \in Confirms : api[c] # "reset"
    /\ file \in {"unsent", "bad"} \/ Rejecting => NeverGood
    /\ Rejecting => file \in {"bad", "none"}

LEMMA BInvInit == Init => BInv
BY DInvInit DEF Init, BInv, FailedIsClean, Rejecting, NeverGood, Steps

LEMMA ConfirmBInv ==
    ASSUME "broker" \notin Failures, BInv, NEW c \in Confirms, Confirm(c)
    PROVE  BInv'
<1>1. DInv' /\ SeenFresh /\ UNCHANGED <<sections, links, at>>
  BY ConfirmDInv, ConfirmRow DEF BInv, DInv
<1> USE DEF BInv, SeenFresh, FailedIsClean, Rejecting, NeverGood, Reply, Confirmable, MayFail
<1>2. CASE ConfirmRead(c)
  BY <1>1, <1>2 DEF ConfirmRead, row, stores
<1>3. CASE ConfirmHead(c)
  BY <1>1, <1>3 DEF ConfirmHead, row, stores
<1>4. CASE ConfirmReject(c)
  BY <1>1, <1>4 DEF ConfirmReject, stores
<1>5. CASE ConfirmUnfile(c)
  BY <1>1, <1>5 DEF ConfirmUnfile, row
<1>6. CASE ConfirmClaim(c)
  BY <1>1, <1>6 DEF ConfirmClaim, stores
<1>7. CASE ConfirmEnqueue(c)
  BY <1>1, <1>7 DEF ConfirmEnqueue, row, stores
<1>8. CASE ConfirmReset(c)
  BY <1>8 DEF ConfirmReset
<1> QED BY <1>2, <1>3, <1>4, <1>5, <1>6, <1>7, <1>8 DEF Confirm

LEMMA WorkerBInv ==
    ASSUME BInv, NEW w \in Workers, Work(w) \/ Die(w) \/ TimeUp(w)
    PROVE  BInv'
<1>1. /\ DInv' /\ UNCHANGED <<api, seen>>
      /\ \/ status' = status
         \/ status = "processing" /\ status' = "ready" /\ UNCHANGED <<sections, links>>
         \/ status = "processing" /\ status' = "failed" /\ sections' = FALSE /\ links' = {}
  BY WorkerStatus, DInvNext DEF BInv, requests, Next
<1> USE DEF BInv, FailedIsClean, Rejecting, NeverGood, Go, Transient, row, stores, workers,
            Quiet, Steps
<1>2. CASE Deliver(w)
  BY <1>1, <1>2 DEF Deliver
<1>3. CASE Load(w)
  BY <1>1, <1>3 DEF Load
<1>4. CASE Extract(w)
  BY <1>1, <1>4 DEF Extract
<1>5. CASE Persist(w)
  BY <1>1, <1>5 DEF Persist
<1>6. CASE Read(w)
  BY <1>1, <1>6 DEF Read
<1>7. CASE Embed(w)
  BY <1>1, <1>7 DEF Embed
<1>8. CASE Finalize(w)
  BY <1>1, <1>8 DEF Finalize
<1>9. CASE Finish(w)
  BY <1>1, <1>9 DEF Finish
<1>10. CASE RecordEmbedding(w)
  BY <1>1, <1>10 DEF RecordEmbedding
<1>11. CASE DropVectors(w)
  BY <1>1, <1>11 DEF DropVectors
<1>12. CASE Fail(w) \/ FailOrphans(w)
  BY <1>1, <1>12 DEF Fail, FailOrphans
<1>13. CASE Release(w)
  BY <1>1, <1>13 DEF Release
<1>14. CASE Die(w)
  BY <1>1, <1>14 DEF Die, RollBack
<1>15. CASE TimeUp(w)
  BY <1>1, <1>15 DEF TimeUp, RollBack
<1> QED BY <1>2, <1>3, <1>4, <1>5, <1>6, <1>7, <1>8, <1>9, <1>10, <1>11, <1>12,
           <1>13, <1>14, <1>15 DEF Work

LEMMA BInvNext == ASSUME "broker" \notin Failures PROVE BInv /\ [Next]_vars => BInv'
<1> SUFFICES ASSUME BInv, [Next]_vars PROVE BInv'
  OBVIOUS
<1>1. DInv'
  BY DInvNext DEF BInv
<1>2. CASE Upload \/ LockExpires \/ \E n \in Names : Learn(n)
  BY <1>1, <1>2
     DEF Upload, LockExpires, Learn, OpenTurn, CommitTurn, BInv, FailedIsClean, Rejecting, NeverGood,
         row, stores, workers, requests
<1>3. ASSUME NEW c \in Confirms, Confirm(c) PROVE BInv'
  BY <1>3, ConfirmBInv
<1>4. CASE Delete
  <2>1. UNCHANGED <<api, seen, at>> /\ (status' = status \/ status' = "deleted")
    BY <1>4, DeleteFacts DEF BInv
  <2> QED BY <1>1, <1>4, <2>1
      DEF Delete, DeleteStart, DeleteFile, DeleteVectors, DeleteLinked, DeleteRows,
          DeleteOrphans, BInv, FailedIsClean, Rejecting, NeverGood, row, stores
<1>5. ASSUME NEW w \in Workers, Work(w) \/ Die(w) \/ TimeUp(w) PROVE BInv'
  BY <1>5, WorkerBInv
<1>6. CASE UNCHANGED vars
  BY <1>1, <1>6
     DEF vars, BInv, FailedIsClean, Rejecting, NeverGood, row, stores, workers, requests
<1> QED BY <1>2, <1>3, <1>4, <1>5, <1>6 DEF Next

\* A failed document has no sections or links left, while the broker answers: without
\* that, a request may put the status back to failed beside a task that goes on.
THEOREM FailedClean == ASSUME "broker" \notin Failures PROVE Spec => []FailedIsClean
<1>1. BInv => FailedIsClean
  BY DEF BInv
<1> QED BY <1>1, BInvInit, BInvNext, PTL DEF Spec

\* A ready document is never processed again or marked failed, while the broker answers.
THEOREM ReadyFinal == ASSUME "broker" \notin Failures PROVE Spec => ReadyIsFinal
<1>1. BInv /\ [Next]_vars => [status = "ready" => status' \in {"ready", "deleted"}]_vars
  <2> SUFFICES ASSUME BInv, Next, status = "ready" PROVE status' \in {"ready", "deleted"}
    OBVIOUS
  <2>1. CASE Upload \/ LockExpires \/ \E n \in Names : Learn(n)
    BY <2>1 DEF Upload, LockExpires, Learn, OpenTurn, CommitTurn, row
  <2>2. ASSUME NEW c \in Confirms, Confirm(c) PROVE status' \in {"ready", "deleted"}
    BY <2>2 DEF Confirm, ConfirmRead, ConfirmHead, ConfirmReject, ConfirmUnfile,
       ConfirmClaim, ConfirmEnqueue, ConfirmReset, row, BInv, DInv, SeenFresh,
       Confirmable, Rejecting, NeverGood
  <2>3. CASE Delete
    BY <2>3, DeleteFacts DEF BInv
  <2>4. ASSUME NEW w \in Workers, Work(w) \/ Die(w) \/ TimeUp(w)
        PROVE  status' \in {"ready", "deleted"}
    BY <2>4, WorkerStatus DEF BInv
  <2> QED BY <2>1, <2>2, <2>3, <2>4 DEF Next
<1> QED BY <1>1, BInvInit, BInvNext, PTL DEF Spec, ReadyIsFinal

----------------------------------------------------------------------------
(* The life of a document, while the broker answers *)

\* What a document contributes are concepts, and nothing before its first attempt.
LInv ==
    /\ BInv
    /\ links \subseteq Names
    /\ status = "pending" => links = {}

\* Workers link concepts only while the document is processing, and end that by publishing
\* the links or by taking them back.
LEMMA WorkerLinks ==
    ASSUME DInv, NEW w \in Workers, Work(w) \/ Die(w) \/ TimeUp(w)
    PROVE  \/ UNCHANGED <<status, links>>
           \/ status = "processing" /\ status' = "processing" /\ links' \subseteq Names
           \/ status = "processing" /\ status' = "ready" /\ links' = links
           \/ status = "processing" /\ status' = "failed" /\ links' = {}
<1> USE DEF row, Quiet
<1>1. CASE Persist(w)
  BY <1>1 DEF Persist
<1>2. CASE Finalize(w)
  BY <1>2 DEF Finalize
<1>3. CASE Fail(w) \/ FailOrphans(w)
  BY <1>3 DEF Fail, FailOrphans, DInv, RowLocked
<1>4. CASE \/ Deliver(w) \/ Load(w) \/ Extract(w) \/ Read(w) \/ Embed(w) \/ Finish(w)
           \/ RecordEmbedding(w) \/ DropVectors(w) \/ Release(w) \/ Die(w) \/ TimeUp(w)
  BY <1>4 DEF Deliver, Load, Extract, Read, Embed, Finish, RecordEmbedding, DropVectors,
              Release, Die, TimeUp, RollBack
<1> QED BY <1>1, <1>2, <1>3, <1>4 DEF Work

\* A confirmation submits a document, refuses its file, or leaves it where it is.
LEMMA ConfirmLife ==
    ASSUME "broker" \notin Failures, BInv, NEW c \in Confirms, Confirm(c)
    PROVE  /\ links' = links
           /\ \/ status' = status
              \/ status \in {"pending", "failed"} /\ status' = "processing"
              \/ status \in {"pending", "processing"} /\ status' = "failed" /\ links = {}
<1> USE DEF row, BInv, DInv, SeenFresh
<1>1. CASE ConfirmReject(c)
  BY <1>1 DEF ConfirmReject, Rejecting, NeverGood, Statuses
<1>2. CASE ConfirmClaim(c)
  BY <1>2 DEF ConfirmClaim, Confirmable
<1>3. CASE ConfirmRead(c) \/ ConfirmHead(c) \/ ConfirmUnfile(c) \/ ConfirmEnqueue(c)
  BY <1>3 DEF ConfirmRead, ConfirmHead, ConfirmUnfile, ConfirmEnqueue
<1>4. CASE ConfirmReset(c)
  BY <1>4 DEF ConfirmReset
<1> QED BY <1>1, <1>2, <1>3, <1>4 DEF Confirm

\* Deleting takes the links and the row in one step.
LEMMA DeleteLife ==
    ASSUME DInv, Delete
    PROVE  \/ UNCHANGED <<status, links>>
           \/ status # "deleted" /\ status' = "deleted" /\ links' = {}
<1>1. CASE DeleteOrphans
  BY <1>1 DEF DeleteOrphans, DInv, DeleterAlive, row
<1>2. CASE DeleteStart \/ DeleteFile \/ DeleteVectors \/ DeleteLinked \/ DeleteRows
  BY <1>2 DEF DeleteStart, DeleteFile, DeleteVectors, DeleteLinked, DeleteRows, row
<1> QED BY <1>1, <1>2 DEF Delete

\* Every step of the pipeline, seen at the row: one that lives on, or none.
LEMMA StepLife ==
    ASSUME "broker" \notin Failures, LInv, [Next]_vars
    PROVE  \/ UNCHANGED <<status, links>>
           \/ status = "processing" /\ status' = "processing" /\ links' \subseteq Names
           \/ status = "processing" /\ status' = "ready" /\ links' = links
           \/ status \in {"pending", "failed"} /\ status' = "processing" /\ links' = links
           \/ status \in {"pending", "processing"} /\ status' = "failed" /\ links' = {}
           \/ status # "deleted" /\ status' = "deleted" /\ links' = {}
<1>1. CASE Upload \/ LockExpires \/ (\E n \in Names : Learn(n)) \/ UNCHANGED vars
  BY <1>1 DEF Upload, LockExpires, Learn, OpenTurn, CommitTurn, vars, row
<1>2. CASE \E c \in Confirms : Confirm(c)
  BY <1>2, ConfirmLife DEF LInv
<1>3. CASE Delete
  BY <1>3, DeleteLife DEF LInv, BInv
<1>4. CASE \E w \in Workers : Work(w) \/ Die(w) \/ TimeUp(w)
  BY <1>4, WorkerLinks DEF LInv, BInv
<1> QED BY <1>1, <1>2, <1>3, <1>4 DEF Next

LEMMA LInvNext == ASSUME "broker" \notin Failures PROVE LInv /\ [Next]_vars => LInv'
<1> SUFFICES ASSUME LInv, [Next]_vars PROVE LInv'
  OBVIOUS
<1>1. BInv'
  BY BInvNext DEF LInv
<1> QED BY <1>1, StepLife DEF LInv

\* The pipeline implements the life of a document, while the broker answers: concepts
\* appear with the status ready, all of those that the last attempt linked, are not
\* touched by any later task or request but the deletion, and never outlive a failure.
THEOREM ImplementsLife == ASSUME "broker" \notin Failures PROVE Spec => RefinesDocumentLife
<1>1. Init => Life!Init /\ LInv
  BY BInvInit DEF Init, Life!Init, LInv
<1>2. LInv /\ [Next]_vars
        => [Life!Next]_<<status, IF status = "processing" THEN {} ELSE links>>
  <2> SUFFICES ASSUME LInv, [Next]_vars
               PROVE  [Life!Next]_<<status, IF status = "processing" THEN {} ELSE links>>
    OBVIOUS
  <2>1. links \subseteq Names /\ (status \in {"pending", "failed"} => links = {})
    BY DEF LInv, BInv, FailedIsClean
  <2>2. CASE UNCHANGED <<status, links>>
    BY <2>2
  <2>3. CASE status = "processing" /\ status' = "processing"
    BY <2>3
  <2>4. CASE status = "processing" /\ status' = "ready" /\ links' = links
    BY <2>1, <2>4 DEF Life!Next, Life!Publish
  <2>5. CASE status \in {"pending", "failed"} /\ status' = "processing" /\ links' = links
    BY <2>5 DEF Life!Next, Life!Submit
  <2>6. CASE status \in {"pending", "processing"} /\ status' = "failed" /\ links' = {}
    BY <2>6 DEF Life!Next, Life!GiveUp
  <2>7. CASE status # "deleted" /\ status' = "deleted" /\ links' = {}
    BY <2>7 DEF Life!Next, Life!Delete
  <2> QED BY <2>2, <2>3, <2>4, <2>5, <2>6, <2>7, StepLife
<1> QED BY <1>1, <1>2, LInvNext, PTL DEF Spec, RefinesDocumentLife, Life!Spec

----------------------------------------------------------------------------
(* Ready documents are searchable, while the database and Redis answer in time *)

\* The delete request has removed the vectors, or the document is gone.
Sinking == deleter \in {"linked", "rows", "orphans"} \/ status = "deleted"

\* Who works on the document holds its lock.
Exclusive == \A w \in Workers : at[w] # "idle" => lock = w

Attempt == {"extract", "persist", "read", "embed", "finalize", "gone", "fail", "orphans",
            "drop"}

\* Whoever attempts to process the document, it is not ready; what its sections are read
\* for, they are there; and an index that is complete is in Qdrant.
Working ==
    \A w \in Workers :
        /\ at[w] \in Attempt \ {"read", "embed"} => Processes(w)
        /\ at[w] \in Attempt /\ Processes(w) => status # "ready"
        /\ at[w] \in {"read", "embed", "finalize", "record"} => sections \/ status = "deleted"
        /\ at[w] \in {"finalize", "record"} /\ outcome[w] = "complete" => vectors \/ Sinking

Searchable ==
    status = "ready" => sections /\ (embedding = "complete" => vectors \/ Sinking)

RInv ==
    /\ DInv
    /\ lock \in Workers \cup {Free, Dead}
    /\ at \in [Workers -> Steps]
    /\ DOMAIN job = Workers /\ DOMAIN outcome = Workers
    /\ Exclusive /\ Working /\ Searchable

LEMMA RInvInit == Init => RInv
BY DInvInit, LockAssumption
   DEF Init, RInv, Exclusive, Working, Searchable, Attempt, Steps

LEMMA ConfirmRInv == ASSUME RInv, NEW c \in Confirms, Confirm(c) PROVE RInv'
<1>1. DInv' /\ SeenFresh /\ UNCHANGED <<sections, at>> /\ (status = "deleted" => status' = "deleted")
  BY ConfirmDInv, ConfirmRow DEF RInv, DInv, row
<1>2. UNCHANGED <<vectors, lock, job, outcome, deleter>>
  BY DEF Confirm, ConfirmRead, ConfirmHead, ConfirmReject, ConfirmUnfile, ConfirmClaim,
         ConfirmEnqueue, ConfirmReset, stores, workers, requests
<1>3. \/ UNCHANGED <<status, embedding>>
      \/ status' = status /\ embedding' = "none"
      \/ status' # "ready"
  BY <1>1 DEF Confirm, ConfirmRead, ConfirmHead, ConfirmReject, ConfirmUnfile, ConfirmClaim,
         ConfirmEnqueue, ConfirmReset, row, SeenFresh, Confirmable
<1>4. status' = "ready" => status = "ready" /\ (embedding' = "complete" => embedding = "complete")
  BY <1>3
<1>5. Sinking => Sinking'
  BY <1>1, <1>2 DEF Sinking
<1>6. Searchable'
  BY <1>1, <1>2, <1>4, <1>5 DEF RInv, Searchable
<1>7. Working'
  BY <1>1, <1>2, <1>4, <1>5 DEF RInv, Working, Processes
<1> QED BY <1>1, <1>2, <1>6, <1>7 DEF RInv, Exclusive

LEMMA DeleteRInv == ASSUME "database" \notin Failures, RInv, Delete PROVE RInv'
<1>1. DInv' /\ UNCHANGED at /\ (status' = status \/ status' = "deleted")
  BY DeleteFacts DEF RInv
<1>2. UNCHANGED <<lock, job, outcome>>
  BY DEF Delete, DeleteStart, DeleteFile, DeleteVectors, DeleteLinked, DeleteRows,
         DeleteOrphans, workers
<1>3. /\ Sinking => Sinking'
      /\ vectors' = vectors \/ Sinking'
      /\ status' # "deleted" => UNCHANGED <<sections, embedding>>
  BY DEF Delete, DeleteStart, DeleteFile, DeleteVectors, DeleteLinked, DeleteRows,
         DeleteOrphans, row, stores, Sinking, MayFail
<1>4. Searchable'
  BY <1>1, <1>3 DEF RInv, Searchable
<1>5. Working'
  BY <1>1, <1>2, <1>3 DEF RInv, Working, Processes
<1> QED BY <1>1, <1>2, <1>4, <1>5 DEF RInv, Exclusive

\* A worker that works is alone; so nothing that it leaves behind concerns another one.
LEMMA AloneRInv ==
    ASSUME RInv, DInv', NEW w \in Workers, lock = w, lock' \in Workers \cup {Free, Dead},
           at' \in [Workers -> Steps], \A v \in Workers \ {w} : at'[v] = at[v],
           DOMAIN job' = Workers, DOMAIN outcome' = Workers,
           at'[w] # "idle" => lock' = w,
           /\ at'[w] \in Attempt \ {"read", "embed"} => Processes(w)'
           /\ at'[w] \in Attempt /\ Processes(w)' => status' # "ready"
           /\ at'[w] \in {"read", "embed", "finalize", "record"} => sections' \/ status' = "deleted"
           /\ at'[w] \in {"finalize", "record"} /\ outcome'[w] = "complete" => vectors' \/ Sinking',
           Searchable'
    PROVE  RInv'
<1>1. \A v \in Workers \ {w} : at'[v] = "idle"
  BY DEF RInv, Exclusive
<1>2. Exclusive'
  BY <1>1 DEF Exclusive
<1>3. Working'
  BY <1>1 DEF Working, Attempt
<1> QED BY <1>2, <1>3 DEF RInv

LEMMA WorkerRInv ==
    ASSUME Failures \cap {"database", "redis", "time"} = {}, RInv,
           NEW w \in Workers, Work(w) \/ Die(w) \/ TimeUp(w)
    PROVE  RInv'
<1>1. /\ DInv'
      /\ UNCHANGED requests
      /\ \/ status' = status
         \/ status = "processing" /\ status' \in {"ready", "failed"}
  <2>1. Next
    BY DEF Next
  <2>2. DInv'
    BY <2>1, DInvNext DEF RInv
  <2> QED BY <2>2, WorkerStatus DEF RInv
<1>2. at \in [Workers -> Steps] /\ DOMAIN job = Workers /\ DOMAIN outcome = Workers /\ Searchable
  BY DEF RInv
<1>3. deleter' = deleter
  BY <1>1 DEF requests
<1>4. CASE Deliver(w)
  <2>1. UNCHANGED <<status, embedding, sections, vectors, outcome>>
    BY <1>4 DEF Deliver, row, stores
  <2>2. CASE UNCHANGED <<lock, job, at>>
    BY <1>1, <1>3, <2>1, <2>2 DEF RInv, Exclusive, Working, Processes, Searchable, Sinking
  <2>3. CASE lock = Free /\ lock' = w /\ at' = [at EXCEPT ![w] = "load"] /\ DOMAIN job' = Workers
    <3>1. \A v \in Workers : at[v] = "idle"
      BY <2>3, LockAssumption DEF RInv, Exclusive
    <3>2. \A v \in Workers : at'[v] = IF v = w THEN "load" ELSE "idle"
      BY <1>2, <2>3, <3>1
    <3>3. Working' /\ Exclusive'
      BY <2>3, <3>2 DEF Working, Exclusive, Attempt
    <3>4. Searchable'
      BY <1>2, <1>3, <2>1 DEF Searchable, Sinking
    <3> QED BY <1>1, <1>2, <2>1, <2>3, <3>3, <3>4 DEF RInv, Steps
  <2> QED BY <1>2, <1>4, <2>2, <2>3 DEF Deliver, Go, MayFail
<1>5. CASE at[w] # "idle"
  <2>1. /\ lock = w
        /\ at[w] \in Attempt \ {"read", "embed"} => Processes(w)
        /\ at[w] \in Attempt /\ Processes(w) => status # "ready"
        /\ at[w] \in {"read", "embed", "finalize", "record"} => sections \/ status = "deleted"
        /\ at[w] \in {"finalize", "record"} /\ outcome[w] = "complete" => vectors \/ Sinking
    BY <1>5 DEF RInv, Exclusive, Working
  <2> USE DEF Go, Becomes, Transient, MayFail, row, stores, workers, Quiet, Steps, Searchable,
              Sinking, Attempt, Processes
  <2>2. CASE Load(w)
    BY <1>1, <1>2, <1>3, <2>1, <2>2, AloneRInv DEF Load
  <2>3. CASE Extract(w)
    BY <1>1, <1>2, <1>3, <2>1, <2>3, AloneRInv DEF Extract
  <2>4. CASE Persist(w)
    BY <1>1, <1>2, <1>3, <2>1, <2>4, AloneRInv DEF Persist
  <2>5. CASE Read(w)
    BY <1>1, <1>2, <1>3, <2>1, <2>5, AloneRInv DEF Read
  <2>6. CASE Embed(w)
    BY <1>1, <1>2, <1>3, <2>1, <2>6, AloneRInv DEF Embed
  <2>7. CASE Finalize(w)
    BY <1>1, <1>2, <1>3, <2>1, <2>7, AloneRInv DEF Finalize
  <2>8. CASE Finish(w)
    BY <1>1, <1>2, <1>3, <2>1, <2>8, AloneRInv DEF Finish
  <2>9. CASE RecordEmbedding(w)
    BY <1>1, <1>2, <1>3, <2>1, <2>9, AloneRInv DEF RecordEmbedding
  <2>10. CASE DropVectors(w)
    BY <1>1, <1>2, <1>3, <2>1, <2>10, AloneRInv DEF DropVectors
  <2>11. CASE Fail(w) \/ FailOrphans(w)
    BY <1>1, <1>2, <1>3, <2>1, <2>11, AloneRInv DEF Fail, FailOrphans
  <2>12. CASE Release(w)
    BY <1>1, <1>2, <1>3, <2>1, <2>12, AloneRInv DEF Release
  <2>13. CASE Die(w)
    BY <1>1, <1>2, <1>3, <2>1, <2>13, AloneRInv DEF Die, RollBack
  <2>14. CASE TimeUp(w)
    BY <2>14 DEF TimeUp
  <2>15. CASE Deliver(w)
    BY <1>5, <2>15 DEF Deliver
  <2> QED BY <2>2, <2>3, <2>4, <2>5, <2>6, <2>7, <2>8, <2>9, <2>10, <2>11, <2>12,
             <2>13, <2>14, <2>15 DEF Work
<1>6. CASE at[w] = "idle" /\ ~Deliver(w)
  BY <1>6 DEF Work, Load, Extract, Persist, Read, Embed, Finalize, Finish, RecordEmbedding,
              DropVectors, Fail, FailOrphans, Release, Die, TimeUp
<1> QED BY <1>4, <1>5, <1>6

LEMMA RInvNext ==
    ASSUME Failures \cap {"database", "redis", "time"} = {}
    PROVE  RInv /\ [Next]_vars => RInv'
<1> SUFFICES ASSUME RInv, [Next]_vars PROVE RInv'
  OBVIOUS
<1>1. DInv'
  BY DInvNext DEF RInv
<1>2. CASE Upload \/ (\E n \in Names : Learn(n)) \/ UNCHANGED vars
  BY <1>1, <1>2
     DEF Upload, Learn, OpenTurn, CommitTurn, vars, RInv, Exclusive, Working, Searchable, Sinking, Processes,
         row, stores, workers, requests
<1>3. CASE LockExpires
  <2>1. \A w \in Workers : at[w] = "idle"
    BY <1>3, LockAssumption DEF LockExpires, RInv, Exclusive
  <2> QED BY <1>1, <1>3, <2>1
      DEF LockExpires, RInv, Exclusive, Working, Attempt, Searchable, Sinking, row, stores,
          workers, requests
<1>4. ASSUME NEW c \in Confirms, Confirm(c) PROVE RInv'
  BY <1>4, ConfirmRInv
<1>5. CASE Delete
  BY <1>5, DeleteRInv
<1>6. ASSUME NEW w \in Workers, Work(w) \/ Die(w) \/ TimeUp(w) PROVE RInv'
  BY <1>6, WorkerRInv
<1> QED BY <1>2, <1>3, <1>4, <1>5, <1>6 DEF Next

\* A ready document has its sections, and a complete index is in Qdrant until a deletion
\* removes it, whatever the AI services, S3, Qdrant and the broker do and whenever workers
\* die; not if the database or Redis fail or a time limit is reached, as TLC shows for each.
THEOREM ReadySearchable ==
    ASSUME Failures \cap {"database", "redis", "time"} = {}
    PROVE  Spec => []ReadyIsSearchable
<1>1. RInv => ReadyIsSearchable
  BY DEF RInv, Searchable, Sinking, ReadyIsSearchable
<1> QED BY <1>1, RInvInit, RInvNext, PTL DEF Spec
=============================================================================
