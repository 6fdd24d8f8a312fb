--------------------------- MODULE JobQueueProofs ---------------------------
(***************************************************************************)
(* Proofs about JobQueue for any number of jobs, files, workers, executors *)
(* and sessions, with every handler interleaved.                           *)
(*                                                                         *)
(* What makes the index and the capacity hold is a fact about patches: no  *)
(* handler but the orchestration loop ever writes an active status, and    *)
(* none writes "running", a worker, or un-clears a row.  The later         *)
(* sections add what a queued file shows, that a job is started once if    *)
(* the orchestration loop is not overtaken, and, for handlers that run     *)
(* alone, the refinement of JobLifecycle.                                  *)
(***************************************************************************)
EXTENDS JobQueue, FiniteSetTheorems, TLAPS

\* What the patch of an open handler may hold, against the jobs table.
GoodTxn(t, J) ==
    /\ \A j \in DOMAIN t.rows :
        /\ J[j].status # "unused"
        /\ t.rows[j].status # "running"
        /\ t.rows[j].worker \in {NoWorker, Keep}
        /\ t.rows[j].cleared \in {TRUE, Keep}
        /\ t.op # "orchestrate" => t.rows[j].status \notin Active
    /\ t.op \in {"submit", "report"} => t.result \in Results

RowsOK == \A j \in Jobs : job[j].status # "unused" => job[j].file \in Files

RunsOK ==
    \A e \in Executors :
        /\ run[e].phase # "idle" => /\ run[e].job \in Jobs
                                    /\ job[run[e].job].status # "unused"
        /\ run[e].phase = "done" => run[e].result \in Results

PatchesOK == \A s \in Everyone : GoodTxn(txn[s], job)

\* The inductive invariant behind type correctness.
Typed == TypeOK /\ RowsOK /\ RunsOK /\ PatchesOK

-----------------------------------------------------------------------------
(* Patches and rows.                                                       *)

USE TableAssumption, QueueAssumption

\* A computed row that keeps or takes a status of the enumeration differs
\* from the loaded row by a well-formed patch.
LEMMA DiffType ==
    ASSUME NEW r \in Row, NEW n \in Row, n.status = r.status \/ n.status \in Status
    PROVE  Diff(r, n) \in Patch
BY DEF Diff, Patch, Changed, Row

\* A flush changes neither file nor attempt, and types are kept.
LEMMA MergeType ==
    ASSUME NEW r \in Row, NEW p \in Patch
    PROVE  /\ Merge(r, p) \in Row
           /\ Merge(r, p).file = r.file
           /\ Merge(r, p).attempt = r.attempt
           /\ Merge(r, p).status = Column(r.status, p.status)
           /\ Merge(r, p).worker = Column(r.worker, p.worker)
           /\ Merge(r, p).cleared = Column(r.cleared, p.cleared)
           /\ r.status # "unused" => Merge(r, p).status # "unused"
<1>1. Column(r.status, p.status) \in Status \cup {"unused"}
  BY DEF Column, Row, Patch
<1>2. Column(r.worker, p.worker) \in Workers \cup {NoWorker}
  BY DEF Column, Row, Patch
<1>3. Column(r.cancel, p.cancel) \in BOOLEAN /\ Column(r.cleared, p.cleared) \in BOOLEAN
  BY DEF Column, Row, Patch
<1>4. r.status # "unused" => Column(r.status, p.status) # "unused"
  BY DEF Column, Row, Patch, Status, Active, Queued, Results
<1> QED BY <1>1, <1>2, <1>3, <1>4 DEF Merge, Row

\* The rows the repository writes are rows, and take a status of the
\* enumeration or keep theirs.
LEMMA MarkType ==
    ASSUME NEW r \in Row
    PROVE  /\ \A result \in Results : MarkResult(r, result) \in Row
           /\ \A result : /\ MarkResult(r, result).file = r.file
                          /\ MarkResult(r, result).status = result
           /\ MarkCleared(r).file = r.file /\ MarkCleared(r).status = r.status
           /\ MarkCleared(r).cleared = TRUE
           /\ MarkReview(r) \in Row
           /\ MarkReview(r).file = r.file /\ MarkReview(r).status = "manual_review"
           /\ MarkInterrupted(r) \in Row
           /\ MarkCancelled(r) \in Row
           /\ MarkCancellationRequested(r) \in Row
           /\ MarkCleared(r) \in Row
BY DEF MarkResult, MarkReview, MarkInterrupted, MarkCancelled, MarkCleared,
       MarkCancellationRequested, Row, Status, Active, Queued, Results

(* A result marks a row of its file.                                          *)
LEMMA ResultType ==
    ASSUME NEW r \in Row, NEW x \in Results
    PROVE  /\ MarkResult(r, x) \in Row
           /\ MarkResult(r, x).file = r.file /\ MarkResult(r, x).status = x
BY MarkType

-----------------------------------------------------------------------------
(* What a flush does to the table.                                         *)

\* From A to B no row changes file or ceases to exist, and none starts to
\* count as running on a worker.
Kept(A, B) ==
    /\ B \in [Jobs -> Row]
    /\ \A j \in Jobs :
        /\ B[j].file = A[j].file
        /\ A[j].status # "unused" => B[j].status # "unused"
        /\ A[j].status = "unused" => B[j].status = "unused"
        /\ B[j].status = "running" /\ ~B[j].cleared =>
              /\ A[j].status = "running" /\ ~A[j].cleared
              /\ B[j].worker \in {A[j].worker, NoWorker}

\* ... and none starts to occupy its file.
Quiet(A, B) == Kept(A, B) /\ \A j \in Jobs : Occupies(B[j]) => Occupies(A[j])

\* What an open handler has loaded and will write is well typed.
LEMMA TxnType ==
    ASSUME TypeOK, NEW s \in Everyone
    PROVE  /\ Loaded(s) \in SUBSET Jobs
           /\ \A j \in Loaded(s) : txn[s].rows[j] \in Patch
           /\ DOMAIN txn[s].files \in SUBSET Files
           /\ \A f \in DOMAIN txn[s].files : txn[s].files[f] \in FileState \cup {Keep}
<1>1. txn[s] \in Txn
  BY DEF TypeOK
<1>2. PICK T \in SUBSET Jobs : txn[s].rows \in [T -> Patch]
  BY <1>1 DEF Txn
<1>3. PICK F \in SUBSET Files : txn[s].files \in [F -> FileState \cup {Keep}]
  BY <1>1 DEF Txn
<1> QED BY <1>2, <1>3 DEF Loaded

\* A flush keeps the rows: no file changes hands, no row starts to run.
LEMMA FlushedKept ==
    ASSUME Typed, NEW s \in Everyone
    PROVE  Kept(job, Flushed(s))
<1>1. job \in [Jobs -> Row]
  BY DEF Typed, TypeOK
<1>2. Flushed(s) = [j \in Jobs |-> IF j \in Loaded(s)
                                   THEN Merge(job[j], txn[s].rows[j]) ELSE job[j]]
  BY DEF Flushed
<1>3. ASSUME NEW j \in Jobs, j \in Loaded(s)
      PROVE  /\ Merge(job[j], txn[s].rows[j]) \in Row
             /\ Merge(job[j], txn[s].rows[j]).file = job[j].file
             /\ job[j].status # "unused"
             /\ Merge(job[j], txn[s].rows[j]).status # "unused"
             /\ Merge(job[j], txn[s].rows[j]).status = "running"
                  => job[j].status = "running"
             /\ Merge(job[j], txn[s].rows[j]).worker \in {job[j].worker, NoWorker}
             /\ ~Merge(job[j], txn[s].rows[j]).cleared => ~job[j].cleared
  <2>1. job[j] \in Row /\ txn[s].rows[j] \in Patch
    BY <1>1, <1>3, TxnType DEF Typed
  <2>2. /\ job[j].status # "unused"
        /\ txn[s].rows[j].status # "running"
        /\ txn[s].rows[j].worker \in {NoWorker, Keep}
        /\ txn[s].rows[j].cleared \in {TRUE, Keep}
    BY <1>3 DEF Typed, PatchesOK, GoodTxn, Loaded
  <2>3. Merge(job[j], txn[s].rows[j]).status = "running" => job[j].status = "running"
    BY <2>1, <2>2, MergeType DEF Column
  <2>4. Merge(job[j], txn[s].rows[j]).worker \in {job[j].worker, NoWorker}
    BY <2>1, <2>2, MergeType DEF Column
  <2>5. Merge(job[j], txn[s].rows[j]).cleared = Column(job[j].cleared, txn[s].rows[j].cleared)
    BY <2>1, MergeType
  <2>6. ~Merge(job[j], txn[s].rows[j]).cleared => ~job[j].cleared
    BY <2>2, <2>5, Zenon DEF Column
  <2> QED BY <2>1, <2>2, <2>3, <2>4, <2>6, MergeType
<1>4. Flushed(s) \in [Jobs -> Row]
  BY <1>1, <1>2, <1>3
<1>5. ASSUME NEW j \in Jobs
      PROVE  /\ Flushed(s)[j].file = job[j].file
             /\ job[j].status # "unused" => Flushed(s)[j].status # "unused"
             /\ job[j].status = "unused" => Flushed(s)[j].status = "unused"
             /\ Flushed(s)[j].status = "running" /\ ~Flushed(s)[j].cleared =>
                   /\ job[j].status = "running" /\ ~job[j].cleared
                   /\ Flushed(s)[j].worker \in {job[j].worker, NoWorker}
  <2>1. CASE j \in Loaded(s)
    BY <2>1, <1>2, <1>3
  <2>2. CASE j \notin Loaded(s)
    BY <2>2, <1>2
  <2> QED BY <2>1, <2>2
<1> QED BY <1>4, <1>5 DEF Kept

\* Every handler but the orchestration loop leaves rows that occupy a file
\* to those that did.
LEMMA FlushedQuiet ==
    ASSUME Typed, NEW s \in Everyone, txn[s].op # "orchestrate"
    PROVE  Quiet(job, Flushed(s))
<1>1. Kept(job, Flushed(s))
  BY FlushedKept
<1>2. ASSUME NEW j \in Jobs, Occupies(Flushed(s)[j])
      PROVE  Occupies(job[j])
  <2>1. CASE j \in Loaded(s)
    <3>1. job[j] \in Row /\ txn[s].rows[j] \in Patch
      BY <2>1, TxnType DEF Typed, TypeOK
    <3>2. /\ txn[s].rows[j].status \notin Active
          /\ txn[s].rows[j].cleared \in {TRUE, Keep}
      BY <2>1 DEF Typed, PatchesOK, GoodTxn, Loaded
    <3>3. Flushed(s)[j] = Merge(job[j], txn[s].rows[j])
      BY <2>1 DEF Flushed
    <3>4. /\ Flushed(s)[j].status = Column(job[j].status, txn[s].rows[j].status)
          /\ Flushed(s)[j].cleared = Column(job[j].cleared, txn[s].rows[j].cleared)
      BY <3>1, <3>3, MergeType
    <3>5. /\ Column(job[j].status, txn[s].rows[j].status) \in Active
          /\ ~Column(job[j].cleared, txn[s].rows[j].cleared)
      BY <1>2, <3>4, Zenon DEF Occupies
    <3>6. job[j].status \in Active /\ ~job[j].cleared
      BY <3>2, <3>5, Zenon DEF Column
    <3> QED BY <3>6 DEF Occupies
  <2>2. CASE j \notin Loaded(s)
    BY <1>2, <2>2 DEF Flushed
  <2> QED BY <2>1, <2>2
<1> QED BY <1>1, <1>2 DEF Quiet

\* A flush writes lifecycles.
LEMMA FilesFlushedType ==
    ASSUME TypeOK, NEW s \in Everyone
    PROVE  FilesFlushed(s) \in [Files -> FileState]
<1>1. ASSUME NEW f \in Files
      PROVE  (IF f \in DOMAIN txn[s].files THEN Column(life[f], txn[s].files[f])
              ELSE life[f]) \in FileState
  BY TxnType DEF TypeOK, Column
<1> QED BY <1>1 DEF FilesFlushed

-----------------------------------------------------------------------------
(* What a step does to the table: rows go quiet, one row is claimed, one is *)
(* inserted for a file that no row occupies, or an index-checked run of the *)
(* orchestration loop is written.                                          *)

Claimed(w, j) ==
    /\ job[j].status = "pending" /\ ~job[j].cleared
    /\ Cardinality(RunningOn(job, w)) < Cap[w]
    /\ job' = [job EXCEPT ![j] = MarkClaimed(@, w)]

InsertedInto(T, k, f, n, st) ==
    /\ Quiet(job, T)
    /\ T[k].status = "unused"
    /\ ~HasActive(T, f)
    /\ job' = [T EXCEPT ![k] = Inserted(f, n, st)]

JobEffect ==
    \/ Quiet(job, job')
    \/ \E w \in Workers, j \in Jobs : Claimed(w, j)
    \/ \E T \in [Jobs -> Row], k \in Jobs, f \in Files, n \in 1..MaxAttempt, st \in Queued :
            InsertedInto(T, k, f, n, st)
    \/ Kept(job, job') /\ IndexOK(job')

\* A table left alone is quiet.
LEMMA QuietSame ==
    ASSUME job \in [Jobs -> Row]
    PROVE  Quiet(job, job)
BY DEF Quiet, Kept

\* A row that takes an inactive status goes quiet, keeping its file.
LEMMA QuietMark ==
    ASSUME NEW T, Quiet(job, T), NEW j \in Jobs, NEW r \in Row,
           T[j].status # "unused", r.file = T[j].file,
           r.status \in Results \cup {"interrupted"}
    PROVE  Quiet(job, [T EXCEPT ![j] = r])
<1> DEFINE U == [T EXCEPT ![j] = r]
<1>1. U \in [Jobs -> Row]
  BY DEF Quiet, Kept
<1>2. ASSUME NEW i \in Jobs
      PROVE  /\ U[i].file = job[i].file
             /\ job[i].status # "unused" => U[i].status # "unused"
             /\ job[i].status = "unused" => U[i].status = "unused"
             /\ U[i].status = "running" /\ ~U[i].cleared =>
                   /\ job[i].status = "running" /\ ~job[i].cleared
                   /\ U[i].worker \in {job[i].worker, NoWorker}
             /\ Occupies(U[i]) => Occupies(job[i])
  <2>1. CASE i = j
    BY <2>1 DEF Quiet, Kept, Occupies, Active, Queued, Results
  <2>2. CASE i # j
    BY <2>2 DEF Quiet, Kept
  <2> QED BY <2>1, <2>2
<1> QED BY <1>1, <1>2 DEF Quiet, Kept

\* Recording a result: the rows go quiet, or one is inserted.
LEMMA SettleEffect ==
    ASSUME TypeOK, RowsOK, NEW T, NEW L, NEW j \in Jobs, NEW result,
           Quiet(job, T), job[j].status # "unused", Settle(T, L, j, result)
    PROVE  JobEffect
<1>1. job[j].file \in Files /\ T[j].file = job[j].file /\ T[j].status # "unused"
  BY DEF RowsOK, Quiet, Kept
<1>2. T \in [Jobs -> Row]
  BY DEF Quiet, Kept
<1>3. CASE job' = T
  BY <1>3 DEF JobEffect
<1>4. CASE job' = [T EXCEPT ![j] = MarkReview(@)]
  <2>1. /\ MarkReview(T[j]) \in Row
        /\ MarkReview(T[j]).file = T[j].file
        /\ MarkReview(T[j]).status \in Results
    <3>1. T[j] \in Row
      BY <1>2
    <3> QED BY <3>1, MarkType DEF Results
  <2>2. Quiet(job, [T EXCEPT ![j] = MarkReview(T[j])])
    BY <1>1, <2>1, QuietMark
  <2> QED BY <1>4, <2>2 DEF JobEffect
<1>5. CASE \E k \in Jobs :
              /\ ~HasActive(T, job[j].file)
              /\ T[j].attempt < MaxAttempt
              /\ T[k] = Unused
              /\ job' = [T EXCEPT ![k] = Inserted(job[j].file, T[j].attempt + 1, "scheduled")]
  <2>1. T[j].attempt + 1 \in 1..MaxAttempt
    BY <1>2, <1>5 DEF Row
  <2>2. PICK k \in Jobs : InsertedInto(T, k, job[j].file, T[j].attempt + 1, "scheduled")
    <3>1. Unused.status = "unused"
      BY DEF Unused
    <3> QED BY <1>5, <3>1, Zenon DEF InsertedInto
  <2> QED BY <1>1, <1>2, <2>1, <2>2 DEF JobEffect, Queued
<1>6. \/ job' = T
      \/ job' = [T EXCEPT ![j] = MarkReview(@)]
      \/ \E k \in Jobs :
              /\ ~HasActive(T, job[j].file)
              /\ T[j].attempt < MaxAttempt
              /\ T[k] = Unused
              /\ job' = [T EXCEPT ![k] = Inserted(job[j].file, T[j].attempt + 1, "scheduled")]
  BY DEF Settle
<1> QED BY <1>3, <1>4, <1>5, <1>6, Zenon

\* A granted claim is the second effect.
LEMMA ClaimEffect ==
    ASSUME NEW w \in Workers, NEW j \in Jobs, ClaimRow(w, j)
    PROVE  JobEffect
BY DEF ClaimRow, Claimed, JobEffect

\* Every step has one of the four effects.
LEMMA StepEffect ==
    ASSUME Typed, Next
    PROVE  JobEffect
<1> USE DEF Typed
<1>1. job \in [Jobs -> Row] /\ Quiet(job, job)
  BY QuietSame DEF TypeOK
<1>2. CASE UNCHANGED job
  BY <1>1, <1>2 DEF JobEffect
<1>3. ASSUME NEW f \in Files, NEW k \in Jobs, CreateJob(f, k)
      PROVE  JobEffect
  <2>1. PICK st \in Queued : job' = [job EXCEPT ![k] = Inserted(f, 1, st)]
    BY <1>3 DEF CreateJob
  <2>2. 1 \in 1..MaxAttempt /\ job[k].status = "unused" /\ ~HasActive(job, f)
    BY <1>3 DEF CreateJob, Unused
  <2>3. InsertedInto(job, k, f, 1, st)
    BY <1>1, <2>1, <2>2 DEF InsertedInto
  <2> QED BY <1>1, <2>2, <2>3 DEF JobEffect
<1>4. ASSUME NEW s \in Everyone, CommitRetry(s)
      PROVE  JobEffect
  <2>1. PICK j \in Loaded(s), k \in Jobs, st \in Queued :
            /\ job[k] = Unused
            /\ ~HasActive(job, job[j].file)
            /\ job[j].attempt < MaxAttempt
            /\ job' = [job EXCEPT ![j] = MarkCleared(@),
                                  ![k] = Inserted(job[j].file, job[j].attempt + 1, st)]
    BY <1>4 DEF CommitRetry
  <2> DEFINE T == [job EXCEPT ![j] = MarkCleared(job[j])]
  <2>2. j \in Jobs /\ job[j].status # "unused" /\ job[k].status = "unused" /\ j # k
    <3>1. j \in Jobs /\ job[j].status # "unused"
      BY <2>1, TxnType DEF PatchesOK, GoodTxn, Loaded
    <3>2. job[k].status = "unused"
      BY <2>1 DEF Unused
    <3> QED BY <3>1, <3>2
  <2>3. /\ MarkCleared(job[j]) \in Row /\ MarkCleared(job[j]).file = job[j].file
        /\ MarkCleared(job[j]).status = job[j].status /\ MarkCleared(job[j]).cleared = TRUE
    <3>1. job[j] \in Row
      BY <1>1, <2>2
    <3> QED BY <3>1, MarkType
  <2>4. Quiet(job, T)
    <3>1. T \in [Jobs -> Row]
      BY <1>1, <2>2, <2>3
    <3>2. ~(T[j].status = "running" /\ ~T[j].cleared) /\ ~Occupies(T[j])
      BY <1>1, <2>2, <2>3 DEF Occupies
    <3>3. \A i \in Jobs : i # j => T[i] = job[i]
      BY <1>1
    <3>4. T[j].file = job[j].file /\ T[j].status = job[j].status
      BY <1>1, <2>2, <2>3
    <3> QED BY <3>1, <3>2, <3>3, <3>4 DEF Quiet, Kept
  <2>5. ~HasActive(T, job[j].file)
    BY <2>1, <2>4 DEF HasActive, Quiet, Kept
  <2>6. job' = [T EXCEPT ![k] = Inserted(job[j].file, job[j].attempt + 1, st)]
    BY <1>1, <2>1, <2>2
  <2>7. job[j].file \in Files /\ job[j].attempt + 1 \in 1..MaxAttempt
    BY <1>1, <2>1, <2>2 DEF RowsOK, Row
  <2>8. InsertedInto(T, k, job[j].file, job[j].attempt + 1, st)
    BY <1>1, <2>2, <2>4, <2>5, <2>6 DEF InsertedInto
  <2>9. T \in [Jobs -> Row]
    BY <2>4 DEF Quiet, Kept
  <2> HIDE DEF T
  <2> QED BY <2>1, <2>7, <2>8, <2>9 DEF JobEffect
<1>5. ASSUME NEW s \in Everyone, CommitOperator(s)
      PROVE  JobEffect
  BY <1>5, FlushedQuiet DEF CommitOperator, JobEffect
<1>6. ASSUME NEW s \in Everyone, CommitResult(s)
      PROVE  JobEffect
  <2>1. PICK j \in Loaded(s) : Settle(Flushed(s), FilesFlushed(s), j, txn[s].result)
    BY <1>6 DEF CommitResult
  <2>2. j \in Jobs /\ job[j].status # "unused"
    BY TxnType DEF PatchesOK, GoodTxn, Loaded
  <2>3. Quiet(job, Flushed(s))
    BY <1>6, FlushedQuiet DEF CommitResult
  <2> QED BY <2>1, <2>2, <2>3, SettleEffect
<1>7. ASSUME CommitOrchestrate
      PROVE  JobEffect
  <2>1. Kept(job, Flushed(Orch))
    BY FlushedKept DEF Everyone
  <2> QED BY <1>2, <1>7, <2>1 DEF CommitOrchestrate, JobEffect
<1>8. ASSUME NEW e \in Executors, NEW j \in Jobs, Claim(e, j) \/ ClaimReplyLost(e, j)
      PROVE  JobEffect
  BY <1>8, ClaimEffect DEF Claim, ClaimReplyLost
<1>9. ASSUME NEW e \in Executors, LoopCommit(e)
      PROVE  JobEffect
  <2> DEFINE j == run[e].job
             T == [job EXCEPT ![j] = MarkResult(job[j], run[e].result)]
  <2>1. j \in Jobs /\ job[j].status # "unused" /\ run[e].result \in Results
    BY <1>9 DEF LoopCommit, RunsOK
  <2>2. /\ MarkResult(job[j], run[e].result) \in Row
        /\ MarkResult(job[j], run[e].result).file = job[j].file
        /\ MarkResult(job[j], run[e].result).status = run[e].result
    <3>1. job[j] \in Row
      BY <1>1, <2>1
    <3>2. MarkResult(job[j], run[e].result) \in Row
      BY <2>1, <3>1, MarkType
    <3>3. MarkResult(job[j], run[e].result).file = job[j].file
      BY <3>1, MarkType
    <3>4. MarkResult(job[j], run[e].result).status = run[e].result
      BY <3>1, MarkType
    <3> QED BY <3>2, <3>3, <3>4
  <2>3. Quiet(job, T)
    BY <1>1, <2>1, <2>2, QuietMark
  <2>4. Settle(T, [life EXCEPT ![job[j].file] = LifeOf(run[e].result)], j, run[e].result)
    BY <1>9 DEF LoopCommit
  <2> HIDE DEF j, T
  <2> QED BY <2>1, <2>3, <2>4, SettleEffect
<1>10. ASSUME NEW w \in Workers, DeleteWorker(w)
       PROVE  JobEffect
  <2>1. ASSUME NEW i \in Jobs
        PROVE  /\ job'[i] \in Row
               /\ job'[i].status = job[i].status /\ job'[i].cleared = job[i].cleared
               /\ job'[i].file = job[i].file
               /\ job'[i].worker \in {job[i].worker, NoWorker}
    BY <1>1, <1>10 DEF DeleteWorker, Row
  <2>2. job' \in [Jobs -> Row]
    BY <1>1, <1>10, <2>1 DEF DeleteWorker
  <2> QED BY <2>1, <2>2 DEF JobEffect, Quiet, Kept, Occupies
<1>11. ASSUME NEW s \in Everyone, Rollback(s) \/ Begin(s)
       PROVE  UNCHANGED job
  BY <1>11 DEF Rollback, Begin, BeginRetry, BeginCancel, BeginCancelRequest, BeginSkip,
               BeginClearQueue, BeginClearHistory, AgentSubmit, AgentReport, table
<1>12. ASSUME NEW e \in Executors,
              \/ \E r \in Outcomes : Execute(e, r)
              \/ Progress(e) \/ AgentAck(e) \/ AgentTimeout(e) \/ Crash(e) \/ StopLocal(e)
       PROVE  UNCHANGED job
  BY <1>12 DEF Execute, Progress, AgentAck, AgentTimeout, Crash, StopLocal, table
<1>13. ASSUME \/ \E f \in Files : PlanFile(f)
              \/ \E w \in Workers : SetAble(w)
              \/ Orchestrate
       PROVE  UNCHANGED job
  BY <1>13 DEF PlanFile, SetAble, Orchestrate, table
<1> QED BY <1>2, <1>3, <1>4, <1>5, <1>6, <1>7, <1>8, <1>9, <1>10, <1>11, <1>12, <1>13
        DEF Next, Commit, Executor, World, Everyone

-----------------------------------------------------------------------------
(* What a step does to the open handlers.                                  *)

\* n is a row some handler makes of r: no mark but a claim's starts a row or
\* assigns it, and only the orchestration loop moves rows between active
\* statuses.
GoodMark(r, n, op) ==
    /\ n \in Row
    /\ n.status = r.status \/ n.status \in Status \ {"running"}
    /\ n.worker \in {r.worker, NoWorker}
    /\ n.cleared \in {r.cleared, TRUE}
    /\ op # "orchestrate" => n.status = r.status \/ n.status \notin Active

\* A good mark is flushed as a harmless patch.
LEMMA DiffGood ==
    ASSUME NEW r \in Row, NEW n, NEW op, GoodMark(r, n, op)
    PROVE  /\ Diff(r, n) \in Patch
           /\ Diff(r, n).status # "running"
           /\ Diff(r, n).worker \in {NoWorker, Keep}
           /\ Diff(r, n).cleared \in {TRUE, Keep}
           /\ op # "orchestrate" => Diff(r, n).status \notin Active
<1>1. Diff(r, n) \in Patch
  BY DiffType DEF GoodMark
<1>2. /\ Diff(r, n).status = Changed(r.status, n.status)
      /\ Diff(r, n).worker = Changed(r.worker, n.worker)
      /\ Diff(r, n).cleared = Changed(r.cleared, n.cleared)
  BY DEF Diff
<1>3. Keep \notin Active /\ Keep # "running"
  BY DEF Status, Active
<1>4. Changed(r.status, n.status) # "running"
  BY <1>3 DEF Changed, GoodMark
<1>5. Changed(r.worker, n.worker) \in {NoWorker, Keep}
  BY DEF Changed, GoodMark
<1>6. Changed(r.cleared, n.cleared) \in {TRUE, Keep}
  <2>1. CASE n.cleared = r.cleared
    BY <2>1 DEF Changed
  <2>2. CASE n.cleared # r.cleared
    <3>1. n.cleared = TRUE
      BY <2>2 DEF GoodMark
    <3> QED BY <2>2, <3>1 DEF Changed
  <2> QED BY <2>1, <2>2
<1>7. op # "orchestrate" => Changed(r.status, n.status) \notin Active
  BY <1>3 DEF Changed, GoodMark
<1> QED BY <1>1, <1>2, <1>4, <1>5, <1>6, <1>7

\* Handlers that stay open, and those that open, are sound.
TxnOK ==
    /\ txn' \in [Everyone -> Txn]
    /\ \A q \in Everyone : txn'[q] = txn[q] \/ GoodTxn(txn'[q], job)

\* The rows of an open handler, each a well-formed and harmless patch.
GoodRows(rows, T, op) ==
    /\ rows \in [T -> Patch]
    /\ \A j \in T :
        /\ job[j].status # "unused"
        /\ rows[j].status # "running"
        /\ rows[j].worker \in {NoWorker, Keep}
        /\ rows[j].cleared \in {TRUE, Keep}
        /\ op # "orchestrate" => rows[j].status \notin Active

\* A handler that opens with good rows leaves the open handlers well formed.
LEMMA OpenGood ==
    ASSUME Typed, NEW s \in Everyone, NEW op \in Ops, NEW T \in SUBSET Jobs,
           NEW rows, GoodRows(rows, T, op),
           NEW F \in SUBSET Files, NEW files \in [F -> FileState \cup {Keep}],
           NEW result \in Results \cup {"none"},
           op \in {"submit", "report"} => result \in Results,
           Open(s, op, rows, files, result)
    PROVE  TxnOK
<1> DEFINE t == [op |-> op, rows |-> rows, files |-> files, result |-> result]
<1>1. t \in Txn
  <2>1. rows \in UNION {[S -> Patch] : S \in SUBSET Jobs}
    BY DEF GoodRows
  <2>2. files \in UNION {[G -> FileState \cup {Keep}] : G \in SUBSET Files}
    OBVIOUS
  <2> QED BY <2>1, <2>2 DEF Txn
<1>2. GoodTxn(t, job)
  BY DEF GoodTxn, GoodRows
<1>3. txn' = [txn EXCEPT ![s] = t]
  BY DEF Open
<1> HIDE DEF t
<1> QED BY <1>1, <1>2, <1>3 DEF TxnOK, Typed, TypeOK

\* A handler that rewrites no file.
LEMMA NoFilesType == NoFiles \in [{} -> FileState \cup {Keep}] /\ {} \in SUBSET Files
BY DEF NoFiles

\* A handler that rewrites the files of the rows it loads.
LEMMA FilePlanType ==
    ASSUME TypeOK, RowsOK, NEW T \in SUBSET Jobs, \A j \in T : job[j].status # "unused",
           NEW new \in FileState
    PROVE  /\ {job[j].file : j \in T} \in SUBSET Files
           /\ FilePlan(T, new) \in [{job[j].file : j \in T} -> FileState \cup {Keep}]
<1>1. {job[j].file : j \in T} \in SUBSET Files
  BY DEF RowsOK
<1>2. \A f \in Files : Changed(life[f], new) \in FileState \cup {Keep}
  BY DEF TypeOK, Changed
<1> QED BY <1>1, <1>2 DEF FilePlan

\* The two forms the operator handlers open with.
LEMMA OpenBare ==
    ASSUME Typed, NEW s \in Everyone, NEW op \in Ops \ {"submit", "report"},
           NEW T \in SUBSET Jobs, NEW rows, GoodRows(rows, T, op),
           Open(s, op, rows, NoFiles, "none")
    PROVE  TxnOK
<1>1. {} \in SUBSET Files /\ NoFiles \in [{} -> FileState \cup {Keep}]
  BY NoFilesType
<1>2. "none" \in Results \cup {"none"} /\ op \in Ops /\ op \notin {"submit", "report"}
  OBVIOUS
<1> QED BY <1>1, <1>2, OpenGood

\* ... and with their files.
LEMMA OpenPlanned ==
    ASSUME Typed, NEW s \in Everyone, NEW op \in Ops \ {"submit", "report"},
           NEW T \in SUBSET Jobs, NEW rows, GoodRows(rows, T, op),
           NEW new \in FileState,
           Open(s, op, rows, FilePlan(T, new), "none")
    PROVE  TxnOK
<1> DEFINE F == {job[j].file : j \in T}
<1>1. F \in SUBSET Files /\ FilePlan(T, new) \in [F -> FileState \cup {Keep}]
  BY FilePlanType DEF Typed, GoodRows
<1>2. "none" \in Results \cup {"none"} /\ op \in Ops /\ op \notin {"submit", "report"}
  OBVIOUS
<1> HIDE DEF F
<1> QED BY <1>1, <1>2, OpenGood

\* A session with no open handler is well formed.
LEMMA IdleGood == Idle \in Txn /\ GoodTxn(Idle, job)
<1>1. [j \in {} |-> Keep] \in UNION {[T -> Patch] : T \in SUBSET Jobs}
  <2>1. [j \in {} |-> Keep] \in [{} -> Patch] /\ {} \in SUBSET Jobs
    OBVIOUS
  <2> QED BY <2>1
<1>2. [f \in {} |-> Keep] \in UNION {[F -> FileState \cup {Keep}] : F \in SUBSET Files}
  <2>1. [f \in {} |-> Keep] \in [{} -> FileState \cup {Keep}] /\ {} \in SUBSET Files
    OBVIOUS
  <2> QED BY <2>1
<1>3. Idle \in Txn
  BY <1>1, <1>2 DEF Idle, Txn
<1>4. DOMAIN Idle.rows = {} /\ Idle.op = "idle"
  BY DEF Idle
<1> QED BY <1>3, <1>4 DEF GoodTxn

\* Ending a handler, by a commit or a rollback.
LEMMA CloseGood ==
    ASSUME Typed, NEW s \in Everyone, Close(s)
    PROVE  TxnOK
BY IdleGood DEF Close, TxnOK, Typed, TypeOK

\* Every mark of the handlers is a good one.
LEMMA MarkGood ==
    ASSUME NEW r \in Row, NEW op
    PROVE  /\ \A result \in Results : GoodMark(r, MarkResult(r, result), op)
           /\ GoodMark(r, MarkSkipped(r), op)
           /\ GoodMark(r, MarkCancelled(r), op)
           /\ GoodMark(r, MarkCancellationRequested(r), op)
           /\ GoodMark(r, MarkCleared(r), op)
<1>1. ASSUME NEW n \in Row, n.status \in Results \/ n.status = r.status,
             n.worker \in {r.worker, NoWorker}, n.cleared \in {r.cleared, TRUE}
      PROVE  GoodMark(r, n, op)
  BY <1>1 DEF GoodMark, Status, Active, Queued, Results
<1>2. ASSUME NEW result \in Results
      PROVE  GoodMark(r, MarkResult(r, result), op)
  <2>1. /\ MarkResult(r, result).status = result
        /\ MarkResult(r, result).worker = NoWorker
        /\ MarkResult(r, result).cleared = r.cleared
    BY DEF MarkResult, Row
  <2> QED BY <1>1, <2>1, MarkType
<1>3. GoodMark(r, MarkSkipped(r), op)
  BY <1>2 DEF MarkSkipped, Results
<1>4. GoodMark(r, MarkCancelled(r), op)
  <2>1. /\ MarkCancelled(r).status = "cancelled"
        /\ MarkCancelled(r).worker = NoWorker
        /\ MarkCancelled(r).cleared = r.cleared
    BY DEF MarkCancelled, Row
  <2> QED BY <1>1, <2>1, MarkType DEF Results
<1>5. GoodMark(r, MarkCancellationRequested(r), op)
  <2>1. /\ MarkCancellationRequested(r).status = r.status
        /\ MarkCancellationRequested(r).worker = r.worker
        /\ MarkCancellationRequested(r).cleared = r.cleared
    BY DEF MarkCancellationRequested, Row
  <2> QED BY <1>1, <2>1, MarkType
<1>6. GoodMark(r, MarkCleared(r), op)
  <2>1. /\ MarkCleared(r).status = r.status
        /\ MarkCleared(r).worker = r.worker
        /\ MarkCleared(r).cleared = TRUE
    BY DEF MarkCleared, Row
  <2> QED BY <1>1, <2>1, MarkType
<1> QED BY <1>2, <1>3, <1>4, <1>5, <1>6

\* So is what the orchestration loop makes of an active row.
LEMMA OrchestratedGood ==
    ASSUME NEW r \in Row, r.status \in Active
    PROVE  GoodMark(r, MarkOrchestrated(r), "orchestrate")
<1>1. r.status \in {"scheduled", "pending", "running"}
  BY DEF Active, Queued
<1>2. CASE r.status = "scheduled"
  <2>1. MarkOrchestrated(r) = [r EXCEPT !.status = "pending"]
    BY <1>2 DEF MarkOrchestrated
  <2> QED BY <2>1 DEF GoodMark, Row, Status, Active, Queued
<1>3. CASE r.status = "pending"
  <2>1. MarkOrchestrated(r) = [r EXCEPT !.status = "scheduled"]
    BY <1>3 DEF MarkOrchestrated
  <2> QED BY <2>1 DEF GoodMark, Row, Status, Active, Queued
<1>4. CASE r.status = "running"
  <2>1. MarkOrchestrated(r) = MarkInterrupted(r)
    BY <1>4 DEF MarkOrchestrated
  <2>2. /\ MarkInterrupted(r).status = "interrupted"
        /\ MarkInterrupted(r).worker = NoWorker
        /\ MarkInterrupted(r).cleared = r.cleared
    BY DEF MarkInterrupted, Row
  <2> QED BY <2>1, <2>2, MarkType DEF GoodMark, Status
<1> QED BY <1>1, <1>2, <1>3, <1>4

\* Every handler that opens holds a good patch.
LEMMA BeginGood ==
    ASSUME Typed, NEW s \in Everyone, Begin(s)
    PROVE  TxnOK \/ UNCHANGED txn
<1> USE DEF Typed
<1>1. job \in [Jobs -> Row]
  BY DEF TypeOK
<1>2. ASSUME NEW j \in Jobs, BeginRetry(s, j)
      PROVE  TxnOK
  <2> DEFINE rows == Plan({j}, MarkCleared)
  <2>1. \A i \in {j} : /\ job[i] \in Row /\ job[i].status # "unused"
                     /\ GoodMark(job[i], MarkCleared(job[i]), "retry")
    BY <1>1, <1>2, MarkGood DEF BeginRetry, Retryable
  <2>2. GoodRows(rows, {j}, "retry")
    BY <2>1, DiffGood DEF GoodRows, Plan
  <2>3. {j} \in SUBSET Jobs /\ "retry" \in Ops \ {"submit", "report"}
    BY DEF Ops
  <2>4. Open(s, "retry", rows, NoFiles, "none")
    BY <1>2 DEF BeginRetry
  <2> HIDE DEF rows
  <2> QED BY <2>2, <2>3, <2>4, OpenBare
<1>3. ASSUME NEW j \in Jobs, BeginCancel(s, j)
      PROVE  TxnOK
  <2> DEFINE rows == Plan({j}, MarkCancelled)
  <2>1. \A i \in {j} : /\ job[i] \in Row /\ job[i].status # "unused"
                     /\ GoodMark(job[i], MarkCancelled(job[i]), "cancel")
    BY <1>1, <1>3, MarkGood DEF BeginCancel, Queued
  <2>2. GoodRows(rows, {j}, "cancel")
    BY <2>1, DiffGood DEF GoodRows, Plan
  <2>3. {j} \in SUBSET Jobs /\ "cancel" \in Ops \ {"submit", "report"}
    BY DEF Ops
  <2>4. Open(s, "cancel", rows, FilePlan({j}, "planned"), "none")
    BY <1>3 DEF BeginCancel
  <2> HIDE DEF rows
  <2> QED BY <2>2, <2>3, <2>4, OpenPlanned DEF FileState
<1>4. ASSUME NEW j \in Jobs, BeginCancelRequest(s, j)
      PROVE  TxnOK
  <2> DEFINE rows == Plan({j}, MarkCancellationRequested)
  <2>1. \A i \in {j} : /\ job[i] \in Row /\ job[i].status # "unused"
                     /\ GoodMark(job[i], MarkCancellationRequested(job[i]), "request")
    BY <1>1, <1>4, MarkGood DEF BeginCancelRequest
  <2>2. GoodRows(rows, {j}, "request")
    BY <2>1, DiffGood DEF GoodRows, Plan
  <2>3. {j} \in SUBSET Jobs /\ "request" \in Ops \ {"submit", "report"}
    BY DEF Ops
  <2>4. Open(s, "request", rows, NoFiles, "none")
    BY <1>4 DEF BeginCancelRequest
  <2> HIDE DEF rows
  <2> QED BY <2>2, <2>3, <2>4, OpenBare
<1>5. ASSUME NEW j \in Jobs, BeginSkip(s, j)
      PROVE  TxnOK
  <2> DEFINE rows == Plan({j}, MarkSkipped)
  <2>1. \A i \in {j} : /\ job[i] \in Row /\ job[i].status # "unused"
                     /\ GoodMark(job[i], MarkSkipped(job[i]), "skip")
    BY <1>1, <1>5, MarkGood DEF BeginSkip, Retryable
  <2>2. GoodRows(rows, {j}, "skip")
    BY <2>1, DiffGood DEF GoodRows, Plan
  <2>3. {j} \in SUBSET Jobs /\ "skip" \in Ops \ {"submit", "report"}
    BY DEF Ops
  <2>4. Open(s, "skip", rows, FilePlan({j}, "completed"), "none")
    BY <1>5 DEF BeginSkip
  <2> HIDE DEF rows
  <2> QED BY <2>2, <2>3, <2>4, OpenPlanned DEF FileState
<1>6. ASSUME BeginClearQueue(s)
      PROVE  TxnOK
  <2> DEFINE T == {j \in Jobs :
                    /\ ~job[j].cleared
                    /\ \/ job[j].status \in Queued
                       \/ job[j].status = "interrupted" /\ job[j].worker = NoWorker}
  <2> DEFINE rows == Plan(T, MarkCancelled)
  <2>1. \A i \in T : /\ job[i] \in Row /\ job[i].status # "unused"
                     /\ GoodMark(job[i], MarkCancelled(job[i]), "clear_queue")
    BY <1>1, <1>6, MarkGood DEF Queued
  <2>2. GoodRows(rows, T, "clear_queue")
    BY <2>1, DiffGood DEF GoodRows, Plan
  <2>3. T \in SUBSET Jobs /\ "clear_queue" \in Ops \ {"submit", "report"}
    BY DEF Ops
  <2>4. Open(s, "clear_queue", rows, FilePlan(T, "planned"), "none")
    BY <1>6 DEF BeginClearQueue
  <2> HIDE DEF rows
  <2> QED BY <2>2, <2>3, <2>4, OpenPlanned DEF FileState
<1>7. ASSUME NEW T \in SUBSET Jobs, BeginClearHistory(s, T)
      PROVE  TxnOK
  <2> DEFINE rows == Plan(T, MarkCleared)
  <2>1. \A i \in T : /\ job[i] \in Row /\ job[i].status # "unused"
                     /\ GoodMark(job[i], MarkCleared(job[i]), "clear_history")
    BY <1>1, <1>7, MarkGood DEF BeginClearHistory
  <2>2. GoodRows(rows, T, "clear_history")
    BY <2>1, DiffGood DEF GoodRows, Plan
  <2>3. T \in SUBSET Jobs /\ "clear_history" \in Ops \ {"submit", "report"}
    BY DEF Ops
  <2>4. Open(s, "clear_history", rows, NoFiles, "none")
    BY <1>7 DEF BeginClearHistory
  <2> HIDE DEF rows
  <2> QED BY <2>2, <2>3, <2>4, OpenBare
<1>8. ASSUME NEW j \in Jobs, NEW r \in Results, NEW op \in {"submit", "report"},
             job[j].status # "unused", OpenResult(s, op, j, r)
      PROVE  TxnOK
  <2> DEFINE rows == [i \in {j} |-> Diff(job[i], MarkResult(job[i], r))]
             files == FilePlan({j}, LifeOf(r))
             F == {job[i].file : i \in {j}}
  <2>1. \A i \in {j} : /\ job[i] \in Row /\ job[i].status # "unused"
                     /\ GoodMark(job[i], MarkResult(job[i], r), op)
    BY <1>1, <1>8, MarkGood
  <2>2. GoodRows(rows, {j}, op)
    BY <2>1, DiffGood DEF GoodRows
  <2>3. {j} \in SUBSET Jobs /\ op \in Ops
    BY DEF Ops
  <2>4. F \in SUBSET Files /\ files \in [F -> FileState \cup {Keep}]
    <3>1. LifeOf(r) \in FileState
      BY DEF LifeOf, FileState
    <3> QED BY <1>8, <2>3, <3>1, FilePlanType
  <2>5. Open(s, op, rows, files, r)
    BY <1>8 DEF OpenResult, Plan
  <2> HIDE DEF rows, files, F
  <2> QED BY <2>2, <2>3, <2>4, <2>5, OpenGood
<1>9. ASSUME NEW e \in Agents, AgentSubmit(e, s)
      PROVE  TxnOK \/ UNCHANGED txn
  <2>1. CASE UNCHANGED txn
    BY <2>1
  <2>2. CASE \E r \in {run[e].result, "failed"} :
                OpenResult(s, "submit", run[e].job, Effective(r, job[run[e].job].cancel))
    <3>1. PICK r \in {run[e].result, "failed"} :
             OpenResult(s, "submit", run[e].job, Effective(r, job[run[e].job].cancel))
      BY <2>2
    <3>2. /\ run[e].result \in Results /\ run[e].job \in Jobs
          /\ job[run[e].job].status # "unused"
      BY <1>9 DEF AgentSubmit, RunsOK, Agents
    <3>3. Effective(r, job[run[e].job].cancel) \in Results
      BY <3>2 DEF Effective, Results
    <3> QED BY <1>8, <3>1, <3>2, <3>3
  <2> QED BY <1>9, <2>1, <2>2 DEF AgentSubmit
<1>10. ASSUME NEW e \in Agents, AgentReport(e, s)
       PROVE  TxnOK \/ UNCHANGED txn
  <2>1. CASE UNCHANGED txn
    BY <2>1
  <2>2. CASE OpenResult(s, "report", run[e].job, "failed")
    <3>1. run[e].job \in Jobs /\ job[run[e].job].status # "unused"
      BY <1>10 DEF AgentReport, RunsOK, Agents
    <3> QED BY <1>8, <2>2, <3>1 DEF Results
  <2> QED BY <1>10, <2>1, <2>2 DEF AgentReport
<1> QED BY <1>2, <1>3, <1>4, <1>5, <1>6, <1>7, <1>9, <1>10 DEF Begin

\* The orchestration loop opens with good patches too.
LEMMA OrchestrateGood ==
    ASSUME Typed, Orchestrate
    PROVE  TxnOK
<1>1. PICK T \in SUBSET {j \in Jobs : job[j].status \in Active} :
          Open(Orch, "orchestrate", Plan(T, MarkOrchestrated), NoFiles, "none")
  BY DEF Orchestrate, Active, Queued
<1> DEFINE rows == Plan(T, MarkOrchestrated)
<1>2. \A i \in T : /\ job[i] \in Row /\ job[i].status # "unused"
                  /\ GoodMark(job[i], MarkOrchestrated(job[i]), "orchestrate")
  BY <1>1, OrchestratedGood DEF Typed, TypeOK, Active, Queued
<1>3. GoodRows(rows, T, "orchestrate")
  BY <1>2, DiffGood DEF GoodRows, Plan
<1>4. /\ T \in SUBSET Jobs /\ "orchestrate" \in Ops \ {"submit", "report"}
      /\ Orch \in Everyone
  BY <1>1 DEF Ops, Everyone
<1>5. Open(Orch, "orchestrate", rows, NoFiles, "none")
  BY <1>1
<1> HIDE DEF rows
<1> QED BY <1>3, <1>4, <1>5, OpenBare

\* A step leaves the open handlers well formed.
LEMMA StepTxn ==
    ASSUME Typed, Next
    PROVE  TxnOK \/ UNCHANGED txn
<1>1. ASSUME NEW s \in Everyone, Commit(s)
      PROVE  TxnOK
  <2>1. Close(s)
    BY <1>1 DEF Commit, CommitRetry, CommitOperator, CommitResult, Rollback,
                CommitOrchestrate
  <2> QED BY <2>1, CloseGood
<1>2. ASSUME NEW s \in Sessions, Begin(s)
      PROVE  TxnOK \/ UNCHANGED txn
  <2>1. s \in Everyone
    BY DEF Everyone
  <2> QED BY <1>2, <2>1, BeginGood
<1>3. ASSUME NEW e \in Executors, Executor(e)
      PROVE  UNCHANGED txn
  BY <1>3 DEF Executor, Claim, ClaimReplyLost, Execute, Progress, LoopCommit,
              AgentAck, AgentTimeout, Crash, StopLocal
<1>4. CASE World
  <2>1. UNCHANGED txn
    BY <1>4 DEF World, PlanFile, CreateJob, SetAble, DeleteWorker
  <2> QED BY <2>1
<1> QED BY <1>1, <1>2, <1>3, <1>4, OrchestrateGood DEF Next

-----------------------------------------------------------------------------
(* Type correctness.                                                       *)

\* No effect takes a row's file or existence away.
LEMMA EffectType ==
    ASSUME Typed, JobEffect
    PROVE  /\ job' \in [Jobs -> Row]
           /\ \A j \in Jobs : job[j].status # "unused" => job'[j].status # "unused"
           /\ RowsOK'
<1> DEFINE Goal(B) ==
        /\ B \in [Jobs -> Row]
        /\ \A j \in Jobs : job[j].status # "unused" => B[j].status # "unused"
        /\ \A j \in Jobs : B[j].status # "unused" => B[j].file \in Files
<1>1. ASSUME NEW B, Kept(job, B)
      PROVE  Goal(B)
  BY <1>1 DEF Kept, Typed, RowsOK
<1>2. CASE Kept(job, job')
  BY <1>1, <1>2 DEF RowsOK
<1>3. ASSUME NEW w \in Workers, NEW j \in Jobs, Claimed(w, j)
      PROVE  Goal(job')
  <2>1. job[j] \in Row /\ job[j].file \in Files /\ job \in [Jobs -> Row]
    BY <1>3 DEF Claimed, Typed, TypeOK, RowsOK
  <2>2. /\ MarkClaimed(job[j], w) \in Row
        /\ MarkClaimed(job[j], w).status = "running"
        /\ MarkClaimed(job[j], w).file = job[j].file
    BY <2>1 DEF MarkClaimed, Row, Status, Active
  <2>3. job' = [job EXCEPT ![j] = MarkClaimed(job[j], w)]
    BY <1>3 DEF Claimed
  <2> QED BY <2>1, <2>2, <2>3 DEF Typed, RowsOK
<1>4. ASSUME NEW T \in [Jobs -> Row], NEW k \in Jobs, NEW f \in Files,
             NEW n \in 1..MaxAttempt, NEW st \in Queued, InsertedInto(T, k, f, n, st)
      PROVE  Goal(job')
  <2>1. Goal(T)
    BY <1>1, <1>4 DEF InsertedInto, Quiet
  <2>2. /\ Inserted(f, n, st) \in Row
        /\ Inserted(f, n, st).status = st
        /\ Inserted(f, n, st).file = f
    <3>1. Unused \in Row
      BY DEF Unused, Row
    <3>2. st \in Status /\ n \in 0..MaxAttempt
      BY DEF Status, Active
    <3> QED BY <3>1, <3>2 DEF Inserted, Row
  <2>3. st # "unused"
    BY DEF Queued
  <2>4. job' = [T EXCEPT ![k] = Inserted(f, n, st)]
    BY <1>4 DEF InsertedInto
  <2> QED BY <2>1, <2>2, <2>3, <2>4
<1>5. Goal(job')
  BY <1>1, <1>3, <1>4 DEF JobEffect, Quiet
<1> QED BY <1>5 DEF RowsOK

\* Recording a result writes lifecycles.
LEMMA SettleLife ==
    ASSUME NEW T, NEW L \in [Files -> FileState], NEW j, NEW result,
           Settle(T, L, j, result)
    PROVE  life' \in [Files -> FileState]
BY DEF Settle, FileState

\* So does every step.
LEMMA StepLife ==
    ASSUME Typed, Next
    PROVE  life' \in [Files -> FileState]
<1>1. life \in [Files -> FileState]
  BY DEF Typed, TypeOK
<1>2. CASE UNCHANGED life
  BY <1>1, <1>2
<1>3. ASSUME NEW s \in Everyone, CommitRetry(s)
      PROVE  life' \in [Files -> FileState]
  <2>1. \E f : life' = [life EXCEPT ![f] = "queued"]
    BY <1>3 DEF CommitRetry
  <2> QED BY <1>1, <2>1 DEF FileState
<1>4. ASSUME NEW s \in Everyone, CommitOperator(s)
      PROVE  life' \in [Files -> FileState]
  BY <1>4, FilesFlushedType DEF CommitOperator, Typed
<1>5. ASSUME NEW s \in Everyone, CommitResult(s)
      PROVE  life' \in [Files -> FileState]
  <2>1. FilesFlushed(s) \in [Files -> FileState]
    BY FilesFlushedType DEF Typed
  <2>2. PICK j \in Loaded(s) : Settle(Flushed(s), FilesFlushed(s), j, txn[s].result)
    BY <1>5 DEF CommitResult
  <2> QED BY <2>1, <2>2, SettleLife
<1>6. ASSUME NEW s \in Everyone, Rollback(s) \/ CommitOrchestrate
      PROVE  UNCHANGED life
  BY <1>6 DEF Rollback, CommitOrchestrate, table
<1>7. ASSUME NEW w, NEW j, ClaimRow(w, j)
      PROVE  life' \in [Files -> FileState]
  BY <1>1, <1>7 DEF ClaimRow, FileState
<1>8. ASSUME NEW e \in Executors, LoopCommit(e)
      PROVE  life' \in [Files -> FileState]
  <2> DEFINE j == run[e].job
             r == run[e].result
             L == [life EXCEPT ![job[j].file] = LifeOf(r)]
             T == [job EXCEPT ![j] = MarkResult(@, r)]
  <2>1. LifeOf(r) \in FileState
    BY DEF LifeOf, FileState
  <2>2. L \in [Files -> FileState]
    BY <1>1, <2>1
  <2>3. Settle(T, L, j, r)
    BY <1>8 DEF LoopCommit
  <2> HIDE DEF T, L, j, r
  <2> QED BY <2>2, <2>3, SettleLife
<1>9. ASSUME NEW e \in Executors, Executor(e)
      PROVE  life' \in [Files -> FileState]
  <2>1. CASE \E j \in Jobs : Claim(e, j) \/ ClaimReplyLost(e, j)
    BY <1>7, <2>1 DEF Claim, ClaimReplyLost
  <2>2. CASE UNCHANGED life
    BY <1>2, <2>2
  <2> QED BY <1>8, <1>9, <2>1, <2>2
       DEF Executor, Execute, Progress, AgentAck, AgentTimeout, Crash, StopLocal, table
<1>10. CASE World
  <2>1. CASE \E f \in Files : PlanFile(f) \/ \E k \in Jobs : CreateJob(f, k)
    BY <1>1, <2>1 DEF PlanFile, CreateJob, FileState
  <2>2. CASE \E w \in Workers : SetAble(w) \/ DeleteWorker(w)
    BY <1>2, <2>2 DEF SetAble, DeleteWorker, table
  <2> QED BY <1>10, <2>1, <2>2 DEF World
<1>11. ASSUME NEW s \in Sessions, Begin(s)
       PROVE  UNCHANGED life
  BY <1>11 DEF Begin, BeginRetry, BeginCancel, BeginCancelRequest, BeginSkip, table,
               BeginClearQueue, BeginClearHistory, AgentSubmit, AgentReport
<1>12. CASE Orchestrate
  BY <1>2, <1>12 DEF Orchestrate, table
<1>13. ASSUME NEW s \in Everyone, Commit(s)
       PROVE  life' \in [Files -> FileState]
  BY <1>2, <1>3, <1>4, <1>5, <1>6, <1>13 DEF Commit
<1>14. ASSUME NEW s \in Sessions, Begin(s)
       PROVE  life' \in [Files -> FileState]
  BY <1>2, <1>11, <1>14
<1> QED BY <1>9, <1>10, <1>12, <1>13, <1>14 DEF Next

\* What a step does to the executors.
RunEffect(e) ==
    \/ run' = [run EXCEPT ![e] = IdleRun]
    \/ \E j \in Jobs :
        /\ job[j].status # "unused"
        /\ run' = [run EXCEPT ![e] = [phase |-> "working", job |-> j, result |-> "none"]]
    \/ /\ run[e].phase \in {"done", "sent"}
       /\ \E p \in {"sent", "failing"} : run' = [run EXCEPT ![e].phase = p]
    \/ /\ run[e].phase = "working"
       /\ \E r \in Results : run' = [run EXCEPT ![e].phase = "done", ![e].result = r]

\* A step changes at most one executor, in one of four ways.
LEMMA StepRun ==
    ASSUME Next
    PROVE  UNCHANGED run \/ \E e \in Executors : RunEffect(e)
<1>1. ASSUME NEW s \in Everyone, Commit(s)
      PROVE  UNCHANGED run
  BY <1>1 DEF Commit, CommitRetry, CommitOperator, CommitResult, Rollback,
              CommitOrchestrate, exec
<1>2. ASSUME NEW e \in Agents, NEW s, AgentSubmit(e, s) \/ AgentReport(e, s)
      PROVE  RunEffect(e)
  <2>1. CASE AgentSubmit(e, s)
    BY <2>1 DEF AgentSubmit, RunEffect
  <2>2. CASE AgentReport(e, s)
    BY <2>2 DEF AgentReport, RunEffect
  <2> QED BY <1>2, <2>1, <2>2
<1>3. ASSUME NEW s \in Sessions, Begin(s)
      PROVE  UNCHANGED run \/ \E e \in Executors : RunEffect(e)
  <2>1. CASE UNCHANGED run
    BY <2>1
  <2>2. CASE \E e \in Agents : AgentSubmit(e, s) \/ AgentReport(e, s)
    BY <1>2, <2>2 DEF Agents
  <2> QED BY <1>3, <2>1, <2>2 DEF Begin, BeginRetry, BeginCancel, BeginCancelRequest,
               BeginSkip, BeginClearQueue, BeginClearHistory, exec
<1>4. ASSUME NEW e \in Executors, Executor(e)
      PROVE  UNCHANGED run \/ RunEffect(e)
  <2>1. CASE \E j \in Jobs : Claim(e, j)
    BY <2>1 DEF Claim, ClaimRow, RunEffect
  <2>2. CASE \E r \in Outcomes : Execute(e, r)
    BY <2>2 DEF Execute, RunEffect
  <2>3. CASE LoopCommit(e) \/ AgentAck(e) \/ Crash(e)
    BY <2>3 DEF LoopCommit, AgentAck, Crash, RunEffect
  <2>4. CASE AgentTimeout(e)
    BY <2>4 DEF AgentTimeout, RunEffect
  <2>5. CASE Progress(e) \/ StopLocal(e) \/ \E j \in Jobs : ClaimReplyLost(e, j)
    BY <2>5 DEF Progress, StopLocal, ClaimReplyLost, exec
  <2> QED BY <1>4, <2>1, <2>2, <2>3, <2>4, <2>5 DEF Executor
<1>5. CASE Orchestrate \/ World
  BY <1>5 DEF Orchestrate, World, PlanFile, CreateJob, SetAble, DeleteWorker, exec
<1> QED BY <1>1, <1>3, <1>4, <1>5 DEF Next

\* What executors hold stays well typed, and names rows that exist.
LEMMA RunType ==
    ASSUME Typed, Next
    PROVE  run' \in [Executors -> Run] /\ RunsOK'
<1>1. /\ run \in [Executors -> Run] /\ RunsOK
      /\ \A j \in Jobs : job[j].status # "unused" => job'[j].status # "unused"
  BY StepEffect, EffectType DEF Typed, TypeOK
<1>2. CASE UNCHANGED run
  BY <1>1, <1>2 DEF RunsOK
<1>3. ASSUME NEW e \in Executors, NEW x \in Run, run' = [run EXCEPT ![e] = x],
             x.phase # "idle" => x.job \in Jobs /\ job[x.job].status # "unused",
             x.phase = "done" => x.result \in Results
      PROVE  run' \in [Executors -> Run] /\ RunsOK'
  BY <1>1, <1>3 DEF RunsOK
<1>4. ASSUME NEW e \in Executors, RunEffect(e)
      PROVE  run' \in [Executors -> Run] /\ RunsOK'
  <2>1. CASE run' = [run EXCEPT ![e] = IdleRun]
    <3>1. IdleRun \in Run /\ IdleRun.phase = "idle"
      BY DEF IdleRun, Run, Phase
    <3> QED BY <1>3, <2>1, <3>1
  <2>2. CASE \E j \in Jobs :
              /\ job[j].status # "unused"
              /\ run' = [run EXCEPT ![e] = [phase |-> "working", job |-> j,
                                            result |-> "none"]]
    <3>1. PICK j \in Jobs :
              /\ job[j].status # "unused"
              /\ run' = [run EXCEPT ![e] = [phase |-> "working", job |-> j,
                                            result |-> "none"]]
      BY <2>2
    <3> DEFINE x == [phase |-> "working", job |-> j, result |-> "none"]
    <3>2. x \in Run /\ x.phase = "working" /\ x.job = j
      BY DEF Run, Phase
    <3> QED BY <1>3, <3>1, <3>2
  <2>3. CASE /\ run[e].phase \in {"done", "sent"}
             /\ \E p \in {"sent", "failing"} : run' = [run EXCEPT ![e].phase = p]
    <3>1. PICK p \in {"sent", "failing"} : run' = [run EXCEPT ![e].phase = p]
      BY <2>3
    <3> DEFINE x == [run[e] EXCEPT !.phase = p]
    <3>2. run' = [run EXCEPT ![e] = x]
      BY <3>1
    <3>3. x \in Run /\ x.phase = p /\ x.job = run[e].job
      BY <1>1 DEF Run, Phase
    <3>4. run[e].job \in Jobs /\ job[run[e].job].status # "unused"
      BY <1>1, <2>3 DEF RunsOK
    <3> HIDE DEF x
    <3> QED BY <1>3, <3>2, <3>3, <3>4
  <2>4. CASE /\ run[e].phase = "working"
             /\ \E r \in Results : run' = [run EXCEPT ![e].phase = "done", ![e].result = r]
    <3>1. PICK r \in Results : run' = [run EXCEPT ![e].phase = "done", ![e].result = r]
      BY <2>4
    <3> DEFINE x == [run[e] EXCEPT !.phase = "done", !.result = r]
    <3>2. run' = [run EXCEPT ![e] = x]
      BY <3>1, <1>1
    <3>3. x \in Run /\ x.phase = "done" /\ x.job = run[e].job /\ x.result = r
      <4>1. run[e] \in Run /\ r \in Results \cup {"none"}
        BY <1>1
      <4>2. x \in Run
        BY <4>1 DEF Run, Phase
      <4>3. x.phase = "done"
        BY <4>1 DEF Run
      <4>4. x.job = run[e].job
        BY <4>1 DEF Run
      <4>5. x.result = r
        BY <4>1 DEF Run
      <4> QED BY <4>2, <4>3, <4>4, <4>5
    <3>4. run[e].job \in Jobs /\ job[run[e].job].status # "unused"
      BY <1>1, <2>4 DEF RunsOK
    <3> HIDE DEF x
    <3> QED BY <1>3, <3>2, <3>3, <3>4
  <2> QED BY <1>4, <2>1, <2>2, <2>3, <2>4 DEF RunEffect
<1> QED BY <1>2, <1>4, StepRun

\* So do the processes told to stop and the workers that may take work.
LEMMA WorldType ==
    ASSUME TypeOK, Next
    PROVE  told' \subseteq Executors /\ able' \in [Workers -> BOOLEAN]
<1>1. told \subseteq Executors /\ able \in [Workers -> BOOLEAN]
  BY DEF TypeOK
<1>2. ASSUME NEW s \in Everyone, Commit(s)
      PROVE  UNCHANGED <<told, able>>
  BY <1>2 DEF Commit, CommitRetry, CommitOperator, CommitResult, Rollback,
              CommitOrchestrate, exec
<1>3. ASSUME NEW s \in Sessions, Begin(s)
      PROVE  told' \subseteq told /\ UNCHANGED able
  BY <1>3 DEF Begin, BeginRetry, BeginCancel, BeginCancelRequest, BeginSkip, exec,
              BeginClearQueue, BeginClearHistory, AgentSubmit, AgentReport
<1>4. ASSUME NEW e \in Executors, Executor(e)
      PROVE  told' \subseteq told \cup {e} /\ UNCHANGED able
  BY <1>4 DEF Executor, Claim, ClaimReplyLost, Execute, Progress, LoopCommit,
              AgentAck, AgentTimeout, Crash, StopLocal, exec
<1>5. CASE Orchestrate
  BY <1>1, <1>5 DEF Orchestrate, exec
<1>6. CASE World
  <2>1. ASSUME NEW w \in Workers, SetAble(w) \/ DeleteWorker(w)
        PROVE  able' \in [Workers -> BOOLEAN] /\ UNCHANGED told
    BY <1>1, <2>1 DEF SetAble, DeleteWorker, exec
  <2>2. ASSUME NEW f \in Files, PlanFile(f) \/ \E k \in Jobs : CreateJob(f, k)
        PROVE  UNCHANGED <<told, able>>
    BY <2>2 DEF PlanFile, CreateJob, exec
  <2> QED BY <1>1, <1>6, <2>1, <2>2 DEF World
<1> QED BY <1>1, <1>2, <1>3, <1>4, <1>5, <1>6 DEF Next

\* The invariant holds at the start and every step keeps it.
LEMMA InitTyped == Init => Typed
<1> SUFFICES ASSUME Init PROVE Typed
  OBVIOUS
<1>1. Unused \in Row /\ Unused.status = "unused"
  BY DEF Unused, Row
<1>2. IdleRun \in Run /\ IdleRun.phase = "idle"
  BY DEF IdleRun, Run, Phase
<1>3. TypeOK
  BY <1>1, <1>2, IdleGood DEF TypeOK, Init, FileState
<1>4. RowsOK /\ RunsOK
  BY <1>1, <1>2 DEF Init, RowsOK, RunsOK
<1>5. PatchesOK
  BY IdleGood DEF Init, PatchesOK
<1> QED BY <1>3, <1>4, <1>5 DEF Typed

\* The typing invariant is inductive.
LEMMA NextTyped == Typed /\ [Next]_vars => Typed'
<1> SUFFICES ASSUME Typed, [Next]_vars PROVE Typed'
  OBVIOUS
<1>1. CASE UNCHANGED vars
  BY <1>1 DEF vars, Typed, TypeOK, RowsOK, RunsOK, PatchesOK, GoodTxn
<1>2. CASE Next
  <2>1. /\ job' \in [Jobs -> Row] /\ RowsOK'
        /\ \A j \in Jobs : job[j].status # "unused" => job'[j].status # "unused"
    BY <1>2, StepEffect, EffectType
  <2>2. txn' \in [Everyone -> Txn]
    BY <1>2, StepTxn DEF TxnOK, Typed, TypeOK
  <2>3. ASSUME NEW q \in Everyone
        PROVE  GoodTxn(txn'[q], job)
    BY <1>2, StepTxn DEF TxnOK, Typed, PatchesOK
  <2>4. ASSUME NEW q \in Everyone
        PROVE  GoodTxn(txn'[q], job')
    <3>1. txn'[q] \in Txn
      BY <2>2
    <3>2. DOMAIN txn'[q].rows \in SUBSET Jobs
      BY <3>1 DEF Txn
    <3> QED BY <2>1, <2>3, <3>2 DEF GoodTxn
  <2>5. PatchesOK'
    BY <2>4 DEF PatchesOK
  <2>6. TypeOK'
    BY <1>2, <2>1, <2>2, StepLife, RunType, WorldType DEF TypeOK, Typed
  <2> QED BY <1>2, <2>1, <2>5, <2>6, RunType DEF Typed
<1> QED BY <1>1, <1>2

\* The typing invariant (Typed) holds in every reachable state; every other
\* proof of this module starts from it.
THEOREM InductiveInvariant == Spec => []Typed
BY InitTyped, NextTyped, PTL DEF Spec

\* Type correctness: every row, file, executor and open handler has its type
\* in every reachable state.
THEOREM TypeCorrect == Spec => []TypeOK
<1>1. Typed => TypeOK
  BY DEF Typed
<1> QED BY <1>1, InductiveInvariant, PTL

-----------------------------------------------------------------------------
(* The two safety invariants.                                              *)

\* None of the four effects gives a file a second active job.
LEMMA OneActiveStep ==
    ASSUME Typed, OneActivePerFile, JobEffect
    PROVE  OneActivePerFile'
<1> DEFINE One(A) == \A j, k \in Jobs : Occupies(A[j]) /\ Occupies(A[k])
                                          /\ A[j].file = A[k].file => j = k
<1>1. One(job)
  BY DEF OneActivePerFile, Occupies
<1>2. ASSUME NEW B, Quiet(job, B)
      PROVE  One(B)
  BY <1>1, <1>2 DEF Quiet, Kept
<1>3. ASSUME NEW w \in Workers, NEW j \in Jobs, Claimed(w, j)
      PROVE  One(job')
  <2>1. ASSUME NEW k \in Jobs
        PROVE  /\ job'[k].file = job[k].file
               /\ Occupies(job'[k]) => Occupies(job[k])
    <3>1. job[j] \in Row /\ job \in [Jobs -> Row] /\ Occupies(job[j])
      BY <1>3 DEF Typed, TypeOK, Claimed, Occupies, Active, Queued
    <3>2. MarkClaimed(job[j], w).file = job[j].file
      BY <3>1 DEF MarkClaimed, Row
    <3> QED BY <1>3, <3>1, <3>2 DEF Claimed
  <2> QED BY <1>1, <2>1
<1>4. ASSUME NEW T \in [Jobs -> Row], NEW k \in Jobs, NEW f \in Files,
             NEW n \in 1..MaxAttempt, NEW st \in Queued, InsertedInto(T, k, f, n, st)
      PROVE  One(job')
  <2>1. One(T)
    BY <1>2, <1>4 DEF InsertedInto
  <2>2. ~\E j \in Jobs : Occupies(T[j]) /\ T[j].file = f
    BY <1>4 DEF InsertedInto, HasActive
  <2>3. /\ job'[k].file = f
        /\ \A j \in Jobs : j # k => job'[j] = T[j]
    <3>1. Inserted(f, n, st).file = f
      BY DEF Inserted, Unused
    <3> QED BY <1>4, <3>1 DEF InsertedInto
  <2> QED BY <2>1, <2>2, <2>3
<1>5. IndexOK(job') => One(job')
  BY DEF IndexOK
<1>6. Quiet(job, job') => One(job')
  BY <1>2
<1>7. One(job') => OneActivePerFile'
  BY Zenon DEF OneActivePerFile, Occupies
<1> HIDE DEF One
<1> QED BY <1>3, <1>4, <1>5, <1>6, <1>7 DEF JobEffect

\* At most one pending, scheduled or running job per tracked file, with every
\* handler interleaved with every other: create and retry look under the file's
\* lock, the other handlers never write an active status, and the orchestration
\* loop is the only one the index has to stop.
THEOREM OneActive == Spec => []OneActivePerFile
<1>1. Init => OneActivePerFile
  BY DEF Init, OneActivePerFile, Unused, Active, Queued
<1>2. Typed /\ OneActivePerFile /\ [Next]_vars => OneActivePerFile'
  <2>1. ASSUME Typed, OneActivePerFile, Next PROVE OneActivePerFile'
    BY <2>1, StepEffect, OneActiveStep
  <2>2. ASSUME OneActivePerFile, UNCHANGED vars PROVE OneActivePerFile'
    BY <2>2 DEF vars, OneActivePerFile
  <2> QED BY <2>1, <2>2
<1> QED BY <1>1, <1>2, InductiveInvariant, PTL DEF Spec

\* A set with room for one more element takes it.
LEMMA OneMore ==
    ASSUME NEW S, IsFiniteSet(S), NEW x, NEW U \in SUBSET (S \cup {x}),
           NEW c \in Nat, Cardinality(S) < c
    PROVE  Cardinality(U) <= c
<1>1. Cardinality(S) \in Nat
  BY FS_CardinalityType
<1>2. IsFiniteSet(S \cup {x})
  BY FS_AddElement
<1>3. Cardinality(S \cup {x}) \in Nat /\ Cardinality(S \cup {x}) <= Cardinality(S) + 1
  <2>1. Cardinality(S \cup {x}) = IF x \in S THEN Cardinality(S) ELSE Cardinality(S) + 1
    BY FS_AddElement
  <2> QED BY <1>1, <2>1
<1>4. Cardinality(U) \in Nat /\ Cardinality(U) <= Cardinality(S \cup {x})
  BY <1>2, FS_Subset, FS_CardinalityType
<1> QED BY <1>1, <1>3, <1>4

\* None of the four effects takes a worker beyond its limit: only a claim adds
\* to a worker's running jobs, and it has counted them.
LEMMA CapacityStep ==
    ASSUME Typed, CapacityRespected, JobEffect
    PROVE  CapacityRespected'
<1> SUFFICES ASSUME NEW w \in Workers
             PROVE  Cardinality(RunningOn(job', w)) <= Cap[w]
  BY DEF CapacityRespected
<1>1. /\ IsFiniteSet(RunningOn(job, w))
      /\ Cardinality(RunningOn(job, w)) \in Nat
      /\ Cardinality(RunningOn(job, w)) <= Cap[w]
      /\ Cap[w] \in Nat \ {0}
  <2>1. RunningOn(job, w) \subseteq Jobs
    BY DEF RunningOn
  <2>2. IsFiniteSet(RunningOn(job, w))
    BY <2>1, FS_Subset
  <2> QED BY <2>2, FS_CardinalityType DEF CapacityRespected
<1>2. ASSUME RunningOn(job', w) \subseteq RunningOn(job, w)
      PROVE  Cardinality(RunningOn(job', w)) <= Cap[w]
  <2>1. /\ Cardinality(RunningOn(job', w)) \in Nat
        /\ Cardinality(RunningOn(job', w)) <= Cardinality(RunningOn(job, w))
    BY <1>1, <1>2, FS_Subset, FS_CardinalityType
  <2> QED BY <1>1, <2>1
<1>3. ASSUME NEW B, Kept(job, B)
      PROVE  RunningOn(B, w) \subseteq RunningOn(job, w)
  BY <1>3 DEF Kept, RunningOn
<1>4. ASSUME NEW v \in Workers, NEW j \in Jobs, Claimed(v, j)
      PROVE  Cardinality(RunningOn(job', w)) <= Cap[w]
  <2>1. job[j] \in Row /\ job \in [Jobs -> Row]
    BY <1>4 DEF Typed, TypeOK
  <2>2. MarkClaimed(job[j], v).worker = v
    BY <2>1 DEF MarkClaimed, Row
  <2>3. job' = [job EXCEPT ![j] = MarkClaimed(job[j], v)]
    BY <1>4 DEF Claimed
  <2>4. CASE v # w
    <3>1. RunningOn(job', w) \subseteq RunningOn(job, w)
      BY <2>1, <2>2, <2>3, <2>4 DEF RunningOn
    <3> QED BY <1>2, <3>1
  <2>5. CASE v = w
    <3>1. RunningOn(job', w) \subseteq RunningOn(job, w) \cup {j}
      BY <2>1, <2>2, <2>3 DEF RunningOn
    <3>2. Cardinality(RunningOn(job, w)) < Cap[w]
      BY <1>4, <2>5 DEF Claimed
    <3> QED BY <1>1, <3>1, <3>2, OneMore
  <2> QED BY <2>4, <2>5
<1>5. ASSUME NEW T \in [Jobs -> Row], NEW k \in Jobs, NEW f \in Files,
             NEW n \in 1..MaxAttempt, NEW st \in Queued, InsertedInto(T, k, f, n, st)
      PROVE  RunningOn(job', w) \subseteq RunningOn(job, w)
  <2>1. RunningOn(T, w) \subseteq RunningOn(job, w)
    BY <1>3, <1>5 DEF InsertedInto, Quiet
  <2>2. Inserted(f, n, st).status = st /\ st # "running"
    BY DEF Inserted, Unused, Queued
  <2>3. RunningOn(job', w) \subseteq RunningOn(T, w)
    BY <1>5, <2>2 DEF InsertedInto, RunningOn
  <2> QED BY <2>1, <2>3
<1> QED BY <1>2, <1>3, <1>4, <1>5 DEF JobEffect, Quiet

\* No worker is shown more running jobs than its limit: only the claim writes
\* "running" or a worker, and it counts in the step that writes.
THEOREM Capacity == Spec => []CapacityRespected
<1>1. Init => CapacityRespected
  <2> SUFFICES ASSUME Init, NEW w \in Workers
               PROVE  Cardinality(RunningOn(job, w)) <= Cap[w]
    BY DEF CapacityRespected
  <2>1. RunningOn(job, w) = {}
    BY DEF Init, RunningOn, Unused
  <2> QED BY <2>1, FS_EmptySet
<1>2. Typed /\ CapacityRespected /\ [Next]_vars => CapacityRespected'
  <2>1. ASSUME Typed, CapacityRespected, Next PROVE CapacityRespected'
    BY <2>1, StepEffect, CapacityStep
  <2>2. ASSUME CapacityRespected, UNCHANGED vars PROVE CapacityRespected'
    BY <2>2 DEF vars, CapacityRespected, RunningOn
  <2> QED BY <2>1, <2>2
<1> QED BY <1>1, <1>2, InductiveInvariant, PTL DEF Spec

-----------------------------------------------------------------------------
(* What a file shows of its jobs.                                          *)
(*                                                                         *)
(* A file becomes "queued" only with the insertion of a job, so a handler  *)
(* that would take a queued file's job away has seen the file queued and   *)
(* will rewrite it: its patch of the file holds a value.                   *)

\* The patch leaves a row of the queue in the queue, or rewrites its file.
Harmless(t, j, f) ==
    \/ t.rows[j].status \in Queued \cup {Keep} /\ t.rows[j].cleared = Keep
    \/ f \in DOMAIN t.files /\ t.files[f] # Keep

\* An open handler's patches against the tables: it puts no file in the queue,
\* and the orchestration loop writes no file at all.
GoodFiles(t, J, L) ==
    /\ \A j \in DOMAIN t.rows :
        Occupies(J[j]) /\ L[J[j].file] = "queued" => Harmless(t, j, J[j].file)
    /\ \A f \in DOMAIN t.files : t.files[f] # "queued"
    /\ t.op = "orchestrate" => DOMAIN t.files = {}

\* Only a handler that records a result writes "failed", on one row.
GoodResult(t) ==
    \A j \in DOMAIN t.rows :
        IF t.op \in {"submit", "report"}
        THEN t.rows[j].status = t.result /\ \A i \in DOMAIN t.rows : i = j
        ELSE t.rows[j].status # "failed"

\* A job that counts for a queued file has not been claimed.
QueuedIdle ==
    \A j \in Jobs : Occupies(job[j]) /\ life[job[j].file] = "queued" => job[j].status \in Queued

FilesOK == \A s \in Everyone : GoodFiles(txn[s], job, life) /\ GoodResult(txn[s])

Shown == QueuedFileHasJob /\ QueuedIdle /\ FilesOK

\* From the tables J, L to K, M no row starts to occupy its file, no file
\* becomes queued, and the rows of queued files stay in the queue.
Calm(J, L, K, M) ==
    /\ \A j \in Jobs : K[j].file = J[j].file
    /\ \A j \in Jobs : Occupies(K[j]) => Occupies(J[j])
    /\ \A f \in Files : M[f] = "queued" => L[f] = "queued"
    /\ \A j \in Jobs : Occupies(J[j]) /\ M[J[j].file] = "queued"
          => Occupies(K[j]) /\ K[j].status \in Queued \cup {J[j].status}

\* What the properties say of tables that open handlers will write to.
Shows(J, L) ==
    /\ \A f \in Files : L[f] = "queued" => HasActive(J, f)
    /\ \A j \in Jobs : Occupies(J[j]) /\ L[J[j].file] = "queued" => J[j].status \in Queued
    /\ \A s \in Everyone : GoodFiles(txn[s], J, L)

\* A row that occupies a file names one.
LEMMA OccupiedFile ==
    ASSUME Typed, NEW j \in Jobs, Occupies(job[j])
    PROVE  job[j].file \in Files
BY DEF Typed, RowsOK, Occupies, Active, Queued

\* Calm steps keep what is shown.
LEMMA CalmShows ==
    ASSUME Typed, Shows(job, life), NEW K, NEW M, Calm(job, life, K, M)
    PROVE  Shows(K, M)
<1>1. ASSUME NEW f \in Files, M[f] = "queued"
      PROVE  HasActive(K, f)
  <2>1. PICK j \in Jobs : Occupies(job[j]) /\ job[j].file = f
    BY <1>1 DEF Calm, Shows, HasActive
  <2> QED BY <1>1, <2>1 DEF Calm, HasActive
<1>2. ASSUME NEW j \in Jobs, Occupies(K[j]), M[K[j].file] = "queued"
      PROVE  Occupies(job[j]) /\ life[job[j].file] = "queued" /\ K[j].status \in Queued
  <2>1. Occupies(job[j]) /\ M[job[j].file] = "queued"
    BY <1>2 DEF Calm
  <2>2. life[job[j].file] = "queued"
    BY <2>1, OccupiedFile DEF Calm
  <2>3. job[j].status \in Queued
    BY <2>1, <2>2 DEF Shows
  <2>4. K[j].status \in Queued \cup {job[j].status}
    BY <2>1 DEF Calm
  <2> QED BY <2>1, <2>2, <2>3, <2>4
<1>3. ASSUME NEW s \in Everyone
      PROVE  GoodFiles(txn[s], K, M)
  <2>1. GoodFiles(txn[s], job, life)
    BY DEF Shows
  <2>2. DOMAIN txn[s].rows \subseteq Jobs
    BY TxnType DEF Typed, Loaded
  <2>3. ASSUME NEW j \in DOMAIN txn[s].rows, Occupies(K[j]), M[K[j].file] = "queued"
        PROVE  Harmless(txn[s], j, K[j].file)
    <3>1. Occupies(job[j]) /\ life[job[j].file] = "queued" /\ K[j].file = job[j].file
      BY <1>2, <2>2, <2>3 DEF Calm
    <3>2. Harmless(txn[s], j, job[j].file)
      BY <2>1, <3>1 DEF GoodFiles
    <3> QED BY <3>1, <3>2
  <2> QED BY <2>1, <2>3 DEF GoodFiles
<1> QED BY <1>1, <1>2, <1>3 DEF Shows

\* So does the insertion of a job, which queues its file.
LEMMA InsertShows ==
    ASSUME Typed, NEW T \in [Jobs -> Row], NEW L \in [Files -> FileState], Shows(T, L),
           \A j \in Jobs : job[j].status # "unused" => T[j].status # "unused",
           NEW k \in Jobs, T[k].status = "unused", NEW f \in Files, ~HasActive(T, f),
           NEW n, NEW st \in Queued
    PROVE  Shows([T EXCEPT ![k] = Inserted(f, n, st)], [L EXCEPT ![f] = "queued"])
<1> DEFINE K == [T EXCEPT ![k] = Inserted(f, n, st)]
           M == [L EXCEPT ![f] = "queued"]
           row == Inserted(f, n, st)
<1>1. row.status = st /\ row.file = f /\ row.cleared = FALSE
  BY DEF Inserted, Unused
<1>2. Occupies(row)
  BY <1>1 DEF Occupies, Active
<1>3. ~Occupies(T[k])
  BY DEF Occupies, Active, Queued
<1> HIDE DEF row
<1>4. K[k] = row /\ \A j \in Jobs : j # k => K[j] = T[j]
  BY DEF row
<1>5. M[f] = "queued" /\ \A g : g # f => M[g] = L[g]
  OBVIOUS
<1> HIDE DEF K, M
<1>6. ASSUME NEW g \in Files, M[g] = "queued"
      PROVE  HasActive(K, g)
  <2>1. CASE g = f
    BY <1>1, <1>2, <1>4, <2>1 DEF HasActive
  <2>2. CASE g # f
    <3>1. PICK j \in Jobs : Occupies(T[j]) /\ T[j].file = g
      BY <1>5, <1>6, <2>2 DEF Shows, HasActive
    <3> QED BY <1>3, <1>4, <3>1 DEF HasActive
  <2> QED BY <2>1, <2>2
<1>7. ASSUME NEW j \in Jobs, Occupies(K[j]), M[K[j].file] = "queued", j # k
      PROVE  Occupies(T[j]) /\ L[T[j].file] = "queued" /\ K[j] = T[j]
  <2>1. Occupies(T[j]) /\ K[j] = T[j]
    BY <1>4, <1>7
  <2>2. T[j].file # f
    BY <2>1 DEF HasActive
  <2> QED BY <1>5, <1>7, <2>1, <2>2
<1>8. ASSUME NEW j \in Jobs, Occupies(K[j]), M[K[j].file] = "queued"
      PROVE  K[j].status \in Queued
  <2>1. CASE j = k
    BY <1>1, <1>4, <2>1
  <2>2. CASE j # k
    BY <1>7, <1>8, <2>2 DEF Shows
  <2> QED BY <2>1, <2>2
<1>9. ASSUME NEW s \in Everyone
      PROVE  GoodFiles(txn[s], K, M)
  <2>1. GoodFiles(txn[s], T, L)
    BY DEF Shows
  <2>2. \A j \in DOMAIN txn[s].rows : j \in Jobs /\ j # k
    BY TxnType DEF Typed, Loaded, PatchesOK, GoodTxn
  <2>3. ASSUME NEW j \in DOMAIN txn[s].rows, Occupies(K[j]), M[K[j].file] = "queued"
        PROVE  Harmless(txn[s], j, K[j].file)
    <3>1. Occupies(T[j]) /\ L[T[j].file] = "queued" /\ K[j] = T[j]
      BY <1>7, <2>2, <2>3
    <3>2. Harmless(txn[s], j, T[j].file)
      BY <2>1, <3>1 DEF GoodFiles
    <3> QED BY <3>1, <3>2
  <2> QED BY <2>1, <2>3 DEF GoodFiles
<1> QED BY <1>6, <1>8, <1>9 DEF Shows, K, M, row

\* Tables that stay are calm.
LEMMA CalmSame == Calm(job, life, job, life)
BY DEF Calm

\* A row that stops counting for its file, or is claimed, is calm when the
\* file is rewritten with it.
LEMMA CalmMark ==
    ASSUME NEW T \in [Jobs -> Row], NEW L \in [Files -> FileState], Calm(job, life, T, L),
           NEW j \in Jobs, NEW r, r.file = T[j].file, T[j].file \in Files,
           Occupies(r) => Occupies(T[j]), NEW v, v # "queued"
    PROVE  Calm(job, life, [T EXCEPT ![j] = r], [L EXCEPT ![T[j].file] = v])
<1> DEFINE K == [T EXCEPT ![j] = r]
           M == [L EXCEPT ![T[j].file] = v]
<1>1. K[j] = r /\ \A i \in Jobs : i # j => K[i] = T[i]
  OBVIOUS
<1>2. M[T[j].file] = v /\ \A g : g # T[j].file => M[g] = L[g]
  OBVIOUS
<1> HIDE DEF K, M
<1>3. \A i \in Jobs : K[i].file = T[i].file /\ (Occupies(K[i]) => Occupies(T[i]))
  BY <1>1
<1>4. \A f \in Files : M[f] = "queued" => L[f] = "queued"
  BY <1>2
<1>5. ASSUME NEW i \in Jobs, Occupies(job[i]), M[job[i].file] = "queued"
      PROVE  Occupies(K[i]) /\ K[i].status \in Queued \cup {job[i].status}
  <2>1. i # j /\ L[job[i].file] = "queued"
    BY <1>2, <1>5 DEF Calm
  <2> QED BY <1>1, <1>5, <2>1 DEF Calm
<1> QED BY <1>3, <1>4, <1>5 DEF Calm, K, M

\* A handler's flush is calm, the orchestration loop's apart.
LEMMA CalmFlush ==
    ASSUME Typed, Shows(job, life), NEW s \in Everyone, txn[s].op # "orchestrate"
    PROVE  Calm(job, life, Flushed(s), FilesFlushed(s))
<1> DEFINE t == txn[s]
           K == Flushed(s)
           M == FilesFlushed(s)
<1>1. \A j \in Jobs : K[j].file = job[j].file /\ (Occupies(K[j]) => Occupies(job[j]))
  BY FlushedQuiet DEF Quiet, Kept
<1>2. GoodFiles(t, job, life)
  BY DEF Shows
<1>3. ASSUME NEW f \in Files, M[f] = "queued"
      PROVE  life[f] = "queued" /\ ~(f \in DOMAIN t.files /\ t.files[f] # Keep)
  <2>1. CASE f \in DOMAIN t.files
    <3>1. M[f] = Column(life[f], t.files[f]) /\ t.files[f] # "queued"
      BY <1>2, <2>1 DEF FilesFlushed, GoodFiles
    <3> QED BY <1>3, <3>1 DEF Column
  <2>2. CASE f \notin DOMAIN t.files
    BY <1>3, <2>2 DEF FilesFlushed
  <2> QED BY <2>1, <2>2
<1>4. ASSUME NEW j \in Jobs, Occupies(job[j]), M[job[j].file] = "queued"
      PROVE  Occupies(K[j]) /\ K[j].status \in Queued \cup {job[j].status}
  <2>1. CASE j \in DOMAIN t.rows
    <3>1. t.rows[j].status \in Queued \cup {Keep} /\ t.rows[j].cleared = Keep
      BY <1>2, <1>3, <1>4, <2>1, OccupiedFile DEF GoodFiles, Harmless
    <3>2. job[j] \in Row /\ t.rows[j] \in Patch
      BY <2>1, TxnType DEF Typed, TypeOK, Loaded
    <3>3. K[j] = Merge(job[j], t.rows[j])
      BY <2>1 DEF Flushed, Loaded
    <3>4. /\ K[j].status = Column(job[j].status, t.rows[j].status)
          /\ K[j].cleared = Column(job[j].cleared, t.rows[j].cleared)
      BY <3>2, <3>3, MergeType
    <3>5. K[j].status \in Queued \cup {job[j].status} /\ K[j].cleared = job[j].cleared
      BY <3>1, <3>4 DEF Column
    <3>6. job[j].status \in Active /\ ~job[j].cleared
      BY <1>4 DEF Occupies
    <3>7. K[j].status \in Active
      BY <3>5, <3>6 DEF Active
    <3>8. Occupies(K[j])
      BY <3>5, <3>6, <3>7, Zenon DEF Occupies
    <3> QED BY <3>5, <3>8
  <2>2. CASE j \notin DOMAIN t.rows
    BY <1>4, <2>2 DEF Flushed, Loaded
  <2> QED BY <2>1, <2>2
<1> QED BY <1>1, <1>3, <1>4 DEF Calm

\* The tables after a step are calm ones, those with one more job in the queue,
\* or what a run of the orchestration loop made of them.
OneQueued(T, L, k, f, n, st) ==
    /\ Calm(job, life, T, L)
    /\ \A j \in Jobs : job[j].status # "unused" => T[j].status # "unused"
    /\ T[k].status = "unused" /\ ~HasActive(T, f)
    /\ job' = [T EXCEPT ![k] = Inserted(f, n, st)]
    /\ life' = [L EXCEPT ![f] = "queued"]

ShowEffect ==
    \/ Calm(job, life, job', life')
    \/ \E T \in [Jobs -> Row], L \in [Files -> FileState], k \in Jobs, f \in Files, n \in Nat,
          st \in Queued : OneQueued(T, L, k, f, n, st)
    \/ CommitOrchestrate

\* Recording a result after calm tables.
LEMMA SettleShow ==
    ASSUME Typed, NEW T \in [Jobs -> Row], NEW L \in [Files -> FileState],
           Calm(job, life, T, L),
           \A i \in Jobs : job[i].status # "unused" => T[i].status # "unused",
           NEW j \in Jobs, job[j].status # "unused", NEW result, Settle(T, L, j, result)
    PROVE  ShowEffect
<1>1. T[j].file = job[j].file /\ job[j].file \in Files
  BY DEF Calm, Typed, RowsOK
<1>2. CASE job' = T /\ life' = L
  BY <1>2 DEF ShowEffect
<1>3. CASE job' = [T EXCEPT ![j] = MarkReview(@)] /\ life' = [L EXCEPT ![job[j].file] = "manual_review"]
  <2> DEFINE r == MarkReview(T[j])
  <2>1. r.file = T[j].file /\ r.status = "manual_review"
    <3>1. T[j] \in Row
      OBVIOUS
    <3> QED BY <3>1, MarkType
  <2>2. ~Occupies(r)
    BY <2>1 DEF Occupies, Active, Queued
  <2>3. job' = [T EXCEPT ![j] = r] /\ life' = [L EXCEPT ![T[j].file] = "manual_review"]
    BY <1>1, <1>3
  <2> HIDE DEF r
  <2>4. Calm(job, life, [T EXCEPT ![j] = r], [L EXCEPT ![T[j].file] = "manual_review"])
    BY <1>1, <2>1, <2>2, CalmMark
  <2> QED BY <2>3, <2>4 DEF ShowEffect
<1>4. CASE /\ ~HasActive(T, job[j].file)
           /\ \E k \in Jobs :
                /\ T[k] = Unused
                /\ job' = [T EXCEPT ![k] = Inserted(job[j].file, T[j].attempt + 1, "scheduled")]
           /\ life' = [L EXCEPT ![job[j].file] = "queued"]
  <2>1. PICK k \in Jobs :
            /\ T[k] = Unused
            /\ job' = [T EXCEPT ![k] = Inserted(job[j].file, T[j].attempt + 1, "scheduled")]
    BY <1>4
  <2>2. T[k].status = "unused" /\ "scheduled" \in Queued
    BY <2>1 DEF Unused, Queued
  <2>3. OneQueued(T, L, k, job[j].file, T[j].attempt + 1, "scheduled")
    BY <1>4, <2>1, <2>2 DEF OneQueued
  <2>4. T[j].attempt + 1 \in Nat
    BY DEF Row
  <2> QED BY <1>1, <2>2, <2>3, <2>4 DEF ShowEffect
<1> QED BY <1>2, <1>3, <1>4 DEF Settle

\* Every step has one of the three effects.
LEMMA StepShow ==
    ASSUME Typed, Shows(job, life), Next
    PROVE  ShowEffect
<1> USE DEF Typed
<1>1. job \in [Jobs -> Row] /\ life \in [Files -> FileState]
  BY DEF TypeOK
<1>2. CASE UNCHANGED table
  BY <1>2, CalmSame DEF ShowEffect, table
<1>3. ASSUME NEW f \in Files, NEW k \in Jobs, CreateJob(f, k)
      PROVE  ShowEffect
  <2>1. PICK st \in Queued : job' = [job EXCEPT ![k] = Inserted(f, 1, st)]
    BY <1>3 DEF CreateJob
  <2>2. job[k].status = "unused" /\ ~HasActive(job, f) /\ life' = [life EXCEPT ![f] = "queued"]
    BY <1>3 DEF CreateJob, Unused
  <2>3. OneQueued(job, life, k, f, 1, st)
    BY <2>1, <2>2, CalmSame DEF OneQueued
  <2> QED BY <1>1, <2>3 DEF ShowEffect
<1>4. ASSUME NEW s \in Everyone, CommitRetry(s)
      PROVE  ShowEffect
  <2>1. PICK j \in Loaded(s), k \in Jobs, st \in Queued :
            /\ job[k] = Unused
            /\ ~HasActive(job, job[j].file)
            /\ job' = [job EXCEPT ![j] = MarkCleared(@),
                                  ![k] = Inserted(job[j].file, job[j].attempt + 1, st)]
            /\ life' = [life EXCEPT ![job[j].file] = "queued"]
    BY <1>4 DEF CommitRetry
  <2> DEFINE T == [job EXCEPT ![j] = MarkCleared(job[j])]
  <2>2. j \in Jobs /\ job[j].status # "unused" /\ job[k].status = "unused" /\ j # k
    <3>1. j \in Jobs /\ job[j].status # "unused"
      BY <2>1, TxnType DEF PatchesOK, GoodTxn, Loaded
    <3>2. job[k].status = "unused"
      BY <2>1 DEF Unused
    <3> QED BY <3>1, <3>2
  <2>3. /\ MarkCleared(job[j]) \in Row /\ MarkCleared(job[j]).file = job[j].file
        /\ MarkCleared(job[j]).status = job[j].status /\ MarkCleared(job[j]).cleared = TRUE
    <3>1. job[j] \in Row
      BY <1>1, <2>2
    <3> QED BY <3>1, MarkType
  <2>4. /\ T \in [Jobs -> Row] /\ T[k].status = "unused"
        /\ \A i \in Jobs : T[i].file = job[i].file /\ T[i].status = job[i].status
        /\ \A i \in Jobs : i # j => T[i] = job[i]
        /\ ~Occupies(T[j]) /\ ~Occupies(job[j])
    <3>1. ~Occupies(job[j])
      BY <2>1, <2>2 DEF HasActive
    <3> QED BY <1>1, <2>2, <2>3, <3>1 DEF Occupies
  <2>5. job' = [T EXCEPT ![k] = Inserted(job[j].file, job[j].attempt + 1, st)]
    BY <1>1, <2>1, <2>2
  <2> HIDE DEF T
  <2>6. \A i \in Jobs : Occupies(T[i]) <=> Occupies(job[i])
    BY <2>4
  <2>7. Calm(job, life, T, life)
    BY <2>4, <2>6 DEF Calm
  <2>8. ~HasActive(T, job[j].file) /\ job[j].file \in Files
    BY <2>1, <2>2, <2>4, <2>6 DEF HasActive, RowsOK
  <2>9. OneQueued(T, life, k, job[j].file, job[j].attempt + 1, st)
    BY <2>1, <2>4, <2>5, <2>7, <2>8 DEF OneQueued
  <2>10. job[j].attempt + 1 \in Nat
    BY <1>1, <2>2 DEF Row
  <2> QED BY <1>1, <2>1, <2>4, <2>8, <2>9, <2>10 DEF ShowEffect
<1>5. ASSUME NEW s \in Everyone, CommitOperator(s)
      PROVE  ShowEffect
  BY <1>5, CalmFlush DEF CommitOperator, ShowEffect
<1>6. ASSUME NEW s \in Everyone, CommitResult(s)
      PROVE  ShowEffect
  <2>1. PICK j \in Loaded(s) : Settle(Flushed(s), FilesFlushed(s), j, txn[s].result)
    BY <1>6 DEF CommitResult
  <2>2. j \in Jobs /\ job[j].status # "unused"
    BY TxnType DEF PatchesOK, GoodTxn, Loaded
  <2>3. Calm(job, life, Flushed(s), FilesFlushed(s))
    BY <1>6, CalmFlush DEF CommitResult
  <2>4. /\ Flushed(s) \in [Jobs -> Row]
        /\ \A i \in Jobs : job[i].status # "unused" => Flushed(s)[i].status # "unused"
    BY FlushedKept DEF Kept
  <2>5. FilesFlushed(s) \in [Files -> FileState]
    BY FilesFlushedType
  <2> QED BY <2>1, <2>2, <2>3, <2>4, <2>5, SettleShow
<1>7. ASSUME NEW w \in Workers, NEW j \in Jobs, ClaimRow(w, j)
      PROVE  ShowEffect
  <2> DEFINE r == MarkClaimed(job[j], w)
  <2>1. /\ job' = [job EXCEPT ![j] = r] /\ life' = [life EXCEPT ![job[j].file] = "processing"]
        /\ Occupies(job[j])
    BY <1>7 DEF ClaimRow, Occupies, Active, Queued
  <2>2. job[j] \in Row /\ job[j].file \in Files
    BY <1>1, <2>1, OccupiedFile
  <2>3. r.file = job[j].file
    BY <2>2 DEF MarkClaimed, Row
  <2> HIDE DEF r
  <2>4. Calm(job, life, [job EXCEPT ![j] = r], [life EXCEPT ![job[j].file] = "processing"])
    BY <1>1, <2>1, <2>2, <2>3, CalmMark, CalmSame
  <2> QED BY <2>1, <2>4 DEF ShowEffect
<1>8. ASSUME NEW e \in Executors, LoopCommit(e)
      PROVE  ShowEffect
  <2> DEFINE j == run[e].job
             v == LifeOf(run[e].result)
             r == MarkResult(job[j], run[e].result)
             T == [job EXCEPT ![j] = r]
             L == [life EXCEPT ![job[j].file] = v]
  <2>1. j \in Jobs /\ job[j].status # "unused" /\ run[e].result \in Results
    BY <1>8 DEF LoopCommit, RunsOK
  <2>2. job[j] \in Row /\ job[j].file \in Files
    BY <1>1, <2>1 DEF RowsOK
  <2>3. r \in Row /\ r.file = job[j].file /\ r.status = run[e].result
    <3> DEFINE q == job[j]
               x == run[e].result
    <3>1. q \in Row /\ x \in Results
      BY <2>1, <2>2
    <3> HIDE DEF q, x
    <3>2. MarkResult(q, x) \in Row /\ MarkResult(q, x).file = q.file /\ MarkResult(q, x).status = x
      BY <3>1, ResultType
    <3> QED BY <3>2 DEF q, x
  <2>4. ~Occupies(r)
    BY <2>1, <2>3 DEF Occupies, Active, Queued, Results
  <2>5. v # "queued" /\ v \in FileState
    BY DEF LifeOf, FileState
  <2>6. Settle(T, L, j, run[e].result)
    BY <1>8 DEF LoopCommit
  <2> HIDE DEF j, v, r
  <2>7. Calm(job, life, T, L)
    BY <1>1, <2>1, <2>2, <2>3, <2>4, <2>5, CalmMark, CalmSame
  <2>8. /\ T \in [Jobs -> Row] /\ L \in [Files -> FileState]
        /\ \A i \in Jobs : job[i].status # "unused" => T[i].status # "unused"
    <3>1. r.status # "unused"
      BY <2>1, <2>3 DEF Results
    <3> QED BY <1>1, <2>1, <2>2, <2>3, <2>5, <3>1
  <2> HIDE DEF T, L
  <2> QED BY <2>1, <2>6, <2>7, <2>8, SettleShow
<1>9. ASSUME NEW w \in Workers, DeleteWorker(w)
      PROVE  ShowEffect
  <2>1. ASSUME NEW i \in Jobs
        PROVE  /\ job'[i].status = job[i].status /\ job'[i].cleared = job[i].cleared
               /\ job'[i].file = job[i].file
    BY <1>1, <1>9 DEF DeleteWorker, Row
  <2>2. life' = life
    BY <1>9 DEF DeleteWorker
  <2> QED BY <2>1, <2>2 DEF ShowEffect, Calm, Occupies
<1>10. ASSUME NEW f \in Files, PlanFile(f)
       PROVE  ShowEffect
  <2>1. job' = job /\ life' = [life EXCEPT ![f] = "planned"]
    BY <1>10 DEF PlanFile
  <2>2. \A g \in Files : life'[g] = "queued" => life[g] = "queued"
    BY <1>1, <2>1
  <2> QED BY <2>1, <2>2 DEF ShowEffect, Calm
<1>11. ASSUME NEW s \in Everyone, Rollback(s) \/ Begin(s)
       PROVE  UNCHANGED table
  BY <1>11 DEF Rollback, Begin, BeginRetry, BeginCancel, BeginCancelRequest, BeginSkip,
               BeginClearQueue, BeginClearHistory, AgentSubmit, AgentReport
<1>12. ASSUME NEW e \in Executors,
              \/ \E r \in Outcomes : Execute(e, r)
              \/ Progress(e) \/ AgentAck(e) \/ AgentTimeout(e) \/ Crash(e) \/ StopLocal(e)
       PROVE  UNCHANGED table
  BY <1>12 DEF Execute, Progress, AgentAck, AgentTimeout, Crash, StopLocal
<1>13. ASSUME (\E w \in Workers : SetAble(w)) \/ Orchestrate
       PROVE  UNCHANGED table
  BY <1>13 DEF SetAble, Orchestrate
<1>14. ASSUME NEW e \in Executors, NEW j \in Jobs, Claim(e, j) \/ ClaimReplyLost(e, j)
       PROVE  ShowEffect
  <2>1. WorkerOf[e] \in Workers
    OBVIOUS
  <2> QED BY <1>7, <1>14, <2>1 DEF Claim, ClaimReplyLost
<1>15. CommitOrchestrate => ShowEffect
  BY DEF ShowEffect
<1> QED BY <1>2, <1>3, <1>4, <1>5, <1>6, <1>8, <1>9, <1>10, <1>11, <1>12, <1>13, <1>14, <1>15
        DEF Next, Commit, Executor, World, Everyone

\* A run of the orchestration loop takes no job from a queued file, and gives
\* it none: the index stands against a second one.
LEMMA OrchestrateShows ==
    ASSUME Typed, Shows(job, life), CommitOrchestrate
    PROVE  Shows(job', life)
<1> DEFINE K == Flushed(Orch)
           t == txn[Orch]
<1>1. CASE ~IndexOK(K)
  BY <1>1 DEF CommitOrchestrate
<1>2. CASE IndexOK(K)
  <2>1. job' = K /\ t.op = "orchestrate" /\ Orch \in Everyone
    BY <1>2 DEF CommitOrchestrate, Everyone
  <2>2. GoodFiles(t, job, life) /\ GoodTxn(t, job) /\ DOMAIN t.files = {}
    BY <2>1 DEF Shows, GoodFiles, Typed, PatchesOK
  <2>3. \A j \in Jobs : K[j].file = job[j].file
    BY <2>1, FlushedKept DEF Kept
  <2>4. ASSUME NEW j \in DOMAIN t.rows
        PROVE  /\ K[j].status = Column(job[j].status, t.rows[j].status)
               /\ K[j].cleared = Column(job[j].cleared, t.rows[j].cleared)
    <3>1. j \in Jobs /\ job[j] \in Row /\ t.rows[j] \in Patch
      BY <2>1, TxnType DEF Typed, TypeOK, Loaded
    <3>2. K[j] = Merge(job[j], t.rows[j])
      BY <3>1 DEF Flushed, Loaded
    <3> QED BY <3>1, <3>2, MergeType
  <2>5. \A j \in Jobs : j \notin DOMAIN t.rows => K[j] = job[j]
    BY DEF Flushed, Loaded
  <2> HIDE DEF K
  <2>6. ASSUME NEW j \in Jobs, Occupies(job[j]), life[job[j].file] = "queued"
        PROVE  Occupies(K[j]) /\ K[j].status \in Queued
    <3>1. job[j].status \in Queued
      BY <2>6 DEF Shows
    <3>2. CASE j \in DOMAIN t.rows
      <4>1. t.rows[j].status \in Queued \cup {Keep} /\ t.rows[j].cleared = Keep
        BY <2>2, <2>6, <3>2 DEF GoodFiles, Harmless
      <4>2. K[j].status \in Queued /\ K[j].cleared = job[j].cleared
        BY <2>4, <3>1, <3>2, <4>1 DEF Column
      <4> QED BY <2>6, <4>2 DEF Occupies, Active
    <3>3. CASE j \notin DOMAIN t.rows
      BY <2>5, <2>6, <3>1, <3>3
    <3> QED BY <3>2, <3>3
  <2>7. ASSUME NEW f \in Files, life[f] = "queued"
        PROVE  \E k \in Jobs : /\ Occupies(job[k]) /\ job[k].file = f
                               /\ Occupies(K[k]) /\ K[k].file = f
    <3>1. PICK k \in Jobs : Occupies(job[k]) /\ job[k].file = f
      BY <2>7 DEF Shows, HasActive
    <3> QED BY <2>3, <2>6, <2>7, <3>1
  <2>8. ASSUME NEW j \in Jobs, Occupies(K[j]), life[K[j].file] = "queued"
        PROVE  Occupies(job[j])
    <3>1. K[j].status # "unused"
      BY <2>8 DEF Occupies, Active, Queued
    <3>2. job[j].status # "unused"
      BY <2>1, <3>1, FlushedKept DEF Kept, K
    <3>3. K[j].file \in Files
      BY <2>3, <3>2 DEF Typed, RowsOK
    <3>4. PICK k \in Jobs : Occupies(job[k]) /\ Occupies(K[k]) /\ K[k].file = K[j].file
      BY <2>7, <2>8, <3>3
    <3>5. j = k
      BY <1>2, <2>8, <3>4 DEF IndexOK
    <3> QED BY <3>4, <3>5
  <2>9. ASSUME NEW f \in Files, life[f] = "queued"
        PROVE  HasActive(K, f)
    BY <2>7, <2>9 DEF HasActive
  <2>10. ASSUME NEW j \in Jobs, Occupies(K[j]), life[K[j].file] = "queued"
         PROVE  K[j].status \in Queued
    BY <2>3, <2>6, <2>8, <2>10
  <2>11. ASSUME NEW s \in Everyone
         PROVE  GoodFiles(txn[s], K, life)
    <3>1. GoodFiles(txn[s], job, life)
      BY DEF Shows
    <3>2. DOMAIN txn[s].rows \subseteq Jobs
      BY TxnType DEF Typed, Loaded
    <3>3. ASSUME NEW j \in DOMAIN txn[s].rows, Occupies(K[j]), life[K[j].file] = "queued"
          PROVE  Harmless(txn[s], j, K[j].file)
      <4>1. Occupies(job[j]) /\ K[j].file = job[j].file
        BY <2>3, <2>8, <3>2, <3>3
      <4>2. Harmless(txn[s], j, job[j].file)
        BY <3>1, <3>3, <4>1 DEF GoodFiles
      <4> QED BY <4>1, <4>2
    <3> QED BY <3>1, <3>3 DEF GoodFiles
  <2> QED BY <2>1, <2>9, <2>10, <2>11 DEF Shows
<1> QED BY <1>1, <1>2

-----------------------------------------------------------------------------
(* What handlers open with.                                                *)

\* Every open handler is as it was, or harmless on the tables it read.
TxnShown ==
    \A q \in Everyone :
        txn'[q] = txn[q] \/ (GoodFiles(txn'[q], job, life) /\ GoodResult(txn'[q]))

\* A handler that opens with harmless patches.
LEMMA OpenShown ==
    ASSUME Typed, NEW s \in Everyone, NEW op, NEW rows, NEW files, NEW result,
           Open(s, op, rows, files, result),
           GoodFiles([op |-> op, rows |-> rows, files |-> files, result |-> result], job, life),
           GoodResult([op |-> op, rows |-> rows, files |-> files, result |-> result])
    PROVE  TxnShown
<1> DEFINE t == [op |-> op, rows |-> rows, files |-> files, result |-> result]
<1>1. txn' = [txn EXCEPT ![s] = t]
  BY DEF Open
<1>2. GoodFiles(t, job, life) /\ GoodResult(t)
  OBVIOUS
<1> HIDE DEF t
<1> QED BY <1>1, <1>2 DEF TxnShown, Typed, TypeOK

\* A handler that takes the files of its rows out of the queue.
LEMMA OpenPlannedShown ==
    ASSUME Typed, NEW s \in Everyone, NEW op, op # "orchestrate",
           NEW T \in SUBSET Jobs, NEW rows, DOMAIN rows = T,
           NEW new \in FileState \ {"queued"}, NEW result,
           Open(s, op, rows, FilePlan(T, new), result),
           IF op \in {"submit", "report"}
           THEN \A j \in T : rows[j].status = result /\ \A i \in T : i = j
           ELSE \A j \in T : rows[j].status # "failed"
    PROVE  TxnShown
<1> DEFINE files == FilePlan(T, new)
           t == [op |-> op, rows |-> rows, files |-> files, result |-> result]
<1>1. \A f : Changed(life[f], new) # "queued" /\ (life[f] = "queued" => Changed(life[f], new) # Keep)
  BY DEF Changed, FileState
<1>2. /\ DOMAIN files = {job[j].file : j \in T}
      /\ \A f \in DOMAIN files : files[f] = Changed(life[f], new)
  BY DEF FilePlan
<1>3. t.op = op /\ t.rows = rows /\ t.files = files /\ t.result = result
  OBVIOUS
<1> HIDE DEF files
<1>4. GoodFiles(t, job, life)
  BY <1>1, <1>2, <1>3 DEF GoodFiles, Harmless
<1>5. GoodResult(t)
  BY <1>3 DEF GoodResult
<1> QED BY <1>4, <1>5, OpenShown DEF files

\* What patches of the rows T do not disturb.
LeavesShown(T, rows) ==
    \A j \in T : /\ rows[j].status # "failed"
                 /\ Occupies(job[j]) /\ life[job[j].file] = "queued" =>
                       rows[j].status \in Queued \cup {Keep} /\ rows[j].cleared = Keep

\* A handler that leaves the files and what is in the queue alone.
LEMMA OpenBareShown ==
    ASSUME Typed, NEW s \in Everyone, NEW op, op \notin {"submit", "report"},
           NEW T \in SUBSET Jobs, NEW rows, DOMAIN rows = T,
           LeavesShown(T, rows),
           Open(s, op, rows, NoFiles, "none")
    PROVE  TxnShown
<1> DEFINE t == [op |-> op, rows |-> rows, files |-> NoFiles, result |-> "none"]
<1>1. t.op = op /\ t.rows = rows /\ t.files = NoFiles /\ t.result = "none"
  OBVIOUS
<1>2. DOMAIN NoFiles = {}
  BY DEF NoFiles
<1>3. GoodFiles(t, job, life)
  BY <1>1, <1>2 DEF GoodFiles, Harmless, LeavesShown
<1>4. GoodResult(t)
  BY <1>1 DEF GoodResult, LeavesShown
<1> QED BY <1>3, <1>4, OpenShown

\* What a patch says of a column.
LEMMA DiffColumns ==
    ASSUME NEW r, NEW n
    PROVE  /\ Diff(r, n).status = IF n.status = r.status THEN Keep ELSE n.status
           /\ Diff(r, n).cleared = IF n.cleared = r.cleared THEN Keep ELSE n.cleared
BY DEF Diff, Changed

\* The patches the handlers open with, by what they make of a row.
LEMMA MarkShown ==
    ASSUME NEW r \in Row
    PROVE  /\ Diff(r, MarkCancelled(r)).status # "failed"
           /\ Diff(r, MarkSkipped(r)).status # "failed"
           /\ Diff(r, MarkCleared(r)).status = Keep
           /\ Diff(r, MarkCancellationRequested(r)).status = Keep
           /\ Diff(r, MarkCancellationRequested(r)).cleared = Keep
           /\ \A result : Diff(r, MarkResult(r, result)).status =
                            IF result = r.status THEN Keep ELSE result
<1>1. MarkCancelled(r).status = "cancelled"
  BY DEF MarkCancelled, Row
<1>2. MarkSkipped(r).status = "skipped"
  BY DEF MarkSkipped, MarkResult, Row
<1>3. MarkCleared(r).status = r.status
  BY DEF MarkCleared, Row
<1>4. /\ MarkCancellationRequested(r).status = r.status
      /\ MarkCancellationRequested(r).cleared = r.cleared
  BY DEF MarkCancellationRequested, Row
<1>5. \A result : MarkResult(r, result).status = result
  BY DEF MarkResult, Row
<1>6. Keep # "failed"
  BY DEF Status, Results
<1> QED BY <1>1, <1>2, <1>3, <1>4, <1>5, <1>6, DiffColumns

\* Every handler that opens shows what it saw.
LEMMA BeginShown ==
    ASSUME Typed, NEW s \in Everyone, Begin(s)
    PROVE  TxnShown
<1> USE DEF Typed
<1>1. job \in [Jobs -> Row] /\ Keep # "failed"
  BY DEF TypeOK, Status, Results
<1>2. ASSUME UNCHANGED txn PROVE TxnShown
  BY <1>2 DEF TxnShown
<1>3. ASSUME NEW j \in Jobs, BeginRetry(s, j)
      PROVE  TxnShown
  <2> DEFINE rows == Plan({j}, MarkCleared)
  <2>1. DOMAIN rows = {j} /\ rows[j].status = Keep /\ ~Occupies(job[j])
    BY <1>1, <1>3, MarkShown DEF Plan, BeginRetry, Occupies, Active, Queued, Retryable
  <2>2. Open(s, "retry", rows, NoFiles, "none")
    BY <1>3 DEF BeginRetry
  <2>3. LeavesShown({j}, rows)
    BY <1>1, <2>1 DEF LeavesShown
  <2> HIDE DEF rows
  <2> QED BY <2>1, <2>2, <2>3, OpenBareShown
<1>4. ASSUME NEW j \in Jobs, BeginCancel(s, j)
      PROVE  TxnShown
  <2> DEFINE rows == Plan({j}, MarkCancelled)
  <2>1. DOMAIN rows = {j} /\ rows[j].status # "failed"
    BY <1>1, MarkShown DEF Plan
  <2>2. Open(s, "cancel", rows, FilePlan({j}, "planned"), "none")
    BY <1>4 DEF BeginCancel
  <2>3. "planned" \in FileState \ {"queued"}
    BY DEF FileState
  <2> HIDE DEF rows
  <2> QED BY <2>1, <2>2, <2>3, OpenPlannedShown
<1>5. ASSUME NEW j \in Jobs, BeginCancelRequest(s, j)
      PROVE  TxnShown
  <2> DEFINE rows == Plan({j}, MarkCancellationRequested)
  <2>1. DOMAIN rows = {j} /\ rows[j].status = Keep /\ rows[j].cleared = Keep
    BY <1>1, MarkShown DEF Plan
  <2>2. Open(s, "request", rows, NoFiles, "none")
    BY <1>5 DEF BeginCancelRequest
  <2>3. LeavesShown({j}, rows)
    BY <1>1, <2>1 DEF LeavesShown
  <2> HIDE DEF rows
  <2> QED BY <2>1, <2>2, <2>3, OpenBareShown
<1>6. ASSUME NEW j \in Jobs, BeginSkip(s, j)
      PROVE  TxnShown
  <2> DEFINE rows == Plan({j}, MarkSkipped)
  <2>1. DOMAIN rows = {j} /\ rows[j].status # "failed"
    BY <1>1, MarkShown DEF Plan
  <2>2. Open(s, "skip", rows, FilePlan({j}, "completed"), "none")
    BY <1>6 DEF BeginSkip
  <2>3. "completed" \in FileState \ {"queued"}
    BY DEF FileState
  <2> HIDE DEF rows
  <2> QED BY <2>1, <2>2, <2>3, OpenPlannedShown
<1>7. ASSUME BeginClearQueue(s)
      PROVE  TxnShown
  <2> DEFINE T == {j \in Jobs :
                    /\ ~job[j].cleared
                    /\ \/ job[j].status \in Queued
                       \/ job[j].status = "interrupted" /\ job[j].worker = NoWorker}
             rows == Plan(T, MarkCancelled)
  <2>1. T \in SUBSET Jobs /\ DOMAIN rows = T /\ \A j \in T : rows[j].status # "failed"
    BY <1>1, MarkShown DEF Plan
  <2>2. Open(s, "clear_queue", rows, FilePlan(T, "planned"), "none")
    BY <1>7 DEF BeginClearQueue
  <2>3. "planned" \in FileState \ {"queued"}
    BY DEF FileState
  <2> HIDE DEF rows, T
  <2> QED BY <2>1, <2>2, <2>3, OpenPlannedShown
<1>8. ASSUME NEW T \in SUBSET Jobs, BeginClearHistory(s, T)
      PROVE  TxnShown
  <2> DEFINE rows == Plan(T, MarkCleared)
  <2>1. DOMAIN rows = T /\ \A j \in T : rows[j].status = Keep /\ ~Occupies(job[j])
    BY <1>1, <1>8, MarkShown DEF Plan, BeginClearHistory, Occupies, Active, Queued
  <2>2. Open(s, "clear_history", rows, NoFiles, "none")
    BY <1>8 DEF BeginClearHistory
  <2>3. LeavesShown(T, rows)
    BY <1>1, <2>1 DEF LeavesShown
  <2>4. "clear_history" \notin {"submit", "report"} /\ DOMAIN rows = T
    BY <2>1
  <2> HIDE DEF rows
  <2> QED BY <2>2, <2>3, <2>4, OpenBareShown
<1>9. ASSUME NEW j \in Jobs, NEW r \in Results, NEW op \in {"submit", "report"},
             job[j].status = "running", OpenResult(s, op, j, r)
      PROVE  TxnShown
  <2> DEFINE rows == [i \in {j} |-> Diff(job[i], MarkResult(job[i], r))]
  <2>1. DOMAIN rows = {j} /\ rows[j].status = r
    BY <1>1, <1>9, MarkShown DEF Results
  <2>2. Open(s, op, rows, FilePlan({j}, LifeOf(r)), r)
    BY <1>9 DEF OpenResult, Plan
  <2>3. LifeOf(r) \in FileState \ {"queued"}
    BY DEF LifeOf, FileState
  <2> HIDE DEF rows
  <2> QED BY <2>1, <2>2, <2>3, OpenPlannedShown
<1>10. ASSUME NEW e \in Agents, AgentSubmit(e, s)
       PROVE  TxnShown
  <2>1. CASE /\ Accepts(WorkerOf[e], run[e].job)
             /\ \E r \in {run[e].result, "failed"} :
                   OpenResult(s, "submit", run[e].job, Effective(r, job[run[e].job].cancel))
    <3>1. PICK r \in {run[e].result, "failed"} :
             OpenResult(s, "submit", run[e].job, Effective(r, job[run[e].job].cancel))
      BY <2>1
    <3>2. run[e].result \in Results /\ run[e].job \in Jobs
      BY <1>10 DEF AgentSubmit, RunsOK, Agents
    <3>3. Effective(r, job[run[e].job].cancel) \in Results
      BY <3>2 DEF Effective, Results
    <3> QED BY <1>9, <2>1, <3>1, <3>2, <3>3 DEF Accepts
  <2> QED BY <1>2, <1>10, <2>1 DEF AgentSubmit
<1>11. ASSUME NEW e \in Agents, AgentReport(e, s)
       PROVE  TxnShown
  <2>1. CASE Accepts(WorkerOf[e], run[e].job) /\ OpenResult(s, "report", run[e].job, "failed")
    <3>1. run[e].job \in Jobs
      BY <1>11 DEF AgentReport, RunsOK, Agents
    <3> QED BY <1>9, <2>1, <3>1 DEF Accepts, Results
  <2> QED BY <1>2, <1>11, <2>1 DEF AgentReport
<1> QED BY <1>3, <1>4, <1>5, <1>6, <1>7, <1>8, <1>10, <1>11 DEF Begin

\* The orchestration loop interrupts no job of a queued file: it is not running.
LEMMA OrchestrateShown ==
    ASSUME Typed, Shows(job, life), Orchestrate
    PROVE  TxnShown
<1>1. PICK T \in SUBSET {j \in Jobs : job[j].status \in Active} :
          Open(Orch, "orchestrate", Plan(T, MarkOrchestrated), NoFiles, "none")
  BY DEF Orchestrate, Active, Queued
<1> DEFINE rows == Plan(T, MarkOrchestrated)
<1>2. DOMAIN rows = T /\ \A j \in T : rows[j] = Diff(job[j], MarkOrchestrated(job[j]))
  BY DEF Plan
<1>3. ASSUME NEW j \in T
      PROVE  /\ MarkOrchestrated(job[j]).status # "failed"
             /\ job[j].status \in Queued =>
                   /\ MarkOrchestrated(job[j]).status \in Queued
                   /\ MarkOrchestrated(job[j]).cleared = job[j].cleared
  <2>1. job[j] \in Row /\ job[j].status \in {"scheduled", "pending", "running"}
    BY DEF Typed, TypeOK, Active, Queued
  <2>2. CASE job[j].status = "scheduled"
    <3>1. MarkOrchestrated(job[j]) = [job[j] EXCEPT !.status = "pending"]
      BY <2>2 DEF MarkOrchestrated
    <3> QED BY <2>1, <3>1 DEF Row, Queued
  <2>3. CASE job[j].status = "pending"
    <3>1. MarkOrchestrated(job[j]) = [job[j] EXCEPT !.status = "scheduled"]
      BY <2>3 DEF MarkOrchestrated
    <3> QED BY <2>1, <3>1 DEF Row, Queued
  <2>4. CASE job[j].status = "running"
    <3>1. MarkOrchestrated(job[j]) = MarkInterrupted(job[j])
      BY <2>4 DEF MarkOrchestrated
    <3> QED BY <2>1, <2>4, <3>1 DEF Row, Queued, MarkInterrupted
  <2> QED BY <2>1, <2>2, <2>3, <2>4
<1>4. Keep # "failed"
  BY DEF Status, Results
<1>5. /\ T \in SUBSET Jobs /\ "orchestrate" \notin {"submit", "report"}
      /\ Orch \in Everyone /\ Open(Orch, "orchestrate", rows, NoFiles, "none")
  BY <1>1 DEF Everyone
<1> HIDE DEF rows
<1>6. ASSUME NEW j \in T
      PROVE  /\ rows[j].status # "failed"
             /\ Occupies(job[j]) /\ life[job[j].file] = "queued" =>
                   rows[j].status \in Queued \cup {Keep} /\ rows[j].cleared = Keep
  <2>1. rows[j].status # "failed"
    <3>1. /\ rows[j] = Diff(job[j], MarkOrchestrated(job[j]))
          /\ MarkOrchestrated(job[j]).status # "failed"
      BY <1>2, <1>3
    <3> QED BY <1>4, <3>1, DiffColumns
  <2>2. ASSUME Occupies(job[j]), life[job[j].file] = "queued"
        PROVE  rows[j].status \in Queued \cup {Keep} /\ rows[j].cleared = Keep
    <3>1. job[j].status \in Queued
      BY <2>2 DEF Shows
    <3>2. /\ rows[j] = Diff(job[j], MarkOrchestrated(job[j]))
          /\ MarkOrchestrated(job[j]).status \in Queued
          /\ MarkOrchestrated(job[j]).cleared = job[j].cleared
      BY <1>2, <1>3, <3>1
    <3> QED BY <3>2, DiffColumns
  <2> QED BY <2>1, <2>2
<1>7. DOMAIN rows = T /\ LeavesShown(T, rows)
  BY <1>2, <1>6 DEF LeavesShown
<1> QED BY <1>5, <1>7, OpenBareShown

\* A step keeps what the open handlers and the files show.
LEMMA StepShown ==
    ASSUME Typed, Shown, Next
    PROVE  Shown'
<1>1. Shows(job, life) /\ \A s \in Everyone : GoodResult(txn[s])
  BY DEF Shown, Shows, QueuedFileHasJob, QueuedIdle, FilesOK
<1>2. Shows(job', life')
  <2>1. CASE Calm(job, life, job', life')
    BY <1>1, <2>1, CalmShows
  <2>2. ASSUME NEW T \in [Jobs -> Row], NEW L \in [Files -> FileState], NEW k \in Jobs,
               NEW f \in Files, NEW n \in Nat, NEW st \in Queued, OneQueued(T, L, k, f, n, st)
        PROVE  Shows(job', life')
    <3>1. Shows(T, L)
      BY <1>1, <2>2, CalmShows DEF OneQueued
    <3>2. Shows([T EXCEPT ![k] = Inserted(f, n, st)], [L EXCEPT ![f] = "queued"])
      BY <2>2, <3>1, InsertShows DEF OneQueued
    <3> QED BY <2>2, <3>2 DEF OneQueued
  <2>3. CASE CommitOrchestrate
    <3>1. life' = life
      BY <2>3 DEF CommitOrchestrate
    <3> QED BY <1>1, <2>3, <3>1, OrchestrateShows
  <2> QED BY <1>1, <2>1, <2>2, <2>3, StepShow DEF ShowEffect
<1>3. CASE UNCHANGED txn
  <2>1. \A s \in Everyone : GoodFiles(txn'[s], job', life') /\ GoodResult(txn'[s])
    BY <1>1, <1>2, <1>3 DEF Shows
  <2> QED BY <1>2, <2>1 DEF Shown, Shows, QueuedFileHasJob, QueuedIdle, FilesOK
<1>4. ASSUME NEW s \in Everyone, Close(s)
      PROVE  Shown'
  <2>1. ASSUME NEW q \in Everyone
        PROVE  txn'[q] = txn[q] \/ txn'[q] = Idle
    BY <1>4 DEF Close, Typed, TypeOK
  <2>2. DOMAIN Idle.rows = {} /\ DOMAIN Idle.files = {}
    BY DEF Idle
  <2>3. GoodFiles(Idle, job', life') /\ GoodResult(Idle)
    BY <2>2 DEF GoodFiles, GoodResult
  <2>4. \A q \in Everyone : GoodFiles(txn'[q], job', life') /\ GoodResult(txn'[q])
    BY <1>1, <1>2, <2>1, <2>3 DEF Shows
  <2> QED BY <1>2, <2>4 DEF Shown, Shows, QueuedFileHasJob, QueuedIdle, FilesOK
<1>5. CASE TxnShown /\ UNCHANGED table
  <2>1. \A q \in Everyone : GoodFiles(txn'[q], job', life') /\ GoodResult(txn'[q])
    BY <1>1, <1>5 DEF TxnShown, table, Shows
  <2> QED BY <1>2, <2>1 DEF Shown, Shows, QueuedFileHasJob, QueuedIdle, FilesOK
<1>6. ASSUME NEW s \in Everyone, Commit(s)
      PROVE  Close(s)
  BY <1>6 DEF Commit, CommitRetry, CommitOperator, CommitResult, Rollback, CommitOrchestrate
<1>7. ASSUME NEW s \in Sessions, Begin(s)
      PROVE  TxnShown /\ UNCHANGED table
  <2>1. UNCHANGED table
    BY <1>7 DEF Begin, BeginRetry, BeginCancel, BeginCancelRequest, BeginSkip,
                BeginClearQueue, BeginClearHistory, AgentSubmit, AgentReport
  <2> QED BY <1>7, <2>1, BeginShown DEF Everyone
<1>8. ASSUME Orchestrate
      PROVE  TxnShown /\ UNCHANGED table
  BY <1>1, <1>8, OrchestrateShown DEF Orchestrate
<1>9. ASSUME NEW e \in Executors, Executor(e)
      PROVE  UNCHANGED txn
  BY <1>9 DEF Executor, Claim, ClaimReplyLost, Execute, Progress, LoopCommit,
              AgentAck, AgentTimeout, Crash, StopLocal
<1>10. ASSUME World
       PROVE  UNCHANGED txn
  <2>1. UNCHANGED txn
    BY <1>10 DEF World, PlanFile, CreateJob, SetAble, DeleteWorker
  <2> QED BY <2>1
<1> QED BY <1>3, <1>4, <1>5, <1>6, <1>7, <1>8, <1>9, <1>10 DEF Next

\* A queue without jobs shows nothing.
LEMMA InitShown == Init => Shown
<1> SUFFICES ASSUME Init PROVE Shown
  OBVIOUS
<1>1. \A f \in Files : life[f] # "queued"
  BY DEF Init
<1>2. \A j \in Jobs : ~Occupies(job[j])
  BY DEF Init, Occupies, Unused, Active, Queued
<1>3. DOMAIN Idle.rows = {} /\ DOMAIN Idle.files = {}
  BY DEF Idle
<1>4. \A s \in Everyone : GoodFiles(txn[s], job, life) /\ GoodResult(txn[s])
  BY <1>3 DEF Init, GoodFiles, GoodResult
<1> QED BY <1>1, <1>2, <1>4 DEF Shown, QueuedFileHasJob, QueuedIdle, FilesOK

\* Shown is inductive.
LEMMA AlwaysShown == Spec => []Shown
<1>1. Typed /\ Shown /\ [Next]_vars => Shown'
  <2>1. ASSUME Shown, UNCHANGED vars PROVE Shown'
    BY <2>1 DEF vars, Shown, QueuedFileHasJob, QueuedIdle, FilesOK, HasActive, GoodFiles,
                GoodResult, Harmless
  <2> QED BY <2>1, StepShown
<1> QED BY <1>1, InitShown, InductiveInvariant, PTL DEF Spec

\* A file shown as queued has a job in the queue (QueuedFileHasJob), with every
\* handler interleaved with every other.
THEOREM QueuedHasJob == Spec => []QueuedFileHasJob
<1>1. Shown => QueuedFileHasJob
  BY DEF Shown
<1> QED BY <1>1, AlwaysShown, PTL

-----------------------------------------------------------------------------
(* Failures are followed up.                                               *)

FollowedUp == \A j \in Jobs : job[j].status # "failed" /\ job'[j].status = "failed"
                                => HasActive(job', job[j].file)

\* A result, once its row is marked, leaves no failure behind.
LEMMA SettleFollows ==
    ASSUME Typed, NEW T \in [Jobs -> Row], NEW L, NEW j \in Jobs, NEW result,
           \A i \in Jobs : T[i].status = "failed" /\ job[i].status # "failed" =>
                              i = j /\ result = "failed",
           T[j].file = job[j].file, Settle(T, L, j, result)
    PROVE  FollowedUp
<1>1. CASE job' = T /\ result # "failed"
  BY <1>1 DEF FollowedUp
<1>2. CASE job' = T /\ HasActive(T, job[j].file)
  BY <1>2 DEF FollowedUp
<1>3. CASE job' = [T EXCEPT ![j] = MarkReview(@)]
  <2>1. T[j] \in Row
    OBVIOUS
  <2>2. MarkReview(T[j]).status = "manual_review"
    BY <2>1, MarkType
  <2> QED BY <1>3, <2>2 DEF FollowedUp
<1>4. ASSUME NEW k \in Jobs,
             job' = [T EXCEPT ![k] = Inserted(job[j].file, T[j].attempt + 1, "scheduled")]
      PROVE  FollowedUp
  <2> DEFINE r == Inserted(job[j].file, T[j].attempt + 1, "scheduled")
  <2>1. r.status = "scheduled" /\ r.file = job[j].file /\ r.cleared = FALSE
    BY DEF Inserted, Unused
  <2>2. Occupies(r)
    BY <2>1 DEF Occupies, Active, Queued
  <2> HIDE DEF r
  <2>3. job'[k] = r /\ \A i \in Jobs : i # k => job'[i] = T[i]
    BY <1>4 DEF r
  <2>4. HasActive(job', job[j].file)
    BY <2>1, <2>2, <2>3 DEF HasActive
  <2>5. ASSUME NEW i \in Jobs, job[i].status # "failed", job'[i].status = "failed"
        PROVE  i = j
    BY <2>1, <2>3, <2>5
  <2> QED BY <2>4, <2>5 DEF FollowedUp
<1> QED BY <1>1, <1>2, <1>3, <1>4 DEF Settle

\* In the step that records a failure the file has an active job again, or the
\* job goes to review (FailureFollowedUp), with every handler interleaved.
LEMMA StepFollows ==
    ASSUME Typed, Shown, Next
    PROVE  FollowedUp
<1> USE DEF Typed
<1>1. job \in [Jobs -> Row] /\ life \in [Files -> FileState]
  BY DEF TypeOK
<1>2. CASE UNCHANGED job
  BY <1>2 DEF FollowedUp
<1>3. ASSUME NEW f \in Files, NEW k \in Jobs, CreateJob(f, k)
      PROVE  FollowedUp
  <2>1. PICK st \in Queued : job' = [job EXCEPT ![k] = Inserted(f, 1, st)]
    BY <1>3 DEF CreateJob
  <2>2. Inserted(f, 1, st).status # "failed"
    BY DEF Inserted, Unused, Queued
  <2> QED BY <1>1, <2>1, <2>2 DEF FollowedUp
<1>4. ASSUME NEW s \in Everyone, CommitRetry(s)
      PROVE  FollowedUp
  <2>1. PICK j \in Loaded(s), k \in Jobs, st \in Queued :
            job' = [job EXCEPT ![j] = MarkCleared(@),
                               ![k] = Inserted(job[j].file, job[j].attempt + 1, st)]
    BY <1>4 DEF CommitRetry
  <2>2. Inserted(job[j].file, job[j].attempt + 1, st).status # "failed"
    BY DEF Inserted, Unused, Queued
  <2>3. MarkCleared(job[j]).status = job[j].status
    BY <1>1, TxnType, MarkType
  <2> QED BY <1>1, <2>1, <2>2, <2>3 DEF FollowedUp
<1>5. ASSUME NEW s \in Everyone, NEW i \in Jobs, Flushed(s)[i].status = "failed",
             job[i].status # "failed"
      PROVE  /\ txn[s].op \in {"submit", "report"} /\ txn[s].result = "failed"
             /\ \A j \in Loaded(s) : i = j
  <2>1. i \in Loaded(s)
    BY <1>5 DEF Flushed
  <2>2. job[i] \in Row /\ txn[s].rows[i] \in Patch
    BY <1>1, <2>1, TxnType
  <2>3. Flushed(s)[i].status = Column(job[i].status, txn[s].rows[i].status)
    BY <2>1, <2>2, MergeType DEF Flushed
  <2>4. txn[s].rows[i].status = "failed"
    BY <1>5, <2>3 DEF Column
  <2> QED BY <2>1, <2>4 DEF Shown, FilesOK, GoodResult, Loaded
<1>6. ASSUME NEW s \in Everyone, CommitOperator(s)
      PROVE  FollowedUp
  BY <1>5, <1>6 DEF CommitOperator, FollowedUp
<1>7. ASSUME CommitOrchestrate
      PROVE  FollowedUp
  <2>1. Orch \in Everyone
    BY DEF Everyone
  <2> QED BY <1>5, <1>7, <2>1 DEF CommitOrchestrate, FollowedUp
<1>8. ASSUME NEW s \in Everyone, CommitResult(s)
      PROVE  FollowedUp
  <2>1. PICK j \in Loaded(s) : Settle(Flushed(s), FilesFlushed(s), j, txn[s].result)
    BY <1>8 DEF CommitResult
  <2>2. j \in Jobs /\ Flushed(s) \in [Jobs -> Row] /\ Flushed(s)[j].file = job[j].file
    BY TxnType, FlushedKept DEF Kept
  <2> QED BY <1>5, <2>1, <2>2, SettleFollows
<1>9. ASSUME NEW w \in Workers, NEW j \in Jobs, ClaimRow(w, j)
      PROVE  FollowedUp
  <2>1. MarkClaimed(job[j], w).status = "running"
    BY <1>1 DEF MarkClaimed, Row
  <2> QED BY <1>1, <1>9, <2>1 DEF ClaimRow, FollowedUp
<1>10. ASSUME NEW e \in Executors, LoopCommit(e)
       PROVE  FollowedUp
  <2> DEFINE j == run[e].job
             r == MarkResult(job[j], run[e].result)
             T == [job EXCEPT ![j] = r]
             L == [life EXCEPT ![job[j].file] = LifeOf(run[e].result)]
  <2>1. j \in Jobs /\ run[e].result \in Results
    BY <1>10 DEF LoopCommit, RunsOK
  <2>2. r \in Row /\ r.file = job[j].file /\ r.status = run[e].result
    <3> DEFINE q == job[j]
               x == run[e].result
    <3>1. q \in Row /\ x \in Results
      BY <1>1, <2>1
    <3> HIDE DEF q, x
    <3>2. MarkResult(q, x) \in Row /\ MarkResult(q, x).file = q.file /\ MarkResult(q, x).status = x
      BY <3>1, ResultType
    <3> QED BY <3>1, <3>2 DEF q, x
  <2>3. Settle(T, L, j, run[e].result)
    BY <1>10 DEF LoopCommit
  <2> HIDE DEF j, r, L
  <2>4. /\ T \in [Jobs -> Row] /\ T[j].file = job[j].file
        /\ \A i \in Jobs : T[i].status = "failed" /\ job[i].status # "failed" =>
                           i = j /\ run[e].result = "failed"
    BY <1>1, <2>1, <2>2
  <2> HIDE DEF T
  <2> QED BY <2>1, <2>3, <2>4, SettleFollows
<1>11. ASSUME NEW w \in Workers, DeleteWorker(w)
       PROVE  FollowedUp
  <2>1. \A i \in Jobs : job'[i].status = job[i].status
    BY <1>1, <1>11 DEF DeleteWorker, Row
  <2> QED BY <2>1 DEF FollowedUp
<1>12. ASSUME NEW s \in Everyone, Rollback(s) \/ Begin(s)
       PROVE  UNCHANGED job
  BY <1>12 DEF Rollback, Begin, BeginRetry, BeginCancel, BeginCancelRequest, BeginSkip,
               BeginClearQueue, BeginClearHistory, AgentSubmit, AgentReport, table
<1>13. ASSUME NEW e \in Executors,
              \/ \E r \in Outcomes : Execute(e, r)
              \/ Progress(e) \/ AgentAck(e) \/ AgentTimeout(e) \/ Crash(e) \/ StopLocal(e)
       PROVE  UNCHANGED job
  BY <1>13 DEF Execute, Progress, AgentAck, AgentTimeout, Crash, StopLocal, table
<1>14. ASSUME \/ \E f \in Files : PlanFile(f)
              \/ \E w \in Workers : SetAble(w)
              \/ Orchestrate
       PROVE  UNCHANGED job
  BY <1>14 DEF PlanFile, SetAble, Orchestrate, table
<1>15. ASSUME NEW e \in Executors, NEW j \in Jobs, Claim(e, j) \/ ClaimReplyLost(e, j)
       PROVE  FollowedUp
  <2>1. WorkerOf[e] \in Workers
    OBVIOUS
  <2> QED BY <1>9, <1>15, <2>1 DEF Claim, ClaimReplyLost
<1> QED BY <1>2, <1>3, <1>4, <1>6, <1>7, <1>8, <1>10, <1>11, <1>12, <1>13, <1>14, <1>15
        DEF Next, Commit, Executor, World, Everyone

\* A failed execution is never left without a follow-up (FailureFollowedUp):
\* the step that makes a row failed leaves its file with an active job.
THEOREM FailuresFollowed == Spec => FailureFollowedUp
<1>1. Typed /\ Shown /\ [Next]_vars => [FollowedUp]_vars
  BY StepFollows
<1>2. FailureFollowedUp <=> [][FollowedUp]_vars
  BY PTL DEF FailureFollowedUp, FollowedUp
<1> QED BY <1>1, <1>2, InductiveInvariant, AlwaysShown, PTL DEF Spec

-----------------------------------------------------------------------------
(* A job is started once, if the orchestration loop runs alone.            *)
(*                                                                         *)
(* Only a stale promotion or postponement puts a job back in the queue     *)
(* that was claimed since it was read: no other handler writes "pending".  *)

\* A row that was started is not in the queue, and a running one was started.
StartedOnce ==
    \A j \in Jobs : /\ job[j].started => job[j].status \notin Queued \cup {"unused"}
                    /\ job[j].status = "running" => job[j].started

\* What an executor holds was started.
Held ==
    \A e \in Executors : IF run[e].phase = "idle" THEN run[e].job = NoJob
                         ELSE job[run[e].job].started

\* The orchestration loop only puts rows in the queue that were never started.
OrchFresh ==
    \/ txn[Orch] = Idle
    \/ /\ txn[Orch].op = "orchestrate"
       /\ \A j \in Loaded(Orch) : txn[Orch].rows[j].status \in Queued => ~job[j].started

Started == StartedOnce /\ Held /\ OneExecutorPerJob /\ OrchFresh

\* A row that is not claimed: it stays started or not, and is not put in the
\* queue once it was.
Tame(r, n) ==
    /\ n.started = r.started
    /\ n.status \in Queued => ~r.started
    /\ n.status = "running" => r.status = "running"
    /\ n.status = "unused" => r.status = "unused"

StartEffect ==
    \/ \A j \in Jobs : Tame(job[j], job'[j])
    \/ \E w \in Workers, j \in Jobs : Claimed(w, j)

\* A flush leaves started_at alone.
LEMMA MergeStarted ==
    ASSUME NEW r \in Row, NEW p \in Patch
    PROVE  Merge(r, p).started = r.started
BY DEF Merge, Row

\* The marks of the handlers leave started_at alone.
LEMMA MarkStarted ==
    ASSUME NEW r \in Row
    PROVE  /\ \A result : MarkResult(r, result).started = r.started
           /\ MarkReview(r).started = r.started
           /\ MarkCleared(r).started = r.started
BY DEF MarkResult, MarkReview, MarkCleared, Row

\* A flushed table is tame.
LEMMA TameFlush ==
    ASSUME Typed, StartedOnce, OrchFresh, NEW s \in Everyone,
           txn[s].op # "orchestrate" \/ s = Orch
    PROVE  \A j \in Jobs : Tame(job[j], Flushed(s)[j])
<1> SUFFICES ASSUME NEW j \in Jobs PROVE Tame(job[j], Flushed(s)[j])
  OBVIOUS
<1>1. CASE j \in Loaded(s)
  <2>1. job[j] \in Row /\ txn[s].rows[j] \in Patch
    BY <1>1, TxnType DEF Typed, TypeOK
  <2>2. Flushed(s)[j] = Merge(job[j], txn[s].rows[j])
    BY <1>1 DEF Flushed
  <2>3. /\ job[j].status # "unused" /\ txn[s].rows[j].status # "running"
        /\ txn[s].op # "orchestrate" => txn[s].rows[j].status \notin Active
    BY <1>1 DEF Typed, PatchesOK, GoodTxn, Loaded
  <2>4. /\ Flushed(s)[j].status = Column(job[j].status, txn[s].rows[j].status)
        /\ Flushed(s)[j].status # "unused"
        /\ Flushed(s)[j].started = job[j].started
    BY <2>1, <2>2, <2>3, MergeType, MergeStarted
  <2>5. Flushed(s)[j].status = "running" => job[j].status = "running"
    BY <2>3, <2>4 DEF Column
  <2>6. ASSUME txn[s].rows[j].status \in Queued
        PROVE  ~job[j].started
    <3>1. txn[s].op = "orchestrate"
      BY <2>3, <2>6 DEF Active
    <3>2. txn[s] # Idle
      BY <3>1 DEF Idle
    <3> QED BY <1>1, <2>6, <3>1, <3>2 DEF OrchFresh
  <2>7. Flushed(s)[j].status \in Queued => ~job[j].started
    BY <2>4, <2>6 DEF Column, StartedOnce
  <2> QED BY <2>4, <2>5, <2>7 DEF Tame
<1>2. CASE j \notin Loaded(s)
  BY <1>2 DEF Flushed, Tame, StartedOnce
<1> QED BY <1>1, <1>2

\* Recording a result on tame tables is tame.
LEMMA TameSettle ==
    ASSUME Typed, StartedOnce, NEW T \in [Jobs -> Row], \A i \in Jobs : Tame(job[i], T[i]),
           NEW L, NEW j \in Jobs, job[j].status # "unused", NEW result,
           Settle(T, L, j, result)
    PROVE  \A i \in Jobs : Tame(job[i], job'[i])
<1>1. CASE job' = T
  BY <1>1
<1>2. CASE job' = [T EXCEPT ![j] = MarkReview(@)]
  <2>1. /\ MarkReview(T[j]).status = "manual_review"
        /\ MarkReview(T[j]).started = T[j].started
    <3>1. T[j] \in Row
      OBVIOUS
    <3> QED BY <3>1, MarkType, MarkStarted
  <2>2. Tame(job[j], MarkReview(T[j]))
    BY <2>1 DEF Tame, Queued
  <2> QED BY <1>2, <2>2
<1>3. ASSUME NEW k \in Jobs, T[k] = Unused,
             job' = [T EXCEPT ![k] = Inserted(job[j].file, T[j].attempt + 1, "scheduled")]
      PROVE  \A i \in Jobs : Tame(job[i], job'[i])
  <2> DEFINE r == Inserted(job[j].file, T[j].attempt + 1, "scheduled")
  <2>1. r.status = "scheduled" /\ r.started = FALSE
    BY DEF Inserted, Unused
  <2>2. T[k].started = FALSE
    BY <1>3 DEF Unused
  <2>3. Tame(job[k], T[k])
    OBVIOUS
  <2> HIDE DEF r
  <2>4. Tame(job[k], r)
    BY <2>1, <2>2, <2>3 DEF Tame
  <2> QED BY <1>3, <2>4 DEF r
<1> QED BY <1>1, <1>2, <1>3 DEF Settle

\* Every step is tame or claims one job.
LEMMA StepTame ==
    ASSUME Typed, StartedOnce, OrchFresh, Next
    PROVE  StartEffect
<1> USE DEF Typed
<1>1. job \in [Jobs -> Row]
  BY DEF TypeOK
<1>2. \A j \in Jobs : Tame(job[j], job[j])
  BY DEF Tame, StartedOnce
<1>3. ASSUME UNCHANGED job
      PROVE  StartEffect
  BY <1>2, <1>3 DEF StartEffect
<1>4. ASSUME NEW f, NEW n, NEW st \in Queued, NEW k \in Jobs,
             job[k] = Unused
      PROVE  Tame(job[k], Inserted(f, n, st))
  <2>1. Inserted(f, n, st).status = st /\ Inserted(f, n, st).started = FALSE
    BY DEF Inserted, Unused
  <2>2. job[k].started = FALSE
    BY <1>4 DEF Unused
  <2> QED BY <2>1, <2>2 DEF Tame, Queued
<1>5. ASSUME NEW f \in Files, NEW k \in Jobs, CreateJob(f, k)
      PROVE  StartEffect
  <2>1. PICK st \in Queued : job[k] = Unused /\ job' = [job EXCEPT ![k] = Inserted(f, 1, st)]
    BY <1>5 DEF CreateJob
  <2>2. Tame(job[k], Inserted(f, 1, st))
    BY <1>4, <2>1
  <2> QED BY <1>1, <1>2, <2>1, <2>2 DEF StartEffect
<1>6. ASSUME NEW s \in Everyone, CommitRetry(s)
      PROVE  StartEffect
  <2>1. PICK j \in Loaded(s), k \in Jobs, st \in Queued :
            /\ job[k] = Unused
            /\ job' = [job EXCEPT ![j] = MarkCleared(@),
                                  ![k] = Inserted(job[j].file, job[j].attempt + 1, st)]
    BY <1>6 DEF CommitRetry
  <2> DEFINE r == Inserted(job[j].file, job[j].attempt + 1, st)
             c == MarkCleared(job[j])
  <2>2. Tame(job[k], r)
    BY <1>4, <2>1
  <2>3. j \in Jobs /\ job[j] \in Row
    BY <1>1, TxnType
  <2>4. Tame(job[j], c)
    <3>1. c.status = job[j].status /\ c.started = job[j].started
      BY <2>3, MarkType, MarkStarted
    <3> QED BY <1>2, <2>3, <3>1 DEF Tame
  <2>5. job' = [job EXCEPT ![j] = c, ![k] = r]
    BY <2>1
  <2> HIDE DEF r, c
  <2>6. \A i \in Jobs : job'[i] = job[i] \/ (i = j /\ job'[i] = c) \/ (i = k /\ job'[i] = r)
    BY <1>1, <2>3, <2>5
  <2> QED BY <1>2, <2>2, <2>4, <2>6 DEF StartEffect
<1>7. ASSUME NEW s \in Everyone, CommitOperator(s)
      PROVE  StartEffect
  BY <1>7, TameFlush DEF CommitOperator, StartEffect
<1>8. ASSUME NEW s \in Everyone, CommitResult(s)
      PROVE  StartEffect
  <2>1. PICK j \in Loaded(s) : Settle(Flushed(s), FilesFlushed(s), j, txn[s].result)
    BY <1>8 DEF CommitResult
  <2>2. j \in Jobs /\ job[j].status # "unused"
    BY TxnType DEF PatchesOK, GoodTxn, Loaded
  <2>3. Flushed(s) \in [Jobs -> Row] /\ \A i \in Jobs : Tame(job[i], Flushed(s)[i])
    BY <1>8, FlushedKept, TameFlush DEF CommitResult, Kept
  <2> QED BY <2>1, <2>2, <2>3, TameSettle DEF StartEffect
<1>9. ASSUME CommitOrchestrate
      PROVE  StartEffect
  <2>1. \A j \in Jobs : Tame(job[j], Flushed(Orch)[j])
    BY TameFlush DEF Everyone
  <2> QED BY <1>3, <1>9, <2>1 DEF CommitOrchestrate, StartEffect
<1>10. ASSUME NEW e \in Executors, NEW j \in Jobs, Claim(e, j) \/ ClaimReplyLost(e, j)
       PROVE  StartEffect
  BY <1>10 DEF Claim, ClaimReplyLost, ClaimRow, Claimed, StartEffect
<1>11. ASSUME NEW e \in Executors, LoopCommit(e)
       PROVE  StartEffect
  <2> DEFINE j == run[e].job
             r == MarkResult(job[j], run[e].result)
             T == [job EXCEPT ![j] = r]
             L == [life EXCEPT ![job[j].file] = LifeOf(run[e].result)]
  <2>1. j \in Jobs /\ job[j].status # "unused" /\ run[e].result \in Results
    BY <1>11 DEF LoopCommit, RunsOK
  <2>2. r \in Row /\ r.status = run[e].result /\ r.started = job[j].started
    <3>1. job[j] \in Row
      BY <1>1, <2>1
    <3> QED BY <2>1, <3>1, MarkType, MarkStarted
  <2>3. Settle(T, L, j, run[e].result)
    BY <1>11 DEF LoopCommit
  <2> HIDE DEF j, r, L
  <2>4. Tame(job[j], r)
    BY <2>1, <2>2 DEF Tame, Results, Queued
  <2>5. T \in [Jobs -> Row] /\ \A i \in Jobs : Tame(job[i], T[i])
    BY <1>1, <1>2, <2>1, <2>2, <2>4
  <2> HIDE DEF T
  <2> QED BY <2>1, <2>3, <2>5, TameSettle DEF StartEffect
<1>12. ASSUME NEW w \in Workers, DeleteWorker(w)
       PROVE  StartEffect
  <2>1. \A i \in Jobs : job'[i].status = job[i].status /\ job'[i].started = job[i].started
    BY <1>1, <1>12 DEF DeleteWorker, Row
  <2> QED BY <1>2, <2>1 DEF StartEffect, Tame
<1>13. ASSUME NEW s \in Everyone, Rollback(s) \/ Begin(s)
       PROVE  UNCHANGED job
  BY <1>13 DEF Rollback, Begin, BeginRetry, BeginCancel, BeginCancelRequest, BeginSkip,
               BeginClearQueue, BeginClearHistory, AgentSubmit, AgentReport, table
<1>14. ASSUME NEW e \in Executors,
              \/ \E r \in Outcomes : Execute(e, r)
              \/ Progress(e) \/ AgentAck(e) \/ AgentTimeout(e) \/ Crash(e) \/ StopLocal(e)
       PROVE  UNCHANGED job
  BY <1>14 DEF Execute, Progress, AgentAck, AgentTimeout, Crash, StopLocal, table
<1>15. ASSUME \/ \E f \in Files : PlanFile(f)
              \/ \E w \in Workers : SetAble(w)
              \/ Orchestrate
       PROVE  UNCHANGED job
  BY <1>15 DEF PlanFile, SetAble, Orchestrate, table
<1> QED BY <1>3, <1>5, <1>6, <1>7, <1>8, <1>9, <1>10, <1>11, <1>12, <1>13, <1>14, <1>15
        DEF Next, Commit, Executor, World, Everyone

\* What a step does to what an executor holds: it lets go of it, goes on with
\* it, or, if it claimed, takes up a row that was pending.
Holds(e) ==
    \/ run'[e] = run[e]
    \/ run'[e] = IdleRun
    \/ run[e].phase # "idle" /\ run'[e].phase # "idle" /\ run'[e].job = run[e].job

Takes(e, j) ==
    /\ run' = [run EXCEPT ![e] = [phase |-> "working", job |-> j, result |-> "none"]]
    /\ job[j].status = "pending"
    /\ job' = [job EXCEPT ![j] = MarkClaimed(@, WorkerOf[e])]

\* A step lets executors go on, or has one take up a row.
LEMMA StepHolds ==
    ASSUME Typed, Next
    PROVE  (\A e \in Executors : Holds(e)) \/ \E e \in Executors, j \in Jobs : Takes(e, j)
<1>1. run \in [Executors -> Run]
  BY DEF Typed, TypeOK
<1>2. CASE UNCHANGED run
  BY <1>2 DEF Holds
<1>3. ASSUME NEW e \in Executors, run' = [run EXCEPT ![e] = IdleRun]
      PROVE  \A d \in Executors : Holds(d)
  BY <1>1, <1>3 DEF Holds
<1>4. ASSUME NEW e \in Executors, NEW x \in Run, run' = [run EXCEPT ![e] = x],
             run[e].phase # "idle", x.phase # "idle", x.job = run[e].job
      PROVE  \A d \in Executors : Holds(d)
  BY <1>1, <1>4 DEF Holds
<1>5. ASSUME NEW e \in Executors, NEW p \in {"sent", "failing"}, run[e].phase # "idle",
             run' = [run EXCEPT ![e].phase = p]
      PROVE  \A d \in Executors : Holds(d)
  <2> DEFINE x == [run[e] EXCEPT !.phase = p]
  <2>1. x \in Run /\ x.phase = p /\ x.job = run[e].job
    BY <1>1 DEF Run, Phase
  <2>2. run' = [run EXCEPT ![e] = x]
    BY <1>5
  <2> HIDE DEF x
  <2> QED BY <1>4, <1>5, <2>1, <2>2
<1>6. ASSUME NEW e \in Executors, NEW r \in Outcomes, Execute(e, r)
      PROVE  \A d \in Executors : Holds(d)
  <2> DEFINE x == [run[e] EXCEPT !.phase = "done", !.result = r]
  <2>1. run[e] \in Run /\ r \in Results \cup {"none"} /\ run[e].phase = "working"
    BY <1>1, <1>6 DEF Execute
  <2>2. x \in Run
    BY <2>1 DEF Run, Phase
  <2>3. x.phase = "done"
    BY <2>1 DEF Run
  <2>4. x.job = run[e].job
    BY <2>1 DEF Run
  <2>5. run' = [run EXCEPT ![e] = x]
    BY <1>1, <1>6 DEF Execute
  <2> HIDE DEF x
  <2> QED BY <1>4, <2>1, <2>2, <2>3, <2>4, <2>5
<1>7. ASSUME NEW s \in Everyone, Commit(s)
      PROVE  UNCHANGED run
  BY <1>7 DEF Commit, CommitRetry, CommitOperator, CommitResult, Rollback,
              CommitOrchestrate, exec
<1>8. ASSUME NEW e \in Agents, NEW s, AgentSubmit(e, s) \/ AgentReport(e, s)
      PROVE  \A d \in Executors : Holds(d)
  <2>1. e \in Executors
    BY DEF Agents
  <2>2. CASE AgentSubmit(e, s)
    <3>1. run[e].phase = "done" /\ \E p \in {"sent", "failing"} : run' = [run EXCEPT ![e].phase = p]
      BY <2>2 DEF AgentSubmit
    <3> QED BY <1>5, <2>1, <3>1
  <2>3. CASE AgentReport(e, s)
    BY <1>3, <2>1, <2>3 DEF AgentReport
  <2> QED BY <1>8, <2>2, <2>3
<1>9. ASSUME NEW s \in Sessions, Begin(s)
      PROVE  \A d \in Executors : Holds(d)
  <2>1. CASE \E e \in Agents : AgentSubmit(e, s) \/ AgentReport(e, s)
    BY <1>8, <2>1
  <2>2. CASE UNCHANGED run
    BY <1>2, <2>2 DEF Holds
  <2> QED BY <1>9, <2>1, <2>2 DEF Begin, BeginRetry, BeginCancel, BeginCancelRequest,
               BeginSkip, BeginClearQueue, BeginClearHistory, exec
<1>10. ASSUME NEW e \in Executors, NEW j \in Jobs, Claim(e, j)
       PROVE  Takes(e, j)
  BY <1>10 DEF Claim, ClaimRow, Takes
<1>11. ASSUME NEW e \in Executors, LoopCommit(e) \/ AgentAck(e) \/ Crash(e)
       PROVE  \A d \in Executors : Holds(d)
  <2>1. run' = [run EXCEPT ![e] = IdleRun]
    BY <1>11 DEF LoopCommit, AgentAck, Crash
  <2> QED BY <1>3, <2>1
<1>12. ASSUME NEW e \in Executors, AgentTimeout(e)
       PROVE  \A d \in Executors : Holds(d)
  <2>1. run[e].phase # "idle" /\ run' = [run EXCEPT ![e].phase = "failing"]
    BY <1>12 DEF AgentTimeout
  <2> QED BY <1>5, <2>1
<1>13. ASSUME NEW e \in Executors,
              Progress(e) \/ StopLocal(e) \/ \E j \in Jobs : ClaimReplyLost(e, j)
       PROVE  UNCHANGED run
  BY <1>13 DEF Progress, StopLocal, ClaimReplyLost, exec
<1>14. ASSUME Orchestrate \/ World
       PROVE  UNCHANGED run
  BY <1>14 DEF Orchestrate, World, PlanFile, CreateJob, SetAble, DeleteWorker, exec
<1> QED BY <1>2, <1>6, <1>7, <1>9, <1>10, <1>11, <1>12, <1>13, <1>14 DEF Next, Executor

\* Every step but the end of its own run finds the orchestration loop idle.
LEMMA OrchAlone ==
    ASSUME "orchestrate" \notin Split, OrchFresh, ~Exclusive(Orch)
    PROVE  txn[Orch] = Idle
BY DEF OrchFresh, Exclusive

\* The orchestration loop's run, if there is one, was read from the table.
LEMMA StepFresh ==
    ASSUME "orchestrate" \notin Split, Typed, StartedOnce, OrchFresh, Next
    PROVE  OrchFresh'
<1>1. Orch \in Everyone /\ \A s \in Sessions : s # Orch
  BY DEF Everyone
<1>2. ASSUME txn'[Orch] = Idle
      PROVE  OrchFresh'
  BY <1>2 DEF OrchFresh
<1>3. ASSUME NEW s \in Everyone, Commit(s), \A q \in Everyone \ {s} : ~Exclusive(q)
      PROVE  OrchFresh'
  <2>1. Close(s)
    BY <1>3 DEF Commit, CommitRetry, CommitOperator, CommitResult, Rollback, CommitOrchestrate
  <2>2. s # Orch => txn[Orch] = Idle
    BY <1>1, <1>3, OrchAlone
  <2>3. txn'[Orch] = Idle
    BY <1>1, <2>1, <2>2 DEF Close, Typed, TypeOK
  <2> QED BY <1>2, <2>3
<1>4. CASE \A q \in Everyone : ~Exclusive(q)
  <2>1. txn[Orch] = Idle
    BY <1>1, <1>4, OrchAlone
  <2>2. ASSUME NEW s \in Sessions, Begin(s)
        PROVE  UNCHANGED txn \/ \E t : txn' = [txn EXCEPT ![s] = t]
    BY <2>2 DEF Begin, BeginRetry, BeginCancel, BeginCancelRequest, BeginSkip, Open,
                BeginClearQueue, BeginClearHistory, AgentSubmit, AgentReport, OpenResult
  <2>3. ASSUME NEW s \in Sessions, Begin(s)
        PROVE  OrchFresh'
    <3>1. txn'[Orch] = Idle
      BY <1>1, <2>1, <2>2, <2>3 DEF Typed, TypeOK
    <3> QED BY <1>2, <3>1
  <2>4. ASSUME NEW e \in Executors, Executor(e)
        PROVE  OrchFresh'
    <3>1. UNCHANGED txn
      BY <2>4 DEF Executor, Claim, ClaimReplyLost, Execute, Progress, LoopCommit,
                  AgentAck, AgentTimeout, Crash, StopLocal
    <3> QED BY <1>2, <2>1, <3>1
  <2>5. CASE World
    <3>1. UNCHANGED txn
      BY <2>5 DEF World, PlanFile, CreateJob, SetAble, DeleteWorker
    <3> QED BY <1>2, <2>1, <3>1
  <2>6. CASE Orchestrate
    <3>1. PICK T \in SUBSET {j \in Jobs : job[j].status \in Active} :
              Open(Orch, "orchestrate", Plan(T, MarkOrchestrated), NoFiles, "none")
      BY <2>6 DEF Orchestrate, Active, Queued
    <3> DEFINE t == [op |-> "orchestrate", rows |-> Plan(T, MarkOrchestrated),
                     files |-> NoFiles, result |-> "none"]
    <3>2. txn'[Orch] = t /\ job' = job
      BY <1>1, <2>6, <3>1 DEF Open, Orchestrate, table, Typed, TypeOK
    <3>3. /\ t.op = "orchestrate" /\ DOMAIN t.rows = T
          /\ \A j \in T : t.rows[j] = Diff(job[j], MarkOrchestrated(job[j]))
      BY DEF Plan
    <3> HIDE DEF t
    <3>4. ASSUME NEW j \in T, t.rows[j].status \in Queued
          PROVE  ~job[j].started
      <4>1. job[j] \in Row /\ job[j].status \in {"scheduled", "pending", "running"} /\ j \in Jobs
        BY DEF Typed, TypeOK, Active, Queued
      <4>2. Keep \notin Queued
        BY DEF Status, Active
      <4>3. t.rows[j].status = MarkOrchestrated(job[j]).status
        BY <3>3, <3>4, <4>2, DiffColumns
      <4>4. CASE job[j].status = "running"
        <5>1. MarkOrchestrated(job[j]) = MarkInterrupted(job[j])
          BY <4>4 DEF MarkOrchestrated
        <5>2. MarkOrchestrated(job[j]).status = "interrupted"
          BY <4>1, <5>1 DEF MarkInterrupted, Row
        <5> QED BY <3>4, <4>3, <5>2 DEF Queued
      <4>5. CASE job[j].status \in Queued
        BY <4>1, <4>5 DEF StartedOnce
      <4> QED BY <4>1, <4>4, <4>5 DEF Queued
    <3> QED BY <3>2, <3>3, <3>4 DEF OrchFresh, Loaded
  <2> QED BY <1>3, <2>3, <2>4, <2>5, <2>6 DEF Next
<1> QED BY <1>3, <1>4 DEF Next

\* A step keeps the order between being started and being held.
LEMMA StepStarted ==
    ASSUME "orchestrate" \notin Split, Typed, Started, Next
    PROVE  Started'
<1> USE DEF Started
<1>1. job \in [Jobs -> Row] /\ run \in [Executors -> Run]
  BY DEF Typed, TypeOK
<1>2. ASSUME NEW w \in Workers, NEW j \in Jobs, Claimed(w, j)
      PROVE  /\ job'[j].status = "running" /\ job'[j].started /\ ~job[j].started
             /\ \A i \in Jobs : i # j => job'[i] = job[i]
  <2>1. MarkClaimed(job[j], w).status = "running" /\ MarkClaimed(job[j], w).started = TRUE
    BY <1>1 DEF MarkClaimed, Row
  <2>2. job' = [job EXCEPT ![j] = MarkClaimed(job[j], w)] /\ job[j].status \in Queued
    BY <1>2 DEF Claimed, Queued
  <2> QED BY <1>1, <2>1, <2>2 DEF StartedOnce
<1>3. StartEffect
  BY StepTame
<1>4. StartedOnce'
  <2>1. CASE \A j \in Jobs : Tame(job[j], job'[j])
    BY <2>1 DEF StartedOnce, Tame
  <2>2. ASSUME NEW w \in Workers, NEW j \in Jobs, Claimed(w, j)
        PROVE  StartedOnce'
    BY <1>2, <2>2 DEF StartedOnce, Queued
  <2> QED BY <1>3, <2>1, <2>2 DEF StartEffect
<1>5. \A j \in Jobs : job[j].started => job'[j].started
  BY <1>2, <1>3 DEF StartEffect, Tame
<1>6. \A e \in Executors : run[e].phase # "idle" => run[e].job \in Jobs
  BY DEF Typed, RunsOK
<1>7. CASE \A e \in Executors : Holds(e)
  <2>1. IdleRun.phase = "idle" /\ IdleRun.job = NoJob
    BY DEF IdleRun
  <2>2. ASSUME NEW e \in Executors
        PROVE  /\ IF run'[e].phase = "idle" THEN run'[e].job = NoJob ELSE job'[run'[e].job].started
               /\ run'[e].job = NoJob \/ run'[e].job = run[e].job
    BY <1>5, <1>6, <1>7, <2>1 DEF Held, Holds
  <2>3. Held' /\ OneExecutorPerJob'
    BY <2>2 DEF Held, OneExecutorPerJob
  <2> QED BY <1>4, <2>3, StepFresh
<1>8. ASSUME NEW e \in Executors, NEW j \in Jobs, Takes(e, j)
      PROVE  Started'
  <2>1. job'[j].started /\ ~job[j].started
    <3>1. MarkClaimed(job[j], WorkerOf[e]).started = TRUE
      BY <1>1 DEF MarkClaimed, Row
    <3> QED BY <1>1, <1>8, <3>1 DEF Takes, StartedOnce, Queued
  <2>2. /\ run'[e].phase = "working" /\ run'[e].job = j
        /\ \A d \in Executors : d # e => run'[d] = run[d]
    BY <1>1, <1>8 DEF Takes
  <2>3. \A d \in Executors : run[d].job # j
    BY <1>6, <2>1 DEF Held
  <2>4. Held'
    BY <1>5, <1>6, <2>1, <2>2 DEF Held
  <2>5. OneExecutorPerJob'
    BY <2>2, <2>3 DEF OneExecutorPerJob
  <2> QED BY <1>4, <2>4, <2>5, StepFresh
<1> QED BY <1>7, <1>8, StepHolds

\* Nothing is started or held at first.
LEMMA InitStarted == Init => Started
<1> SUFFICES ASSUME Init PROVE Started
  OBVIOUS
<1>1. StartedOnce
  BY DEF Init, StartedOnce, Unused
<1>2. Held /\ OneExecutorPerJob
  BY DEF Init, Held, OneExecutorPerJob, IdleRun
<1>3. OrchFresh
  BY DEF Init, OrchFresh, Everyone
<1> QED BY <1>1, <1>2, <1>3 DEF Started

\* Started is inductive, unless the orchestration loop can be overtaken.
LEMMA AlwaysStarted ==
    ASSUME "orchestrate" \notin Split
    PROVE  Spec => []Started
<1>1. Typed /\ Started /\ [Next]_vars => Started'
  <2>1. ASSUME Started, UNCHANGED vars PROVE Started'
    BY <2>1 DEF vars, Started, StartedOnce, Held, OneExecutorPerJob, OrchFresh, Loaded
  <2> QED BY <2>1, StepStarted
<1> QED BY <1>1, InitStarted, InductiveInvariant, PTL DEF Spec

\* Two executors never hold the same job (OneExecutorPerJob), as long as the
\* orchestration loop reads and writes its rows with nothing in between: every
\* other handler may interleave.
THEOREM OneExecutor ==
    ASSUME "orchestrate" \notin Split
    PROVE  Spec => []OneExecutorPerJob
<1>1. Started => OneExecutorPerJob
  BY DEF Started
<1> QED BY <1>1, AlwaysStarted, PTL

-----------------------------------------------------------------------------
(* A row keeps the promises of JobLifecycle, if handlers run alone.        *)
(*                                                                         *)
(* What an open handler will write was legal when it read, and nothing has *)
(* happened since.  The local loop alone writes unread: its row is running *)
(* or has been interrupted, skipped or cancelled meanwhile.                *)

Late == {"running", "interrupted", "skipped", "cancelled"}

\* What an operator's handler or the orchestration loop writes over a.
Permitted(a, p) ==
    \/ p = Keep
    \/ a \in Queued /\ p \in Queued \cup {"cancelled"}
    \/ a = "running" /\ p = "interrupted"
    \/ a = "interrupted" /\ p = "cancelled"
    \/ a \in Retryable /\ p = "skipped"

LegalTxn(t) ==
    \A j \in DOMAIN t.rows :
        IF t.op \in {"submit", "report"}
        THEN /\ job[j].status = "running"
             /\ t.rows[j].status \in Results
             /\ \A e \in Loops : run[e].job # j
        ELSE Permitted(job[j].status, t.rows[j].status)

LegalTxns == \A s \in Everyone : LegalTxn(txn[s])

LoopHolds == \A e \in Loops : run[e].phase # "idle" => job[run[e].job].status \in Late

Lawful == LegalTxns /\ LoopHolds

\* The edges of JobLifecycle, from a to b, of a row that was started if s.
Edge(a, b, s) ==
    \/ a = b
    \/ a = "unused" /\ b \in Queued
    \/ a \in Queued /\ b \in Queued \cup {"cancelled"}
    \/ a = "pending" /\ ~s /\ b = "running"
    \/ a = "running" /\ b \in Results \cup {"interrupted"}
    \/ s /\ a \in {"interrupted", "skipped", "cancelled"} /\ b \in Results
    \/ a = "interrupted" /\ b = "cancelled"
    \/ a \in Retryable /\ b = "skipped"

\* Row j moves along an edge, and only its loop takes it out of Late.
Moved(j) ==
    /\ Edge(job[j].status, job'[j].status, job[j].started)
    /\ job[j].status \in Late /\ job'[j].status \notin Late
         => \A e \in Loops : run[e].job = j => run'[e] = IdleRun

\* Edges are moves of the abstract specification.
LEMMA EdgeMoves ==
    ASSUME NEW j \in Jobs, Edge(job[j].status, job'[j].status, job[j].started)
    PROVE  \/ [i \in Jobs |-> job[i].status]'[j] = [i \in Jobs |-> job[i].status][j]
           \/ Lifecycle!Move(j)
<1> DEFINE st == [i \in Jobs |-> job[i].status]
<1>1. st[j] = job[j].status /\ st'[j] = job'[j].status
  OBVIOUS
<1>2. job[j].started => j \in {i \in Jobs : job[i].started}
  OBVIOUS
<1>3. ~job[j].started => j \notin {i \in Jobs : job[i].started}
  OBVIOUS
<1> QED BY <1>1, <1>2, <1>3
        DEF Edge, Lifecycle!Move, Lifecycle!Insert, Lifecycle!Reschedule, Lifecycle!Start,
            Lifecycle!Record, Lifecycle!Interrupt, Lifecycle!RecordLate, Lifecycle!Cancel,
            Lifecycle!Skip, Lifecycle!Queued, Lifecycle!Results, Lifecycle!Retryable,
            Queued, Results, Retryable

\* A row that stays has moved along an edge.
LEMMA SameMoved ==
    ASSUME NEW j \in Jobs, job'[j].status = job[j].status
    PROVE  Moved(j)
BY DEF Moved, Edge

\* Recording a result on row j alone.
LEMMA SettleMoves ==
    ASSUME Typed, NEW T \in [Jobs -> Row], NEW L, NEW j \in Jobs, NEW result,
           Settle(T, L, j, result), T[j].status \in Results,
           \A i \in Jobs : i # j => T[i] = job[i],
           \A r \in Results : Edge(job[j].status, r, job[j].started),
           \A e \in Loops : run[e].job = j => run'[e] = IdleRun
    PROVE  \A i \in Jobs : Moved(i)
<1>1. ASSUME NEW i \in Jobs, i # j, job'[i] = T[i]
      PROVE  Moved(i)
  BY <1>1, SameMoved
<1>2. ASSUME job'[j].status \in Results
      PROVE  Moved(j)
  BY <1>2 DEF Moved
<1>3. CASE job' = T
  BY <1>1, <1>2, <1>3
<1>4. CASE job' = [T EXCEPT ![j] = MarkReview(@)]
  <2>1. job'[j].status = "manual_review" /\ \A i \in Jobs : i # j => job'[i] = T[i]
    BY <1>4 DEF MarkReview, Row
  <2> QED BY <1>1, <1>2, <2>1 DEF Results
<1>5. ASSUME NEW k \in Jobs, T[k] = Unused,
             job' = [T EXCEPT ![k] = Inserted(job[j].file, T[j].attempt + 1, "scheduled")]
      PROVE  \A i \in Jobs : Moved(i)
  <2> DEFINE r == Inserted(job[j].file, T[j].attempt + 1, "scheduled")
  <2>1. r.status = "scheduled"
    BY DEF Inserted, Unused
  <2>2. T[k].status = "unused" /\ "unused" \notin Results
    BY <1>5 DEF Unused, Results
  <2>3. k # j
    BY <2>2
  <2> HIDE DEF r
  <2>4. job'[k] = r /\ \A i \in Jobs : i # k => job'[i] = T[i]
    BY <1>5 DEF r
  <2>5. job[k].status = "unused"
    BY <2>2, <2>3
  <2>6. Moved(k)
    BY <2>1, <2>4, <2>5 DEF Moved, Edge, Queued, Late
  <2> QED BY <1>1, <1>2, <2>3, <2>4, <2>6
<1> QED BY <1>3, <1>4, <1>5 DEF Settle

\* The flush of a handler that records no result.
LEMMA FlushMoves ==
    ASSUME Typed, LegalTxns, NEW s \in Everyone, txn[s].op \notin {"submit", "report"},
           job' = Flushed(s)
    PROVE  \A j \in Jobs : Moved(j)
<1> SUFFICES ASSUME NEW j \in Jobs PROVE Moved(j)
  OBVIOUS
<1>1. CASE j \in Loaded(s)
  <2> DEFINE a == job[j].status
             p == txn[s].rows[j].status
  <2>1. job[j] \in Row /\ txn[s].rows[j] \in Patch
    BY <1>1, TxnType DEF Typed, TypeOK
  <2>2. Flushed(s)[j] = Merge(job[j], txn[s].rows[j])
    BY <1>1 DEF Flushed
  <2>3. job'[j].status = Column(a, p)
    BY <2>1, <2>2, MergeType
  <2>4. Permitted(a, p)
    BY <1>1 DEF LegalTxns, LegalTxn, Loaded
  <2> HIDE DEF a, p
  <2>5. Edge(a, Column(a, p), job[j].started)
    BY <2>4 DEF Edge, Column, Permitted, Results, Retryable, Queued
  <2>6. a \in Late => Column(a, p) \in Late
    BY <2>4 DEF Late, Column, Permitted, Retryable, Queued
  <2> QED BY <2>3, <2>5, <2>6 DEF Moved, a
<1>2. CASE j \notin Loaded(s)
  BY <1>2, SameMoved DEF Flushed
<1> QED BY <1>1, <1>2

\* A step moves every row along an edge.
LEMMA StepMoves ==
    ASSUME Split = {}, Typed, Shown, Started, Lawful, Next
    PROVE  \A j \in Jobs : Moved(j)
<1> USE DEF Typed
<1>1. job \in [Jobs -> Row]
  BY DEF TypeOK
<1>2. ASSUME UNCHANGED job
      PROVE  \A j \in Jobs : Moved(j)
  BY <1>2, SameMoved
<1> DEFINE Others(k) == \A i \in Jobs : i # k => job'[i].status = job[i].status
<1> HIDE DEF Others
<1>3. ASSUME NEW k \in Jobs, job[k] = Unused, NEW f, NEW n, NEW st \in Queued, Others(k),
             job'[k] = Inserted(f, n, st)
      PROVE  \A j \in Jobs : Moved(j)
  <2>1. job'[k].status = st /\ job[k].status = "unused"
    BY <1>3 DEF Inserted, Unused
  <2>2. Moved(k)
    BY <2>1 DEF Moved, Edge, Late
  <2> QED BY <1>3, <2>2, SameMoved DEF Others
<1>4. ASSUME NEW f \in Files, NEW k \in Jobs, CreateJob(f, k)
      PROVE  \A j \in Jobs : Moved(j)
  <2>1. PICK st \in Queued : job[k] = Unused /\ job' = [job EXCEPT ![k] = Inserted(f, 1, st)]
    BY <1>4 DEF CreateJob
  <2>2. job'[k] = Inserted(f, 1, st) /\ Others(k)
    BY <1>1, <2>1 DEF Others
  <2> QED BY <1>3, <2>1, <2>2
<1>5. ASSUME NEW s \in Everyone, CommitRetry(s)
      PROVE  \A j \in Jobs : Moved(j)
  <2>1. PICK j \in Loaded(s), k \in Jobs, st \in Queued :
            /\ job[k] = Unused
            /\ job' = [job EXCEPT ![j] = MarkCleared(@),
                                  ![k] = Inserted(job[j].file, job[j].attempt + 1, st)]
    BY <1>5 DEF CommitRetry
  <2> DEFINE r == Inserted(job[j].file, job[j].attempt + 1, st)
             c == MarkCleared(job[j])
  <2>2. j \in Jobs
    BY TxnType
  <2>3. c.status = job[j].status
    BY <1>1, <2>2, MarkType
  <2>4. job' = [job EXCEPT ![j] = c, ![k] = r]
    BY <2>1
  <2>5. k # j
    <3>1. job[j].status # "unused"
      BY DEF PatchesOK, GoodTxn, Loaded
    <3> QED BY <2>1, <3>1 DEF Unused
  <2> HIDE DEF r, c
  <2>6. job'[k] = r /\ Others(k)
    <3>1. job'[k] = r
      BY <1>1, <2>1, <2>4
    <3>2. job'[j] = c
      BY <1>1, <2>2, <2>4, <2>5
    <3>3. \A i \in Jobs \ {j, k} : job'[i] = job[i]
      BY <1>1, <2>4
    <3> QED BY <2>3, <3>1, <3>2, <3>3 DEF Others
  <2> QED BY <1>3, <2>1, <2>6 DEF r
<1>6. ASSUME NEW s \in Everyone, CommitOperator(s)
      PROVE  \A j \in Jobs : Moved(j)
  BY <1>6, FlushMoves DEF CommitOperator, Lawful
<1>7. ASSUME NEW s \in Everyone, CommitResult(s)
      PROVE  \A j \in Jobs : Moved(j)
  <2> DEFINE T == Flushed(s)
  <2>1. PICK j \in Loaded(s) : Settle(T, FilesFlushed(s), j, txn[s].result)
    BY <1>7 DEF CommitResult
  <2>2. j \in Jobs /\ txn[s].op \in {"submit", "report"}
    BY <1>7, TxnType DEF CommitResult
  <2>3. T \in [Jobs -> Row]
    BY FlushedKept DEF Kept
  <2>4. \A i \in Loaded(s) : i = j
    BY <2>1, <2>2 DEF Shown, FilesOK, GoodResult, Loaded
  <2>5. /\ job[j].status = "running" /\ txn[s].rows[j].status \in Results
        /\ \A e \in Loops : run[e].job # j
    BY <2>1, <2>2 DEF Lawful, LegalTxns, LegalTxn, Loaded
  <2>6. T[j].status = txn[s].rows[j].status
    <3>1. job[j] \in Row /\ txn[s].rows[j] \in Patch
      BY <1>1, <2>1, <2>2, TxnType
    <3>2. T[j] = Merge(job[j], txn[s].rows[j])
      BY <2>1, <2>2 DEF Flushed
    <3> QED BY <2>5, <3>1, <3>2, MergeType DEF Column, Status
  <2>7. \A i \in Jobs : i # j => T[i] = job[i]
    BY <2>4 DEF Flushed
  <2>8. \A r \in Results : Edge(job[j].status, r, job[j].started)
    BY <2>5 DEF Edge
  <2> HIDE DEF T
  <2> QED BY <2>1, <2>2, <2>3, <2>5, <2>6, <2>7, <2>8, SettleMoves
<1>8. ASSUME CommitOrchestrate
      PROVE  \A j \in Jobs : Moved(j)
  <2>1. Orch \in Everyone /\ txn[Orch].op \notin {"submit", "report"}
    BY <1>8 DEF CommitOrchestrate, Everyone
  <2>2. job' = Flushed(Orch) \/ UNCHANGED job
    BY <1>8 DEF CommitOrchestrate
  <2> QED BY <1>2, <2>1, <2>2, FlushMoves DEF Lawful
<1>9. ASSUME NEW e \in Executors, NEW j \in Jobs, Claim(e, j) \/ ClaimReplyLost(e, j)
      PROVE  \A i \in Jobs : Moved(i)
  <2> DEFINE c == MarkClaimed(job[j], WorkerOf[e])
  <2>1. job[j].status = "pending" /\ job' = [job EXCEPT ![j] = c]
    BY <1>9 DEF Claim, ClaimReplyLost, ClaimRow
  <2>2. c.status = "running"
    BY <1>1 DEF MarkClaimed, Row
  <2>3. ~job[j].started
    BY <2>1 DEF Started, StartedOnce, Queued
  <2> HIDE DEF c
  <2>4. Moved(j)
    BY <1>1, <2>1, <2>2, <2>3 DEF Moved, Edge, Late
  <2>5. \A i \in Jobs : i # j => job'[i].status = job[i].status
    BY <1>1, <2>1
  <2> QED BY <2>4, <2>5, SameMoved
<1>10. ASSUME NEW e \in Executors, LoopCommit(e)
       PROVE  \A i \in Jobs : Moved(i)
  <2> DEFINE j == run[e].job
             r == MarkResult(job[j], run[e].result)
             T == [job EXCEPT ![j] = r]
             L == [life EXCEPT ![job[j].file] = LifeOf(run[e].result)]
  <2>1. j \in Jobs /\ run[e].result \in Results /\ e \in Loops /\ run[e].phase = "done"
    BY <1>10 DEF LoopCommit, RunsOK
  <2>2. r \in Row /\ r.status \in Results
    <3> DEFINE q == job[j]
               x == run[e].result
    <3>1. q \in Row /\ x \in Results
      BY <1>1, <2>1
    <3> HIDE DEF q, x
    <3>2. MarkResult(q, x) \in Row /\ MarkResult(q, x).file = q.file /\ MarkResult(q, x).status = x
      BY <3>1, ResultType
    <3> QED BY <3>1, <3>2 DEF q, x
  <2>3. Settle(T, L, j, run[e].result) /\ run' = [run EXCEPT ![e] = IdleRun]
    BY <1>10 DEF LoopCommit
  <2>4. job[j].status \in Late
    BY <2>1 DEF Lawful, LoopHolds
  <2>5. job[j].started
    BY <2>1 DEF Started, Held
  <2>6. \A d \in Loops : run[d].job = j => run'[d] = IdleRun
    <3>1. \A d \in Loops : run[d].job = j => d = e
      BY <2>1 DEF Started, OneExecutorPerJob, Loops
    <3> QED BY <2>1, <2>3, <3>1 DEF TypeOK, Loops
  <2> HIDE DEF j, r, L
  <2>7. T \in [Jobs -> Row] /\ T[j] = r /\ \A i \in Jobs : i # j => T[i] = job[i]
    BY <1>1, <2>1, <2>2
  <2> HIDE DEF T
  <2>8. \A x \in Results : Edge(job[j].status, x, job[j].started)
    BY <2>4, <2>5 DEF Edge, Late
  <2> QED BY <2>1, <2>2, <2>3, <2>6, <2>7, <2>8, SettleMoves
<1>11. ASSUME NEW w \in Workers, DeleteWorker(w)
       PROVE  \A j \in Jobs : Moved(j)
  <2>1. \A i \in Jobs : job'[i].status = job[i].status
    BY <1>1, <1>11 DEF DeleteWorker, Row
  <2> QED BY <2>1, SameMoved
<1>12. ASSUME NEW s \in Everyone, Rollback(s) \/ Begin(s)
       PROVE  UNCHANGED job
  BY <1>12 DEF Rollback, Begin, BeginRetry, BeginCancel, BeginCancelRequest, BeginSkip,
               BeginClearQueue, BeginClearHistory, AgentSubmit, AgentReport, table
<1>13. ASSUME NEW e \in Executors,
              \/ \E r \in Outcomes : Execute(e, r)
              \/ Progress(e) \/ AgentAck(e) \/ AgentTimeout(e) \/ Crash(e) \/ StopLocal(e)
       PROVE  UNCHANGED job
  BY <1>13 DEF Execute, Progress, AgentAck, AgentTimeout, Crash, StopLocal, table
<1>14. ASSUME \/ \E f \in Files : PlanFile(f)
              \/ \E w \in Workers : SetAble(w)
              \/ Orchestrate
       PROVE  UNCHANGED job
  BY <1>14 DEF PlanFile, SetAble, Orchestrate, table
<1> QED BY <1>2, <1>4, <1>5, <1>6, <1>7, <1>8, <1>9, <1>10, <1>11, <1>12, <1>13, <1>14
        DEF Next, Commit, Executor, World, Everyone

\* A handler opens with patches that are legal on the rows it has read.
Opened(s) == UNCHANGED txn \/ \E t : txn' = [txn EXCEPT ![s] = t] /\ LegalTxn(t)

\* A handler that records no result and opens with permitted statuses.
LEMMA OpenLegal ==
    ASSUME NEW s, NEW op, NEW rows, NEW files, NEW result, Open(s, op, rows, files, result),
           op \notin {"submit", "report"},
           \A j \in DOMAIN rows : Permitted(job[j].status, rows[j].status)
    PROVE  Opened(s)
<1> DEFINE t == [op |-> op, rows |-> rows, files |-> files, result |-> result]
<1>1. txn' = [txn EXCEPT ![s] = t]
  BY DEF Open
<1>2. t.op = op /\ t.rows = rows
  OBVIOUS
<1> HIDE DEF t
<1>3. LegalTxn(t)
  BY <1>2 DEF LegalTxn
<1> QED BY <1>1, <1>3 DEF Opened

\* What the handlers make of the status of a row.
LEMMA MarkStatus ==
    ASSUME NEW r \in Row
    PROVE  /\ Diff(r, MarkCleared(r)).status = Keep
           /\ Diff(r, MarkCancellationRequested(r)).status = Keep
           /\ Diff(r, MarkCancelled(r)).status \in {Keep, "cancelled"}
           /\ Diff(r, MarkSkipped(r)).status \in {Keep, "skipped"}
           /\ \A x : Diff(r, MarkResult(r, x)).status = IF x = r.status THEN Keep ELSE x
           /\ r.status \in Active => Permitted(r.status, Diff(r, MarkOrchestrated(r)).status)
<1>1. /\ MarkCleared(r).status = r.status
      /\ MarkCancellationRequested(r).status = r.status
      /\ MarkCancelled(r).status = "cancelled"
      /\ MarkSkipped(r).status = "skipped"
      /\ \A x : MarkResult(r, x).status = x
  BY DEF MarkCleared, MarkCancellationRequested, MarkCancelled, MarkSkipped, MarkResult, Row
<1>2. ASSUME r.status \in Active
      PROVE  Permitted(r.status, MarkOrchestrated(r).status)
  <2>1. CASE r.status = "scheduled"
    BY <2>1 DEF MarkOrchestrated, Permitted, Queued, Row
  <2>2. CASE r.status = "pending"
    BY <2>2 DEF MarkOrchestrated, Permitted, Queued, Row
  <2>3. CASE r.status = "running"
    BY <2>3 DEF MarkOrchestrated, MarkInterrupted, Permitted, Row
  <2> QED BY <1>2, <2>1, <2>2, <2>3 DEF Active, Queued
<1>3. \A x : Permitted(x, Keep)
  BY DEF Permitted
<1>4. Diff(r, MarkOrchestrated(r)).status \in {Keep, MarkOrchestrated(r).status}
  BY DiffColumns
<1> QED BY <1>1, <1>2, <1>3, <1>4, DiffColumns

\* A remote agent's result is opened on a running row that no loop holds.
LEMMA ResultLegal ==
    ASSUME Typed, Started, NEW s, NEW op \in {"submit", "report"}, NEW e \in Agents,
           NEW j \in Jobs, run[e].job = j, job[j].status = "running", NEW r \in Results,
           OpenResult(s, op, j, r)
    PROVE  Opened(s)
<1> DEFINE MarkRecorded(row) == MarkResult(row, r)
           rows == Plan({j}, MarkRecorded)
           t == [op |-> op, rows |-> rows, files |-> FilePlan({j}, LifeOf(r)), result |-> r]
<1>1. txn' = [txn EXCEPT ![s] = t]
  BY DEF OpenResult, Open
<1>2. DOMAIN rows = {j} /\ rows[j] = Diff(job[j], MarkResult(job[j], r))
  BY DEF Plan
<1>3. t.op = op /\ t.rows = rows
  OBVIOUS
<1> HIDE DEF rows, t
<1>4. rows[j].status = r
  <2>1. job[j] \in Row /\ r # "running"
    BY DEF Typed, TypeOK, Results
  <2> QED BY <1>2, <2>1, MarkStatus
<1>5. \A d \in Loops : run[d].job # j
  <2>1. j # NoJob /\ e \in Executors /\ e \notin Loops
    BY DEF Agents, Loops
  <2> QED BY <2>1 DEF Started, OneExecutorPerJob, Loops
<1>6. LegalTxn(t)
  BY <1>2, <1>3, <1>4, <1>5 DEF LegalTxn
<1> QED BY <1>1, <1>6 DEF Opened

\* Every Begin opens with legal patches.
LEMMA BeginLegal ==
    ASSUME Typed, Started, NEW s, Begin(s)
    PROVE  Opened(s)
<1>1. job \in [Jobs -> Row]
  BY DEF Typed, TypeOK
<1>2. ASSUME NEW j \in Jobs, BeginRetry(s, j)
      PROVE  Opened(s)
  <2> DEFINE rows == Plan({j}, MarkCleared)
  <2>1. Open(s, "retry", rows, NoFiles, "none")
    BY <1>2 DEF BeginRetry
  <2>2. \A i \in DOMAIN rows : Permitted(job[i].status, rows[i].status)
    BY <1>1, MarkStatus DEF Plan, Permitted
  <2> HIDE DEF rows
  <2> QED BY <2>1, <2>2, OpenLegal
<1>3. ASSUME NEW j \in Jobs, BeginCancel(s, j)
      PROVE  Opened(s)
  <2> DEFINE rows == Plan({j}, MarkCancelled)
  <2>1. Open(s, "cancel", rows, FilePlan({j}, "planned"), "none") /\ job[j].status \in Queued
    BY <1>3 DEF BeginCancel
  <2>2. \A i \in DOMAIN rows : Permitted(job[i].status, rows[i].status)
    BY <1>1, <2>1, MarkStatus DEF Plan, Permitted
  <2> HIDE DEF rows
  <2> QED BY <2>1, <2>2, OpenLegal
<1>4. ASSUME NEW j \in Jobs, BeginCancelRequest(s, j)
      PROVE  Opened(s)
  <2> DEFINE rows == Plan({j}, MarkCancellationRequested)
  <2>1. Open(s, "request", rows, NoFiles, "none")
    BY <1>4 DEF BeginCancelRequest
  <2>2. \A i \in DOMAIN rows : Permitted(job[i].status, rows[i].status)
    BY <1>1, MarkStatus DEF Plan, Permitted
  <2> HIDE DEF rows
  <2> QED BY <2>1, <2>2, OpenLegal
<1>5. ASSUME NEW j \in Jobs, BeginSkip(s, j)
      PROVE  Opened(s)
  <2> DEFINE rows == Plan({j}, MarkSkipped)
  <2>1. Open(s, "skip", rows, FilePlan({j}, "completed"), "none") /\ job[j].status \in Retryable
    BY <1>5 DEF BeginSkip
  <2>2. \A i \in DOMAIN rows : Permitted(job[i].status, rows[i].status)
    BY <1>1, <2>1, MarkStatus DEF Plan, Permitted
  <2> HIDE DEF rows
  <2> QED BY <2>1, <2>2, OpenLegal
<1>6. ASSUME BeginClearQueue(s)
      PROVE  Opened(s)
  <2>1. PICK T \in SUBSET {j \in Jobs : job[j].status \in Queued \cup {"interrupted"}} :
            Open(s, "clear_queue", Plan(T, MarkCancelled), FilePlan(T, "planned"), "none")
    BY <1>6 DEF BeginClearQueue
  <2> DEFINE rows == Plan(T, MarkCancelled)
  <2>2. \A i \in DOMAIN rows : Permitted(job[i].status, rows[i].status)
    BY <1>1, <2>1, MarkStatus DEF Plan, Permitted
  <2>3. Open(s, "clear_queue", rows, FilePlan(T, "planned"), "none")
    BY <2>1
  <2> HIDE DEF rows
  <2> QED BY <2>2, <2>3, OpenLegal
<1>7. ASSUME NEW T \in SUBSET Jobs, BeginClearHistory(s, T)
      PROVE  Opened(s)
  <2> DEFINE rows == Plan(T, MarkCleared)
  <2>1. Open(s, "clear_history", rows, NoFiles, "none")
    BY <1>7 DEF BeginClearHistory
  <2>2. \A i \in DOMAIN rows : Permitted(job[i].status, rows[i].status)
    BY <1>1, MarkStatus DEF Plan, Permitted
  <2> HIDE DEF rows
  <2> QED BY <2>1, <2>2, OpenLegal
<1>8. ASSUME NEW e \in Agents, AgentSubmit(e, s) \/ AgentReport(e, s)
      PROVE  Opened(s)
  <2>1. e \in Executors
    BY DEF Agents
  <2>2. CASE UNCHANGED txn
    BY <2>2 DEF Opened
  <2>3. ASSUME NEW r \in {run[e].result, "failed"}, run[e].phase = "done",
               Accepts(WorkerOf[e], run[e].job),
               OpenResult(s, "submit", run[e].job, Effective(r, job[run[e].job].cancel))
        PROVE  Opened(s)
    <3>1. run[e].job \in Jobs /\ run[e].result \in Results
      BY <2>1, <2>3 DEF Typed, RunsOK
    <3>2. Effective(r, job[run[e].job].cancel) \in Results
      BY <3>1, <2>3 DEF Effective, Results
    <3> QED BY <2>3, <3>1, <3>2, ResultLegal DEF Accepts
  <2>4. ASSUME run[e].phase = "failing", Accepts(WorkerOf[e], run[e].job),
               OpenResult(s, "report", run[e].job, "failed")
        PROVE  Opened(s)
    <3>1. run[e].job \in Jobs /\ "failed" \in Results
      BY <2>1, <2>4 DEF Typed, RunsOK, Results
    <3> QED BY <2>4, <3>1, ResultLegal DEF Accepts
  <2> QED BY <1>8, <2>2, <2>3, <2>4 DEF AgentSubmit, AgentReport
<1> QED BY <1>2, <1>3, <1>4, <1>5, <1>6, <1>7, <1>8 DEF Begin

\* So does the orchestration loop.
LEMMA OrchestrateLegal ==
    ASSUME Typed, Orchestrate
    PROVE  Opened(Orch)
<1>1. job \in [Jobs -> Row]
  BY DEF Typed, TypeOK
<1>2. PICK T \in SUBSET {j \in Jobs : job[j].status \in Active} :
          Open(Orch, "orchestrate", Plan(T, MarkOrchestrated), NoFiles, "none")
  BY DEF Orchestrate, Active, Queued
<1> DEFINE rows == Plan(T, MarkOrchestrated)
<1>3. \A i \in DOMAIN rows : Permitted(job[i].status, rows[i].status)
  BY <1>1, <1>2, MarkStatus DEF Plan
<1>4. Open(Orch, "orchestrate", rows, NoFiles, "none")
  BY <1>2
<1> HIDE DEF rows
<1> QED BY <1>3, <1>4, OpenLegal

\* Handlers that run alone keep what they have read.
LEMMA StepLawful ==
    ASSUME Split = {}, Typed, Shown, Started, Lawful, Next
    PROVE  Lawful'
<1>1. txn \in [Everyone -> Txn] /\ run \in [Executors -> Run] /\ job \in [Jobs -> Row]
  BY DEF Typed, TypeOK
<1>2. DOMAIN Idle.rows = {} /\ \A s \in Everyone : ~Exclusive(s) => txn[s] = Idle
  BY DEF Idle, Exclusive
<1>3. ASSUME \A s \in Everyone : txn'[s] = Idle
      PROVE  LegalTxns'
  BY <1>2, <1>3 DEF LegalTxns, LegalTxn
<1>4. LegalTxns'
  <2>1. ASSUME NEW s \in Everyone, Commit(s), \A q \in Everyone \ {s} : ~Exclusive(q)
        PROVE  LegalTxns'
    <3>1. Close(s)
      BY <2>1 DEF Commit, CommitRetry, CommitOperator, CommitResult, Rollback, CommitOrchestrate
    <3> QED BY <1>1, <1>2, <1>3, <2>1, <3>1 DEF Close
  <2>2. ASSUME NEW s \in Everyone, Opened(s), UNCHANGED job, \A q \in Everyone : txn[q] = Idle,
               \A e \in Loops : run'[e].job = run[e].job
        PROVE  LegalTxns'
    <3>1. CASE UNCHANGED txn
      BY <1>3, <2>2, <3>1
    <3>2. ASSUME NEW t, txn' = [txn EXCEPT ![s] = t], LegalTxn(t)
          PROVE  LegalTxns'
      <4>1. txn'[s] = t /\ \A q \in Everyone : q # s => txn'[q] = Idle
        BY <1>1, <2>2, <3>2
      <4>2. LegalTxn(t)'
        BY <2>2, <3>2 DEF LegalTxn
      <4>3. LegalTxn(Idle)'
        BY <1>2 DEF LegalTxn
      <4> QED BY <4>1, <4>2, <4>3 DEF LegalTxns
    <3> QED BY <2>2, <3>1, <3>2 DEF Opened
  <2>3. CASE \A q \in Everyone : ~Exclusive(q)
    <3>1. \A q \in Everyone : txn[q] = Idle
      BY <1>2, <2>3
    <3>2. ASSUME NEW s \in Sessions, Begin(s)
          PROVE  LegalTxns'
      <4>1. UNCHANGED job
        BY <3>2 DEF Begin, BeginRetry, BeginCancel, BeginCancelRequest, BeginSkip,
               BeginClearQueue, BeginClearHistory, AgentSubmit, AgentReport, table
      <4>2. \A e \in Loops : run'[e].job = run[e].job
        <5>1. CASE UNCHANGED run
          BY <5>1
        <5>2. ASSUME NEW d \in Agents, \E x : run' = [run EXCEPT ![d] = x]
              PROVE  \A e \in Loops : run'[e].job = run[e].job
          BY <1>1, <5>2 DEF Loops
        <5> QED BY <3>2, <5>1, <5>2 DEF Begin, BeginRetry, BeginCancel, BeginCancelRequest,
               BeginSkip, BeginClearQueue, BeginClearHistory, AgentSubmit, AgentReport, exec
      <4> QED BY <2>2, <3>1, <3>2, <4>1, <4>2, BeginLegal DEF Everyone
    <3>3. CASE Orchestrate
      <4>1. UNCHANGED <<job, run>>
        BY <3>3 DEF Orchestrate, table, exec
      <4> QED BY <2>2, <3>1, <3>3, <4>1, OrchestrateLegal DEF Everyone
    <3>4. CASE (\E e \in Executors : Executor(e)) \/ World
      <4>1. UNCHANGED txn
        BY <3>4 DEF Executor, Claim, ClaimReplyLost, Execute, Progress, LoopCommit, AgentAck,
                    AgentTimeout, Crash, StopLocal, World, PlanFile, CreateJob, SetAble,
                    DeleteWorker
      <4> QED BY <1>3, <3>1, <4>1
    <3> QED BY <2>1, <3>2, <3>3, <3>4 DEF Next
  <2> QED BY <2>1, <2>3 DEF Next
<1>5. LoopHolds'
  <2>1. \A j \in Jobs : Moved(j)
    BY StepMoves
  <2>2. ASSUME NEW e \in Loops, Holds(e), run'[e].phase # "idle"
        PROVE  job'[run'[e].job].status \in Late
    <3>1. e \in Executors /\ IdleRun.phase = "idle"
      BY DEF Loops, IdleRun
    <3>2. run[e].phase # "idle" /\ run'[e].job = run[e].job /\ run'[e] # IdleRun
      BY <2>2, <3>1 DEF Holds
    <3>3. run[e].job \in Jobs /\ job[run[e].job].status \in Late
      BY <3>1, <3>2 DEF Typed, RunsOK, Lawful, LoopHolds
    <3> QED BY <2>1, <3>2, <3>3 DEF Moved
  <2>3. CASE \A e \in Executors : Holds(e)
    BY <2>2, <2>3 DEF LoopHolds, Loops
  <2>4. ASSUME NEW e \in Executors, NEW j \in Jobs, Takes(e, j)
        PROVE  LoopHolds'
    <3>1. job'[j].status = "running" /\ run'[e].job = j
      <4>1. MarkClaimed(job[j], WorkerOf[e]).status = "running"
        BY <1>1 DEF MarkClaimed, Row
      <4> QED BY <1>1, <2>4, <4>1 DEF Takes
    <3>2. \A d \in Executors : d # e => Holds(d)
      BY <1>1, <2>4 DEF Takes, Holds
    <3> QED BY <2>2, <3>1, <3>2 DEF LoopHolds, Late, Loops
  <2> QED BY <2>3, <2>4, StepHolds
<1> QED BY <1>4, <1>5 DEF Lawful

\* No handler is open and no job held at first.
LEMMA InitLawful == Init => Lawful
BY DEF Init, Lawful, LegalTxns, LegalTxn, LoopHolds, Idle, IdleRun, Loops

\* Lawfulness is an invariant of handlers that run alone.
LEMMA AlwaysLawful ==
    ASSUME Split = {}
    PROVE  Spec => []Lawful
<1>1. Typed /\ Shown /\ Started /\ Lawful /\ [Next]_vars => Lawful'
  <2>1. ASSUME Lawful, UNCHANGED vars PROVE Lawful'
    BY <2>1 DEF vars, Lawful, LegalTxns, LegalTxn, LoopHolds
  <2> QED BY <2>1, StepLawful
<1>2. Spec => []Started
  BY AlwaysStarted
<1> QED BY <1>1, <1>2, InitLawful, InductiveInvariant, AlwaysShown, PTL DEF Spec

\* With handlers that run alone from read to commit, the queue implements
\* JobLifecycle (KeepsLifecycle): every commit moves each row along a legal
\* edge, a job is started at most once, and a recorded completion stays.
THEOREM LifecycleKept ==
    ASSUME Split = {}
    PROVE  Spec => KeepsLifecycle
<1> DEFINE st == [j \in Jobs |-> job[j].status]
           bg == {j \in Jobs : job[j].started}
<1>1. Init => Lifecycle!Init
  BY DEF Init, Lifecycle!Init, Unused
<1>2. ASSUME Typed, Typed', Shown, Started, Lawful, [Next]_vars
      PROVE  [Lifecycle!Next]_<<st, bg>>
  <2>1. CASE UNCHANGED vars
    BY <2>1 DEF vars
  <2>2. CASE Next
    <3>1. st' \in [Jobs -> Lifecycle!Statuses]
      <4>1. job' \in [Jobs -> Row]
        BY <1>2 DEF Typed, TypeOK
      <4>2. ASSUME NEW j \in Jobs
            PROVE  job'[j].status \in Lifecycle!Statuses
        BY <4>1 DEF Row, Status, Active, Queued, Results, Lifecycle!Statuses,
                    Lifecycle!Queued, Lifecycle!Results
      <4> QED BY <4>2
    <3>2. bg' = bg \cup {j \in Jobs : st'[j] = "running"}
      <4>1. ASSUME NEW j \in Jobs
            PROVE  job'[j].started <=> job[j].started \/ job'[j].status = "running"
        <5>1. job[j].status = "running" => job[j].started
          BY <1>2 DEF Started, StartedOnce
        <5>2. CASE Tame(job[j], job'[j])
          BY <5>1, <5>2 DEF Tame
        <5>3. ASSUME NEW w \in Workers, NEW k \in Jobs, Claimed(w, k)
              PROVE  job'[j].started <=> job[j].started \/ job'[j].status = "running"
          <6>1. job[k] \in Row /\ job \in [Jobs -> Row]
            BY <1>2 DEF Typed, TypeOK
          <6>2. MarkClaimed(job[k], w).status = "running" /\ MarkClaimed(job[k], w).started = TRUE
            BY <6>1 DEF MarkClaimed, Row
          <6>3. job' = [job EXCEPT ![k] = MarkClaimed(job[k], w)]
            BY <5>3 DEF Claimed
          <6> QED BY <5>1, <6>1, <6>2, <6>3
        <5>4. StartEffect
          BY <1>2, <2>2, StepTame DEF Started
        <5> QED BY <5>2, <5>3, <5>4 DEF StartEffect
      <4> QED BY <4>1
    <3>3. \A j \in Jobs : st'[j] = st[j] \/ Lifecycle!Move(j)
      <4>1. \A j \in Jobs : Moved(j)
        BY <1>2, <2>2, StepMoves
      <4> QED BY <4>1, EdgeMoves DEF Moved
    <3> QED BY <3>1, <3>2, <3>3 DEF Lifecycle!Next
  <2> QED BY <1>2, <2>1, <2>2
<1>3. Spec => []Started /\ []Lawful
  BY AlwaysStarted, AlwaysLawful
<1> QED BY <1>1, <1>2, <1>3, InductiveInvariant, AlwaysShown, PTL
        DEF Spec, KeepsLifecycle, Lifecycle!Spec
=============================================================================
