------------------------------ MODULE JobQueue ------------------------------
(***************************************************************************)
(* The job queue: API handlers, the orchestration loop, local worker loops *)
(* and remote agents over one jobs table at READ COMMITTED isolation.      *)
(*                                                                         *)
(* A handler that reads a row and later writes it is two steps, Begin...   *)
(* and Commit..., with the loaded rows kept in txn; other sessions may     *)
(* commit in between.  A handler whose decision the database itself        *)
(* re-evaluates (the conditional UPDATE of a claim, the unique index and   *)
(* the tracked-file lock of a create) is one step.                         *)
(***************************************************************************)
EXTENDS JobTable

CONSTANTS
    Remote,      \* workers of type remote; the other workers are local
    Cap,         \* max_concurrent_jobs of each worker
    Executors,   \* processes that execute: local loops and remote agents
    WorkerOf,    \* the worker row each executor acts for
    ApiLoops,    \* local loops living in the API process
    Sessions,    \* concurrent API request sessions
    Orch,        \* the orchestration loop's session
    Protected,   \* files for which job_requires_manual_review holds
    Outcomes,    \* execution results considered, a subset of Results
    Split,       \* handlers other sessions may interleave with
    NoJob

Ops == {"cancel", "request", "clear_queue", "clear_history", "skip",
        "retry", "submit", "report", "orchestrate"}

Agents == {e \in Executors : WorkerOf[e] \in Remote}
Loops == Executors \ Agents
Everyone == Sessions \cup {Orch}

ASSUME QueueAssumption ==
    /\ Remote \subseteq Workers
    /\ Cap \in [Workers -> Nat \ {0}]
    /\ WorkerOf \in [Executors -> Workers]
    /\ ApiLoops \subseteq Loops
    /\ Orch \notin Sessions
    /\ Protected \subseteq Files
    /\ Outcomes \subseteq Results
    /\ Split \subseteq Ops
    /\ NoJob \notin Jobs

VARIABLES
    job,      \* the jobs table
    life,     \* lifecycle_state of each tracked file
    able,     \* the worker may take work (enabled; if remote, dispatchable)
    run,      \* what each executor is doing
    told,     \* executors that were asked to stop their process
    txn       \* open read-modify-write handlers

vars == <<job, life, able, run, told, txn>>
table == <<job, life>>
exec == <<run, told>>

Phase == {"idle", "working", "done", "sent", "failing"}
IdleRun == [phase |-> "idle", job |-> NoJob, result |-> "none"]
Run == [phase: Phase, job: Jobs \cup {NoJob}, result: Results \cup {"none"}]

\* A session's open handler: rows maps each loaded job to what the handler
\* will write, files each loaded file to its new lifecycle.
Txn == [op: Ops \cup {"idle"},
        rows: UNION {[T -> Patch] : T \in SUBSET Jobs},
        files: UNION {[F -> FileState \cup {Keep}] : F \in SUBSET Files},
        result: Results \cup {"none"}]
Idle == [op |-> "idle", rows |-> [j \in {} |-> Keep], files |-> [f \in {} |-> Keep],
         result |-> "none"]

Init ==
    /\ job = [j \in Jobs |-> Unused]
    /\ life = [f \in Files |-> "planned"]
    /\ able = [w \in Workers |-> TRUE]
    /\ run = [e \in Executors |-> IdleRun]
    /\ told = {}
    /\ txn = [s \in Everyone |-> Idle]

-----------------------------------------------------------------------------
(* Sessions.                                                               *)

Open(s, op, rows, files, result) ==
    /\ txn[s] = Idle
    /\ txn' = [txn EXCEPT ![s] =
                [op |-> op, rows |-> rows, files |-> files, result |-> result]]

Close(s) == txn' = [txn EXCEPT ![s] = Idle]

Loaded(s) == DOMAIN txn[s].rows

\* s loads the rows of T and is going to make of each what Mark says, and to
\* set their files' lifecycle to new.
Plan(T, Mark(_)) == [j \in T |-> Diff(job[j], Mark(job[j]))]
FilePlan(T, new) == [f \in {job[j].file : j \in T} |-> Changed(life[f], new)]
NoFiles == [f \in {} |-> Keep]

\* The tables after s flushes.
Flushed(s) ==
    [j \in Jobs |-> IF j \in Loaded(s) THEN Merge(job[j], txn[s].rows[j]) ELSE job[j]]
FilesFlushed(s) ==
    [f \in Files |-> IF f \in DOMAIN txn[s].files
                     THEN Column(life[f], txn[s].files[f]) ELSE life[f]]

\* Connection loss, deadlock, or an exception: the session rolls back.
Rollback(s) ==
    /\ txn[s] # Idle
    /\ Close(s)
    /\ UNCHANGED <<table, able, exec>>

-----------------------------------------------------------------------------
(* Creating jobs.  create_job, create_watched_job_if_needed and retry_job   *)
(* hold the row lock of the tracked file; the index refuses what is left.   *)

CreateJob(f, k) ==
    /\ job[k] = Unused
    /\ ~HasActive(job, f)
    /\ \E st \in Queued : job' = [job EXCEPT ![k] = Inserted(f, 1, st)]
    /\ life' = [life EXCEPT ![f] = "queued"]
    /\ UNCHANGED <<able, exec, txn>>

BeginRetry(s, j) ==
    /\ job[j].status \in Retryable
    /\ Open(s, "retry", Plan({j}, MarkCleared), NoFiles, "none")
    /\ UNCHANGED <<table, able, exec>>

\* The status is tested before the lock is taken and not again after it.
CommitRetry(s) ==
    /\ txn[s].op = "retry"
    /\ \E j \in Loaded(s), k \in Jobs, st \in Queued :
        /\ job[k] = Unused
        /\ ~HasActive(job, job[j].file)
        /\ job[j].attempt < MaxAttempt
        /\ job' = [job EXCEPT ![j] = MarkCleared(@),
                              ![k] = Inserted(job[j].file, job[j].attempt + 1, st)]
        /\ life' = [life EXCEPT ![job[j].file] = "queued"]
    /\ Close(s)
    /\ UNCHANGED <<able, exec>>

-----------------------------------------------------------------------------
(* Operator actions on existing jobs.  A plan that is put back in force     *)
(* leaves the file "planned".                                               *)

\* Mutant: cancelling a queued job leaves the file's lifecycle alone.
BeginCancelJobOnly(s, j) ==
    /\ job[j].status \in Queued
    /\ Open(s, "cancel", Plan({j}, MarkCancelled), NoFiles, "none")
    /\ UNCHANGED <<table, able, exec>>

BeginCancel(s, j) ==
    /\ job[j].status \in Queued
    /\ Open(s, "cancel", Plan({j}, MarkCancelled), FilePlan({j}, "planned"), "none")
    /\ UNCHANGED <<table, able, exec>>

BeginCancelRequest(s, j) ==
    /\ job[j].status \in {"running", "interrupted"}
    /\ job[j].worker \in Remote
    /\ ~job[j].cancel
    /\ Open(s, "request", Plan({j}, MarkCancellationRequested), NoFiles, "none")
    /\ UNCHANGED <<table, able, exec>>

\* request_cancel reaches only the loop object of the API process.
StopLocal(e) ==
    /\ e \in ApiLoops \ told
    /\ run[e].phase = "working"
    /\ LET r == job[run[e].job]
       IN /\ r.status \in {"running", "interrupted"}
          /\ r.worker \notin Remote
    /\ told' = told \cup {e}
    /\ UNCHANGED <<table, able, run, txn>>

BeginClearQueue(s) ==
    /\ LET T == {j \in Jobs :
                    /\ ~job[j].cleared
                    /\ \/ job[j].status \in Queued
                       \/ job[j].status = "interrupted" /\ job[j].worker = NoWorker}
       IN /\ T # {}
          /\ Open(s, "clear_queue", Plan(T, MarkCancelled), FilePlan(T, "planned"), "none")
    /\ UNCHANGED <<table, able, exec>>

BeginClearHistory(s, T) ==
    /\ T # {}
    /\ \A j \in T : /\ ~job[j].cleared
                    /\ job[j].status \in {"failed", "interrupted", "cancelled", "skipped"}
    /\ Open(s, "clear_history", Plan(T, MarkCleared), NoFiles, "none")
    /\ UNCHANGED <<table, able, exec>>

MarkSkipped(r) == MarkResult(r, "skipped")

BeginSkip(s, j) ==
    /\ job[j].status \in Retryable
    /\ Open(s, "skip", Plan({j}, MarkSkipped), FilePlan({j}, "completed"), "none")
    /\ UNCHANGED <<table, able, exec>>

\* The flush and commit of the five handlers above.
CommitOperator(s) ==
    /\ txn[s].op \in {"cancel", "request", "clear_queue", "clear_history", "skip"}
    /\ job' = Flushed(s)
    /\ life' = FilesFlushed(s)
    /\ Close(s)
    /\ UNCHANGED <<able, exec>>

\* A library scan or a manual plan sets the lifecycle whatever the jobs do.
PlanFile(f) ==
    /\ life' = [life EXCEPT ![f] = "planned"]
    /\ UNCHANGED <<job, able, exec, txn>>

-----------------------------------------------------------------------------
(* Executors.                                                              *)

\* Mutant: the claim does not count the worker's running jobs.
ClaimRowUncounted(w, j) ==
    /\ able[w]
    /\ job[j].status = "pending"
    /\ ~job[j].cleared
    /\ job[j].worker \in (IF w \in Remote THEN {NoWorker, w} ELSE {NoWorker})
    /\ job' = [job EXCEPT ![j] = MarkClaimed(@, w)]
    /\ life' = [life EXCEPT ![job[j].file] = "processing"]

\* Mutant: the UPDATE of the claim does not test the status.
ClaimRowUnconditional(w, j) ==
    /\ able[w]
    /\ job[j] # Unused
    /\ ~job[j].cleared
    /\ job[j].worker \in (IF w \in Remote THEN {NoWorker, w} ELSE {NoWorker})
    /\ Cardinality(RunningOn(job, w)) < Cap[w]
    /\ job' = [job EXCEPT ![j] = MarkClaimed(@, w)]
    /\ life' = [life EXCEPT ![job[j].file] = "processing"]

\* claim_pending_for_worker: count under the worker's row lock, then an
\* UPDATE that takes the row only while it is pending and not cleared.
ClaimRow(w, j) ==
    /\ able[w]
    /\ job[j].status = "pending"
    /\ ~job[j].cleared
    /\ job[j].worker \in (IF w \in Remote THEN {NoWorker, w} ELSE {NoWorker})
    /\ Cardinality(RunningOn(job, w)) < Cap[w]
    /\ job' = [job EXCEPT ![j] = MarkClaimed(@, w)]
    /\ life' = [life EXCEPT ![job[j].file] = "processing"]

Claim(e, j) ==
    /\ run[e] = IdleRun
    /\ ClaimRow(WorkerOf[e], j)
    /\ run' = [run EXCEPT ![e] = [phase |-> "working", job |-> j, result |-> "none"]]
    /\ UNCHANGED <<able, told, txn>>

\* The claim commits and its reply never reaches the agent.
ClaimReplyLost(e, j) ==
    /\ e \in Agents
    /\ run[e] = IdleRun
    /\ ClaimRow(WorkerOf[e], j)
    /\ UNCHANGED <<able, exec, txn>>

\* A remote agent learns of a cancellation request in the answer to a
\* progress report.
Progress(e) ==
    /\ e \in Agents
    /\ run[e].phase = "working"
    /\ job[run[e].job].worker = WorkerOf[e]
    /\ job[run[e].job].status = "running"
    /\ job[run[e].job].cancel
    /\ told' = told \cup {e}
    /\ UNCHANGED <<table, able, run, txn>>

\* ffmpeg, verification and placement.  A completed execution has replaced
\* the media; only an executor told to stop ends cancelled.
Execute(e, r) ==
    /\ run[e].phase = "working"
    /\ r = "cancelled" => e \in told
    /\ run' = [run EXCEPT ![e].phase = "done", ![e].result = r]
    /\ UNCHANGED <<table, able, told, txn>>

\* The executor's process dies and starts again with nothing to do.
Crash(e) ==
    /\ run[e] # IdleRun
    /\ run' = [run EXCEPT ![e] = IdleRun]
    /\ told' = told \ {e}
    /\ UNCHANGED <<table, able, txn>>

-----------------------------------------------------------------------------
(* Recording a result.                                                     *)

\* Mutant: the job's status is taken for the file's lifecycle.
LifeOfStatus(result) == IF result = "skipped" THEN "completed" ELSE result

LifeOf(result) ==
    CASE result \in {"completed", "skipped"} -> "completed"
      [] result = "manual_review"            -> "manual_review"
      [] result = "cancelled"                -> "planned"
      [] OTHER                               -> "failed"

\* Mutant: a job whose retry budget is exhausted is left as it is.
SettleUnrouted(T, L, j, result) ==
    LET f == job[j].file
        retried == /\ result = "failed"
                   /\ T[j].attempt <= MaxAutomatedRetries
                   /\ ~HasActive(T, f)
    IN \/ /\ ~retried
          /\ job' = T
          /\ life' = L
       \/ /\ retried
          /\ \E k \in Jobs :
                /\ T[k] = Unused
                /\ job' = [T EXCEPT ![k] = Inserted(f, T[j].attempt + 1, "scheduled")]
          /\ life' = [L EXCEPT ![f] = "queued"]

\* apply_automatic_retry_policy and the commit, after mark_result made the
\* tables T and L.
Settle(T, L, j, result) ==
    LET f == job[j].file
        retried == result = "failed" /\ f \notin Protected
                   /\ T[j].attempt <= MaxAutomatedRetries
    IN \/ /\ result # "failed" \/ (retried /\ HasActive(T, f))
          /\ job' = T
          /\ life' = L
       \/ /\ result = "failed" /\ ~retried
          /\ job' = [T EXCEPT ![j] = MarkReview(@)]
          /\ life' = [L EXCEPT ![f] = "manual_review"]
       \/ /\ retried /\ ~HasActive(T, f)
          /\ T[j].attempt < MaxAttempt
          /\ \E k \in Jobs :
                /\ T[k] = Unused
                /\ job' = [T EXCEPT ![k] = Inserted(f, T[j].attempt + 1, "scheduled")]
          /\ life' = [L EXCEPT ![f] = "queued"]

\* The local loop records on the row it claimed, whatever became of it since.
LoopCommit(e) ==
    /\ e \in Loops
    /\ run[e].phase = "done"
    /\ LET j == run[e].job
           r == run[e].result
       IN Settle([job EXCEPT ![j] = MarkResult(@, r)],
                 [life EXCEPT ![job[j].file] = LifeOf(r)], j, r)
    /\ run' = [run EXCEPT ![e] = IdleRun]
    /\ told' = told \ {e}
    /\ UNCHANGED <<able, txn>>

\* submit_job_result and report_job_failure accept the job's own worker only.
Accepts(w, j) == job[j].worker = w /\ job[j].status = "running"

\* A result that arrives after a cancellation request is cancelled unless
\* the media was replaced or the execution failed.
Effective(result, cancel) ==
    IF cancel /\ result \notin {"cancelled", "failed", "completed"}
    THEN "cancelled" ELSE result

OpenResult(s, op, j, r) ==
    LET MarkRecorded(row) == MarkResult(row, r)
    IN Open(s, op, Plan({j}, MarkRecorded), FilePlan({j}, LifeOf(r)), r)

\* A result with a path outside the worker's roots is taken for a failure.
AgentSubmit(e, s) ==
    /\ e \in Agents
    /\ run[e].phase = "done"
    /\ LET j == run[e].job
       IN \/ /\ Accepts(WorkerOf[e], j)
             /\ \E r \in {run[e].result, "failed"} :
                   OpenResult(s, "submit", j, Effective(r, job[j].cancel))
             /\ run' = [run EXCEPT ![e].phase = "sent"]
          \/ /\ ~Accepts(WorkerOf[e], j)
             /\ run' = [run EXCEPT ![e].phase = "failing"]
             /\ UNCHANGED txn
    /\ UNCHANGED <<table, able, told>>

\* The reply arrived: the server's handler is over.
AgentAck(e) ==
    /\ run[e].phase = "sent"
    /\ ~\E s \in Sessions : txn[s].op = "submit" /\ run[e].job \in Loaded(s)
    /\ run' = [run EXCEPT ![e] = IdleRun]
    /\ told' = told \ {e}
    /\ UNCHANGED <<table, able, txn>>

\* The request or its reply was lost, or took longer than the client waits.
AgentTimeout(e) ==
    /\ e \in Agents
    /\ run[e].phase \in {"done", "sent"}
    /\ run' = [run EXCEPT ![e].phase = "failing"]
    /\ UNCHANGED <<table, able, told, txn>>

\* _best_effort_report_failure; a report that is lost is a Crash.
AgentReport(e, s) ==
    /\ e \in Agents
    /\ run[e].phase = "failing"
    /\ IF Accepts(WorkerOf[e], run[e].job)
       THEN OpenResult(s, "report", run[e].job, "failed")
       ELSE UNCHANGED txn
    /\ run' = [run EXCEPT ![e] = IdleRun]
    /\ told' = told \ {e}
    /\ UNCHANGED <<table, able>>

CommitResult(s) ==
    /\ txn[s].op \in {"submit", "report"}
    /\ \E j \in Loaded(s) : Settle(Flushed(s), FilesFlushed(s), j, txn[s].result)
    /\ Close(s)
    /\ UNCHANGED <<able, exec>>

-----------------------------------------------------------------------------
(* The orchestration loop: one transaction for all it does.                *)

\* A running job the loop may interrupt once its last contact is older than
\* the grace period.
Abandoned(r) == r.worker = NoWorker \/ ~able[r.worker]

\* Mutant: an abandoned running job goes back to the queue.
MarkRequeued(r) ==
    CASE r.status = "scheduled" -> [r EXCEPT !.status = "pending"]
      [] r.status = "pending"   -> [r EXCEPT !.status = "scheduled"]
      [] OTHER                  -> [r EXCEPT !.status = "pending", !.worker = NoWorker]

MarkOrchestrated(r) ==
    CASE r.status = "scheduled" -> [r EXCEPT !.status = "pending"]
      [] r.status = "pending"   -> [r EXCEPT !.status = "scheduled"]
      [] OTHER                  -> MarkInterrupted(r)

\* run_once promotes due jobs, reschedules unassigned pending jobs whose
\* window closed, and interrupts abandoned running jobs.  Time is abstract:
\* T is whatever is due, closed or past the grace period.
Orchestrate ==
    /\ \E T \in SUBSET {j \in Jobs :
            \/ job[j].status = "scheduled" /\ ~job[j].cleared
            \/ job[j].status = "pending" /\ job[j].worker = NoWorker /\ ~job[j].cleared
            \/ job[j].status = "running" /\ Abandoned(job[j])} :
        /\ T # {}
        /\ Open(Orch, "orchestrate", Plan(T, MarkOrchestrated), NoFiles, "none")
    /\ UNCHANGED <<table, able, exec>>

\* An index violation rolls the whole run back.
CommitOrchestrate ==
    /\ txn[Orch].op = "orchestrate"
    /\ job' = IF IndexOK(Flushed(Orch)) THEN Flushed(Orch) ELSE job
    /\ Close(Orch)
    /\ UNCHANGED <<life, able, exec>>

-----------------------------------------------------------------------------
(* The world around the queue.                                             *)

\* Heartbeats stop or come back; an operator disables or enables the worker.
SetAble(w) ==
    /\ able' = [able EXCEPT ![w] = ~@]
    /\ UNCHANGED <<table, exec, txn>>

\* delete_worker: ON DELETE SET NULL on the jobs.  The next worker that is
\* registered takes the same identity here.
DeleteWorker(w) ==
    /\ w \in Remote
    /\ job' = [j \in Jobs |-> IF job[j].worker = w
                              THEN [job[j] EXCEPT !.worker = NoWorker] ELSE job[j]]
    /\ able' = [able EXCEPT ![w] = FALSE]
    /\ UNCHANGED <<life, exec, txn>>

\* s runs alone from its read to its commit.
Exclusive(s) == txn[s] # Idle /\ txn[s].op \notin Split

Commit(s) ==
    \/ CommitRetry(s)
    \/ CommitOperator(s)
    \/ CommitResult(s)
    \/ Rollback(s)
    \/ s = Orch /\ CommitOrchestrate

Begin(s) ==
    \/ \E j \in Jobs : \/ BeginRetry(s, j)
                       \/ BeginCancel(s, j)
                       \/ BeginCancelRequest(s, j)
                       \/ BeginSkip(s, j)
    \/ BeginClearQueue(s)
    \/ \E T \in SUBSET Jobs : BeginClearHistory(s, T)
    \/ \E e \in Agents : AgentSubmit(e, s) \/ AgentReport(e, s)

Executor(e) ==
    \/ \E j \in Jobs : Claim(e, j) \/ ClaimReplyLost(e, j)
    \/ \E r \in Outcomes : Execute(e, r)
    \/ Progress(e)
    \/ LoopCommit(e)
    \/ AgentAck(e)
    \/ AgentTimeout(e)
    \/ Crash(e)
    \/ StopLocal(e)

World ==
    \/ \E f \in Files : PlanFile(f) \/ \E k \in Jobs : CreateJob(f, k)
    \/ \E w \in Workers : SetAble(w) \/ DeleteWorker(w)

Next ==
    \/ \E s \in Everyone : Commit(s) /\ \A q \in Everyone \ {s} : ~Exclusive(q)
    \/ /\ \A q \in Everyone : ~Exclusive(q)
       /\ \/ \E s \in Sessions : Begin(s)
          \/ \E e \in Executors : Executor(e)
          \/ Orchestrate
          \/ World

Spec == Init /\ [][Next]_vars

-----------------------------------------------------------------------------
(* Properties.                                                             *)

\* Every variable has its type.
TypeOK ==
    /\ job \in [Jobs -> Row]
    /\ life \in [Files -> FileState]
    /\ able \in [Workers -> BOOLEAN]
    /\ run \in [Executors -> Run]
    /\ told \subseteq Executors
    /\ txn \in [Everyone -> Txn]

\* A tracked file never has two jobs that are pending, scheduled or running,
\* however handlers overwrite each other's rows.
OneActivePerFile ==
    \A j, k \in Jobs :
        /\ job[j].status \in Active /\ ~job[j].cleared
        /\ job[k].status \in Active /\ ~job[k].cleared
        /\ job[j].file = job[k].file
        => j = k

\* The jobs table never shows a worker more running jobs than its limit,
\* although the orchestration loop, cancellations and late results overwrite
\* status and worker of rows the claim has counted.
CapacityRespected == \A w \in Workers : Cardinality(RunningOn(job, w)) <= Cap[w]

\* A failed execution is never left without a follow-up: in the step that
\* records it the file has an active job again, or the job goes to review.
FailureFollowedUp ==
    [][\A j \in Jobs : job[j].status # "failed" /\ job'[j].status = "failed"
                        => HasActive(job', job[j].file)]_vars

\* A file shown as queued has a job that is pending, scheduled or running:
\* whatever takes the last such job away also rewrites the file.
QueuedFileHasJob == \A f \in Files : life[f] = "queued" => HasActive(job, f)

\* Two executors never hold the same job.
OneExecutorPerJob ==
    \A d, e \in Executors :
        d # e /\ run[d].job = run[e].job => run[d].job = NoJob

\* A job shown as cancelled is not one whose output has replaced the media.
CancelledKeepsMedia ==
    \A e \in Executors :
        run[e].result = "completed" => job[run[e].job].status # "cancelled"

\* A failure report never undoes a recorded completion: only running jobs can
\* be marked failed by a worker.
OnlyRunningJobsFail ==
    [][\A j \in Jobs : job[j].status = "completed"
                        => job'[j].status \notin {"failed", "manual_review"}]_vars

\* With handlers that run alone from read to commit, every row keeps the
\* promises of JobLifecycle: in particular it is started at most once and a
\* recorded completion stays.
Lifecycle == INSTANCE JobLifecycle
    WITH status <- [j \in Jobs |-> job[j].status],
         begun <- {j \in Jobs : job[j].started}
KeepsLifecycle == Lifecycle!Spec
=============================================================================
