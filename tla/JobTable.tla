------------------------------ MODULE JobTable ------------------------------
(***************************************************************************)
(* One row of the jobs table, the functions of JobRepository that change   *)
(* a row, and the way the ORM session writes a changed row back.           *)
(*                                                                         *)
(* Every handler loads a row, computes a new one and flushes.  The flush   *)
(* is an UPDATE ... WHERE id = ... of the columns whose value differs from *)
(* the loaded value, with no test of what the row holds by then.           *)
(***************************************************************************)
EXTENDS Naturals, FiniteSets

CONSTANTS
    Jobs,                 \* identities a row of the jobs table may take
    Files,                \* tracked files
    Workers,              \* rows of the workers table
    MaxAutomatedRetries,  \* JobRepository.MAX_AUTOMATED_RETRIES
    MaxAttempt,           \* bound: attempt_count never exceeds it
    NoWorker, NoFile,     \* the NULLs of assigned_worker_id, tracked_file_id
    Keep                  \* a column the flush leaves out

Queued == {"pending", "scheduled"}
Active == Queued \cup {"running"}                  \* ACTIVE_JOB_STATUSES
Results == {"completed", "failed", "skipped", "manual_review", "cancelled"}
Retryable == {"failed", "manual_review", "skipped", "interrupted", "cancelled"}
Status == Active \cup Results \cup {"interrupted"}

\* FileLifecycleState from the first plan on.
FileState == {"planned", "queued", "processing", "completed", "failed",
              "manual_review"}

ASSUME TableAssumption ==
    /\ MaxAutomatedRetries \in Nat
    /\ MaxAttempt \in Nat \ {0}
    /\ NoWorker \notin Workers
    /\ NoFile \notin Files
    /\ Keep \notin Status \cup FileState
    /\ Keep \notin Workers \cup {NoWorker}
    /\ Keep \notin BOOLEAN
    /\ IsFiniteSet(Jobs)

\* started: started_at is set, which only a claim does first.  "unused" is
\* an identity no INSERT has taken yet.
Row == [status: Status \cup {"unused"}, file: Files \cup {NoFile},
        worker: Workers \cup {NoWorker}, attempt: 0..MaxAttempt,
        cleared: BOOLEAN, cancel: BOOLEAN, started: BOOLEAN]

Unused == [status |-> "unused", file |-> NoFile, worker |-> NoWorker,
           attempt |-> 0, cleared |-> FALSE, cancel |-> FALSE,
           started |-> FALSE]

-----------------------------------------------------------------------------
(* Rows as the repository writes them.                                     *)

\* create_job_from_plan: scheduled when a start time or a closed window says so.
Inserted(f, n, st) ==
    [Unused EXCEPT !.status = st, !.file = f, !.attempt = n]

MarkClaimed(r, w) ==
    [r EXCEPT !.status = "running", !.worker = w, !.started = TRUE]

MarkResult(r, result) == [r EXCEPT !.status = result, !.worker = NoWorker]

MarkReview(r) == [r EXCEPT !.status = "manual_review", !.worker = NoWorker]

MarkInterrupted(r) == [r EXCEPT !.status = "interrupted", !.worker = NoWorker]

MarkCancelled(r) ==
    [r EXCEPT !.status = "cancelled", !.worker = NoWorker, !.cancel = TRUE]

MarkCancellationRequested(r) == [r EXCEPT !.cancel = TRUE]

MarkCleared(r) == [r EXCEPT !.cleared = TRUE]

-----------------------------------------------------------------------------
(* A flush.  The unit of work keeps, for each changed row, the columns whose *)
(* new value differs from the loaded one; Keep stands for the others.        *)

Changed(loaded, new) == IF new = loaded THEN Keep ELSE new

Patch == [status: Status \cup {Keep}, worker: Workers \cup {NoWorker, Keep},
          cancel: BOOLEAN \cup {Keep}, cleared: BOOLEAN \cup {Keep}]

\* What a session that loaded the row will write to make it new.
Diff(loaded, new) ==
    [status  |-> Changed(loaded.status, new.status),
     worker  |-> Changed(loaded.worker, new.worker),
     cancel  |-> Changed(loaded.cancel, new.cancel),
     cleared |-> Changed(loaded.cleared, new.cleared)]

Column(now, written) == IF written = Keep THEN now ELSE written

\* The row after the flush, whatever it has become since it was loaded.
Merge(now, patch) ==
    [now EXCEPT !.status  = Column(now.status, patch.status),
                !.worker  = Column(now.worker, patch.worker),
                !.cancel  = Column(now.cancel, patch.cancel),
                !.cleared = Column(now.cleared, patch.cleared)]

\* Mutant: an index predicate written before jobs could be scheduled.
OccupiesUnscheduled(r) == r.status \in {"pending", "running"} /\ ~r.cleared

\* A row the partial unique index uq_jobs_one_active_per_tracked_file counts.
Occupies(r) == r.status \in Active /\ ~r.cleared

\* The index accepts the table.
IndexOK(table) ==
    \A j, k \in Jobs :
        /\ Occupies(table[j])
        /\ Occupies(table[k])
        /\ table[j].file = table[k].file
        => j = k

\* has_active_job_for_tracked_file
HasActive(table, f) == \E j \in Jobs : Occupies(table[j]) /\ table[j].file = f

\* count_active_assignments_for_worker counts these rows.
RunningOn(table, w) ==
    {j \in Jobs : /\ table[j].status = "running"
                  /\ table[j].worker = w
                  /\ ~table[j].cleared}
=============================================================================
