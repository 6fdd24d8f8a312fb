----------------------------- MODULE BulkQueue ------------------------------
(* Bulk queue operations: the row an administrator starts and cancels, and    *)
(* the API's thread that resolves the selection and queues its files in       *)
(* batches, one transaction per file (services/bulk_queue.py,                 *)
(* repositories/bulk_queue_operations.py, the endpoints of api/jobs.py).      *)
EXTENDS Integers, FiniteSets

CONSTANTS
    Operation,  \* operations, each created at most once
    MaxFiles,   \* bound on the files of a selection
    BatchSize

ASSUME BulkAssumption == MaxFiles \in Nat /\ BatchSize \in Nat \ {0}

VARIABLES
    ops,      \* the committed row's status
    thread,   \* the executor thread of an operation
    cancel,   \* the status a cancel request read, until it writes
    late      \* files queued while the row said "cancelling"

bulkVars == <<ops, thread, cancel, late>>

ActiveStatus == {"pending", "running", "cancelling"}
TerminalStatus == {"completed", "failed", "cancelled"}
NotRead == "not_read"

BulkTypeOK ==
    /\ ops \in [Operation -> {"absent"} \cup ActiveStatus \cup TerminalStatus]
    /\ thread \in [Operation ->
            [at : {"none", "start", "resolve", "batch", "file", "end", "done", "lost"},
             total : 0..MaxFiles, sent : 0..MaxFiles]]
    /\ cancel \in [Operation -> ActiveStatus \cup {NotRead}]
    /\ late \in [Operation -> 0..MaxFiles]

BulkInit ==
    /\ ops = [o \in Operation |-> "absent"]
    /\ thread = [o \in Operation |-> [at |-> "none", total |-> 0, sent |-> 0]]
    /\ cancel = [o \in Operation |-> NotRead]
    /\ late = [o \in Operation |-> 0]

Goes(o, at) == thread' = [thread EXCEPT ![o].at = at]
Becomes(o, status) == ops' = [ops EXCEPT ![o] = status]
Live(o) == thread[o].at \in {"start", "resolve", "batch", "file", "end"}

(* create_operation and the start of its thread: the unique index on active   *)
(* rows admits one.                                                           *)
Create(o) ==
    /\ ops[o] = "absent"
    /\ \A p \in Operation : ops[p] \notin ActiveStatus
    /\ Becomes(o, "pending")
    /\ Goes(o, "start")
    /\ UNCHANGED <<cancel, late>>

(* mark_running overwrites whatever the row says, a cancellation included.    *)
MarkRunning(o) ==
    /\ thread[o].at = "start"
    /\ Becomes(o, "running")
    /\ Goes(o, "resolve")
    /\ UNCHANGED <<cancel, late>>

Finish(o, status) ==
    /\ Becomes(o, status)
    /\ Goes(o, "done")
    /\ UNCHANGED <<cancel, late>>

(* _resolve_selection: an empty selection completes at once.                  *)
Resolve(o) ==
    /\ thread[o].at = "resolve"
    /\ \/ Finish(o, "completed")
       \/ \E n \in 1..MaxFiles :
             /\ thread' = [thread EXCEPT ![o] = [at |-> "batch", total |-> n, sent |-> 0]]
             /\ UNCHANGED <<ops, cancel, late>>

(* Anything raised outside a file's own transaction ends the operation.       *)
DieUnfinished(o) ==
    /\ Live(o)
    /\ Goes(o, "done")
    /\ UNCHANGED <<ops, cancel, late>>

Die(o) ==
    /\ Live(o)
    /\ Finish(o, "failed")

(* The status is read before each batch and before each file.                 *)
CancelRequested(o) == ops[o] = "cancelling"

CheckPerBatch(o) ==
    /\ thread[o].at = "batch"
    /\ IF CancelRequested(o) /\ thread[o].sent % BatchSize = 0
       THEN Finish(o, "cancelled")
       ELSE Goes(o, "file") /\ UNCHANGED <<ops, cancel, late>>

Check(o) ==
    /\ thread[o].at = "batch"
    /\ IF CancelRequested(o)
       THEN Finish(o, "cancelled")
       ELSE Goes(o, "file") /\ UNCHANGED <<ops, cancel, late>>

(* _queue_one_file: one file planned and queued, refused or failed, and its   *)
(* counters saved.                                                            *)
OneTooLate(o) == thread[o].sent = thread[o].total
LastOne(o) == thread[o].sent + 1 = thread[o].total

QueueOneFile(o) ==
    /\ thread[o].at = "file"
    /\ thread' = [thread EXCEPT ![o].sent = @ + 1,
                     ![o].at = IF LastOne(o) THEN "end" ELSE "batch"]
    /\ late' = [late EXCEPT ![o] = IF CancelRequested(o) THEN @ + 1 ELSE @]
    /\ UNCHANGED <<ops, cancel>>

Complete(o) ==
    /\ thread[o].at = "end"
    /\ Finish(o, "completed")

(* cancel_bulk_queue_operation: the row is read, and written back with no     *)
(* look at what was committed in between.                                     *)
CancelRead(o) ==
    /\ ops[o] \in ActiveStatus
    /\ cancel[o] = NotRead
    /\ cancel' = [cancel EXCEPT ![o] = ops[o]]
    /\ UNCHANGED <<ops, thread, late>>

CancelWrite(o) ==
    /\ cancel[o] # NotRead
    /\ IF cancel[o] = "cancelling" THEN UNCHANGED ops ELSE Becomes(o, "cancelling")
    /\ cancel' = [cancel EXCEPT ![o] = NotRead]
    /\ UNCHANGED <<thread, late>>

(* The API restarts: its threads are gone and no code takes their rows up.    *)
Restart ==
    /\ \E o \in Operation : Live(o)
    /\ thread' = [o \in Operation |-> IF Live(o) THEN [thread[o] EXCEPT !.at = "lost"]
                                                 ELSE thread[o]]
    /\ cancel' = [o \in Operation |-> NotRead]
    /\ UNCHANGED <<ops, late>>

ThreadStep(o) ==
    MarkRunning(o) \/ Resolve(o) \/ Die(o) \/ Check(o) \/ QueueOneFile(o) \/ Complete(o)

BulkNext ==
    \/ \E o \in Operation : Create(o) \/ ThreadStep(o) \/ CancelRead(o) \/ CancelWrite(o)
    \/ Restart

BulkSpec == BulkInit /\ [][BulkNext]_bulkVars
-----------------------------------------------------------------------------
(* Once an administrator's cancellation stands in the row, at most the file   *)
(* then in hand is still queued, however large the batch.                     *)
CancelPrompt == \A o \in Operation : late[o] <= 1

(* An operation whose thread lives comes to an end in its row, completed,     *)
(* cancelled or failed, unless the API restarts under it: an active row       *)
(* refuses every later bulk operation.                                        *)
BulkEnds ==
    \A o \in Operation :
        Live(o) ~> (ops[o] \in TerminalStatus \/ thread[o].at = "lost")
=============================================================================
