---------------------------- MODULE JobLifecycle ----------------------------
(***************************************************************************)
(* What the status of a job row promises to whoever reads the queue: the   *)
(* edges a status may move along, and that a row is started once.  Several *)
(* rows may move in one commit.                                            *)
(***************************************************************************)
CONSTANT Jobs

VARIABLES
    status,   \* the status of each row, "unused" before its INSERT
    begun     \* rows that were ever started

Queued == {"pending", "scheduled"}
Results == {"completed", "failed", "skipped", "manual_review", "cancelled"}
Retryable == {"failed", "manual_review", "skipped", "interrupted", "cancelled"}
Statuses == Queued \cup Results \cup {"unused", "running", "interrupted"}

Init ==
    /\ status = [j \in Jobs |-> "unused"]
    /\ begun = {}

Insert(j) == status[j] = "unused" /\ status'[j] \in Queued

\* Promotion of a due job, postponement of one whose window closed.
Reschedule(j) == status[j] \in Queued /\ status'[j] \in Queued

Start(j) == status[j] = "pending" /\ j \notin begun /\ status'[j] = "running"

Record(j) == status[j] = "running" /\ status'[j] \in Results

Interrupt(j) == status[j] = "running" /\ status'[j] = "interrupted"

\* An interrupted execution may still end, before or after an operator
\* settled its row.
RecordLate(j) ==
    /\ j \in begun
    /\ status[j] \in {"interrupted", "skipped", "cancelled"}
    /\ status'[j] \in Results

Cancel(j) == status[j] \in Queued \cup {"interrupted"} /\ status'[j] = "cancelled"

Skip(j) == status[j] \in Retryable /\ status'[j] = "skipped"

Move(j) ==
    \/ Insert(j) \/ Reschedule(j) \/ Start(j) \/ Record(j)
    \/ Interrupt(j) \/ RecordLate(j) \/ Cancel(j) \/ Skip(j)

Next ==
    /\ status' \in [Jobs -> Statuses]
    /\ begun' = begun \cup {j \in Jobs : status'[j] = "running"}
    /\ \A j \in Jobs : status'[j] = status[j] \/ Move(j)

Spec == Init /\ [][Next]_<<status, begun>>
=============================================================================
