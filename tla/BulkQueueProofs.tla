-------------------------- MODULE BulkQueueProofs ---------------------------
(* Theorems about BulkQueue for any number of operations, files and any batch *)
(* size.  Whoever writes the row, nobody but the operation's own thread moves *)
(* it away from "cancelling" once files are being queued; that is what the    *)
(* invariant keeps.                                                           *)
EXTENDS BulkQueue, TLAPS

(* A thread that queued a file too late will not queue another.               *)
Stopping(o) ==
    \/ thread[o].at \in {"done", "lost"}
    \/ thread[o].at \in {"batch", "end"} /\ ops[o] = "cancelling"

Prompt == \A o \in Operation : late[o] \in {0, 1} /\ (late[o] = 1 => Stopping(o))

Fresh == \A o \in Operation : ops[o] = "absent" => late[o] = 0 /\ thread[o].at = "none"

(* There is a file left to queue wherever one is about to be.                 *)
Remaining ==
    \A o \in Operation :
        thread[o].at \in {"batch", "file"} => thread[o].sent < thread[o].total

BulkInv == BulkTypeOK /\ Prompt /\ Fresh /\ Remaining

(* The invariant holds of the empty table.                                    *)
LEMMA BulkStarts == BulkInit => BulkInv
BY BulkAssumption
   DEF BulkInit, BulkInv, BulkTypeOK, Prompt, Fresh, Remaining, Stopping,
       ActiveStatus, TerminalStatus, NotRead

(* Every write to the row, every step of a thread and a restart of the API    *)
(* keep it.                                                                   *)
LEMMA BulkKept == BulkInv /\ [BulkNext]_bulkVars => BulkInv'
<1> USE BulkAssumption
        DEF BulkInv, BulkTypeOK, Prompt, Fresh, Remaining, Stopping, Goes, Becomes,
            ActiveStatus, TerminalStatus, NotRead
<1> SUFFICES ASSUME BulkInv, [BulkNext]_bulkVars PROVE BulkInv'
    OBVIOUS
<1>1. ASSUME NEW o \in Operation, Create(o) PROVE BulkInv'
    BY <1>1 DEF Create
<1>2. ASSUME NEW o \in Operation, MarkRunning(o) PROVE BulkInv'
    BY <1>2 DEF MarkRunning
<1>3. ASSUME NEW o \in Operation, Resolve(o) PROVE BulkInv'
    <2>1. CASE Finish(o, "completed")
        BY <1>3, <2>1 DEF Resolve, Finish
    <2>2. CASE \E n \in 1..MaxFiles :
                  /\ thread' = [thread EXCEPT ![o] = [at |-> "batch", total |-> n, sent |-> 0]]
                  /\ UNCHANGED <<ops, cancel, late>>
        BY <1>3, <2>2 DEF Resolve
    <2> QED BY <1>3, <2>1, <2>2 DEF Resolve
<1>4. ASSUME NEW o \in Operation, Die(o) PROVE BulkInv'
    BY <1>4 DEF Die, Finish
<1>5. ASSUME NEW o \in Operation, Check(o) PROVE BulkInv'
    <2>1. CASE CancelRequested(o)
        <3>1. Finish(o, "cancelled")
            BY <1>5, <2>1 DEF Check
        <3> QED BY <3>1 DEF Finish
    <2>2. CASE ~CancelRequested(o)
        <3>1. /\ thread[o].at = "batch" /\ ops[o] # "cancelling"
              /\ Goes(o, "file") /\ UNCHANGED <<ops, cancel, late>>
            BY <1>5, <2>2 DEF Check, CancelRequested
        <3> QED BY <3>1
    <2> QED BY <2>1, <2>2
<1>6. ASSUME NEW o \in Operation, QueueOneFile(o) PROVE BulkInv'
    BY <1>6 DEF QueueOneFile, LastOne, CancelRequested
<1>7. ASSUME NEW o \in Operation, Complete(o) PROVE BulkInv'
    BY <1>7 DEF Complete, Finish
<1>8. ASSUME NEW o \in Operation, CancelRead(o) PROVE BulkInv'
    BY <1>8 DEF CancelRead
<1>9. ASSUME NEW o \in Operation, CancelWrite(o) PROVE BulkInv'
    BY <1>9 DEF CancelWrite
<1>10. CASE Restart
    BY <1>10 DEF Restart, Live
<1>11. CASE UNCHANGED bulkVars
    BY <1>11 DEF bulkVars
<1> QED
    BY <1>1, <1>2, <1>3, <1>4, <1>5, <1>6, <1>7, <1>8, <1>9, <1>10, <1>11
       DEF BulkNext, ThreadStep

(* Once an administrator's cancellation stands in the row, at most one file   *)
(* is still queued, for any number of operations and files and any batch size *)
(* (BulkQueueService.process_operation).                                      *)
THEOREM CancelsPromptly == BulkSpec => []CancelPrompt
<1>1. BulkInv => CancelPrompt
    BY DEF BulkInv, Prompt, CancelPrompt
<1> QED BY <1>1, BulkStarts, BulkKept, PTL DEF BulkSpec

(* Rows, threads and their counts keep their types, and no count passes the   *)
(* number of files, for any number of operations and any batch size           *)
(* (BulkQueueService).                                                        *)
THEOREM BulkTyped == BulkSpec => []BulkTypeOK
<1>1. BulkInv => BulkTypeOK
    BY DEF BulkInv
<1> QED BY <1>1, BulkStarts, BulkKept, PTL DEF BulkSpec
=============================================================================
