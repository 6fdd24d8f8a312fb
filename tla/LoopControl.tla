---------------------------- MODULE LoopControl ----------------------------
(***************************************************************************)
(* The control block a LocalWorkerLoop keeps under _control_lock: the      *)
(* active job, its ffmpeg process and the ids whose cancellation was       *)
(* requested.  Two runs of one loop object share it (POST run-once twice). *)
(***************************************************************************)
CONSTANTS Jobs, Runs, NoJob, NoRun

ASSUME ControlAssumption == NoJob \notin Jobs /\ NoRun \notin Runs

\* process names the run whose ffmpeg the block holds.
Control == [active: Jobs \cup {NoJob}, process: Runs \cup {NoRun}, ids: SUBSET Jobs]

Quiet == [active |-> NoJob, process |-> NoRun, ids |-> {}]

\* request_cancel records the id even when it answers False.
Requested(c, j) == [c EXCEPT !.ids = @ \cup {j}]

\* What request_cancel returns.
Accepts(c, j) == c.active = j

\* Mutant: the process of the job before stays recorded.
SetActiveKeeping(c, j) == [c EXCEPT !.active = j]

\* _set_active_job
SetActive(c, j) == [c EXCEPT !.active = j, !.process = NoRun]

\* Mutant: the two arguments swapped.
SetProcessSwapped(c, j, r) == [c EXCEPT !.active = r, !.process = j]

\* _set_active_process
SetProcess(c, j, r) == [c EXCEPT !.active = j, !.process = r]

\* _clear_active_job
ClearActive(c, j) ==
    LET mine == c.active = j
    IN  [active  |-> IF mine THEN NoJob ELSE c.active,
         process |-> IF mine THEN NoRun ELSE c.process,
         ids     |-> c.ids \ {j}]
=============================================================================
