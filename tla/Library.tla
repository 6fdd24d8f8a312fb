------------------------------- MODULE Library ------------------------------
(* One file of the library with its plans, its jobs, its protection, its      *)
(* backup on disk and the requests that work on them: the review gate and the *)
(* review actions (services/review.py), job creation, retry, recovery, backup *)
(* deletion and restore (services/jobs.py), planning (services/plans.py), and *)
(* the sweep that expires backups and queues watched files                    *)
(* (services/orchestration.py).  Execution is reduced to its effects on the   *)
(* file: JobQueue and Replacement have its detail.                            *)
EXTENDS Integers, Sequences, SequencesExt

CONSTANTS
    Caller,    \* concurrent API requests
    MaxJobs,   \* bound on the jobs of the file
    MaxPlans,  \* bound on its plan snapshots
    MaxTries,  \* MAX_AUTOMATED_RETRIES
    Policies,  \* the backup policies in use
    Strategies \* what to do with a backup that is already there

Nobody == "nobody"

ASSUME LibraryAssumption ==
    /\ Nobody \notin Caller
    /\ MaxJobs \in Nat /\ MaxPlans \in Nat /\ MaxTries \in Nat
    /\ Policies \subseteq {"keep", "day", "delete"}
    /\ Strategies \subseteq {"fail", "keep", "replace"}

VARIABLES
    plans,     \* plan snapshots, oldest first
    jobs,      \* jobs, oldest first
    file,      \* the row's is_protected and operator_protected
    approved,  \* the plan of the latest review decision while that is a current
               \* approval; 0 for another decision, Undecided before the first
    disk,      \* whether the file is at its path, and the job its backup is from
    call,      \* the requests in flight, with what each read at its start
    lock,      \* the request that holds the file's row
    sweep,     \* the sweep in flight: whether its scan met the file, what it expired
    seen,      \* whether the watched folder remembers the path
    queued,    \* jobs the watched folder queued
    lapses     \* committed scans that did not meet a file they had met

libVars == <<plans, jobs, file, approved, disk, call, lock, sweep, seen, queued, lapses>>

Undecided == -1
NoCall == [op |-> "none", at |-> "idle", plan |-> 0, job |-> 0,
           strategy |-> "fail", guarded |-> FALSE, excused |-> FALSE]
NoSweep == [on |-> FALSE, met |-> FALSE, expired |-> {}]

Ended == {"completed", "failed", "review", "cancelled"}
JobIds == DOMAIN jobs

PlanRow == [kind : {"run", "review", "protected"}, strategy : {"fail", "keep", "replace"}]
JobRow ==
    [status : {"queued", "running"} \cup Ended, plan : 1..MaxPlans,
     policy : {"keep", "day", "delete", "discovered"}, tries : 1..MaxTries+1,
     backup : {"none", "listed", "gone"}, due : BOOLEAN, staged : BOOLEAN,
     why : {"none", "backup", "replace", "verify", "guard", "other"}, aside : BOOLEAN]
Call ==
    [op : {"none", "create", "retry", "recover", "approve", "reject", "restore"},
     at : {"idle", "read", "locked", "placed"}, plan : 0..MaxPlans, job : 0..MaxJobs,
     strategy : {"fail", "keep", "replace"}, guarded : BOOLEAN, excused : BOOLEAN]

LibraryTypeOK ==
    /\ plans \in Seq(PlanRow) /\ Len(plans) <= MaxPlans
    /\ jobs \in Seq(JobRow) /\ Len(jobs) <= MaxJobs
    /\ file \in [shown : BOOLEAN, operator : BOOLEAN]
    /\ approved \in {Undecided} \cup (0..MaxPlans)
    /\ disk \in [source : BOOLEAN, backup : 0..MaxJobs]
    /\ call \in [Caller -> Call]
    /\ lock \in Caller \cup {Nobody}
    /\ sweep \in [on : BOOLEAN, met : BOOLEAN, expired : SUBSET (1..MaxJobs)]
    /\ seen \in BOOLEAN
    /\ queued \in 0..MaxJobs /\ lapses \in Nat

LibraryInit ==
    /\ plans = <<>> /\ jobs = <<>>
    /\ file = [shown |-> FALSE, operator |-> FALSE]
    /\ approved = Undecided
    /\ disk = [source |-> TRUE, backup |-> 0]
    /\ call = [c \in Caller |-> NoCall]
    /\ lock = Nobody /\ sweep = NoSweep
    /\ seen = FALSE /\ queued = 0 /\ lapses = 0
-----------------------------------------------------------------------------
(* Queries on committed rows.                                                 *)
Busy == \E j \in JobIds : jobs[j].status \in {"queued", "running"}
LatestStopped == jobs # <<>> /\ Last(jobs).status = "review"
Guarded == file.operator \/ file.shown
Held(guarded, p) == guarded \/ plans[p].kind # "run"
RequiresReview ==
    /\ plans # <<>>
    /\ \/ Held(Guarded, Len(plans))
       \/ jobs # <<>> /\ Last(jobs).status \in {"failed", "review"}

(* _validate_review_gate, for a row that is guarded or not and the plan p.    *)
Gate(guarded, p, approvalCounts, retryOf) ==
    \/ ~Held(guarded, p) /\ ~LatestStopped
    \/ ~Held(guarded, p) /\ retryOf = Len(jobs)
    \/ approvalCounts /\ approved = p

NewJob(p, policy, tries) ==
    [status |-> "queued", plan |-> p, policy |-> policy, tries |-> tries, backup |-> "none",
     due |-> FALSE, staged |-> FALSE, why |-> "none", aside |-> FALSE]

(* A stop for review, and any other decision, ends an approval.               *)
Revisited == IF approved > 0 THEN 0 ELSE approved
(* The kind of a plan decides is_protected when it is applied to the row.     *)
Shown(p) == plans[p].kind = "protected" \/ file.operator
RowFree == lock = Nobody
Idles(c) == call' = [call EXCEPT ![c] = NoCall]
-----------------------------------------------------------------------------
(* plan_file: the file probed and planned under the policy of the moment.     *)
PlanFile ==
    /\ Len(plans) < MaxPlans /\ disk.source /\ RowFree
    /\ \E kind \in {"run", "review", "protected"} :
          /\ plans' = Append(plans, [kind |-> kind, strategy |-> "fail"])
          /\ file' = [file EXCEPT !.shown = kind = "protected" \/ file.operator]
    /\ UNCHANGED <<jobs, approved, disk, call, lock, sweep, seen, queued, lapses>>

(* What a request reads before it takes the row: its target, and the rows     *)
(* loaded into its session.                                                   *)
Reads(c, op, p, j) ==
    /\ call[c] = NoCall
    /\ call' = [call EXCEPT ![c] = [op |-> op, at |-> "read", plan |-> p, job |-> j,
                   strategy |-> "fail", guarded |-> Guarded, excused |-> FALSE]]
    /\ UNCHANGED <<plans, jobs, file, approved, disk, lock, sweep, seen, queued, lapses>>

BeginCreate(c) == \E p \in DOMAIN plans : Reads(c, "create", p, 0)

BeginRetry(c) ==
    \E j \in JobIds :
        /\ jobs[j].status \in {"failed", "review", "cancelled"}
        /\ Reads(c, "retry", jobs[j].plan, j)

BeginRecover(c) ==
    \E j \in JobIds :
        /\ jobs[j].status \in {"failed", "review", "cancelled"}
        /\ jobs[j].why = "guard"
        /\ Reads(c, "recover", jobs[j].plan, j)

BeginReview(c) ==
    /\ RequiresReview
    /\ \E op \in {"approve", "reject"} : Reads(c, op, Len(plans), Len(jobs))

BeginRestore(c) == \E j \in JobIds : Reads(c, "restore", 0, j)
-----------------------------------------------------------------------------
(* lock_for_update, then the row refreshed and the request validated against  *)
(* what is committed by then.                                                 *)
GuardedWhenRead(c) == call[c].guarded
GuardedNow(c) == Guarded

RetryOf(j) ==
    IF jobs[j].status = "review" /\ jobs[j].why \in {"backup", "replace"} THEN j ELSE 0

Permitted(c, strategy) ==
    LET r == call[c]
    IN /\ ~Busy
       /\ \/ r.op = "create" /\ Gate(GuardedNow(c), r.plan, FALSE, 0)
          \/ /\ r.op = "retry" /\ Gate(GuardedNow(c), r.plan, FALSE, RetryOf(r.job))
             /\ strategy = "fail" \/ (jobs[r.job].why = "backup" /\ disk.backup # 0)
          \/ r.op = "recover" /\ Gate(GuardedNow(c), r.plan, TRUE, 0)
          \/ r.op \in {"approve", "reject"}
          \/ r.op = "restore" /\ jobs[r.job].backup # "none" /\ disk.backup # 0

PlacesStaged(c) ==
    /\ call[c].op = "approve" /\ call[c].job # 0
    /\ jobs[call[c].job].status = "review" /\ jobs[call[c].job].staged

TakesNothing(c) == UNCHANGED lock
Takes(c) == lock' = c

Enter(c) ==
    /\ call[c].at = "read" /\ RowFree /\ ~PlacesStaged(c)
    /\ \E strategy \in IF call[c].op \in {"create", "retry"} THEN Strategies ELSE {"fail"} :
          IF Permitted(c, strategy)
          THEN Takes(c) /\ call' = [call EXCEPT ![c] = [@ EXCEPT !.at = "locked", !.strategy = strategy,
                                       !.excused = call[c].op = "recover" /\ approved = call[c].plan]]
          ELSE Idles(c) /\ UNCHANGED lock
    /\ UNCHANGED <<plans, jobs, file, approved, disk, sweep, seen, queued, lapses>>

Holding(c, ops) == call[c].at = "locked" /\ call[c].op \in ops
Releases(c) == lock' = Nobody /\ Idles(c)

(* Attempts are counted up to the first that is not retried automatically.    *)
Again(j) == IF jobs[j].tries <= MaxTries THEN jobs[j].tries + 1 ELSE MaxTries + 1
Tries(r) == IF r.op = "retry" THEN Again(r.job) ELSE 1

(* _plan_snapshot_with_create_options: a backup strategy is carried by a copy *)
(* of the plan, which becomes the file's latest.                              *)
WithStrategy(strategy, p) ==
    IF strategy = "fail" THEN plans' = plans
    ELSE /\ Len(plans) < MaxPlans
         /\ plans' = Append(plans, [plans[p] EXCEPT !.strategy = strategy])

CommitJob(c) ==
    /\ Holding(c, {"create", "retry"})
    /\ Len(jobs) < MaxJobs
    /\ LET r == call[c]
       IN \E policy \in IF r.op = "retry" THEN {jobs[r.job].policy} ELSE Policies :
          /\ WithStrategy(r.strategy, r.plan)
          /\ jobs' = Append(jobs, NewJob(IF plans' = plans THEN r.plan ELSE Len(plans'),
                                         policy, Tries(r)))
    /\ Releases(c)
    /\ UNCHANGED <<file, approved, disk, sweep, seen, queued, lapses>>

(* The plans that review and recovery add in place of the one they looked at: *)
(* nothing in them asks for a review again.  The approved plan, and the plan  *)
(* that only strips streams after a rejection, treat a backup as before; a    *)
(* recovery keeps the backup that its job listed.                             *)
ApprovedPlan(p) == [plans[p] EXCEPT !.kind = "run"]
StripOnlyPlan(p) == [plans[p] EXCEPT !.kind = "run"]
KeptBackup(j) == IF jobs[j].backup # "none" /\ disk.backup # 0 THEN "keep" ELSE "fail"
RecoveryPlan(j) == [kind |-> "run", strategy |-> KeptBackup(j)]

(* _delete_staged_output_if_present                                           *)
Unstaged(j) ==
    IF j # 0 /\ jobs[j].status = "review" THEN [jobs EXCEPT ![j].staged = FALSE] ELSE jobs

(* _record_decision: the latest decision and the plan it names; only an       *)
(* approval counts at the gate.                                               *)
Decided(op, p) == IF op = "approve" THEN p ELSE 0

(* A plan of its own, and its job, are committed together.                    *)
OwnPlan(plan, rows, policy, tries) ==
    /\ Len(jobs) < MaxJobs /\ Len(plans) < MaxPlans
    /\ plans' = Append(plans, plan)
    /\ jobs' = Append(rows, NewJob(Len(plans'), policy, tries))

CommitReview(c) ==
    /\ Holding(c, {"approve", "reject"})
    /\ LET r == call[c]
           rejected == r.op = "reject"
       IN /\ OwnPlan(IF rejected THEN StripOnlyPlan(r.plan) ELSE ApprovedPlan(r.plan),
                     IF rejected THEN Unstaged(r.job) ELSE jobs,
                     IF r.job # 0 THEN jobs[r.job].policy ELSE "keep", 1)
          /\ approved' = Decided(r.op, Len(plans'))
    /\ Releases(c)
    /\ UNCHANGED <<file, disk, sweep, seen, queued, lapses>>

CommitRecover(c) ==
    /\ Holding(c, {"recover"})
    /\ OwnPlan(RecoveryPlan(call[c].job), jobs, "keep", Again(call[c].job))
    /\ Releases(c)
    /\ UNCHANGED <<file, approved, disk, sweep, seen, queued, lapses>>

(* A request that fails, or whose process dies, before its commit.            *)
Abort(c) ==
    /\ call[c].at \in {"read", "locked"}
    /\ Idles(c)
    /\ lock' = IF lock = c THEN Nobody ELSE lock
    /\ UNCHANGED <<plans, jobs, file, approved, disk, sweep, seen, queued, lapses>>
-----------------------------------------------------------------------------
(* What a replacement does to the disk, by the plan's backup strategy.        *)
Collides(strategy) == strategy = "fail" /\ disk.backup # 0
Missing(strategy)  == strategy = "keep" /\ disk.backup = 0
Replaceable(strategy) == ~Collides(strategy) /\ ~Missing(strategy)

(* approve_item for a job that was stopped with its staged output still       *)
(* there: that output is placed with the latest plan, before any row is       *)
(* locked.                                                                    *)
ApprovePlace(c) ==
    /\ call[c].at = "read" /\ PlacesStaged(c)
    /\ LET j == call[c].job
           strategy == plans[call[c].plan].strategy
       IN /\ Replaceable(strategy) /\ disk.source
          /\ jobs' = [jobs EXCEPT ![j].staged = FALSE]
          /\ disk' = [disk EXCEPT !.backup = IF strategy = "keep" THEN @ ELSE j]
    /\ call' = [call EXCEPT ![c].at = "placed"]
    /\ UNCHANGED <<plans, file, approved, lock, sweep, seen, queued, lapses>>

ApproveRecord(c) ==
    /\ call[c].at = "placed" /\ RowFree
    /\ jobs' = [jobs EXCEPT ![call[c].job] =
                            [@ EXCEPT !.status = "completed", !.why = "none", !.backup = "listed"]]
    /\ file' = [file EXCEPT !.shown = Shown(call[c].plan)]
    /\ approved' = Decided("approve", call[c].plan)
    /\ Idles(c)
    /\ UNCHANGED <<plans, disk, lock, sweep, seen, queued, lapses>>

(* set_operator_protected; protection is cleared to what the latest plan says.*)
OperatorProtected(value) ==
    [operator |-> value,
     shown |-> value \/ (plans # <<>> /\ Last(plans).kind = "protected")]

Protect(value) ==
    /\ RowFree
    /\ RequiresReview \/ approved # Undecided
    /\ value \/ file.operator
    /\ file' = OperatorProtected(value)
    /\ approved' = Decided("protect", 0)
    /\ UNCHANGED <<plans, jobs, disk, call, lock, sweep, seen, queued, lapses>>

Hold ==
    /\ RequiresReview
    /\ approved' = Decided("hold", 0)
    /\ UNCHANGED <<plans, jobs, file, disk, call, lock, sweep, seen, queued, lapses>>

(* restore_backup, from its rename to its commit, under the row's lock.       *)
CommitRestore(c) ==
    /\ Holding(c, {"restore"})
    /\ disk' = [source |-> TRUE, backup |-> 0]
    /\ jobs' = [jobs EXCEPT ![call[c].job].backup = "gone"]
    /\ approved' = 0
    /\ Releases(c)
    /\ UNCHANGED <<plans, file, sweep, seen, queued, lapses>>

(* The list of backups leaves out those that were deleted or restored.        *)
Listed(j) == jobs[j].backup = "listed"

(* delete_backup looks at the path alone and takes no lock.                   *)
DeleteBackup(j) ==
    /\ jobs[j].backup # "none" /\ disk.backup # 0
    /\ disk' = [disk EXCEPT !.backup = 0]
    /\ jobs' = [jobs EXCEPT ![j].backup = "gone"]
    /\ UNCHANGED <<plans, file, approved, call, lock, sweep, seen, queued, lapses>>

(* A manual scan records a backup no job lists, as a completed job with a     *)
(* plan that leaves the file alone.                                           *)
DiscoveredPlan == [kind |-> "run", strategy |-> "fail"]

Discover ==
    /\ disk.backup # 0 /\ RowFree
    /\ \A j \in JobIds : ~Listed(j)
    /\ Len(jobs) < MaxJobs /\ Len(plans) < MaxPlans
    /\ plans' = Append(plans, DiscoveredPlan)
    /\ jobs' = Append(jobs, [NewJob(Len(plans'), "discovered", 1) EXCEPT
                                !.status = "completed", !.backup = "listed"])
    /\ UNCHANGED <<file, approved, disk, call, lock, sweep, seen, queued, lapses>>
-----------------------------------------------------------------------------
(* The executor, reduced to what it does to the file and its rows.            *)
Claim(j) ==
    /\ jobs[j].status = "queued"
    /\ jobs' = [jobs EXCEPT ![j].status = "running"]
    /\ UNCHANGED <<plans, file, approved, disk, call, lock, sweep, seen, queued, lapses>>

CancelQueued(j) ==
    /\ jobs[j].status = "queued" /\ RowFree
    /\ jobs' = [jobs EXCEPT ![j].status = "cancelled"]
    /\ file' = [file EXCEPT !.shown = Shown(jobs[j].plan)]
    /\ UNCHANGED <<plans, approved, disk, call, lock, sweep, seen, queued, lapses>>

Strategy(j) == plans[jobs[j].plan].strategy
Running(j) == jobs[j].status = "running"

(* The source is renamed to the backup's path; with a kept backup it is       *)
(* overwritten in place.                                                      *)
Aside(j) ==
    /\ Running(j) /\ ~jobs[j].aside /\ disk.source
    /\ Replaceable(Strategy(j))
    /\ disk' = IF Strategy(j) = "keep" THEN disk ELSE [source |-> FALSE, backup |-> j]
    /\ jobs' = [jobs EXCEPT ![j].aside = TRUE]
    /\ UNCHANGED <<plans, file, approved, call, lock, sweep, seen, queued, lapses>>

(* The output is in place, the result recorded and committed.                 *)
Deletes(j) == jobs[j].policy = "delete" /\ Strategy(j) # "keep"
ForgetsBackup(j) == "none"
Recorded(j) == IF Deletes(j) THEN "none" ELSE "listed"

Place(j) ==
    /\ Running(j) /\ jobs[j].aside /\ RowFree
    /\ disk' = [source |-> TRUE, backup |-> IF Deletes(j) THEN 0 ELSE disk.backup]
    /\ jobs' = [jobs EXCEPT ![j] =
                            [@ EXCEPT !.status = "completed", !.aside = FALSE, !.backup = Recorded(j)]]
    /\ file' = [file EXCEPT !.shown = Shown(jobs[j].plan)]
    /\ UNCHANGED <<plans, approved, call, lock, sweep, seen, queued, lapses>>

(* A verified output that fails the compression limits is kept for review.    *)
StopForReview(j) ==
    /\ Running(j) /\ ~jobs[j].aside /\ RowFree
    /\ jobs' = [jobs EXCEPT ![j] = [@ EXCEPT !.status = "review", !.why = "guard", !.staged = TRUE]]
    /\ file' = [file EXCEPT !.shown = Shown(jobs[j].plan)]
    /\ approved' = Revisited
    /\ UNCHANGED <<plans, disk, call, lock, sweep, seen, queued, lapses>>

(* mark_result and apply_automatic_retry_policy for a failure: another job of *)
(* the same plan, or a review when the file is protected or the attempts are  *)
(* used up.                                                                   *)
Fail(j) ==
    /\ Running(j) /\ ~jobs[j].aside /\ RowFree
    /\ \E why \in {"backup", "replace", "verify", "other"} :
          /\ why = "backup" => Collides(Strategy(j))
          /\ why = "replace" => Missing(Strategy(j))
          /\ LET shown == Shown(jobs[j].plan)
                 review == shown \/ file.operator \/ jobs[j].tries > MaxTries
                 failed == [jobs EXCEPT ![j] =
                              [@ EXCEPT !.status = IF review THEN "review" ELSE "failed",
                                        !.why = why, !.staged = why # "other",
                                        !.backup = IF why \in {"backup", "replace"} THEN "listed" ELSE "none"]]
             IN /\ file' = [file EXCEPT !.shown = shown]
                /\ approved' = IF review THEN Revisited ELSE approved
                /\ IF review THEN jobs' = failed
                   ELSE /\ Len(jobs) < MaxJobs
                        /\ jobs' = Append(failed, NewJob(jobs[j].plan, jobs[j].policy, Again(j)))
    /\ UNCHANGED <<plans, disk, call, lock, sweep, seen, queued, lapses>>

(* A day passes over a completed job's backup.                                *)
Age(j) ==
    /\ jobs[j].status = "completed" /\ jobs[j].policy = "day"
    /\ jobs[j].backup = "listed" /\ ~jobs[j].due
    /\ jobs' = [jobs EXCEPT ![j].due = TRUE]
    /\ UNCHANGED <<plans, file, approved, disk, call, lock, sweep, seen, queued, lapses>>
-----------------------------------------------------------------------------
(* One sweep is one transaction; what it deletes on disk is deleted at once.  *)
Expirable == {j \in JobIds : jobs[j].due /\ Listed(j)}

SweepStart ==
    /\ ~sweep.on
    /\ LET expires == Expirable # {} /\ disk.backup # 0
       IN \E j \in IF expires THEN Expirable ELSE {0} :
             /\ disk' = IF expires THEN [disk EXCEPT !.backup = 0] ELSE disk
             /\ sweep' = [on |-> TRUE, met |-> disk.source, expired |-> {j} \ {0}]
    /\ UNCHANGED <<plans, jobs, file, approved, call, lock, seen, queued, lapses>>

(* create_watched_job_if_needed, for a new file just planned.                 *)
WatchAdds(kind, shown) == ~Busy /\ ~shown /\ kind = "run" /\ ~LatestStopped

RememberNothing(met) == FALSE
Remembered(met) == met

SweepCommit ==
    /\ sweep.on /\ RowFree
    /\ LET marked == [j \in JobIds |-> IF j \in sweep.expired
                                       THEN [jobs[j] EXCEPT !.backup = "gone"] ELSE jobs[j]]
           new == sweep.met /\ ~seen
       IN \/ /\ ~new
             /\ jobs' = marked
             /\ UNCHANGED <<plans, file, queued>>
          \/ /\ new /\ disk.source /\ Len(plans) < MaxPlans
             /\ \E kind \in {"run", "review", "protected"} :
                   LET shown == kind = "protected" \/ file.operator
                       adds == WatchAdds(kind, shown)
                   IN /\ plans' = Append(plans, [kind |-> kind, strategy |-> "fail"])
                      /\ file' = [file EXCEPT !.shown = shown]
                      /\ adds => Len(jobs) < MaxJobs
                      /\ jobs' = IF adds THEN Append(marked, NewJob(Len(plans'), "keep", 1))
                                 ELSE marked
                      /\ queued' = IF adds THEN queued + 1 ELSE queued
    /\ seen' = Remembered(sweep.met)
    /\ lapses' = IF seen /\ ~sweep.met THEN lapses + 1 ELSE lapses
    /\ sweep' = NoSweep
    /\ UNCHANGED <<approved, disk, call, lock>>

(* A file that cannot be probed, or any other error, rolls the sweep back.    *)
SweepFails ==
    /\ sweep.on
    /\ sweep' = NoSweep
    /\ UNCHANGED <<plans, jobs, file, approved, disk, call, lock, seen, queued, lapses>>

LibraryNext ==
    \/ PlanFile \/ Hold \/ Discover \/ SweepStart \/ SweepCommit \/ SweepFails
    \/ \E value \in BOOLEAN : Protect(value)
    \/ \E c \in Caller :
          \/ BeginCreate(c) \/ BeginRetry(c) \/ BeginRecover(c) \/ BeginReview(c)
          \/ BeginRestore(c) \/ Enter(c) \/ CommitJob(c) \/ CommitReview(c)
          \/ CommitRecover(c) \/ CommitRestore(c) \/ Abort(c) \/ ApprovePlace(c) \/ ApproveRecord(c)
    \/ \E j \in JobIds :
          \/ Claim(j) \/ CancelQueued(j) \/ Aside(j) \/ Place(j) \/ StopForReview(j)
          \/ Fail(j) \/ Age(j) \/ DeleteBackup(j)

LibrarySpec == LibraryInit /\ [][LibraryNext]_libVars
-----------------------------------------------------------------------------
(* Only an operator's review puts a job in the queue for a file that is       *)
(* protected, or for a plan that asks for a review, as the rows stand when    *)
(* that job is committed: a review action, or a recovery of a plan whose      *)
(* approval was current when the recovery took the row.  Creation, retry,     *)
(* automatic retry and the watched folder never do, however long before they  *)
(* read the file.                                                             *)
Reviewed(c) ==
    \/ call[c].op \in {"approve", "reject"}
    \/ call[c].excused

GateHeld ==
    [][\A j \in DOMAIN jobs' \ DOMAIN jobs :
          jobs'[j].status = "queued" =>
              \/ \E c \in Caller : Reviewed(c) /\ call'[c] # call[c]
              \/ /\ ~file'.operator /\ ~file'.shown
                 /\ plans'[jobs'[j].plan].kind = "run"]_libVars

(* No job of the file is queued or runs while a restore moves its files: the  *)
(* restored original would be encoded, or replaced, under it.                 *)
RestoreAlone == \A c \in Caller : Holding(c, {"restore"}) => ~Busy

(* A watched folder queues a file once for each time it appears: again only   *)
(* after a scan that did not meet it, which is what the gap of a replacement  *)
(* looks like.                                                                *)
WatchQueuesOnce == queued <= 1 + lapses

(* A backup on disk is in the list of backups, where an operator can restore  *)
(* or delete it, unless the replacement that made it is not recorded yet.     *)
BackupListed ==
    \/ disk.backup = 0
    \/ \E j \in JobIds : jobs[j].backup = "listed" \/ jobs[j].aside
    \/ \E c \in Caller : call[c].at = "placed"
=============================================================================
