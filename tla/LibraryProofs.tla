--------------------------- MODULE LibraryProofs ----------------------------
(* Theorems about Library for any number of requests, jobs and plans.  They   *)
(* rest on the lock of the file's row: what a request was permitted on stays  *)
(* as it was until that request commits or gives up, because every other      *)
(* action that queues a job or changes the protection waits for the row.      *)
EXTENDS Library, SequenceTheorems, TLAPS

(* A request is past its checks exactly while it holds the row.               *)
RowHeld == \A c \in Caller : call[c].at = "locked" <=> lock = c

(* Jobs have one of the file's plans, one that asks for no review; what is    *)
(* said of their backup goes with how far they are.                           *)
JobsSound ==
    \A j \in JobIds :
        /\ jobs[j].plan \in DOMAIN plans
        /\ plans[jobs[j].plan].kind = "run"
        /\ jobs[j].status \in {"queued", "running"} => jobs[j].backup = "none"
        /\ jobs[j].aside => jobs[j].status = "running"
        /\ jobs[j].due => jobs[j].status = "completed"

(* Requests keep the plan and the job they read.                              *)
CallsSound ==
    \A c \in Caller :
        /\ call[c].op \in {"create", "retry", "recover", "approve", "reject"} =>
               call[c].plan \in DOMAIN plans
        /\ call[c].op \in {"retry", "recover", "restore"} => call[c].job \in JobIds
        /\ call[c].job # 0 => call[c].job \in JobIds

(* Under the lock no job is queued or runs, and a request that is no review   *)
(* has found the file open to it.                                             *)
StillPermitted ==
    \A c \in Caller :
        call[c].at = "locked" =>
            /\ ~Busy
            /\ call[c].op \in {"create", "retry"} => ~Held(Guarded, call[c].plan)
            /\ call[c].op = "recover" /\ ~call[c].excused => ~Guarded

(* The staged output that an approval placed is that of a job still stopped   *)
(* for review, and no other request placed it.                                *)
PlacedOnce ==
    \A c \in Caller :
        call[c].at = "placed" =>
            /\ call[c].op = "approve" /\ call[c].job \in JobIds
            /\ jobs[call[c].job].status = "review" /\ ~jobs[call[c].job].staged
            /\ \A d \in Caller :
                  call[d].at = "placed" /\ call[d].job = call[c].job => d = c

(* A sweep expires the backup of a job that is over, and what it is about to  *)
(* mark is not all that lists the backup.                                     *)
ExpiredOver == \A j \in sweep.expired : j \in JobIds /\ jobs[j].status = "completed"

StaysListed ==
    \/ disk.backup = 0
    \/ \E j \in JobIds : j \notin sweep.expired /\ (jobs[j].backup = "listed" \/ jobs[j].aside)
    \/ \E c \in Caller : call[c].at = "placed"

(* The watched folder queued no more than there are jobs, and one more than   *)
(* it lost sight of the file only while it remembers it.                      *)
Watched ==
    /\ queued <= Len(jobs)
    /\ queued <= (IF seen THEN 1 ELSE 0) + lapses

LibraryInv ==
    /\ LibraryTypeOK /\ RowHeld /\ JobsSound /\ CallsSound /\ StillPermitted
    /\ PlacedOnce /\ ExpiredOver /\ StaysListed /\ Watched
-----------------------------------------------------------------------------
(* Writing one row of the job table leaves the others.                        *)
LEMMA RowWritten ==
    ASSUME LibraryTypeOK, NEW j \in JobIds, NEW row \in JobRow, jobs' = [jobs EXCEPT ![j] = row]
    PROVE  /\ jobs' \in Seq(JobRow) /\ Len(jobs') = Len(jobs) /\ JobIds' = JobIds
           /\ jobs'[j] = row /\ \A k \in JobIds : k # j => jobs'[k] = jobs[k]
<1>1. jobs \in Seq(JobRow) /\ j \in 1..Len(jobs) /\ JobIds = 1..Len(jobs)
    BY LenProperties DEF LibraryTypeOK, JobIds
<1>2. /\ jobs' \in Seq(JobRow) /\ Len(jobs') = Len(jobs)
      /\ \A k \in 1..Len(jobs) : jobs'[k] = IF k = j THEN row ELSE jobs[k]
    BY <1>1, ExceptSeq
<1>3. DOMAIN jobs' = 1..Len(jobs')
    BY <1>2, LenProperties
<1> QED BY <1>1, <1>2, <1>3 DEF JobIds

(* A new job leaves the earlier ones.                                         *)
LEMMA RowAdded ==
    ASSUME NEW rows \in Seq(JobRow), NEW row \in JobRow, jobs' = Append(rows, row)
    PROVE  /\ jobs' \in Seq(JobRow) /\ Len(jobs') = Len(rows) + 1
           /\ DOMAIN rows = 1..Len(rows) /\ JobIds' = 1..Len(rows) + 1
           /\ jobs'[Len(rows) + 1] = row /\ \A k \in DOMAIN rows : jobs'[k] = rows[k]
<1>1. /\ jobs' \in Seq(JobRow) /\ Len(jobs') = Len(rows) + 1
      /\ jobs'[Len(rows) + 1] = row /\ \A k \in 1..Len(rows) : jobs'[k] = rows[k]
    BY AppendProperties
<1>2. DOMAIN rows = 1..Len(rows) /\ DOMAIN jobs' = 1..Len(jobs')
    BY <1>1, LenProperties
<1> QED BY <1>1, <1>2 DEF JobIds

(* Plan snapshots are only added.                                             *)
PlansStay == \A p \in DOMAIN plans : p \in DOMAIN plans' /\ plans'[p] = plans[p]

(* A plan row is appended, never rewritten (plan_repository.add_plan).        *)
LEMMA PlanAdded ==
    ASSUME LibraryTypeOK, NEW plan \in PlanRow, plans' = Append(plans, plan), Len(plans) < MaxPlans
    PROVE  /\ plans' \in Seq(PlanRow) /\ Len(plans') <= MaxPlans /\ PlansStay
           /\ Len(plans') \in 1..MaxPlans /\ Len(plans') \in DOMAIN plans'
           /\ plans'[Len(plans')] = plan
<1>1. plans \in Seq(PlanRow) /\ Len(plans) \in Nat /\ DOMAIN plans = 1..Len(plans)
    BY LenProperties DEF LibraryTypeOK
<1>2. /\ plans' \in Seq(PlanRow) /\ Len(plans') = Len(plans) + 1
      /\ plans'[Len(plans) + 1] = plan /\ \A k \in 1..Len(plans) : plans'[k] = plans[k]
    BY <1>1, AppendProperties
<1>3. DOMAIN plans' = 1..Len(plans')
    BY <1>2, LenProperties
<1> QED BY <1>1, <1>2, <1>3, LibraryAssumption DEF PlansStay

(* The indices of the tables.                                                 *)
LEMMA Ids ==
    ASSUME LibraryTypeOK
    PROVE  /\ Len(jobs) \in 0..MaxJobs /\ JobIds = 1..Len(jobs) /\ JobIds \subseteq 1..MaxJobs
           /\ Len(plans) \in 0..MaxPlans /\ DOMAIN plans = 1..Len(plans)
           /\ DOMAIN plans \subseteq 1..MaxPlans
           /\ \A j \in JobIds : jobs[j] \in JobRow
           /\ \A p \in DOMAIN plans : plans[p] \in PlanRow
<1>1. jobs \in Seq(JobRow) /\ plans \in Seq(PlanRow)
    BY DEF LibraryTypeOK
<1>2. /\ Len(jobs) \in Nat /\ DOMAIN jobs = 1..Len(jobs) /\ jobs \in [1..Len(jobs) -> JobRow]
      /\ Len(plans) \in Nat /\ DOMAIN plans = 1..Len(plans) /\ plans \in [1..Len(plans) -> PlanRow]
    BY <1>1, LenProperties
<1> QED BY <1>1, <1>2, LibraryAssumption DEF LibraryTypeOK, JobIds

(* The table is empty at the start, and nothing is under way.                 *)
LEMMA LibraryStart == LibraryInit => LibraryInv
<1> SUFFICES ASSUME LibraryInit PROVE LibraryInv
    OBVIOUS
<1>1. <<>> \in Seq(JobRow) /\ <<>> \in Seq(PlanRow) /\ Len(<<>>) = 0 /\ DOMAIN <<>> = {}
    BY EmptySeq, LenProperties
<1>2. LibraryTypeOK
    <2>1. NoCall \in Call
        BY LibraryAssumption DEF NoCall, Call
    <2>2. NoSweep \in [on : BOOLEAN, met : BOOLEAN, expired : SUBSET (1..MaxJobs)]
        BY DEF NoSweep
    <2>3. plans \in Seq(PlanRow) /\ jobs \in Seq(JobRow) /\ Len(plans) = 0 /\ Len(jobs) = 0
        BY <1>1 DEF LibraryInit
    <2>4. call \in [Caller -> Call]
        BY <2>1 DEF LibraryInit
    <2>5. disk \in [source : BOOLEAN, backup : 0..MaxJobs]
        BY LibraryAssumption DEF LibraryInit
    <2>6. file \in [shown : BOOLEAN, operator : BOOLEAN]
        BY DEF LibraryInit
    <2>7. Len(plans) <= MaxPlans /\ Len(jobs) <= MaxJobs /\ queued \in 0..MaxJobs
        BY <2>3, LibraryAssumption DEF LibraryInit
    <2> QED
        BY <2>2, <2>3, <2>4, <2>5, <2>6, <2>7 DEF LibraryInit, LibraryTypeOK
<1>3. \A c \in Caller : call[c] = NoCall
    BY DEF LibraryInit
<1>4. JobIds = {} /\ lock \notin Caller /\ disk.backup = 0 /\ sweep.expired = {}
    BY <1>1, LibraryAssumption DEF LibraryInit, JobIds, NoSweep, Nobody
<1>5. RowHeld /\ JobsSound /\ CallsSound /\ StillPermitted /\ PlacedOnce
    BY <1>3, <1>4 DEF RowHeld, JobsSound, CallsSound, StillPermitted, PlacedOnce, NoCall
<1>6. ExpiredOver /\ StaysListed /\ Watched
    BY <1>1, <1>4 DEF ExpiredOver, StaysListed, Watched, LibraryInit
<1> QED BY <1>2, <1>5, <1>6 DEF LibraryInv
-----------------------------------------------------------------------------
(* What a step does to the jobs there are, as far as the invariant tells.     *)
RowKeeps(k) ==
    /\ k \in JobIds' /\ jobs'[k].plan = jobs[k].plan
    /\ jobs[k].status = "completed" => jobs'[k].status = "completed"
    /\ jobs[k].status = "review" /\ ~jobs[k].staged => jobs'[k].status = "review" /\ ~jobs'[k].staged
    /\ jobs'[k].status \in {"queued", "running"} =>
           jobs[k].status \in {"queued", "running"} /\ jobs'[k].backup = jobs[k].backup
    /\ jobs'[k].aside => jobs'[k].status = "running"
    /\ jobs'[k].due => jobs'[k].status = "completed"

NewRow(k) ==
    /\ jobs'[k].plan \in DOMAIN plans' /\ plans'[jobs'[k].plan].kind = "run"
    /\ jobs'[k].status \in {"queued", "running"} => jobs'[k].backup = "none"
    /\ ~jobs'[k].aside /\ ~jobs'[k].due

RowsKeep ==
    /\ \A k \in JobIds : RowKeeps(k)
    /\ \A k \in JobIds' \ JobIds : NewRow(k)

(* Requests that a step ends had placed nothing.                              *)
CallsKeep ==
    \A c \in Caller : call'[c] = call[c] \/ (call'[c] = NoCall /\ call[c].at # "placed")

(* A step that leaves the job table alone keeps every row.                    *)
LEMMA RowsSame ==
    ASSUME LibraryInv, UNCHANGED jobs
    PROVE  RowsKeep /\ JobIds' = JobIds
BY DEF RowsKeep, RowKeeps, LibraryInv, JobsSound, JobIds

(* How the rows that the actions write succeed the rows that were there.      *)
Succeeds(j, row) ==
    /\ row.plan = jobs[j].plan
    /\ jobs[j].status = "completed" => row.status = "completed"
    /\ jobs[j].status = "review" /\ ~jobs[j].staged => row.status = "review" /\ ~row.staged
    /\ row.status \in {"queued", "running"} =>
           jobs[j].status \in {"queued", "running"} /\ row.backup = jobs[j].backup
    /\ row.aside => row.status = "running"
    /\ row.due => row.status = "completed"

(* One row rewritten, as every executor step does: the others are as they     *)
(* were, and what has been completed or waits for a review still has, if the  *)
(* new row succeeds the old.                                                  *)
LEMMA OneRow ==
    ASSUME LibraryInv, NEW j \in JobIds, NEW row \in JobRow, jobs' = [jobs EXCEPT ![j] = row],
           Succeeds(j, row)
    PROVE  /\ jobs' \in Seq(JobRow) /\ Len(jobs') = Len(jobs) /\ JobIds' = JobIds
           /\ jobs'[j] = row /\ \A k \in JobIds : k # j => jobs'[k] = jobs[k]
           /\ RowsKeep
<1>1. /\ jobs' \in Seq(JobRow) /\ Len(jobs') = Len(jobs) /\ JobIds' = JobIds
      /\ jobs'[j] = row /\ \A k \in JobIds : k # j => jobs'[k] = jobs[k]
    BY RowWritten DEF LibraryInv
<1>2. RowKeeps(j)
    BY <1>1 DEF RowKeeps, Succeeds
<1>3. ASSUME NEW k \in JobIds, k # j PROVE RowKeeps(k)
    BY <1>1, <1>3 DEF RowKeeps, LibraryInv, JobsSound
<1> QED BY <1>1, <1>2, <1>3 DEF RowsKeep

(* A new job, for a plan that asks for no review.                             *)
Fresh(row) ==
    /\ row.plan \in DOMAIN plans' /\ plans'[row.plan].kind = "run"
    /\ row.status \in {"queued", "running"} => row.backup = "none"
    /\ ~row.aside /\ ~row.due

(* The writes of a commit that also creates a job: rows rewritten, and one    *)
(* more row at the end.                                                       *)
LEMMA OneMore ==
    ASSUME LibraryInv, NEW rows \in Seq(JobRow), Len(rows) = Len(jobs),
           \A k \in JobIds : Succeeds(k, rows[k]),
           NEW row \in JobRow, jobs' = Append(rows, row), Fresh(row)
    PROVE  /\ jobs' \in Seq(JobRow) /\ Len(jobs') = Len(jobs) + 1
           /\ JobIds \subseteq JobIds' /\ JobIds' \ JobIds = {Len(jobs')}
           /\ jobs'[Len(jobs')] = row /\ \A k \in JobIds : jobs'[k] = rows[k]
           /\ RowsKeep
<1>1. JobIds = 1..Len(jobs) /\ Len(jobs) \in Nat /\ DOMAIN rows = JobIds
    BY Ids, LenProperties DEF LibraryInv, LibraryTypeOK
<1>2. /\ jobs' \in Seq(JobRow) /\ Len(jobs') = Len(jobs) + 1
      /\ JobIds' = 1..Len(jobs) + 1
      /\ jobs'[Len(jobs) + 1] = row /\ \A k \in JobIds : jobs'[k] = rows[k]
    BY <1>1, RowAdded
<1>3. JobIds \subseteq JobIds' /\ JobIds' \ JobIds = {Len(jobs')}
    BY <1>1, <1>2
<1>4. ASSUME NEW k \in JobIds PROVE RowKeeps(k)
    BY <1>2, <1>3 DEF RowKeeps, Succeeds
<1>5. NewRow(Len(jobs'))
    BY <1>2 DEF NewRow, Fresh
<1> QED BY <1>2, <1>3, <1>4, <1>5 DEF RowsKeep

(* A row succeeds itself.                                                     *)
LEMMA RowStays == ASSUME LibraryInv, NEW k \in JobIds PROVE Succeeds(k, jobs[k])
BY DEF LibraryInv, JobsSound, Succeeds

(* What is said of jobs, requests and the sweep survives such a step.         *)
LEMMA Carried ==
    ASSUME LibraryInv, PlansStay, RowsKeep, CallsKeep, sweep'.expired \subseteq sweep.expired
    PROVE  JobsSound' /\ CallsSound' /\ PlacedOnce' /\ ExpiredOver'
<1> USE DEF LibraryInv
<1>1. JobsSound'
    BY DEF JobsSound, RowsKeep, RowKeeps, NewRow, PlansStay
<1>2. CallsSound'
    BY DEF CallsSound, RowsKeep, RowKeeps, PlansStay, CallsKeep, NoCall
<1>3. PlacedOnce'
    BY DEF PlacedOnce, RowsKeep, RowKeeps, CallsKeep, NoCall
<1>4. ExpiredOver'
    BY DEF ExpiredOver, RowsKeep, RowKeeps
<1> QED BY <1>1, <1>2, <1>3, <1>4

(* The backup stays listed when it is gone, or when nothing that lists it     *)
(* stops doing so.                                                            *)
LEMMA ListingCarried ==
    ASSUME LibraryInv, disk'.backup = disk.backup, sweep'.expired \subseteq sweep.expired,
           \A c \in Caller : call[c].at = "placed" => call'[c].at = "placed",
           \A k \in JobIds : k \notin sweep.expired /\ (jobs[k].backup = "listed" \/ jobs[k].aside) =>
               k \in JobIds' /\ (jobs'[k].backup = "listed" \/ jobs'[k].aside)
    PROVE  StaysListed'
BY DEF LibraryInv, StaysListed

(* No request is past its checks when the row is free, and none becomes so    *)
(* unseen.                                                                    *)
LEMMA RowFreed ==
    ASSUME LibraryInv, lock' = Nobody, NEW holder, lock \in {Nobody, holder},
           \A d \in Caller : call'[d] \in {call[d], NoCall} /\ (d = holder => call'[d].at # "locked")
    PROVE  RowHeld' /\ StillPermitted'
<1>1. \A d \in Caller : call'[d].at # "locked"
    BY LibraryAssumption DEF LibraryInv, RowHeld, NoCall
<1> QED BY <1>1, LibraryAssumption DEF RowHeld, StillPermitted

(* While no call holds the row of the file, no decision can have gone stale.  *)
LEMMA RowUntaken ==
    ASSUME LibraryInv, RowFree, UNCHANGED <<call, lock>>
    PROVE  RowHeld' /\ StillPermitted'
<1>1. \A d \in Caller : call'[d].at # "locked"
    BY LibraryAssumption DEF LibraryInv, RowHeld, RowFree
<1> QED BY <1>1, LibraryAssumption DEF RowHeld, StillPermitted, RowFree

(* A step that neither takes nor releases the row of the file keeps what the  *)
(* calls that hold it read.                                                   *)
LEMMA Undisturbed ==
    ASSUME LibraryInv, UNCHANGED <<plans, file, lock>>, RowsKeep, JobIds' = JobIds,
           \A d \in Caller : call'[d] = call[d] \/ (call[d].at # "locked" /\ call'[d].at # "locked")
    PROVE  RowHeld' /\ StillPermitted'
<1>1. RowHeld'
    BY DEF LibraryInv, RowHeld
<1>2. Busy' => Busy
    BY DEF Busy, RowsKeep, RowKeeps
<1>3. Guarded' = Guarded /\ \A g, p : Held(g, p)' = Held(g, p)
    BY DEF Guarded, Held
<1>4. StillPermitted'
    BY <1>2, <1>3 DEF LibraryInv, StillPermitted
<1> QED BY <1>1, <1>4

(* A step that is not a sweep's and adds no job keeps the count of what the   *)
(* watched folder queued.                                                     *)
LEMMA NothingWatched ==
    ASSUME LibraryInv, LibraryTypeOK', UNCHANGED <<seen, queued, lapses>>, Len(jobs) <= Len(jobs')
    PROVE  Watched'
<1>1. queued \in Nat /\ Len(jobs) \in Nat /\ Len(jobs') \in Nat
    BY Ids, LenProperties DEF LibraryInv, LibraryTypeOK
<1> QED BY <1>1 DEF LibraryInv, Watched
-----------------------------------------------------------------------------
(* The steps that leave the jobs alone.  Planning a file and protecting it    *)
(* wait for the row; a hold is recorded without it.                           *)
LEMMA FileSteps ==
    ASSUME LibraryInv, PlanFile \/ Hold \/ (\E value \in BOOLEAN : Protect(value))
    PROVE  LibraryInv'
<1> USE DEF LibraryInv
<1>1. UNCHANGED <<jobs, disk, call, lock, sweep, seen, queued, lapses>>
    BY DEF PlanFile, Hold, Protect
<1>2. PlansStay /\ plans' \in Seq(PlanRow) /\ Len(plans') <= MaxPlans
    <2>1. CASE PlanFile
        <3>1. PICK kind \in {"run", "review", "protected"} :
                  plans' = Append(plans, [kind |-> kind, strategy |-> "fail"])
            BY <2>1 DEF PlanFile
        <3>2. [kind |-> kind, strategy |-> "fail"] \in PlanRow
            BY DEF PlanRow
        <3> QED BY <2>1, <3>1, <3>2, PlanAdded DEF PlanFile
    <2>2. CASE UNCHANGED plans
        BY <2>2 DEF PlansStay, LibraryTypeOK
    <2> QED BY <2>1, <2>2 DEF Hold, Protect
<1>3. file' \in [shown : BOOLEAN, operator : BOOLEAN]
    <2>1. CASE PlanFile
        <3>1. PICK kind \in {"run", "review", "protected"} :
                  file' = [file EXCEPT !.shown = kind = "protected" \/ file.operator]
            BY <2>1 DEF PlanFile
        <3>2. (kind = "protected" \/ file.operator) \in BOOLEAN
            OBVIOUS
        <3> QED BY <3>1, <3>2 DEF LibraryTypeOK
    <2>2. ASSUME NEW value \in BOOLEAN, Protect(value) PROVE file' \in [shown : BOOLEAN, operator : BOOLEAN]
        <3>1. (value \/ (plans # <<>> /\ Last(plans).kind = "protected")) \in BOOLEAN
            OBVIOUS
        <3> QED BY <2>2, <3>1 DEF Protect, OperatorProtected
    <2>3. CASE Hold
        BY <2>3 DEF Hold, LibraryTypeOK
    <2> QED BY <2>1, <2>2, <2>3
<1>4. approved' \in {Undecided} \cup (0..MaxPlans)
    BY LibraryAssumption DEF PlanFile, Hold, Protect, Decided, LibraryTypeOK
<1>5. LibraryTypeOK'
    BY <1>1, <1>2, <1>3, <1>4 DEF LibraryTypeOK
<1>6. RowsKeep /\ JobIds' = JobIds /\ CallsKeep
    BY <1>1, RowsSame DEF CallsKeep
<1>7. JobsSound' /\ CallsSound' /\ PlacedOnce' /\ ExpiredOver'
    BY <1>1, <1>2, <1>6, Carried
<1>8. StaysListed'
    BY <1>1 DEF StaysListed, JobIds
<1>9. RowHeld' /\ StillPermitted'
    <2>1. CASE RowFree
        BY <2>1, <1>1, RowUntaken
    <2>2. CASE Hold
        BY <2>2, <1>1, <1>6, Undisturbed DEF Hold
    <2> QED BY <2>1, <2>2 DEF PlanFile, Protect
<1>10. Watched'
    BY <1>1, <1>5, NothingWatched, Ids
<1> QED BY <1>5, <1>7, <1>8, <1>9, <1>10

(* A request that begins reads rows that are there.                           *)
LEMMA ReadSteps ==
    ASSUME LibraryInv, NEW c \in Caller,
           BeginCreate(c) \/ BeginRetry(c) \/ BeginRecover(c) \/ BeginReview(c) \/ BeginRestore(c)
    PROVE  LibraryInv'
<1> USE DEF LibraryInv
<1>1. PICK op, p, j :
          /\ Reads(c, op, p, j)
          /\ op \in {"create", "retry", "recover", "approve", "reject", "restore"}
          /\ op \in {"create", "retry", "recover", "approve", "reject"} => p \in DOMAIN plans
          /\ op \in {"retry", "recover", "restore"} => j \in JobIds
          /\ p \in {0} \cup DOMAIN plans /\ j \in {0} \cup JobIds
    <2> USE Ids
    <2>1. CASE BeginCreate(c)
        BY <2>1 DEF BeginCreate
    <2>2. CASE BeginRetry(c)
        BY <2>2 DEF BeginRetry, JobsSound
    <2>3. CASE BeginRecover(c)
        BY <2>3 DEF BeginRecover, JobsSound
    <2>4. CASE BeginReview(c)
        <3>1. PICK op \in {"approve", "reject"} : Reads(c, op, Len(plans), Len(jobs))
            BY <2>4 DEF BeginReview
        <3>2. plans # <<>>
            BY <2>4 DEF BeginReview, RequiresReview
        <3>3. Len(plans) # 0
            BY <3>2, EmptySeq DEF LibraryTypeOK
        <3>4. Len(plans) \in DOMAIN plans /\ Len(jobs) \in {0} \cup JobIds
            BY <3>3
        <3> QED BY <3>1, <3>4
    <2>5. CASE BeginRestore(c)
        BY <2>5 DEF BeginRestore
    <2> QED BY <2>1, <2>2, <2>3, <2>4, <2>5
<1>2. UNCHANGED <<plans, jobs, file, approved, disk, lock, sweep, seen, queued, lapses>>
    BY <1>1 DEF Reads
<1> DEFINE r == [op |-> op, at |-> "read", plan |-> p, job |-> j,
                 strategy |-> "fail", guarded |-> Guarded, excused |-> FALSE]
<1>3. call[c] = NoCall /\ call' = [call EXCEPT ![c] = r]
    BY <1>1 DEF Reads
<1>4. r \in Call
    <2>1. Guarded \in BOOLEAN
        BY DEF Guarded, LibraryTypeOK
    <2>2. p \in 0..MaxPlans /\ j \in 0..MaxJobs
        BY <1>1, Ids, LibraryAssumption
    <2> QED BY <1>1, <2>1, <2>2 DEF Call
<1>5. r.op = op /\ r.at = "read" /\ r.plan = p /\ r.job = j
    OBVIOUS
<1> HIDE DEF r
<1>6. call' \in [Caller -> Call] /\ call'[c] = r /\ \A d \in Caller : d # c => call'[d] = call[d]
    BY <1>3, <1>4 DEF LibraryTypeOK
<1>7. LibraryTypeOK'
    BY <1>2, <1>6 DEF LibraryTypeOK
<1>8. RowsKeep /\ JobIds' = JobIds
    BY <1>2, RowsSame
<1>9. JobsSound' /\ ExpiredOver' /\ Watched'
    BY <1>2 DEF JobsSound, ExpiredOver, Watched, JobIds
<1>10. CallsSound'
    BY <1>1, <1>2, <1>5, <1>6, <1>8 DEF CallsSound
<1>11. PlacedOnce' /\ StaysListed'
    BY <1>2, <1>3, <1>5, <1>6, <1>8 DEF PlacedOnce, StaysListed, NoCall
<1>12. RowHeld' /\ StillPermitted'
    <2>1. \A d \in Caller : call'[d] = call[d] \/ (call[d].at # "locked" /\ call'[d].at # "locked")
        BY <1>3, <1>5, <1>6 DEF NoCall
    <2> QED BY <2>1, <1>2, <1>8, Undisturbed
<1> QED BY <1>7, <1>9, <1>10, <1>11, <1>12

(* Taking the row: what the request was permitted on holds as it takes it.    *)
LEMMA EnterStep ==
    ASSUME LibraryInv, NEW c \in Caller, Enter(c)
    PROVE  LibraryInv'
<1> USE DEF LibraryInv
<1>1. /\ call[c].at = "read" /\ lock = Nobody
      /\ UNCHANGED <<plans, jobs, file, approved, disk, sweep, seen, queued, lapses>>
    BY DEF Enter, RowFree
<1>2. RowsKeep /\ JobIds' = JobIds /\ PlansStay /\ c # Nobody
    BY <1>1, RowsSame, LibraryAssumption DEF PlansStay
<1>3. JobsSound' /\ ExpiredOver' /\ Watched'
    BY <1>1 DEF JobsSound, ExpiredOver, Watched, JobIds
<1>4. CASE Idles(c) /\ UNCHANGED lock
    <2>1. /\ call' \in [Caller -> Call] /\ call'[c] = NoCall
          /\ \A d \in Caller : d # c => call'[d] = call[d]
        BY <1>4, LibraryAssumption DEF Idles, LibraryTypeOK, NoCall, Call
    <2>2. LibraryTypeOK'
        BY <1>1, <1>4, <2>1 DEF LibraryTypeOK
    <2>3. CallsKeep
        BY <1>1, <2>1 DEF CallsKeep
    <2>4. CallsSound' /\ PlacedOnce'
        BY <1>1, <1>2, <2>3, Carried
    <2>5. StaysListed'
        BY <1>1, <2>1, <1>2 DEF StaysListed, NoCall
    <2>6. RowHeld' /\ StillPermitted'
        BY <1>1, <1>2, <1>4, <2>1, Undisturbed DEF NoCall
    <2> QED BY <1>3, <2>2, <2>4, <2>5, <2>6
<1>5. ASSUME NEW strategy, strategy \in (IF call[c].op \in {"create", "retry"} THEN Strategies ELSE {"fail"}),
             Permitted(c, strategy), Takes(c),
             call' = [call EXCEPT ![c] = [@ EXCEPT !.at = "locked", !.strategy = strategy,
                        !.excused = call[c].op = "recover" /\ approved = call[c].plan]]
      PROVE  LibraryInv'
    <2> DEFINE excused == call[c].op = "recover" /\ approved = call[c].plan
               r == [call[c] EXCEPT !.at = "locked", !.strategy = strategy, !.excused = excused]
    <2>1. strategy \in {"fail", "keep", "replace"} /\ excused \in BOOLEAN
        BY <1>5, LibraryAssumption
    <2>2. call[c] \in Call
        BY DEF LibraryTypeOK
    <2>3. /\ r \in Call /\ r.at = "locked" /\ r.op = call[c].op /\ r.plan = call[c].plan
          /\ r.job = call[c].job /\ r.excused = excused
        BY <2>1, <2>2 DEF Call
    <2>4. call' = [call EXCEPT ![c] = r]
        BY <1>5
    <2> HIDE DEF r
    <2>5. call' \in [Caller -> Call] /\ call'[c] = r /\ \A d \in Caller : d # c => call'[d] = call[d]
        BY <2>3, <2>4 DEF LibraryTypeOK
    <2>6. LibraryTypeOK'
        BY <1>1, <1>5, <2>5 DEF LibraryTypeOK, Takes
    <2>7. CallsSound'
        BY <1>1, <1>2, <2>3, <2>5 DEF CallsSound
    <2>8. PlacedOnce' /\ StaysListed'
        BY <1>1, <1>2, <2>3, <2>5 DEF PlacedOnce, StaysListed
    <2>9. RowHeld'
        BY <1>1, <1>2, <1>5, <2>3, <2>5, LibraryAssumption DEF RowHeld, Takes
    <2>10. \A d \in Caller : call'[d].at = "locked" => d = c
        BY <1>1, <1>2, <2>3, <2>5, LibraryAssumption DEF RowHeld
    <2>11. /\ ~Busy
           /\ call[c].op \in {"create", "retry"} => ~Held(Guarded, call[c].plan)
           /\ call[c].op = "recover" /\ ~excused => ~Guarded
        BY <1>5 DEF Permitted, GuardedNow, Gate, Held
    <2>12. Busy' = Busy /\ Guarded' = Guarded /\ \A g, p : Held(g, p)' = Held(g, p)
        BY <1>1 DEF Busy, Guarded, Held, JobIds
    <2>13. StillPermitted'
        BY <2>3, <2>5, <2>10, <2>11, <2>12 DEF StillPermitted
    <2> QED BY <1>3, <2>6, <2>7, <2>8, <2>9, <2>13
<1> QED BY <1>4, <1>5 DEF Enter

(* A request that gives up leaves everything as it was.                       *)
LEMMA AbortStep ==
    ASSUME LibraryInv, NEW c \in Caller, Abort(c)
    PROVE  LibraryInv'
<1> USE DEF LibraryInv
<1>1. /\ call[c].at \in {"read", "locked"} /\ Idles(c)
      /\ lock' = (IF lock = c THEN Nobody ELSE lock)
      /\ UNCHANGED <<plans, jobs, file, approved, disk, sweep, seen, queued, lapses>>
    BY DEF Abort
<1>2. RowsKeep /\ JobIds' = JobIds /\ PlansStay
    BY <1>1, RowsSame DEF PlansStay
<1>3. /\ call' \in [Caller -> Call] /\ call'[c] = NoCall
      /\ \A d \in Caller : d # c => call'[d] = call[d]
    BY <1>1, LibraryAssumption DEF Idles, LibraryTypeOK, NoCall, Call
<1>4. LibraryTypeOK'
    BY <1>1, <1>3 DEF LibraryTypeOK
<1>5. CallsKeep
    BY <1>1, <1>3 DEF CallsKeep
<1>6. JobsSound' /\ CallsSound' /\ PlacedOnce' /\ ExpiredOver'
    BY <1>1, <1>2, <1>5, Carried
<1>7. StaysListed' /\ Watched'
    BY <1>1, <1>2, <1>3 DEF StaysListed, Watched, NoCall
<1>8. RowHeld' /\ StillPermitted'
    <2>1. CASE lock = c
        BY <1>1, <1>3, <2>1, RowFreed DEF NoCall
    <2>2. CASE lock # c
        BY <1>1, <1>2, <1>3, <2>2, Undisturbed DEF RowHeld, NoCall
    <2> QED BY <2>1, <2>2
<1> QED BY <1>4, <1>6, <1>7, <1>8
-----------------------------------------------------------------------------
(* The executor's steps, and a backup's, each write one job.                  *)
StillLists(j, row) ==
    \/ disk'.backup = 0
    \/ j \notin sweep.expired /\ (row.backup = "listed" \/ row.aside)
    \/ /\ disk'.backup = disk.backup
       /\ jobs[j].backup = "listed" \/ jobs[j].aside => row.backup = "listed" \/ row.aside

(* The invariant is kept by any step that rewrites one job row, touches the   *)
(* file only while its row is free, and leaves the backup where it is         *)
(* listed.                                                                    *)
LEMMA OneRowStep ==
    ASSUME LibraryInv, NEW j \in JobIds, NEW row \in JobRow, jobs' = [jobs EXCEPT ![j] = row],
           UNCHANGED <<plans, call, lock, sweep, seen, queued, lapses>>,
           RowFree \/ UNCHANGED file,
           file' \in [shown : BOOLEAN, operator : BOOLEAN],
           approved' \in {Undecided} \cup (0..MaxPlans),
           disk' \in [source : BOOLEAN, backup : 0..MaxJobs],
           Succeeds(j, row),
           StillLists(j, row)
    PROVE  LibraryInv'
<1> USE DEF LibraryInv
<1>1. /\ jobs' \in Seq(JobRow) /\ Len(jobs') = Len(jobs) /\ JobIds' = JobIds
      /\ jobs'[j] = row /\ \A k \in JobIds : k # j => jobs'[k] = jobs[k]
      /\ RowsKeep
    BY OneRow
<1>2. LibraryTypeOK'
    BY <1>1 DEF LibraryTypeOK
<1>3. PlansStay /\ CallsKeep
    BY DEF PlansStay, CallsKeep
<1>4. JobsSound' /\ CallsSound' /\ PlacedOnce' /\ ExpiredOver'
    BY <1>1, <1>3, Carried
<1>5. StaysListed'
    BY <1>1 DEF StaysListed, StillLists
<1>6. RowHeld' /\ StillPermitted'
    BY <1>1, RowUntaken, Undisturbed
<1>7. Watched'
    BY <1>1, <1>2, NothingWatched, Ids
<1> QED BY <1>2, <1>4, <1>5, <1>6, <1>7

(* What a job's end writes into the file's protection flag                    *)
(* (_resolved_protection).                                                    *)
LEMMA ShownTyped ==
    ASSUME LibraryInv, NEW j \in JobIds
    PROVE  /\ Shown(jobs[j].plan) \in BOOLEAN
           /\ [file EXCEPT !.shown = Shown(jobs[j].plan)] \in [shown : BOOLEAN, operator : BOOLEAN]
<1>1. file \in [shown : BOOLEAN, operator : BOOLEAN]
    BY DEF LibraryInv, LibraryTypeOK
<1>2. Shown(jobs[j].plan) \in BOOLEAN
    BY <1>1 DEF Shown
<1> QED BY <1>1, <1>2

(* The steps of the worker and of retention that rewrite one row.             *)
LEMMA ExecutorSteps ==
    ASSUME LibraryInv, NEW j \in JobIds,
           Claim(j) \/ CancelQueued(j) \/ Aside(j) \/ Place(j) \/ StopForReview(j) \/ Age(j) \/ DeleteBackup(j)
    PROVE  LibraryInv'
<1> USE DEF LibraryInv
<1>1. /\ jobs[j] \in JobRow /\ j \in 1..MaxJobs
      /\ file \in [shown : BOOLEAN, operator : BOOLEAN]
      /\ [file EXCEPT !.shown = Shown(jobs[j].plan)] \in [shown : BOOLEAN, operator : BOOLEAN]
      /\ approved \in {Undecided} \cup (0..MaxPlans)
      /\ disk \in [source : BOOLEAN, backup : 0..MaxJobs]
    BY Ids, ShownTyped DEF LibraryTypeOK
<1>2. /\ jobs[j].status \in {"queued", "running"} => jobs[j].backup = "none"
      /\ jobs[j].aside => jobs[j].status = "running"
      /\ jobs[j].due => jobs[j].status = "completed"
      /\ j \in sweep.expired => jobs[j].status = "completed"
    BY DEF JobsSound, ExpiredOver
<1>3. CASE Claim(j)
    <2> DEFINE row == [jobs[j] EXCEPT !.status = "running"]
    <2>1. row \in JobRow /\ jobs' = [jobs EXCEPT ![j] = row]
        BY <1>1, <1>3 DEF Claim, JobRow
    <2>2. Succeeds(j, row) /\ StillLists(j, row)
        BY <1>1, <1>2, <1>3, <2>1 DEF Succeeds, StillLists, JobRow, Claim
    <2>3. /\ UNCHANGED <<plans, call, lock, sweep, seen, queued, lapses>>
          /\ RowFree \/ UNCHANGED file
          /\ file' \in [shown : BOOLEAN, operator : BOOLEAN]
          /\ approved' \in {Undecided} \cup (0..MaxPlans)
          /\ disk' \in [source : BOOLEAN, backup : 0..MaxJobs]
        BY <1>1, <1>2, <1>3, <2>1 DEF Claim
    <2> HIDE DEF row
    <2> QED BY <2>1, <2>2, <2>3, OneRowStep
<1>4. CASE CancelQueued(j)
    <2> DEFINE row == [jobs[j] EXCEPT !.status = "cancelled"]
    <2>1. row \in JobRow /\ jobs' = [jobs EXCEPT ![j] = row]
        BY <1>1, <1>4 DEF CancelQueued, JobRow, Ended
    <2>2. Succeeds(j, row) /\ StillLists(j, row)
        BY <1>1, <1>2, <1>4, <2>1 DEF Succeeds, StillLists, JobRow, CancelQueued
    <2>3. /\ UNCHANGED <<plans, call, lock, sweep, seen, queued, lapses>>
          /\ RowFree \/ UNCHANGED file
          /\ file' \in [shown : BOOLEAN, operator : BOOLEAN]
          /\ approved' \in {Undecided} \cup (0..MaxPlans)
          /\ disk' \in [source : BOOLEAN, backup : 0..MaxJobs]
        BY <1>1, <1>2, <1>4, <2>1 DEF CancelQueued
    <2> HIDE DEF row
    <2> QED BY <2>1, <2>2, <2>3, OneRowStep
<1>5. CASE Aside(j)
    <2> DEFINE row == [jobs[j] EXCEPT !.aside = TRUE]
    <2>1. row \in JobRow /\ jobs' = [jobs EXCEPT ![j] = row]
        BY <1>1, <1>5 DEF Aside, JobRow
    <2>2. disk' \in [source : BOOLEAN, backup : 0..MaxJobs]
        BY <1>1, <1>5, LibraryAssumption DEF Aside
    <2>3. Succeeds(j, row) /\ StillLists(j, row)
        BY <1>1, <1>2, <1>5, <2>1, <2>2 DEF Succeeds, StillLists, JobRow, Aside, Running
    <2>4. /\ UNCHANGED <<plans, call, lock, sweep, seen, queued, lapses>>
          /\ RowFree \/ UNCHANGED file
          /\ file' \in [shown : BOOLEAN, operator : BOOLEAN]
          /\ approved' \in {Undecided} \cup (0..MaxPlans)
          /\ disk' \in [source : BOOLEAN, backup : 0..MaxJobs]
        BY <1>1, <1>2, <1>5, <2>1, <2>2 DEF Aside, Running
    <2> HIDE DEF row
    <2> QED BY <2>1, <2>3, <2>4, OneRowStep
<1>6. CASE Place(j)
    <2> DEFINE row == [jobs[j] EXCEPT !.status = "completed", !.aside = FALSE, !.backup = Recorded(j)]
    <2>1. row \in JobRow /\ jobs' = [jobs EXCEPT ![j] = row]
        BY <1>1, <1>6 DEF Place, JobRow, Ended, Recorded
    <2>2. /\ disk' \in [source : BOOLEAN, backup : 0..MaxJobs]
          /\ disk'.backup = 0 \/ row.backup = "listed"
        BY <1>1, <1>6, LibraryAssumption DEF Place, Recorded, JobRow
    <2>3. Succeeds(j, row) /\ StillLists(j, row)
        BY <1>1, <1>2, <1>6, <2>1, <2>2 DEF Succeeds, StillLists, JobRow, Place, Running
    <2>4. /\ UNCHANGED <<plans, call, lock, sweep, seen, queued, lapses>>
          /\ RowFree \/ UNCHANGED file
          /\ file' \in [shown : BOOLEAN, operator : BOOLEAN]
          /\ approved' \in {Undecided} \cup (0..MaxPlans)
          /\ disk' \in [source : BOOLEAN, backup : 0..MaxJobs]
        BY <1>1, <1>2, <1>6, <2>1, <2>2 DEF Place, Running
    <2> HIDE DEF row
    <2> QED BY <2>1, <2>3, <2>4, OneRowStep
<1>7. CASE StopForReview(j)
    <2> DEFINE row == [jobs[j] EXCEPT !.status = "review", !.why = "guard", !.staged = TRUE]
    <2>1. row \in JobRow /\ jobs' = [jobs EXCEPT ![j] = row]
        BY <1>1, <1>7 DEF StopForReview, JobRow, Ended
    <2>2. approved' \in {Undecided} \cup (0..MaxPlans)
        BY <1>1, <1>7, LibraryAssumption DEF StopForReview, Revisited
    <2>3. Succeeds(j, row) /\ StillLists(j, row)
        BY <1>1, <1>2, <1>7, <2>1, <2>2 DEF Succeeds, StillLists, JobRow, StopForReview, Running
    <2>4. /\ UNCHANGED <<plans, call, lock, sweep, seen, queued, lapses>>
          /\ RowFree \/ UNCHANGED file
          /\ file' \in [shown : BOOLEAN, operator : BOOLEAN]
          /\ approved' \in {Undecided} \cup (0..MaxPlans)
          /\ disk' \in [source : BOOLEAN, backup : 0..MaxJobs]
        BY <1>1, <1>2, <1>7, <2>1, <2>2 DEF StopForReview, Running
    <2> HIDE DEF row
    <2> QED BY <2>1, <2>3, <2>4, OneRowStep
<1>8. CASE Age(j)
    <2> DEFINE row == [jobs[j] EXCEPT !.due = TRUE]
    <2>1. row \in JobRow /\ jobs' = [jobs EXCEPT ![j] = row]
        BY <1>1, <1>8 DEF Age, JobRow
    <2>2. Succeeds(j, row) /\ StillLists(j, row)
        BY <1>1, <1>2, <1>8, <2>1 DEF Succeeds, StillLists, JobRow, Age
    <2>3. /\ UNCHANGED <<plans, call, lock, sweep, seen, queued, lapses>>
          /\ RowFree \/ UNCHANGED file
          /\ file' \in [shown : BOOLEAN, operator : BOOLEAN]
          /\ approved' \in {Undecided} \cup (0..MaxPlans)
          /\ disk' \in [source : BOOLEAN, backup : 0..MaxJobs]
        BY <1>1, <1>2, <1>8, <2>1 DEF Age
    <2> HIDE DEF row
    <2> QED BY <2>1, <2>2, <2>3, OneRowStep
<1>9. CASE DeleteBackup(j)
    <2> DEFINE row == [jobs[j] EXCEPT !.backup = "gone"]
    <2>1. row \in JobRow /\ jobs' = [jobs EXCEPT ![j] = row]
        BY <1>1, <1>9 DEF DeleteBackup, JobRow
    <2>2. disk' \in [source : BOOLEAN, backup : 0..MaxJobs] /\ disk'.backup = 0
        BY <1>1, <1>9, LibraryAssumption DEF DeleteBackup
    <2>3. Succeeds(j, row) /\ StillLists(j, row)
        BY <1>1, <1>2, <1>9, <2>1, <2>2 DEF Succeeds, StillLists, JobRow, DeleteBackup
    <2>4. /\ UNCHANGED <<plans, call, lock, sweep, seen, queued, lapses>>
          /\ RowFree \/ UNCHANGED file
          /\ file' \in [shown : BOOLEAN, operator : BOOLEAN]
          /\ approved' \in {Undecided} \cup (0..MaxPlans)
          /\ disk' \in [source : BOOLEAN, backup : 0..MaxJobs]
        BY <1>1, <1>2, <1>9, <2>1, <2>2 DEF DeleteBackup
    <2> HIDE DEF row
    <2> QED BY <2>1, <2>3, <2>4, OneRowStep
<1> QED BY <1>3, <1>4, <1>5, <1>6, <1>7, <1>8, <1>9
-----------------------------------------------------------------------------
(* The steps that add a job while the row is free, or in releasing it.        *)
Releasing == \E c \in Caller : lock = c /\ Releases(c)

(* A call that commits releases the row; a step that is no call's needs it    *)
(* free.                                                                      *)
LEMMA CallsAfter ==
    ASSUME LibraryInv, Releasing \/ (RowFree /\ UNCHANGED <<call, lock>>)
    PROVE  /\ RowHeld' /\ StillPermitted' /\ CallsKeep
           /\ call' \in [Caller -> Call] /\ lock' \in Caller \cup {Nobody}
           /\ \A d \in Caller : call[d].at = "placed" => call'[d].at = "placed"
<1> USE DEF LibraryInv
<1>1. CASE Releasing
    <2>1. PICK c \in Caller : lock = c /\ Releases(c)
        BY <1>1 DEF Releasing
    <2>2. /\ lock' = Nobody /\ call' \in [Caller -> Call] /\ call'[c] = NoCall
          /\ \A d \in Caller : d # c => call'[d] = call[d]
        BY <2>1, LibraryAssumption DEF Releases, Idles, LibraryTypeOK, NoCall, Call
    <2>3. call[c].at = "locked"
        BY <2>1 DEF RowHeld
    <2>4. RowHeld' /\ StillPermitted'
        BY <2>1, <2>2, RowFreed DEF NoCall
    <2> QED BY <2>2, <2>3, <2>4 DEF CallsKeep
<1>2. CASE RowFree /\ UNCHANGED <<call, lock>>
    BY <1>2, RowUntaken DEF CallsKeep, LibraryTypeOK
<1> QED BY <1>1, <1>2

(* The invariant is kept by any commit that rewrites rows and adds one fresh  *)
(* job under a plan that lets the file run.                                   *)
LEMMA QueueStep ==
    ASSUME LibraryInv, NEW rows \in Seq(JobRow), Len(rows) = Len(jobs),
           \A k \in JobIds : Succeeds(k, rows[k]),
           \A k \in JobIds : k \notin sweep.expired /\ (jobs[k].backup = "listed" \/ jobs[k].aside)
                              => rows[k].backup = "listed" \/ rows[k].aside,
           NEW row \in JobRow, Fresh(row), jobs' = Append(rows, row), Len(jobs) < MaxJobs,
           plans' \in Seq(PlanRow), Len(plans') <= MaxPlans, PlansStay,
           file' \in [shown : BOOLEAN, operator : BOOLEAN],
           approved' \in {Undecided} \cup (0..MaxPlans),
           Releasing \/ (RowFree /\ UNCHANGED <<call, lock>>),
           UNCHANGED <<disk, sweep, seen, queued, lapses>>
    PROVE  LibraryInv'
<1> USE DEF LibraryInv
<1>1. /\ jobs' \in Seq(JobRow) /\ Len(jobs') = Len(jobs) + 1 /\ Len(jobs) \in Nat
      /\ JobIds \subseteq JobIds' /\ \A k \in JobIds : jobs'[k] = rows[k]
      /\ RowsKeep
    BY OneMore, Ids
<1>2. /\ RowHeld' /\ StillPermitted' /\ CallsKeep
      /\ call' \in [Caller -> Call] /\ lock' \in Caller \cup {Nobody}
      /\ \A d \in Caller : call[d].at = "placed" => call'[d].at = "placed"
    BY CallsAfter
<1>3. LibraryTypeOK'
    BY <1>1, <1>2, LibraryAssumption DEF LibraryTypeOK
<1>4. JobsSound' /\ CallsSound' /\ PlacedOnce' /\ ExpiredOver'
    BY <1>1, <1>2, Carried
<1>5. StaysListed'
    BY <1>1, <1>2, ListingCarried
<1>6. Watched'
    BY <1>1, <1>3, NothingWatched
<1> QED BY <1>2, <1>3, <1>4, <1>5, <1>6

(* A job as create_job_from_plan inserts it is fresh.                         *)
LEMMA NewJobTyped ==
    ASSUME NEW p \in 1..MaxPlans, NEW policy \in {"keep", "day", "delete", "discovered"},
           NEW tries \in 1..MaxTries+1
    PROVE  /\ NewJob(p, policy, tries) \in JobRow
           /\ p \in DOMAIN plans' /\ plans'[p].kind = "run" => Fresh(NewJob(p, policy, tries))
BY DEF NewJob, JobRow, Fresh

(* The attempt number a retry gets stays within its bound.                    *)
LEMMA AgainTyped ==
    ASSUME LibraryInv, NEW j \in JobIds
    PROVE  Again(j) \in 1..MaxTries+1 /\ 1 \in 1..MaxTries+1
<1>1. jobs[j].tries \in 1..MaxTries+1
    BY Ids DEF LibraryInv, JobRow
<1> QED BY <1>1, LibraryAssumption DEF Again

(* What a failure writes: the job's row, and a retry under the same plan when *)
(* the file is neither protected nor out of attempts.                         *)
Retries(j, row) ==
    /\ Len(jobs) < MaxJobs /\ ~file'.shown /\ ~file'.operator
    /\ jobs' = Append([jobs EXCEPT ![j] = row], NewJob(jobs[j].plan, jobs[j].policy, Again(j)))

(* A failing job writes its own row and at most one more, the automatic       *)
(* retry.                                                                     *)
LEMMA FailWrites ==
    ASSUME LibraryInv, NEW j \in JobIds, Fail(j)
    PROVE  /\ jobs[j].backup = "none" /\ ~jobs[j].aside /\ RowFree
           /\ UNCHANGED <<plans, disk, call, lock, sweep, seen, queued, lapses>>
           /\ file' \in [shown : BOOLEAN, operator : BOOLEAN]
           /\ approved' \in {Undecided} \cup (0..MaxPlans)
           /\ \E row \in JobRow :
                 Succeeds(j, row) /\ (jobs' = [jobs EXCEPT ![j] = row] \/ Retries(j, row))
<1> USE DEF LibraryInv
<1>1. PICK why \in {"backup", "replace", "verify", "other"} :
          LET shown == Shown(jobs[j].plan)
              review == shown \/ file.operator \/ jobs[j].tries > MaxTries
              failed == [jobs EXCEPT ![j] =
                           [@ EXCEPT !.status = IF review THEN "review" ELSE "failed",
                                     !.why = why, !.staged = why # "other",
                                     !.backup = IF why \in {"backup", "replace"} THEN "listed" ELSE "none"]]
          IN /\ file' = [file EXCEPT !.shown = shown]
             /\ approved' = IF review THEN Revisited ELSE approved
             /\ IF review THEN jobs' = failed
                ELSE /\ Len(jobs) < MaxJobs
                     /\ jobs' = Append(failed, NewJob(jobs[j].plan, jobs[j].policy, Again(j)))
    BY DEF Fail
<1>2. /\ Running(j) /\ ~jobs[j].aside /\ RowFree
      /\ UNCHANGED <<plans, disk, call, lock, sweep, seen, queued, lapses>>
    BY DEF Fail
<1> DEFINE review == Shown(jobs[j].plan) \/ file.operator \/ jobs[j].tries > MaxTries
           row == [jobs[j] EXCEPT !.status = IF review THEN "review" ELSE "failed",
                      !.why = why, !.staged = why # "other",
                      !.backup = IF why \in {"backup", "replace"} THEN "listed" ELSE "none"]
<1>3. jobs[j] \in JobRow /\ jobs[j].backup = "none" /\ jobs[j].status = "running"
    BY <1>2, Ids DEF Running, JobsSound
<1>4. row \in JobRow /\ Succeeds(j, row)
    <2> DEFINE old == jobs[j]
               status == IF review THEN "review" ELSE "failed"
               backup == IF why \in {"backup", "replace"} THEN "listed" ELSE "none"
               staged == (why # "other")
    <2>1. /\ status \in {"review", "failed"} /\ staged \in BOOLEAN
          /\ backup \in {"listed", "none"} /\ why \in {"backup", "replace", "verify", "other"}
        OBVIOUS
    <2>2. row = [old EXCEPT !.status = status, !.why = why, !.staged = staged, !.backup = backup]
        OBVIOUS
    <2>3. /\ old \in JobRow /\ old.backup = "none" /\ old.status = "running"
          /\ ~old.aside /\ ~old.due
        BY <1>2, <1>3, Ids DEF JobsSound, JobRow, Running
    <2> HIDE DEF row, old, status, backup, staged
    <2>4. row \in JobRow
        BY <2>1, <2>2, <2>3 DEF JobRow, Ended
    <2>5. /\ row.plan = old.plan /\ row.status = status /\ row.aside = old.aside /\ row.due = old.due
        BY <2>2, <2>3 DEF JobRow
    <2>6. Succeeds(j, row)
        BY <2>1, <2>3, <2>5 DEF Succeeds, old
    <2> QED BY <2>4, <2>6
<1>5. /\ file' \in [shown : BOOLEAN, operator : BOOLEAN]
      /\ approved' \in {Undecided} \cup (0..MaxPlans)
    BY <1>1, ShownTyped, LibraryAssumption DEF LibraryTypeOK, Revisited
<1>6. review => jobs' = [jobs EXCEPT ![j] = row]
    BY <1>1
<1>7. ~review => /\ Len(jobs) < MaxJobs
                 /\ jobs' = Append([jobs EXCEPT ![j] = row], NewJob(jobs[j].plan, jobs[j].policy, Again(j)))
    BY <1>1
<1>8. ~review => ~file'.shown /\ ~file'.operator
    BY <1>1 DEF LibraryTypeOK
<1> HIDE DEF review, row
<1> QED BY <1>2, <1>3, <1>4, <1>5, <1>6, <1>7, <1>8 DEF Retries

(* A failure is retried under the plan of the job, or stopped for review.     *)
LEMMA FailStep ==
    ASSUME LibraryInv, NEW j \in JobIds, Fail(j)
    PROVE  LibraryInv'
<1> USE DEF LibraryInv
<1>1. /\ jobs[j].backup = "none" /\ ~jobs[j].aside /\ RowFree
      /\ UNCHANGED <<plans, disk, call, lock, sweep, seen, queued, lapses>>
      /\ file' \in [shown : BOOLEAN, operator : BOOLEAN]
      /\ approved' \in {Undecided} \cup (0..MaxPlans)
    BY FailWrites
<1>2. PICK row \in JobRow : Succeeds(j, row) /\ (jobs' = [jobs EXCEPT ![j] = row] \/ Retries(j, row))
    BY FailWrites
<1>3. CASE jobs' = [jobs EXCEPT ![j] = row]
    <2>1. StillLists(j, row) /\ disk' \in [source : BOOLEAN, backup : 0..MaxJobs]
        BY <1>1 DEF StillLists, LibraryTypeOK
    <2> QED BY <1>1, <1>2, <1>3, <2>1, OneRowStep
<1>4. CASE Retries(j, row)
    <2> DEFINE failed == [jobs EXCEPT ![j] = row]
               new == NewJob(jobs[j].plan, jobs[j].policy, Again(j))
    <2>1. /\ failed \in Seq(JobRow) /\ Len(failed) = Len(jobs)
          /\ \A k \in JobIds : failed[k] = IF k = j THEN row ELSE jobs[k]
        BY <1>2, ExceptSeq, Ids DEF LibraryTypeOK
    <2>2. Len(jobs) < MaxJobs /\ jobs' = Append(failed, new)
        BY <1>4 DEF Retries
    <2> HIDE DEF failed
    <2>3. \A k \in JobIds : Succeeds(k, failed[k])
        BY <1>2, <2>1, RowStays
    <2>4. \A k \in JobIds : k \notin sweep.expired /\ (jobs[k].backup = "listed" \/ jobs[k].aside)
                              => failed[k].backup = "listed" \/ failed[k].aside
        BY <1>1, <2>1
    <2>5. /\ jobs[j].plan \in 1..MaxPlans /\ jobs[j].policy \in {"keep", "day", "delete", "discovered"}
          /\ jobs[j].plan \in DOMAIN plans' /\ plans'[jobs[j].plan].kind = "run"
        BY <1>1, Ids DEF JobRow, JobsSound
    <2>6. new \in JobRow /\ Fresh(new)
        BY <2>5, AgainTyped, NewJobTyped
    <2> HIDE DEF new
    <2>7. plans' \in Seq(PlanRow) /\ Len(plans') <= MaxPlans /\ PlansStay
        BY <1>1 DEF LibraryTypeOK, PlansStay
    <2> QED BY <1>1, <2>1, <2>2, <2>3, <2>4, <2>6, <2>7, QueueStep
<1> QED BY <1>2, <1>3, <1>4

(* What a request that holds the row has to go by.                            *)
LEMMA Holder ==
    ASSUME LibraryInv, NEW c \in Caller, call[c].at = "locked"
    PROVE  /\ lock = c /\ call[c] \in Call
           /\ call[c].op \in {"create", "retry"} =>
                  ~file.operator /\ ~file.shown /\ plans[call[c].plan].kind = "run"
           /\ call[c].op = "recover" /\ ~call[c].excused => ~file.operator /\ ~file.shown
           /\ call[c].op \in {"create", "retry", "recover", "approve", "reject"} =>
                  call[c].plan \in DOMAIN plans
           /\ call[c].op \in {"retry", "recover", "restore"} => call[c].job \in JobIds
           /\ call[c].job # 0 => call[c].job \in JobIds
           /\ ~Busy
<1> USE DEF LibraryInv
<1>1. lock = c /\ call[c] \in Call /\ ~Busy
    BY DEF RowHeld, StillPermitted, LibraryTypeOK
<1>2. /\ call[c].op \in {"create", "retry"} => ~Held(Guarded, call[c].plan)
      /\ call[c].op = "recover" /\ ~call[c].excused => ~Guarded
    BY DEF StillPermitted
<1> QED BY <1>1, <1>2 DEF CallsSound, Held, Guarded

(* Creation and retry: the job has the plan that was checked, or its copy     *)
(* that carries a backup strategy.                                            *)
LEMMA CreatedRow ==
    ASSUME LibraryInv, NEW c \in Caller, CommitJob(c)
    PROVE  /\ lock = c /\ Releases(c) /\ Len(jobs) < MaxJobs
           /\ UNCHANGED <<file, approved, disk, sweep, seen, queued, lapses>>
           /\ ~file.operator /\ ~file.shown
           /\ plans' \in Seq(PlanRow) /\ Len(plans') <= MaxPlans /\ PlansStay
           /\ \E row \in JobRow : jobs' = Append(jobs, row) /\ Fresh(row)
<1> USE DEF LibraryInv
<1> DEFINE r == call[c]
<1>1. /\ r.at = "locked" /\ r.op \in {"create", "retry"} /\ Len(jobs) < MaxJobs
      /\ Releases(c) /\ UNCHANGED <<file, approved, disk, sweep, seen, queued, lapses>>
    BY DEF CommitJob, Holding
<1>2. PICK policy \in IF r.op = "retry" THEN {jobs[r.job].policy} ELSE Policies :
          /\ WithStrategy(r.strategy, r.plan)
          /\ jobs' = Append(jobs, NewJob(IF plans' = plans THEN r.plan ELSE Len(plans'), policy, Tries(r)))
    BY DEF CommitJob
<1>3. /\ lock = c /\ r \in Call /\ ~file.operator /\ ~file.shown
      /\ plans[r.plan].kind = "run" /\ r.plan \in DOMAIN plans
      /\ r.op = "retry" => r.job \in JobIds
    BY <1>1, Holder
<1>4. /\ r.plan \in 1..MaxPlans /\ plans[r.plan] \in PlanRow
      /\ r.strategy \in {"fail", "keep", "replace"}
    BY <1>3, Ids DEF Call
<1>5. policy \in {"keep", "day", "delete", "discovered"}
    BY <1>2, <1>3, Ids, LibraryAssumption DEF JobRow
<1>6. Tries(r) \in 1..MaxTries+1
    BY <1>3, AgainTyped, LibraryAssumption DEF Tries
<1> HIDE DEF r
<1> DEFINE p == IF plans' = plans THEN r.plan ELSE Len(plans')
<1>7. /\ plans' \in Seq(PlanRow) /\ Len(plans') <= MaxPlans /\ PlansStay
      /\ p \in 1..MaxPlans /\ p \in DOMAIN plans' /\ plans'[p].kind = "run"
    <2>1. CASE r.strategy = "fail"
        BY <1>2, <1>3, <1>4, <2>1 DEF WithStrategy, PlansStay, LibraryTypeOK
    <2>2. CASE r.strategy # "fail"
        <3> DEFINE copy == [plans[r.plan] EXCEPT !.strategy = r.strategy]
        <3>1. copy \in PlanRow /\ copy.kind = "run"
            BY <1>3, <1>4 DEF PlanRow
        <3>2. plans' = Append(plans, copy) /\ Len(plans) < MaxPlans
            BY <1>2, <2>2 DEF WithStrategy
        <3> HIDE DEF copy
        <3> QED BY <1>3, <1>4, <3>1, <3>2, PlanAdded
    <2> QED BY <2>1, <2>2
<1>8. jobs' = Append(jobs, NewJob(p, policy, Tries(r)))
    BY <1>2
<1> HIDE DEF p
<1> QED BY <1>1, <1>3, <1>5, <1>6, <1>7, <1>8, NewJobTyped

(* Adding a job to rows that stay as they are.                                *)
LEMMA AddStep ==
    ASSUME LibraryInv, NEW row \in JobRow, Fresh(row), jobs' = Append(jobs, row), Len(jobs) < MaxJobs,
           plans' \in Seq(PlanRow), Len(plans') <= MaxPlans, PlansStay,
           approved' \in {Undecided} \cup (0..MaxPlans),
           Releasing \/ (RowFree /\ UNCHANGED <<call, lock>>),
           UNCHANGED <<file, disk, sweep, seen, queued, lapses>>
    PROVE  LibraryInv'
<1>1. \A k \in JobIds : Succeeds(k, jobs[k])
    BY RowStays
<1>2. jobs \in Seq(JobRow) /\ file' \in [shown : BOOLEAN, operator : BOOLEAN]
    BY DEF LibraryInv, LibraryTypeOK
<1> QED BY <1>1, <1>2, QueueStep

(* The commit of a request for a job under the latest plan.                   *)
LEMMA CommitJobStep ==
    ASSUME LibraryInv, NEW c \in Caller, CommitJob(c)
    PROVE  LibraryInv'
<1>1. Releasing /\ approved' \in {Undecided} \cup (0..MaxPlans)
    BY CreatedRow DEF Releasing, LibraryInv, LibraryTypeOK
<1> QED BY <1>1, CreatedRow, AddStep

(* A plan of its own lets the file run.                                       *)
LEMMA OwnPlanTyped ==
    ASSUME LibraryInv, NEW plan \in PlanRow, plan.kind = "run", NEW rows,
           NEW policy \in {"keep", "day", "delete", "discovered"}, NEW tries \in 1..MaxTries+1,
           OwnPlan(plan, rows, policy, tries)
    PROVE  /\ plans' \in Seq(PlanRow) /\ Len(plans') <= MaxPlans /\ PlansStay
           /\ Len(jobs) < MaxJobs /\ Len(plans') \in 1..MaxPlans
           /\ plans'[Len(plans')].kind = "run"
           /\ NewJob(Len(plans'), policy, tries) \in JobRow
           /\ Fresh(NewJob(Len(plans'), policy, tries))
           /\ jobs' = Append(rows, NewJob(Len(plans'), policy, tries))
<1>1. /\ plans' = Append(plans, plan) /\ Len(plans) < MaxPlans /\ Len(jobs) < MaxJobs
      /\ jobs' = Append(rows, NewJob(Len(plans'), policy, tries))
    BY DEF OwnPlan
<1>2. /\ plans' \in Seq(PlanRow) /\ Len(plans') <= MaxPlans /\ PlansStay
      /\ Len(plans') \in 1..MaxPlans /\ Len(plans') \in DOMAIN plans'
      /\ plans'[Len(plans')] = plan
    BY <1>1, PlanAdded DEF LibraryInv
<1> QED BY <1>1, <1>2, NewJobTyped

(* The commit of a recovery: a plan of its own and a job under it.            *)
LEMMA CommitRecoverStep ==
    ASSUME LibraryInv, NEW c \in Caller, CommitRecover(c)
    PROVE  LibraryInv'
<1>1. /\ call[c].at = "locked" /\ call[c].op = "recover" /\ Releases(c)
      /\ OwnPlan(RecoveryPlan(call[c].job), jobs, "keep", Again(call[c].job))
      /\ UNCHANGED <<file, approved, disk, sweep, seen, queued, lapses>>
    BY DEF CommitRecover, Holding
<1>2. call[c].job \in JobIds /\ lock = c
    BY <1>1, Holder
<1>3. RecoveryPlan(call[c].job) \in PlanRow /\ RecoveryPlan(call[c].job).kind = "run"
    BY DEF RecoveryPlan, KeptBackup, PlanRow
<1>4. Again(call[c].job) \in 1..MaxTries+1
    BY <1>2, AgainTyped
<1>5. Releasing /\ approved' \in {Undecided} \cup (0..MaxPlans)
    BY <1>1, <1>2 DEF Releasing, LibraryInv, LibraryTypeOK
<1> QED BY <1>1, <1>3, <1>4, <1>5, OwnPlanTyped, AddStep

(* The commit of an approval or a rejection that queues a job: the plan it    *)
(* writes, and the row whose staged output it drops.                          *)
LEMMA CommitReviewStep ==
    ASSUME LibraryInv, NEW c \in Caller, CommitReview(c)
    PROVE  LibraryInv'
<1> USE DEF LibraryInv
<1> DEFINE r == call[c]
           plan == IF r.op = "reject" THEN StripOnlyPlan(r.plan) ELSE ApprovedPlan(r.plan)
           rows == IF r.op = "reject" THEN Unstaged(r.job) ELSE jobs
           policy == IF r.job # 0 THEN jobs[r.job].policy ELSE "keep"
<1>1. /\ r.at = "locked" /\ r.op \in {"approve", "reject"} /\ Releases(c)
      /\ OwnPlan(plan, rows, policy, 1)
      /\ approved' = Decided(r.op, Len(plans'))
      /\ UNCHANGED <<file, disk, sweep, seen, queued, lapses>>
    BY DEF CommitReview, Holding
<1>2. /\ lock = c /\ r.plan \in DOMAIN plans /\ (r.job # 0 => r.job \in JobIds)
    BY <1>1, Holder
<1>3. plan \in PlanRow /\ plan.kind = "run"
    BY <1>2, Ids DEF StripOnlyPlan, ApprovedPlan, PlanRow
<1>4. policy \in {"keep", "day", "delete", "discovered"}
    BY <1>2, Ids DEF JobRow
<1>5. /\ rows \in Seq(JobRow) /\ Len(rows) = Len(jobs)
      /\ \A k \in JobIds : Succeeds(k, rows[k]) /\ rows[k].backup = jobs[k].backup
                                              /\ rows[k].aside = jobs[k].aside
    <2>1. CASE rows = jobs
        BY <2>1, RowStays DEF LibraryTypeOK
    <2>2. CASE rows # jobs
        <3> DEFINE row == [jobs[r.job] EXCEPT !.staged = FALSE]
        <3>1. /\ r.job # 0 /\ jobs[r.job].status = "review"
              /\ rows = [jobs EXCEPT ![r.job] = row]
            BY <2>2 DEF Unstaged
        <3>2. jobs[r.job] \in JobRow /\ r.job \in JobIds
            BY <1>2, <3>1, Ids
        <3>3. /\ row \in JobRow /\ row.backup = jobs[r.job].backup /\ row.aside = jobs[r.job].aside
            BY <3>2 DEF JobRow
        <3>4. Succeeds(r.job, row)
            BY <3>1, <3>2 DEF Succeeds, JobsSound, JobRow
        <3> HIDE DEF row, rows, r
        <3>5. /\ rows \in Seq(JobRow) /\ Len(rows) = Len(jobs)
              /\ \A k \in JobIds : rows[k] = IF k = r.job THEN row ELSE jobs[k]
            BY <3>1, <3>2, <3>3, ExceptSeq, Ids DEF LibraryTypeOK
        <3> QED BY <3>3, <3>4, <3>5, RowStays
    <2> QED BY <2>1, <2>2
<1> HIDE DEF plan, rows, policy
<1>6. 1 \in 1..MaxTries+1
    BY LibraryAssumption
<1> DEFINE new == NewJob(Len(plans'), policy, 1)
<1>7. /\ plans' \in Seq(PlanRow) /\ Len(plans') <= MaxPlans /\ PlansStay
      /\ Len(jobs) < MaxJobs /\ Len(plans') \in 1..MaxPlans
      /\ new \in JobRow /\ Fresh(new) /\ jobs' = Append(rows, new)
    BY <1>1, <1>3, <1>4, <1>6, OwnPlanTyped
<1> HIDE DEF new
<1>8. Releasing /\ approved' \in {Undecided} \cup (0..MaxPlans)
    BY <1>1, <1>2, <1>7, LibraryAssumption DEF Releasing, Decided
<1>9. file' \in [shown : BOOLEAN, operator : BOOLEAN]
    BY <1>1 DEF LibraryTypeOK
<1> QED BY <1>1, <1>5, <1>7, <1>8, <1>9, QueueStep

(* The backup scan lists a backup it found under a completed job of its own.  *)
LEMMA DiscoverStep ==
    ASSUME LibraryInv, Discover
    PROVE  LibraryInv'
<1> USE DEF LibraryInv
<1> DEFINE new == [NewJob(Len(plans'), "discovered", 1) EXCEPT !.status = "completed", !.backup = "listed"]
<1>1. /\ RowFree /\ Len(jobs) < MaxJobs /\ Len(plans) < MaxPlans
      /\ plans' = Append(plans, DiscoveredPlan) /\ jobs' = Append(jobs, new)
      /\ UNCHANGED <<file, approved, disk, call, lock, sweep, seen, queued, lapses>>
    BY DEF Discover
<1>2. DiscoveredPlan \in PlanRow /\ DiscoveredPlan.kind = "run"
    BY DEF DiscoveredPlan, PlanRow
<1>3. /\ plans' \in Seq(PlanRow) /\ Len(plans') <= MaxPlans /\ PlansStay
      /\ Len(plans') \in 1..MaxPlans /\ Len(plans') \in DOMAIN plans'
      /\ plans'[Len(plans')] = DiscoveredPlan
    BY <1>1, <1>2, PlanAdded
<1>4. new \in JobRow /\ Fresh(new)
    <2> DEFINE base == NewJob(Len(plans'), "discovered", 1)
    <2>1. base.plan = Len(plans') /\ ~base.aside /\ ~base.due
        BY DEF NewJob
    <2>2. 1 \in 1..MaxTries+1
        BY LibraryAssumption
    <2>3. base \in JobRow
        BY <1>3, <2>2, NewJobTyped
    <2>4. new = [base EXCEPT !.status = "completed", !.backup = "listed"]
        OBVIOUS
    <2> HIDE DEF base, new
    <2>5. /\ new \in JobRow /\ new.plan = base.plan /\ new.status = "completed"
          /\ new.aside = base.aside /\ new.due = base.due
        BY <2>3, <2>4 DEF JobRow, Ended
    <2> QED BY <1>2, <1>3, <2>1, <2>5 DEF Fresh
<1> HIDE DEF new
<1> QED BY <1>1, <1>3, <1>4, AddStep DEF LibraryTypeOK

(* An approval's placement, and what it records afterwards.                   *)
LEMMA PlaceStep ==
    ASSUME LibraryInv, NEW c \in Caller, ApprovePlace(c)
    PROVE  LibraryInv'
<1> USE DEF LibraryInv
<1> DEFINE j == call[c].job
           strategy == plans[call[c].plan].strategy
           row == [jobs[j] EXCEPT !.staged = FALSE]
           r == [call[c] EXCEPT !.at = "placed"]
<1>1. /\ call[c].at = "read" /\ call[c].op = "approve" /\ j # 0
      /\ jobs[j].status = "review" /\ jobs[j].staged
      /\ jobs' = [jobs EXCEPT ![j] = row] /\ call' = [call EXCEPT ![c] = r]
      /\ disk' = [disk EXCEPT !.backup = IF strategy = "keep" THEN @ ELSE j]
      /\ UNCHANGED <<plans, file, approved, lock, sweep, seen, queued, lapses>>
    BY DEF ApprovePlace, PlacesStaged
<1>2. j \in JobIds /\ call[c] \in Call
    BY <1>1 DEF CallsSound, LibraryTypeOK
<1>3. jobs[j] \in JobRow
    BY <1>2, Ids
<1>4. row \in JobRow /\ Succeeds(j, row) /\ row.status = "review" /\ ~row.staged
    BY <1>1, <1>2, <1>3 DEF JobRow, Succeeds, JobsSound
<1>5. /\ r \in Call /\ r.at = "placed" /\ r.op = "approve" /\ r.plan = call[c].plan
      /\ r.job = j /\ r.excused = call[c].excused
    BY <1>1, <1>2 DEF Call
<1>6. disk' \in [source : BOOLEAN, backup : 0..MaxJobs]
    <2> DEFINE kept == IF strategy = "keep" THEN disk.backup ELSE j
    <2>1. disk \in [source : BOOLEAN, backup : 0..MaxJobs] /\ j \in 0..MaxJobs
        BY <1>2, Ids DEF LibraryTypeOK
    <2>2. kept \in 0..MaxJobs /\ disk' = [disk EXCEPT !.backup = kept]
        BY <1>1, <2>1
    <2> HIDE DEF kept
    <2> QED BY <2>1, <2>2
<1> HIDE DEF row, r
<1>7. /\ jobs' \in Seq(JobRow) /\ Len(jobs') = Len(jobs) /\ JobIds' = JobIds
      /\ jobs'[j] = row /\ \A k \in JobIds : k # j => jobs'[k] = jobs[k]
      /\ RowsKeep
    BY <1>1, <1>2, <1>4, OneRow
<1>8. /\ call' \in [Caller -> Call] /\ call'[c] = r
      /\ \A d \in Caller : d # c => call'[d] = call[d]
    BY <1>1, <1>5 DEF LibraryTypeOK
<1> HIDE DEF j, strategy
<1>9. LibraryTypeOK'
    BY <1>1, <1>6, <1>7, <1>8 DEF LibraryTypeOK
<1>10. JobsSound' /\ ExpiredOver'
    BY <1>1, <1>7 DEF JobsSound, ExpiredOver, RowsKeep, RowKeeps
<1>11. CallsSound'
    BY <1>1, <1>5, <1>7, <1>8 DEF CallsSound, j
<1>12. PlacedOnce'
    <2>1. ASSUME NEW d \in Caller, d # c, call[d].at = "placed"
          PROVE  call[d].job # j /\ call[d].job \in JobIds
        BY <1>1, <2>1 DEF PlacedOnce
    <2> QED BY <1>2, <1>4, <1>5, <1>7, <1>8, <2>1 DEF PlacedOnce
<1>13. StaysListed'
    BY <1>5, <1>8 DEF StaysListed
<1>14. RowHeld' /\ StillPermitted'
    <2>1. \A d \in Caller : call'[d] = call[d] \/ (call[d].at # "locked" /\ call'[d].at # "locked")
        BY <1>1, <1>5, <1>8
    <2> QED BY <1>1, <1>7, <2>1, Undisturbed
<1>15. Watched'
    BY <1>1, <1>7, <1>9, NothingWatched, Ids
<1> QED BY <1>9, <1>10, <1>11, <1>12, <1>13, <1>14, <1>15

(* The second half of an approval that placed a staged output: its job is     *)
(* completed and its backup listed.                                           *)
LEMMA RecordStep ==
    ASSUME LibraryInv, NEW c \in Caller, ApproveRecord(c)
    PROVE  LibraryInv'
<1> USE DEF LibraryInv
<1> DEFINE j == call[c].job
           row == [jobs[j] EXCEPT !.status = "completed", !.why = "none", !.backup = "listed"]
<1>1. /\ call[c].at = "placed" /\ RowFree /\ Idles(c)
      /\ jobs' = [jobs EXCEPT ![j] = row]
      /\ file' = [file EXCEPT !.shown = Shown(call[c].plan)]
      /\ approved' = Decided("approve", call[c].plan)
      /\ UNCHANGED <<plans, disk, lock, sweep, seen, queued, lapses>>
    BY DEF ApproveRecord
<1>2. /\ j \in JobIds /\ call[c] \in Call /\ jobs[j].status = "review"
      /\ call[c].op = "approve"
      /\ \A d \in Caller : call[d].at = "placed" /\ call[d].job = j => d = c
    BY <1>1 DEF PlacedOnce, LibraryTypeOK
<1>3. jobs[j] \in JobRow
    BY <1>2, Ids
<1>4. /\ row \in JobRow /\ row.status = "completed" /\ row.backup = "listed"
      /\ row.plan = jobs[j].plan /\ ~row.aside
    BY <1>2, <1>3 DEF JobRow, Ended, JobsSound
<1>5. j \notin sweep.expired
    BY <1>2 DEF ExpiredOver
<1>6. /\ file' \in [shown : BOOLEAN, operator : BOOLEAN]
      /\ approved' \in {Undecided} \cup (0..MaxPlans)
    <2>1. Shown(call[c].plan) \in BOOLEAN
        BY DEF Shown, LibraryTypeOK
    <2>2. call[c].plan \in 0..MaxPlans
        BY <1>2 DEF Call
    <2> QED BY <1>1, <2>1, <2>2 DEF Decided, LibraryTypeOK
<1> HIDE DEF row
<1>7. /\ jobs' \in Seq(JobRow) /\ Len(jobs') = Len(jobs) /\ JobIds' = JobIds
      /\ jobs'[j] = row /\ \A k \in JobIds : k # j => jobs'[k] = jobs[k]
    BY <1>1, <1>2, <1>4, RowWritten
<1>8. /\ call' \in [Caller -> Call] /\ call'[c] = NoCall
      /\ \A d \in Caller : d # c => call'[d] = call[d]
    BY <1>1, LibraryAssumption DEF Idles, LibraryTypeOK, NoCall, Call
<1> HIDE DEF j
<1>9. LibraryTypeOK'
    BY <1>1, <1>6, <1>7, <1>8 DEF LibraryTypeOK
<1>10. JobsSound' /\ ExpiredOver'
    BY <1>1, <1>4, <1>5, <1>7 DEF JobsSound, ExpiredOver
<1>11. CallsSound'
    BY <1>1, <1>7, <1>8 DEF CallsSound, NoCall
<1>12. PlacedOnce'
    BY <1>2, <1>7, <1>8 DEF PlacedOnce, NoCall
<1>13. StaysListed'
    BY <1>1, <1>2, <1>4, <1>5, <1>7 DEF StaysListed
<1>14. RowHeld' /\ StillPermitted'
    <2>1. lock' = Nobody /\ lock \in {Nobody, Nobody}
        BY <1>1 DEF RowFree
    <2>2. \A d \in Caller : call'[d] \in {call[d], NoCall} /\ (d = Nobody => call'[d].at # "locked")
        BY <1>8, LibraryAssumption
    <2> QED BY <2>1, <2>2, RowFreed
<1>15. Watched'
    BY <1>1, <1>7, <1>9, NothingWatched, Ids
<1> QED BY <1>9, <1>10, <1>11, <1>12, <1>13, <1>14, <1>15

(* A restore moves the backup back, so that none is left to list.             *)
LEMMA RestoreStep ==
    ASSUME LibraryInv, NEW c \in Caller, CommitRestore(c)
    PROVE  LibraryInv'
<1> USE DEF LibraryInv
<1> DEFINE j == call[c].job
           row == [jobs[j] EXCEPT !.backup = "gone"]
<1>1. /\ call[c].at = "locked" /\ call[c].op = "restore" /\ Releases(c)
      /\ disk' = [source |-> TRUE, backup |-> 0] /\ approved' = 0
      /\ jobs' = [jobs EXCEPT ![j] = row]
      /\ UNCHANGED <<plans, file, sweep, seen, queued, lapses>>
    BY DEF CommitRestore, Holding
<1>2. j \in JobIds /\ lock = c /\ ~Busy
    BY <1>1, Holder
<1>3. jobs[j] \in JobRow /\ jobs[j].status \notin {"queued", "running"}
    BY <1>2, Ids DEF Busy
<1>4. row \in JobRow /\ Succeeds(j, row)
    BY <1>2, <1>3 DEF JobRow, Succeeds, JobsSound
<1> HIDE DEF row
<1>5. /\ jobs' \in Seq(JobRow) /\ Len(jobs') = Len(jobs) /\ JobIds' = JobIds /\ RowsKeep
    BY <1>1, <1>2, <1>4, OneRow
<1>6. /\ RowHeld' /\ StillPermitted' /\ CallsKeep
      /\ call' \in [Caller -> Call] /\ lock' \in Caller \cup {Nobody}
    BY <1>1, <1>2, CallsAfter DEF Releasing
<1>7. LibraryTypeOK'
    BY <1>1, <1>5, <1>6, LibraryAssumption DEF LibraryTypeOK
<1>8. JobsSound' /\ CallsSound' /\ PlacedOnce' /\ ExpiredOver'
    BY <1>1, <1>5, <1>6, Carried DEF PlansStay
<1>9. StaysListed'
    BY <1>1 DEF StaysListed
<1>10. Watched'
    BY <1>1, <1>5, <1>7, NothingWatched, Ids
<1> QED BY <1>6, <1>7, <1>8, <1>9, <1>10
-----------------------------------------------------------------------------
(* The sweep: what it starts on, and what it drops.                           *)
LEMMA SweepOnly ==
    ASSUME LibraryInv, SweepStart \/ SweepFails
    PROVE  LibraryInv'
<1> USE DEF LibraryInv
<1>1. UNCHANGED <<plans, jobs, file, approved, call, lock, seen, queued, lapses>>
    BY DEF SweepStart, SweepFails
<1>2. /\ sweep' \in [on : BOOLEAN, met : BOOLEAN, expired : SUBSET (1..MaxJobs)]
      /\ disk' \in [source : BOOLEAN, backup : 0..MaxJobs]
      /\ ExpiredOver'
      /\ disk'.backup = 0 \/ (disk'.backup = disk.backup /\ sweep'.expired = {})
    <2>1. CASE SweepFails
        BY <2>1 DEF SweepFails, NoSweep, LibraryTypeOK, ExpiredOver
    <2>2. CASE SweepStart
        <3> DEFINE expires == Expirable # {} /\ disk.backup # 0
        <3>1. PICK j \in IF expires THEN Expirable ELSE {0} :
                 /\ disk' = IF expires THEN [disk EXCEPT !.backup = 0] ELSE disk
                 /\ sweep' = [on |-> TRUE, met |-> disk.source, expired |-> {j} \ {0}]
            BY <2>2 DEF SweepStart
        <3>2. disk.source \in BOOLEAN /\ disk \in [source : BOOLEAN, backup : 0..MaxJobs]
            BY DEF LibraryTypeOK
        <3>3. CASE expires
            <4>1. j \in JobIds /\ jobs[j].status = "completed" /\ j \in 1..MaxJobs
                BY <3>1, <3>3, Ids DEF Expirable, JobsSound
            <4>2. sweep'.expired = {j} /\ sweep' \in [on : BOOLEAN, met : BOOLEAN, expired : SUBSET (1..MaxJobs)]
                BY <3>1, <3>2, <4>1
            <4>3. disk' \in [source : BOOLEAN, backup : 0..MaxJobs] /\ disk'.backup = 0
                BY <3>1, <3>2, <3>3, LibraryAssumption
            <4> QED BY <1>1, <4>1, <4>2, <4>3 DEF ExpiredOver, JobIds
        <3>4. CASE ~expires
            <4>1. j = 0 /\ disk' = disk
                BY <3>1, <3>4
            <4>2. sweep'.expired = {} /\ sweep' \in [on : BOOLEAN, met : BOOLEAN, expired : SUBSET (1..MaxJobs)]
                BY <3>1, <3>2, <4>1
            <4> QED BY <3>2, <4>1, <4>2 DEF ExpiredOver
        <3> QED BY <3>3, <3>4
    <2> QED BY <2>1, <2>2
<1>3. LibraryTypeOK'
    BY <1>1, <1>2 DEF LibraryTypeOK
<1>4. JobsSound' /\ CallsSound' /\ PlacedOnce' /\ Watched'
    BY <1>1 DEF JobsSound, CallsSound, PlacedOnce, Watched, JobIds
<1>5. RowHeld' /\ StillPermitted'
    BY <1>1, RowsSame, Undisturbed
<1>6. StaysListed'
    BY <1>1, <1>2 DEF StaysListed, JobIds
<1> QED BY <1>2, <1>3, <1>4, <1>5, <1>6

(* The rows a sweep commits: those it expired are marked, and a watched file  *)
(* gets a job when nothing forbids it.                                        *)
Marked == [j \in JobIds |-> IF j \in sweep.expired THEN [jobs[j] EXCEPT !.backup = "gone"] ELSE jobs[j]]

(* A sweep only marks the backups it found expired.                           *)
LEMMA MarkedRows ==
    ASSUME LibraryInv
    PROVE  /\ Marked \in Seq(JobRow) /\ Len(Marked) = Len(jobs) /\ DOMAIN Marked = JobIds
           /\ \A k \in JobIds : Succeeds(k, Marked[k])
           /\ \A k \in JobIds : k \notin sweep.expired => Marked[k] = jobs[k]
<1> USE DEF LibraryInv
<1>1. ASSUME NEW k \in JobIds
      PROVE  /\ Marked[k] \in JobRow /\ Succeeds(k, Marked[k])
             /\ k \notin sweep.expired => Marked[k] = jobs[k]
    <2>1. jobs[k] \in JobRow
        BY Ids
    <2>2. CASE k \in sweep.expired
        <3> DEFINE row == [jobs[k] EXCEPT !.backup = "gone"]
        <3>1. row \in JobRow /\ row.status = jobs[k].status
            BY <2>1 DEF JobRow
        <3>2. Succeeds(k, row)
            BY <2>1, <2>2, <3>1 DEF Succeeds, JobRow, JobsSound, ExpiredOver
        <3> QED BY <2>2, <3>1, <3>2 DEF Marked
    <2>3. CASE k \notin sweep.expired
        BY <2>1, <2>3, RowStays DEF Marked
    <2> QED BY <2>2, <2>3
<1>2. JobIds = 1..Len(jobs) /\ Len(jobs) \in Nat
    BY Ids, LenProperties DEF LibraryTypeOK
<1>3. Marked \in [1..Len(jobs) -> JobRow]
    BY <1>1, <1>2 DEF Marked
<1>4. Marked \in Seq(JobRow) /\ DOMAIN Marked = 1..Len(jobs)
    BY <1>2, <1>3, SeqDef
<1>5. Len(Marked) = Len(jobs)
    BY <1>2, <1>4, LenProperties
<1> QED BY <1>1, <1>2, <1>4, <1>5

(* The two ways a sweep commits.                                              *)
SweepAdds(row) ==
    /\ row \in JobRow /\ Fresh(row) /\ row.status = "queued" /\ Len(jobs) < MaxJobs
    /\ jobs' = Append(Marked, row) /\ queued' = queued + 1
    /\ ~seen /\ sweep.met /\ ~file'.shown /\ ~file'.operator
SweepMarks == jobs' = Marked /\ queued' = queued

(* A sweep's commit marks the expired rows, and may queue one job for the     *)
(* watched file.                                                              *)
LEMMA SweepWrites ==
    ASSUME LibraryInv, SweepCommit
    PROVE  /\ plans' \in Seq(PlanRow) /\ Len(plans') <= MaxPlans /\ PlansStay
           /\ file' \in [shown : BOOLEAN, operator : BOOLEAN]
           /\ SweepMarks \/ \E row : SweepAdds(row)
<1> USE DEF LibraryInv
<1>1. CASE jobs' = Marked /\ UNCHANGED <<plans, file, queued>>
    BY <1>1 DEF PlansStay, LibraryTypeOK, SweepMarks
<1>2. ASSUME ~(jobs' = Marked /\ UNCHANGED <<plans, file, queued>>)
      PROVE  /\ plans' \in Seq(PlanRow) /\ Len(plans') <= MaxPlans /\ PlansStay
             /\ file' \in [shown : BOOLEAN, operator : BOOLEAN]
             /\ SweepMarks \/ \E row : SweepAdds(row)
    <2>1. sweep.met /\ ~seen /\ Len(plans) < MaxPlans
        BY <1>2 DEF SweepCommit, Marked
    <2>2. PICK kind \in {"run", "review", "protected"} :
              LET shown == kind = "protected" \/ file.operator
                  adds == WatchAdds(kind, shown)
              IN /\ plans' = Append(plans, [kind |-> kind, strategy |-> "fail"])
                 /\ file' = [file EXCEPT !.shown = shown]
                 /\ adds => Len(jobs) < MaxJobs
                 /\ jobs' = IF adds THEN Append(Marked, NewJob(Len(plans'), "keep", 1)) ELSE Marked
                 /\ queued' = IF adds THEN queued + 1 ELSE queued
        BY <1>2 DEF SweepCommit, Marked
    <2> DEFINE shown == kind = "protected" \/ file.operator
               adds == WatchAdds(kind, shown)
               plan == [kind |-> kind, strategy |-> "fail"]
               new == NewJob(Len(plans'), "keep", 1)
    <2>3. plan \in PlanRow /\ plan.kind = kind
        BY DEF PlanRow
    <2>4. /\ plans' = Append(plans, plan) /\ file' = [file EXCEPT !.shown = shown]
          /\ adds => Len(jobs) < MaxJobs /\ jobs' = Append(Marked, new) /\ queued' = queued + 1
          /\ ~adds => jobs' = Marked /\ queued' = queued
          /\ adds => ~shown /\ kind = "run"
        BY <2>2 DEF WatchAdds
    <2>5. shown \in BOOLEAN /\ (~shown => ~file.operator) /\ file \in [shown : BOOLEAN, operator : BOOLEAN]
        BY DEF LibraryTypeOK
    <2> HIDE DEF plan, adds, shown
    <2>6. /\ plans' \in Seq(PlanRow) /\ Len(plans') <= MaxPlans /\ PlansStay
          /\ Len(plans') \in 1..MaxPlans /\ Len(plans') \in DOMAIN plans'
          /\ plans'[Len(plans')] = plan
        BY <2>1, <2>3, <2>4, PlanAdded
    <2>7. file' \in [shown : BOOLEAN, operator : BOOLEAN] /\ file'.shown = shown /\ file'.operator = file.operator
        BY <2>4, <2>5
    <2>8. CASE adds
        <3>1. 1 \in 1..MaxTries+1
            BY LibraryAssumption
        <3>2. new \in JobRow /\ Fresh(new) /\ new.status = "queued"
            BY <2>3, <2>4, <2>6, <2>8, <3>1, NewJobTyped DEF NewJob
        <3> HIDE DEF new
        <3>3. SweepAdds(new)
            BY <2>1, <2>4, <2>5, <2>7, <2>8, <3>2 DEF SweepAdds
        <3> QED BY <2>6, <2>7, <3>3
    <2>9. CASE ~adds
        BY <2>4, <2>6, <2>7, <2>9 DEF SweepMarks
    <2> QED BY <2>8, <2>9
<1> QED BY <1>1, <1>2

(* The commit of a sweep.                                                     *)
LEMMA SweepCommitStep ==
    ASSUME LibraryInv, SweepCommit
    PROVE  LibraryInv'
<1> USE DEF LibraryInv
<1>1. /\ RowFree /\ UNCHANGED <<approved, disk, call, lock>>
      /\ seen' = sweep.met /\ sweep' = NoSweep
      /\ lapses' = IF seen /\ ~sweep.met THEN lapses + 1 ELSE lapses
    BY DEF SweepCommit, Remembered
<1>2. /\ sweep'.expired = {} /\ sweep' \in [on : BOOLEAN, met : BOOLEAN, expired : SUBSET (1..MaxJobs)]
      /\ sweep.met \in BOOLEAN
    BY <1>1 DEF NoSweep, LibraryTypeOK
<1>3. /\ plans' \in Seq(PlanRow) /\ Len(plans') <= MaxPlans /\ PlansStay
      /\ file' \in [shown : BOOLEAN, operator : BOOLEAN]
      /\ SweepMarks \/ \E row : SweepAdds(row)
    BY SweepWrites
<1>4. /\ jobs' \in Seq(JobRow) /\ Len(jobs') <= MaxJobs /\ RowsKeep
      /\ \A k \in JobIds : k \in JobIds' /\ jobs'[k] = Marked[k]
      /\ \/ queued' = queued /\ Len(jobs') = Len(jobs)
         \/ queued' = queued + 1 /\ Len(jobs') = Len(jobs) + 1 /\ ~seen /\ sweep.met
    <2>1. CASE SweepMarks
        <3>1. jobs' = Marked /\ JobIds' = JobIds
            BY <2>1, MarkedRows DEF SweepMarks, JobIds
        <3>2. ASSUME NEW k \in JobIds PROVE RowKeeps(k)
            BY <3>1, MarkedRows DEF RowKeeps, Succeeds
        <3> QED BY <2>1, <3>1, <3>2, MarkedRows DEF SweepMarks, RowsKeep, LibraryTypeOK
    <2>2. ASSUME NEW row, SweepAdds(row)
          PROVE  /\ jobs' \in Seq(JobRow) /\ Len(jobs') <= MaxJobs /\ RowsKeep
                 /\ \A k \in JobIds : k \in JobIds' /\ jobs'[k] = Marked[k]
                 /\ queued' = queued + 1 /\ Len(jobs') = Len(jobs) + 1 /\ ~seen /\ sweep.met
        <3>1. /\ row \in JobRow /\ Fresh(row) /\ jobs' = Append(Marked, row)
              /\ queued' = queued + 1 /\ ~seen /\ sweep.met /\ Len(jobs) < MaxJobs
            BY <2>2 DEF SweepAdds
        <3>2. /\ jobs' \in Seq(JobRow) /\ Len(jobs') = Len(jobs) + 1
              /\ JobIds \subseteq JobIds' /\ \A k \in JobIds : jobs'[k] = Marked[k]
              /\ RowsKeep
            BY <3>1, MarkedRows, OneMore
        <3>3. Len(jobs) \in Nat
            BY Ids
        <3>4. Len(jobs') <= MaxJobs
            BY <3>1, <3>2, <3>3, LibraryAssumption
        <3> QED BY <3>1, <3>2, <3>4
    <2> QED BY <1>3, <2>1, <2>2
<1>5. Len(jobs) \in Nat /\ queued \in Nat /\ queued <= Len(jobs) /\ lapses \in Nat
    BY Ids DEF Watched, LibraryTypeOK
<1>6. queued' \in 0..MaxJobs /\ lapses' \in Nat /\ Watched'
    BY <1>1, <1>2, <1>4, <1>5, LibraryAssumption DEF Watched, LibraryTypeOK
<1>7. LibraryTypeOK'
    BY <1>1, <1>2, <1>3, <1>4, <1>6 DEF LibraryTypeOK
<1>8. CallsKeep
    BY <1>1 DEF CallsKeep
<1>9. JobsSound' /\ CallsSound' /\ PlacedOnce' /\ ExpiredOver'
    BY <1>2, <1>3, <1>4, <1>8, Carried
<1>10. StaysListed'
    BY <1>1, <1>2, <1>4, ListingCarried, MarkedRows
<1>11. RowHeld' /\ StillPermitted'
    BY <1>1, RowUntaken
<1> QED BY <1>6, <1>7, <1>9, <1>10, <1>11

-----------------------------------------------------------------------------
(* Every step of the library keeps the invariant: one case per action.        *)
LEMMA LibraryKept == LibraryInv /\ [LibraryNext]_libVars => LibraryInv'
<1> SUFFICES ASSUME LibraryInv, [LibraryNext]_libVars PROVE LibraryInv'
    OBVIOUS
<1>1. CASE PlanFile \/ Hold \/ \E value \in BOOLEAN : Protect(value)
    BY <1>1, FileSteps
<1>2. CASE SweepStart \/ SweepFails
    BY <1>2, SweepOnly
<1>3. CASE SweepCommit
    BY <1>3, SweepCommitStep
<1>4. CASE Discover
    BY <1>4, DiscoverStep
<1>5. ASSUME NEW c \in Caller,
             \/ BeginCreate(c) \/ BeginRetry(c) \/ BeginRecover(c) \/ BeginReview(c)
             \/ BeginRestore(c) \/ Enter(c) \/ CommitJob(c) \/ CommitReview(c)
             \/ CommitRecover(c) \/ CommitRestore(c) \/ Abort(c) \/ ApprovePlace(c) \/ ApproveRecord(c)
      PROVE  LibraryInv'
    BY <1>5, ReadSteps, EnterStep, CommitJobStep, CommitReviewStep, CommitRecoverStep, RestoreStep,
       AbortStep, PlaceStep, RecordStep
<1>6. ASSUME NEW j \in JobIds,
             \/ Claim(j) \/ CancelQueued(j) \/ Aside(j) \/ Place(j) \/ StopForReview(j)
             \/ Fail(j) \/ Age(j) \/ DeleteBackup(j)
      PROVE  LibraryInv'
    BY <1>6, ExecutorSteps, FailStep
<1>7. CASE UNCHANGED libVars
    <2>1. /\ plans' = plans /\ jobs' = jobs /\ file' = file /\ approved' = approved /\ disk' = disk
          /\ call' = call /\ lock' = lock /\ sweep' = sweep /\ seen' = seen
          /\ queued' = queued /\ lapses' = lapses
        BY <1>7 DEF libVars
    <2> QED BY <2>1
           DEF LibraryInv, LibraryTypeOK, RowHeld, JobsSound, CallsSound, StillPermitted, PlacedOnce,
               ExpiredOver, StaysListed, Watched, Busy, Guarded, Held, JobIds
<1> QED BY <1>1, <1>2, <1>3, <1>4, <1>5, <1>6, <1>7 DEF LibraryNext

(* Every table, request and sweep has its type in every reachable state, for  *)
(* any number of requests, jobs and plans.                                    *)
THEOREM LibraryTyped == LibrarySpec => []LibraryTypeOK
<1>1. LibraryInv => LibraryTypeOK
    BY DEF LibraryInv
<1> QED BY <1>1, LibraryStart, LibraryKept, PTL DEF LibrarySpec

(* No job of the file is queued or runs while a restore moves its files       *)
(* (restore_backup, under lock_for_update of the tracked file).               *)
THEOREM RestoresAlone == LibrarySpec => []RestoreAlone
<1>1. LibraryInv => RestoreAlone
    BY DEF LibraryInv, StillPermitted, RestoreAlone, Holding
<1> QED BY <1>1, LibraryStart, LibraryKept, PTL DEF LibrarySpec

(* A watched folder queues a file once for each time it appears               *)
(* (create_watched_job_if_needed).                                            *)
THEOREM WatchedQueueOnce == LibrarySpec => []WatchQueuesOnce
<1>1. LibraryInv => WatchQueuesOnce
    BY DEF LibraryInv, Watched, WatchQueuesOnce, LibraryTypeOK
<1> QED BY <1>1, LibraryStart, LibraryKept, PTL DEF LibrarySpec

(* A backup on disk is listed, or its replacement is about to be recorded     *)
(* (list_backups, discover_backups).                                          *)
THEOREM BackupsListed == LibrarySpec => []BackupListed
<1>1. LibraryInv => BackupListed
    BY DEF LibraryInv, StaysListed, BackupListed
<1> QED BY <1>1, LibraryStart, LibraryKept, PTL DEF LibrarySpec

(* The job that a request's commit adds is the last one.                      *)
LEMMA AddsLast ==
    ASSUME LibraryInv, NEW rows \in Seq(JobRow), Len(rows) = Len(jobs), NEW row \in JobRow,
           jobs' = Append(rows, row)
    PROVE  DOMAIN jobs' \ DOMAIN jobs = {Len(jobs) + 1} /\ jobs'[Len(jobs) + 1] = row
<1>1. DOMAIN jobs = 1..Len(jobs) /\ Len(jobs) \in Nat
    BY Ids DEF LibraryInv, JobIds
<1>2. DOMAIN jobs' = 1..Len(jobs) + 1 /\ jobs'[Len(jobs) + 1] = row
    BY RowAdded DEF JobIds
<1> QED BY <1>1, <1>2

(* What the gate says of a job that is not there yet.                         *)
GatePassed ==
    \A j \in DOMAIN jobs' \ DOMAIN jobs :
        jobs'[j].status = "queued" =>
            \/ \E c \in Caller : Reviewed(c) /\ call'[c] # call[c]
            \/ /\ ~file'.operator /\ ~file'.shown
               /\ plans'[jobs'[j].plan].kind = "run"

(* A rewritten row is not a new job.                                          *)
LEMMA NoneAdded ==
    ASSUME LibraryInv, NEW j \in JobIds, NEW row, jobs' = [jobs EXCEPT ![j] = row]
    PROVE  GatePassed
BY DEF GatePassed

(* A call's commit only creates a job of a file that is not protected, or     *)
(* under a plan that lifts the protection.                                    *)
LEMMA GatedCommit ==
    ASSUME LibraryInv, NEW c \in Caller, CommitJob(c) \/ CommitReview(c) \/ CommitRecover(c)
    PROVE  GatePassed
<1> USE DEF LibraryInv
<1>1. CASE CommitJob(c)
    <2>1. PICK row \in JobRow : jobs' = Append(jobs, row) /\ Fresh(row)
        BY <1>1, CreatedRow
    <2>2. ~file'.operator /\ ~file'.shown
        BY <1>1, CreatedRow
    <2>3. DOMAIN jobs' \ DOMAIN jobs = {Len(jobs) + 1} /\ jobs'[Len(jobs) + 1] = row
        BY <2>1, AddsLast DEF LibraryTypeOK
    <2> QED BY <2>1, <2>2, <2>3 DEF GatePassed, Fresh
<1>2. ASSUME call[c].at = "locked", Releases(c), Reviewed(c) PROVE GatePassed
    <2>1. call'[c] = NoCall /\ NoCall.at = "idle"
        BY <1>2 DEF Releases, Idles, LibraryTypeOK, NoCall
    <2> QED BY <1>2, <2>1 DEF GatePassed
<1>3. CASE CommitReview(c)
    BY <1>2, <1>3 DEF CommitReview, Holding, Reviewed
<1>4. CASE CommitRecover(c)
    <2>1. /\ call[c].at = "locked" /\ call[c].op = "recover" /\ Releases(c) /\ file' = file
          /\ OwnPlan(RecoveryPlan(call[c].job), jobs, "keep", Again(call[c].job))
        BY <1>4 DEF CommitRecover, Holding
    <2>2. CASE call[c].excused
        BY <1>2, <2>1, <2>2 DEF Reviewed
    <2>3. CASE ~call[c].excused
        <3>1. ~file.operator /\ ~file.shown /\ call[c].job \in JobIds
            BY <2>1, <2>3, Holder
        <3>2. RecoveryPlan(call[c].job) \in PlanRow /\ RecoveryPlan(call[c].job).kind = "run"
            BY DEF RecoveryPlan, KeptBackup, PlanRow
        <3>3. Again(call[c].job) \in 1..MaxTries+1
            BY <3>1, AgainTyped
        <3>4. PICK row \in JobRow : jobs' = Append(jobs, row) /\ Fresh(row)
            BY <2>1, <3>2, <3>3, OwnPlanTyped
        <3>5. DOMAIN jobs' \ DOMAIN jobs = {Len(jobs) + 1} /\ jobs'[Len(jobs) + 1] = row
            BY <3>4, AddsLast DEF LibraryTypeOK
        <3> QED BY <2>1, <3>1, <3>4, <3>5 DEF GatePassed, Fresh
    <2> QED BY <2>2, <2>3
<1> QED BY <1>1, <1>3, <1>4

(* So does the automatic retry of a failed job.                               *)
LEMMA GatedRetry ==
    ASSUME LibraryInv, NEW j \in JobIds, Fail(j)
    PROVE  GatePassed
<1> USE DEF LibraryInv
<1>1. PICK row \in JobRow : jobs' = [jobs EXCEPT ![j] = row] \/ Retries(j, row)
    BY FailWrites
<1>2. CASE jobs' = [jobs EXCEPT ![j] = row]
    BY <1>2, NoneAdded
<1>3. CASE Retries(j, row)
    <2> DEFINE failed == [jobs EXCEPT ![j] = row]
               new == NewJob(jobs[j].plan, jobs[j].policy, Again(j))
    <2>1. failed \in Seq(JobRow) /\ Len(failed) = Len(jobs)
        BY <1>1, ExceptSeq, Ids DEF LibraryTypeOK
    <2>2. jobs' = Append(failed, new) /\ ~file'.shown /\ ~file'.operator
        BY <1>3 DEF Retries
    <2> HIDE DEF failed
    <2>3. /\ jobs[j].plan \in 1..MaxPlans /\ jobs[j].policy \in {"keep", "day", "delete", "discovered"}
          /\ plans'[jobs[j].plan].kind = "run"
        BY FailWrites, Ids DEF JobRow, JobsSound
    <2>4. new \in JobRow
        BY <2>3, AgainTyped, NewJobTyped
    <2>5. new.plan = jobs[j].plan
        BY DEF NewJob
    <2> HIDE DEF new
    <2>6. DOMAIN jobs' \ DOMAIN jobs = {Len(jobs) + 1} /\ jobs'[Len(jobs) + 1] = new
        BY <2>1, <2>2, <2>4, AddsLast
    <2> QED BY <2>2, <2>3, <2>5, <2>6 DEF GatePassed
<1> QED BY <1>1, <1>2, <1>3

(* So does a sweep that queues the watched file.                              *)
LEMMA GatedSweep ==
    ASSUME LibraryInv, SweepCommit
    PROVE  GatePassed
<1>1. CASE SweepMarks
    BY <1>1, MarkedRows DEF SweepMarks, GatePassed, JobIds
<1>2. ASSUME NEW row, SweepAdds(row) PROVE GatePassed
    <2>1. DOMAIN jobs' \ DOMAIN jobs = {Len(jobs) + 1} /\ jobs'[Len(jobs) + 1] = row
        BY <1>2, MarkedRows, AddsLast DEF SweepAdds
    <2> QED BY <1>2, <2>1 DEF SweepAdds, Fresh, GatePassed
<1> QED BY <1>1, <1>2, SweepWrites

(* No other step creates a job that can run.                                  *)
LEMMA GatedOther ==
    ASSUME LibraryInv,
           \/ UNCHANGED jobs
           \/ \E j \in JobIds : \/ Claim(j) \/ CancelQueued(j) \/ Aside(j) \/ Place(j)
                               \/ StopForReview(j) \/ Age(j) \/ DeleteBackup(j)
           \/ \E c \in Caller : ApprovePlace(c) \/ ApproveRecord(c) \/ CommitRestore(c)
           \/ Discover
    PROVE  GatePassed
<1> USE DEF LibraryInv
<1>1. CASE UNCHANGED jobs
    BY <1>1 DEF GatePassed
<1>2. CASE \E j \in JobIds : \/ Claim(j) \/ CancelQueued(j) \/ Aside(j) \/ Place(j)
                             \/ StopForReview(j) \/ Age(j) \/ DeleteBackup(j)
    <2>1. DOMAIN jobs' = DOMAIN jobs
        BY <1>2 DEF Claim, CancelQueued, Aside, Place, StopForReview, Age, DeleteBackup
    <2> QED BY <2>1 DEF GatePassed
<1>3. CASE \E c \in Caller : ApprovePlace(c) \/ ApproveRecord(c) \/ CommitRestore(c)
    <2>1. DOMAIN jobs' = DOMAIN jobs
        BY <1>3 DEF ApprovePlace, ApproveRecord, CommitRestore
    <2> QED BY <2>1 DEF GatePassed
<1>4. CASE Discover
    <2> DEFINE base == NewJob(Len(plans'), "discovered", 1)
               new == [base EXCEPT !.status = "completed", !.backup = "listed"]
    <2>1. jobs' = Append(jobs, new) /\ Len(plans) < MaxPlans /\ plans' = Append(plans, DiscoveredPlan)
        BY <1>4 DEF Discover
    <2>2. DiscoveredPlan \in PlanRow /\ 1 \in 1..MaxTries+1
        BY LibraryAssumption DEF DiscoveredPlan, PlanRow
    <2>3. Len(plans') \in 1..MaxPlans
        BY <2>1, <2>2, PlanAdded
    <2>4. base \in JobRow
        BY <2>2, <2>3, NewJobTyped
    <2> HIDE DEF base
    <2>5. new \in JobRow /\ new.status = "completed"
        BY <2>4 DEF JobRow, Ended
    <2> HIDE DEF new
    <2>6. DOMAIN jobs' \ DOMAIN jobs = {Len(jobs) + 1} /\ jobs'[Len(jobs) + 1] = new
        BY <2>1, <2>5, AddsLast DEF LibraryTypeOK
    <2> QED BY <2>5, <2>6 DEF GatePassed
<1> QED BY <1>1, <1>2, <1>3, <1>4

(* Only a review queues a job for a file that is protected or for a plan that *)
(* asks for one, as the rows stand at the commit (_validate_review_gate).     *)
THEOREM GateHolds == LibrarySpec => GateHeld
<1>1. LibraryInv /\ [LibraryNext]_libVars => [GatePassed]_libVars
    <2> SUFFICES ASSUME LibraryInv, LibraryNext PROVE GatePassed
        OBVIOUS
    <2>1. CASE PlanFile \/ Hold \/ SweepStart \/ SweepFails \/ \E value \in BOOLEAN : Protect(value)
        BY <2>1, GatedOther DEF PlanFile, Hold, SweepStart, SweepFails, Protect
    <2>2. ASSUME NEW c \in Caller,
                 \/ BeginCreate(c) \/ BeginRetry(c) \/ BeginRecover(c) \/ BeginReview(c)
                 \/ BeginRestore(c) \/ Enter(c) \/ Abort(c)
          PROVE  GatePassed
        <3>1. UNCHANGED jobs
            BY <2>2 DEF BeginCreate, BeginRetry, BeginRecover, BeginReview, BeginRestore, Reads, Enter, Abort
        <3> QED BY <3>1, GatedOther
    <2> QED BY <2>1, <2>2, GatedCommit, GatedRetry, GatedSweep, GatedOther DEF LibraryNext
<1> QED BY <1>1, LibraryStart, LibraryKept, PTL DEF LibrarySpec, GateHeld, GatePassed
=============================================================================
