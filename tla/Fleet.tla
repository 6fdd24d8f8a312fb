------------------------------- MODULE Fleet -------------------------------
(***************************************************************************)
(* Who executes: worker rows, the agents that pair with them and poll for  *)
(* work, the local loop's runs, and the sweep that takes rows away from    *)
(* workers that no longer answer.  Every call of an agent may fail before  *)
(* or after the server handled it; agents and loops crash and restart.     *)
(***************************************************************************)
EXTENDS Registry, LoopControl, Naturals, FiniteSets

CONSTANTS
    Remote,      \* worker keys of remote workers
    Local,       \* the local worker's key
    KeyOf,       \* the worker key in each machine's settings
    Loops,       \* LocalWorkerLoop objects: one in each process that makes one
    LoopOf,      \* the loop object each local run belongs to
    Api,         \* the API process's loop object, the only one cancel_job can reach
    LocalCap,    \* max_concurrent_jobs of the local worker; remote workers have 1
    NoWorker

Keys == Remote \cup {Local}

ASSUME FleetAssumption ==
    /\ Local \notin Remote /\ NoWorker \notin Remote \cup {Local}
    /\ KeyOf \in [Hosts -> Remote]
    /\ LoopOf \in [Runs -> Loops] /\ Api \in Loops

VARIABLES
    reg,      \* the workers table
    row,      \* the jobs table
    media,    \* whether an execution of the job has replaced its file
    agent,    \* the agent process of each machine
    run,      \* each run of a local loop
    control   \* the control block of each loop object

vars == <<reg, row, media, agent, run, control>>
server == <<reg, row>>
locals == <<run, control>>

Final == {"completed", "review", "failed", "cancelled", "interrupted"}
Row == [status: {"none", "pending", "running"} \cup Final,
        worker: Keys \cup {NoWorker},
        cancel: BOOLEAN,            \* cancellation_requested_at is set
        contact: {"fresh", "stale"}] \* progress_updated_at, against 45 seconds

Executing == {"claimed", "encoding", "staged", "verifying", "verified", "replacing"}
AgentPhase == {"absent", "down", "idle", "beaten", "offered", "sending", "failing"}
              \cup Executing
Result == {"completed", "review", "failed", "cancelled"}
Agent == [phase: AgentPhase, job: Jobs \cup {NoJob},
          heard: BOOLEAN,                    \* cancellation_state["requested"]
          result: Result \cup {"none"},
          stored: BOOLEAN,                   \* a worker token is in the token file
          secret: BOOLEAN,                   \* installed with the registration secret
          pair: {"none", "open", "used"}]    \* the pairing token in the settings
Installed(phase, secret) ==
    [phase |-> phase, job |-> NoJob, heard |-> FALSE, result |-> "none", stored |-> FALSE,
     secret |-> secret, pair |-> IF secret THEN "none" ELSE "open"]

RunPhase == {"absent", "down", "idle", "claimed", "active", "encoding", "verifying",
             "closing", "recording"}
Run == [phase: RunPhase, job: Jobs \cup {NoJob}, killed: BOOLEAN,
        result: Result \cup {"none"}]
Blank(phase) == [phase |-> phase, job |-> NoJob, killed |-> FALSE, result |-> "none"]

\* Which machines and loops a deployment has, and which workers it had and has
\* no more, is decided at the start.
Init ==
    /\ \E W \in SUBSET Remote :
         reg = [w \in Keys |-> IF w = Local THEN LocalWorker
                              ELSE IF w \in W THEN Deleted ELSE NeverSeen]
    /\ row \in [Jobs -> {[status |-> s, worker |-> NoWorker, cancel |-> FALSE,
                          contact |-> "fresh"] : s \in {"none", "pending"}}]
    /\ media = [j \in Jobs |-> "original"]
    /\ \E H, S \in SUBSET Hosts :
         agent = [h \in Hosts |-> Installed(IF h \in H THEN "down" ELSE "absent", h \in S)]
    /\ \E R \in SUBSET Runs :
         run = [r \in Runs |-> Blank(IF r \in R THEN "idle" ELSE "absent")]
    /\ control = [c \in Loops |-> Quiet]

-----------------------------------------------------------------------------
(* Job rows.                                                               *)

Holds(w, j) == row[j].status = "running" /\ row[j].worker = w
Load(w) == Cardinality({j \in Jobs : Holds(w, j)})

\* claim_pending_for_worker, as the requests of request_job and claim_job see it.
Claimable(w, j) ==
    row[j].status = "pending" /\ Load(w) < (IF w = Local THEN LocalCap ELSE 1)
RowClaimed(w, j) ==
    row' = [row EXCEPT ![j] = [@ EXCEPT !.status = "running", !.worker = w,
                                        !.contact = "fresh"]]

\* mark_result and mark_interrupted clear the assignment; nobody compares the
\* time of contact of a row that does not run.
RowEnded(j, status) ==
    row' = [row EXCEPT ![j] = [@ EXCEPT !.status = status, !.worker = NoWorker,
                                        !.contact = "fresh"]]

RowTouched(j) == row' = [row EXCEPT ![j].contact = "fresh"]

\* submit_job_result: what comes after a cancellation was requested counts as
\* cancelled unless it failed or its replacement succeeded.
Recorded(j, result) ==
    IF row[j].cancel /\ result = "review" THEN "cancelled" ELSE result

-----------------------------------------------------------------------------
(* An agent's calls.  A refusal, a lost request and a lost reply look the   *)
(* same to process_once: an exception.                                      *)

Known(h) == agent[h].stored /\ reg[KeyOf[h]].token = h
Reaches(h) == Known(h) /\ Admitted(reg[KeyOf[h]])

Goes(h, phase) == agent' = [agent EXCEPT ![h].phase = phase]

\* The process exits; the service manager starts it again.
Stops(h) ==
    agent' = [agent EXCEPT ![h] = [@ EXCEPT !.phase = "down", !.job = NoJob,
                                            !.heard = FALSE, !.result = "none"]]

\* _reregister_after_auth_failure: only with a pairing token this process has not used.
Rejected(h) ==
    IF agent[h].pair = "open"
    THEN agent' = [agent EXCEPT ![h].stored = FALSE]
    ELSE Stops(h)

\* A call that ended with an exception: the request was lost, or the server
\* answered 401, 403 or 409.
Fails(h) == \/ Known(h) /\ Stops(h)
            \/ ~Known(h) /\ (Rejected(h) \/ Stops(h))

\* The first start waits for the bootstrap command the onboarding prints.
\* The settings' pairing token, if still there, is available again.
Restart(h) ==
    /\ agent[h].phase = "down"
    /\ agent[h].secret \/ reg[KeyOf[h]].life # "none"
    /\ LET pair == agent[h].pair
       IN  agent' = [agent EXCEPT ![h] = [@ EXCEPT !.phase = "idle",
                          !.pair = IF pair = "used" THEN "open" ELSE pair]]
    /\ UNCHANGED <<server, media, locals>>

Crash(h) ==
    /\ agent[h].phase \notin {"absent", "down"}
    /\ Stops(h)
    /\ UNCHANGED <<server, media, locals>>

\* The installer rewrites the settings after its first heartbeat succeeded.
ForgetPairing(h) ==
    /\ agent[h].stored /\ agent[h].pair # "none"
    /\ agent' = [agent EXCEPT ![h].pair = "none"]
    /\ UNCHANGED <<server, media, locals>>

\* register and register_worker.  The pairing token wins over the secret; a
\* token the server does not know any more marks the row of the key.
Register(h) ==
    LET w == KeyOf[h]
        pair == agent[h].pair
        valid == IF pair = "none" THEN agent[h].secret
                                  ELSE reg[w].pairing = "open"
    IN  /\ agent[h].phase \in {"idle", "beaten"} /\ ~agent[h].stored
        /\ UNCHANGED <<row, media, locals>>
        /\ \/ UNCHANGED reg /\ Stops(h)
           \/ ~valid /\ pair # "none" /\ Stops(h)
              /\ reg' = [reg EXCEPT ![w] = AuthFailed(@)]
           \/ /\ valid
              /\ \E health \in {"healthy", "failed"} :
                   \/ /\ reg' = [reg EXCEPT ![w] = Registered(@, h, health)]
                      /\ agent' = [agent EXCEPT ![h] = [@ EXCEPT !.stored = TRUE,
                                         !.pair = IF pair = "open" THEN "used" ELSE pair]]
                   \/ /\ reg' = [reg EXCEPT ![w] = Registered(@, Nobody, health)]
                      /\ Stops(h)

Beat(h) ==
    /\ agent[h].phase = "idle" /\ agent[h].stored
    /\ UNCHANGED <<row, media, locals>>
    /\ \/ /\ Reaches(h)
          /\ \E health \in {"healthy", "failed"} :
               reg' = [reg EXCEPT ![KeyOf[h]] = Beaten(@, health)]
          /\ Goes(h, "beaten") \/ Stops(h)
       \/ UNCHANGED reg /\ Fails(h)

\* request_job assigns nothing yet.
Poll(h) ==
    LET w == KeyOf[h]  served == Reaches(h) /\ CanExecute(reg[w])
    IN  /\ agent[h].phase = "beaten" /\ agent[h].stored
        /\ UNCHANGED <<server, media, locals>>
        /\ \/ /\ served
              /\ \E j \in Jobs : Claimable(w, j)
                                /\ agent' = [agent EXCEPT ![h] = [@ EXCEPT !.phase = "offered", !.job = j]]
           \/ served /\ (\A j \in Jobs : ~Claimable(w, j)) /\ Goes(h, "idle")
           \/ Fails(h)

\* claim_job, outside process_once's try: nothing reports what went wrong.
Claim(h) ==
    LET w == KeyOf[h]
    IN  /\ agent[h].phase = "offered"
        /\ UNCHANGED <<reg, media, locals>>
        /\ \/ /\ Reaches(h) /\ CanExecute(reg[w]) /\ Claimable(w, agent[h].job)
              /\ RowClaimed(w, agent[h].job)
              /\ Goes(h, "claimed") \/ Stops(h)
           \/ UNCHANGED row /\ Stops(h)

-----------------------------------------------------------------------------
(* The job an agent executes.                                              *)

\* Mutant: the reporter drops what the answer says of cancellation.
HearsNothing(before, requested) == before

\* cancellation_state after an answer to report_job_progress.
Hears(before, requested) == before \/ requested

\* report_job_progress: on the way to next when the answer arrives; what
\* becomes of the agent when it does not is after.
Reports(h, next, after) ==
    LET j == agent[h].job
        served == Reaches(h) /\ Holds(KeyOf[h], j)
    IN  /\ UNCHANGED <<reg, media, locals>>
        /\ \/ /\ served /\ RowTouched(j)
              /\ agent' = [agent EXCEPT ![h] = [@ EXCEPT !.phase = next,
                                                  !.heard = Hears(agent[h].heard, row[j].cancel)]]
           \/ served /\ RowTouched(j) /\ agent' = [agent EXCEPT ![h] = after]
           \/ UNCHANGED row /\ agent' = [agent EXCEPT ![h] = after]

Failing(h) == [agent[h] EXCEPT !.phase = "failing"]
Sending(h, result) ==
    [agent[h] EXCEPT !.phase = "sending", !.result = result, !.heard = FALSE]
Sends(h, result) ==
    /\ agent' = [agent EXCEPT ![h] = Sending(h, result)]
    /\ UNCHANGED <<server, media, locals>>

Start(h) == agent[h].phase = "claimed" /\ Reports(h, "encoding", Failing(h))

\* A progress call that fails in FFmpegClient.run ends the execution as failed.
EncodeProgress(h) ==
    agent[h].phase = "encoding" /\ Reports(h, "encoding", Sending(h, "failed"))

\* ffmpeg ends, is stopped, or was never started: cancelled whenever the flag is set.
Encode(h) ==
    /\ agent[h].phase = "encoding"
    /\ IF agent[h].heard THEN Sends(h, "cancelled")
       ELSE \/ Sends(h, "failed")
            \/ Goes(h, "staged") /\ UNCHANGED <<server, media, locals>>

BeginVerify(h) == agent[h].phase = "staged" /\ Reports(h, "verifying", Failing(h))

\* verify_output and the safety checks, between the two looks at the flag.
Verify(h) ==
    /\ agent[h].phase = "verifying"
    /\ IF agent[h].heard THEN Sends(h, "cancelled")
       ELSE \/ \E result \in {"failed", "review"} : Sends(h, result)
            \/ Goes(h, "verified") /\ UNCHANGED <<server, media, locals>>

\* Mutant: progress is best effort, so a refusal does not stop the placement.
BeginReplaceBestEffort(h) ==
    /\ agent[h].phase = "verified"
    /\ Reports(h, "replacing", [agent[h] EXCEPT !.phase = "replacing"])

BeginReplace(h) == agent[h].phase = "verified" /\ Reports(h, "replacing", Failing(h))

\* place_verified_output; Replacement has its steps.
Place(h) ==
    /\ agent[h].phase = "replacing"
    /\ \/ Sends(h, "failed")
       \/ /\ media' = [media EXCEPT ![agent[h].job] = "replaced"]
          /\ agent' = [agent EXCEPT ![h] = Sending(h, "completed")]
          /\ UNCHANGED <<server, locals>>

Submit(h) ==
    LET j == agent[h].job
    IN  /\ agent[h].phase = "sending"
        /\ UNCHANGED <<reg, media, locals>>
        /\ \/ /\ Reaches(h) /\ Holds(KeyOf[h], j)
              /\ RowEnded(j, Recorded(j, agent[h].result))
              /\ \/ agent' = [agent EXCEPT ![h] = [@ EXCEPT !.phase = "idle", !.job = NoJob,
                                                 !.heard = FALSE, !.result = "none"]]
                 \/ Goes(h, "failing")
           \/ UNCHANGED row /\ Goes(h, "failing")

\* _best_effort_report_failure, and then the exception ends the process.
ReportFailure(h) ==
    /\ agent[h].phase = "failing"
    /\ Stops(h)
    /\ UNCHANGED <<reg, media, locals>>
    /\ \/ /\ Reaches(h) /\ Holds(KeyOf[h], agent[h].job)
          /\ RowEnded(agent[h].job, "failed")
       \/ UNCHANGED row

-----------------------------------------------------------------------------
(* The local loop: one run of run_once_with_summary per member of Runs.    *)

RunGoes(r, phase) == run' = [run EXCEPT ![r].phase = phase]
Mine(r) == control[LoopOf[r]]
Control1(r, c) == control' = [control EXCEPT ![LoopOf[r]] = c]

\* Claims and commits.
LocalClaim(r) ==
    /\ run[r].phase = "idle"
    /\ reg[Local].enabled
    /\ \E j \in Jobs : /\ Claimable(Local, j)
                      /\ RowClaimed(Local, j)
                      /\ run' = [run EXCEPT ![r] = [@ EXCEPT !.phase = "claimed", !.job = j]]
    /\ UNCHANGED <<reg, media, agent, control>>

Activate(r) ==
    /\ run[r].phase = "claimed"
    /\ RunGoes(r, "active")
    /\ Control1(r, SetActive(Mine(r), run[r].job))
    /\ UNCHANGED <<server, media, agent>>

\* ffmpeg is started, and terminated at once when its id is already there.
Launch(r) ==
    /\ run[r].phase = "active"
    /\ Control1(r, SetProcess(Mine(r), run[r].job, r))
    /\ run' = [run EXCEPT ![r] = [@ EXCEPT !.phase = "encoding",
                                            !.killed = run[r].job \in Mine(r).ids]]
    /\ UNCHANGED <<server, media, agent>>

RunEnds(r, result) ==
    run' = [run EXCEPT ![r] = [@ EXCEPT !.phase = "closing", !.result = result,
                                        !.killed = FALSE]]

\* The process is gone and run() looks at the flag one last time.
LocalEncode(r) ==
    /\ run[r].phase = "encoding"
    /\ \/ run[r].job \in Mine(r).ids /\ RunEnds(r, "cancelled")
       \/ run[r].job \notin Mine(r).ids /\ RunEnds(r, "failed")
       \/ run[r].job \notin Mine(r).ids /\ ~run[r].killed /\ RunGoes(r, "verifying")
    /\ UNCHANGED <<server, media, agent, control>>

\* _verify_and_place does not ask again.
LocalPlace(r) ==
    /\ run[r].phase = "verifying"
    /\ \/ UNCHANGED media /\ \E result \in {"failed", "review"} : RunEnds(r, result)
       \/ media' = [media EXCEPT ![run[r].job] = "replaced"] /\ RunEnds(r, "completed")
    /\ UNCHANGED <<server, agent, control>>

LocalProgress(r) ==
    /\ run[r].phase \in {"encoding", "verifying"}
    /\ RowTouched(run[r].job)
    /\ UNCHANGED <<reg, media, agent, locals>>

\* The finally clause, before the result is committed.
Close(r) ==
    /\ run[r].phase = "closing"
    /\ Control1(r, ClearActive(Mine(r), run[r].job))
    /\ RunGoes(r, "recording")
    /\ UNCHANGED <<server, media, agent>>

\* The commit writes the result whatever the row has become.
Record(r) ==
    /\ run[r].phase = "recording"
    /\ RowEnded(run[r].job, run[r].result)
    /\ run' = [run EXCEPT ![r] = Blank("idle")]
    /\ UNCHANGED <<reg, media, agent, control>>

\* An exception leaves through the finally clause and rolls the session back.
Break(r) ==
    /\ run[r].phase \in {"active", "verifying"}
    /\ Control1(r, ClearActive(Mine(r), run[r].job))
    /\ run' = [run EXCEPT ![r] = Blank("down")]
    /\ UNCHANGED <<server, media, agent>>

LoopCrash(c) ==
    /\ \E r \in Runs : LoopOf[r] = c /\ run[r].phase \notin {"absent", "down"}
    /\ run' = [r \in Runs |-> IF LoopOf[r] = c /\ run[r].phase # "absent"
                             THEN Blank("down") ELSE run[r]]
    /\ control' = [control EXCEPT ![c] = Quiet]
    /\ UNCHANGED <<server, media, agent>>

LocalRestart(r) ==
    /\ run[r].phase = "down"
    /\ RunGoes(r, "idle")
    /\ UNCHANGED <<server, media, agent, control>>

-----------------------------------------------------------------------------
(* The operator and the orchestration loop.                                *)

\* cancel_job of a queued row, and of one a remote worker runs.
CancelQueued(j) ==
    /\ row[j].status = "pending"
    /\ row' = [row EXCEPT ![j] = [@ EXCEPT !.status = "cancelled", !.cancel = TRUE]]
    /\ UNCHANGED <<reg, media, agent, locals>>

CancelRemote(j) ==
    /\ row[j].status = "running" /\ row[j].worker \in Remote
    /\ ~row[j].cancel
    /\ row' = [row EXCEPT ![j] = [@ EXCEPT !.cancel = TRUE, !.contact = "fresh"]]
    /\ UNCHANGED <<reg, media, agent, locals>>

\* The run whose ffmpeg request_cancel terminates.
Stopped(j) == {r \in Runs : r = control[Api].process /\ Accepts(control[Api], j)}

\* cancel_job of any other running row asks the API's own loop; when that
\* loop does not execute the job the id stays and the request is refused.
CancelLocal(j) ==
    /\ row[j].status = "running" /\ row[j].worker \notin Remote
    /\ control' = [control EXCEPT ![Api] = Requested(@, j)]
    /\ run' = [r \in Runs |-> IF r \in Stopped(j) /\ run[r].phase = "encoding"
                             THEN [run[r] EXCEPT !.killed = TRUE] ELSE run[r]]
    /\ IF Accepts(control[Api], j) THEN RowTouched(j) ELSE UNCHANGED row
    /\ UNCHANGED <<reg, media, agent>>

Onboard(w) ==
    /\ reg[w].life = "none"
    /\ reg' = [reg EXCEPT ![w] = Pending]
    /\ UNCHANGED <<row, media, agent, locals>>

Expire(w) ==
    /\ reg[w].pairing = "open"
    /\ reg' = [reg EXCEPT ![w].pairing = "expired"]
    /\ UNCHANGED <<row, media, agent, locals>>

SetEnabled(w) ==
    /\ Present(reg[w])
    /\ reg' = [reg EXCEPT ![w] = Enabled(@, w = Local)]
    /\ UNCHANGED <<row, media, agent, locals>>

SetDisabled(w) ==
    /\ Present(reg[w])
    /\ reg' = [reg EXCEPT ![w] = Disabled(@)]
    /\ UNCHANGED <<row, media, agent, locals>>

\* The foreign keys of the worker's rows become NULL.
Delete(w) ==
    /\ w # Local /\ Present(reg[w])
    /\ reg' = [reg EXCEPT ![w] = Deleted]
    /\ row' = [j \in Jobs |-> IF row[j].worker = w THEN [row[j] EXCEPT !.worker = NoWorker]
                                                   ELSE row[j]]
    /\ UNCHANGED <<media, agent, locals>>

\* 45 seconds without a progress report, five minutes without a heartbeat.
Silence(j) ==
    /\ row[j].status = "running" /\ row[j].contact = "fresh"
    /\ row' = [row EXCEPT ![j].contact = "stale"]
    /\ UNCHANGED <<reg, media, agent, locals>>

HeartbeatAges(w) ==
    /\ reg[w].beat = "fresh"
    /\ reg' = [reg EXCEPT ![w].beat = "old"]
    /\ UNCHANGED <<row, media, agent, locals>>

\* Mutant: rows whose worker was deleted are nobody's business.
TrustedOrGone(w) ==
    \/ w = NoWorker
    \/ w \in Remote /\ Dispatchable(reg[w])
    \/ w = Local /\ reg[w].enabled

\* Workers whose silent rows the sweep leaves alone.
Trusted(w) ==
    \/ w \in Remote /\ Dispatchable(reg[w])
    \/ w = Local /\ reg[w].enabled

\* _handle_worker_interruptions
Sweep(j) ==
    /\ row[j].status = "running" /\ row[j].contact = "stale"
    /\ ~Trusted(row[j].worker)
    /\ RowEnded(j, "interrupted")
    /\ UNCHANGED <<reg, media, agent, locals>>

-----------------------------------------------------------------------------
(* Once it has claimed a job, an agent that runs goes on to the end of it.  *)
ExecuteStep(h) ==
    \/ Start(h) \/ Encode(h) \/ BeginVerify(h) \/ Verify(h)
    \/ BeginReplace(h) \/ Place(h) \/ Submit(h) \/ ReportFailure(h)

LoopStep(r) ==
    Activate(r) \/ Launch(r) \/ LocalEncode(r) \/ LocalPlace(r) \/ Close(r) \/ Record(r)

Next ==
    \/ \E h \in Hosts : \/ Restart(h) \/ Crash(h) \/ ForgetPairing(h) \/ Register(h)
                       \/ Beat(h) \/ Poll(h) \/ Claim(h) \/ EncodeProgress(h)
                       \/ ExecuteStep(h)
    \/ \E r \in Runs : \/ LocalClaim(r) \/ LocalProgress(r) \/ Break(r)
                      \/ LocalRestart(r) \/ LoopStep(r)
    \/ \E c \in Loops : LoopCrash(c)
    \/ \E w \in Keys : \/ SetEnabled(w) \/ SetDisabled(w) \/ HeartbeatAges(w)
    \/ \E w \in Remote : Onboard(w) \/ Expire(w) \/ Delete(w)
    \/ \E j \in Jobs : \/ CancelQueued(j) \/ CancelRemote(j) \/ CancelLocal(j)
                      \/ Silence(j) \/ Sweep(j)

\* ffmpeg terminates, a process that is not killed runs on, the orchestration
\* loop keeps sweeping and time passes.  Nothing is assumed of restarts, of
\* operators or of the network.
Fairness ==
    /\ \A h \in Hosts : WF_vars(ExecuteStep(h))
    /\ \A r \in Runs : WF_vars(LoopStep(r))
    /\ \A j \in Jobs : WF_vars(Sweep(j)) /\ WF_vars(Silence(j))
    /\ \A w \in Remote : WF_vars(HeartbeatAges(w))

Spec == Init /\ [][Next]_vars /\ Fairness

-----------------------------------------------------------------------------
TypeOK ==
    /\ reg \in [Keys -> Worker]
    /\ row \in [Jobs -> Row]
    /\ media \in [Jobs -> {"original", "replaced"}]
    /\ agent \in [Hosts -> Agent]
    /\ run \in [Runs -> Run]
    /\ control \in [Loops -> Control]

\* A remote worker shown as registered is enabled and has been issued a token:
\* pairing, failed registrations, disabling and enabling in any order never
\* make it dispatchable without one (WorkerRepository.set_enabled).
RegisteredUsable ==
    \A w \in Remote :
        reg[w].status = "registered" => reg[w].enabled /\ reg[w].token # NoHost

\* A pairing token is good for one registration, whether or not the answer
\* arrived: after it a worker's token changes only by the registration secret
\* (register_worker, register_remote_worker).
PairedOnce ==
    [][\A w \in Remote :
            reg[w].token # NoHost /\ reg'[w].token # reg[w].token
            => \/ reg'[w].life = "deleted"
               \/ \E h \in Hosts : /\ KeyOf[h] = w /\ agent[h].secret
                                   /\ agent'[h] # agent[h]]_vars

\* The machine executes j and has not been acknowledged the end of its encoding.
EarlyOn(h, j) ==
    agent[h].job = j /\ agent[h].phase \in {"claimed", "encoding", "staged"}

\* A cancellation recorded while an agent still encodes keeps the media: the
\* acknowledgement the agent needs to verify carries it (report_job_progress,
\* execute).  A local job is kept likewise when the API's loop heard of the
\* cancellation before ffmpeg's end was examined, even if it answered False.
CancellationHeeded ==
    \A j \in Jobs :
        [](\/ row[j].cancel /\ \E h \in Hosts : EarlyOn(h, j) /\ Holds(KeyOf[h], j)
           \/ \E r \in Runs : /\ run[r].job = j
                              /\ j \in Mine(r).ids
                              /\ run[r].phase \in {"claimed", "active", "encoding"}
           => [](media[j] = "original"))

\* An agent whose row was taken away (interrupted, cancelled, reported failed)
\* before it was told to place does not replace the media later, whatever it
\* still believes (report_job_progress refuses, _verify_and_place raises).
NoLateReplacement ==
    \A j \in Jobs :
        [](/\ row[j].status \in Final /\ media[j] = "original"
           /\ \A h \in Hosts : ~(agent[h].phase = "replacing" /\ agent[h].job = j)
           /\ \A r \in Runs : run[r].job # j
           => [](media[j] = "original"))

\* An ffmpeg that was terminated ran for a job whose cancellation was
\* requested, however many runs share the loop's control block.
StopsOwnProcess ==
    \A r \in Runs :
        run[r].killed /\ run[r].phase = "encoding" => run[r].job \in Mine(r).ids

\* Nobody executes j for the worker that holds it, and that worker is enabled
\* and answers: the claim's reply was lost, or a process restarted.
Forgotten(j) ==
    /\ row[j].status = "running"
    /\ \A h \in Hosts : KeyOf[h] = row[j].worker /\ agent[h].job = j
                       => agent[h].phase = "offered"
    /\ \A r \in Runs : row[j].worker = Local => run[r].job # j
    /\ \/ row[j].worker = Local /\ reg[Local].enabled
       \/ row[j].worker \in Remote /\ Dispatchable(reg[row[j].worker])

\* A running row is settled in the end, by its executor or by the sweep, or
\* stands forgotten on a worker that answers (_handle_worker_interruptions).
RunningSettles ==
    \A j \in Jobs :
        row[j].status = "running" ~> row[j].status # "running" \/ Forgotten(j)
=============================================================================
