----------------------------- MODULE FleetProofs ----------------------------
(***************************************************************************)
(* Theorems about Fleet for any machines, workers, loops and jobs: about   *)
(* the workers table and its tokens, what every process holds, the control *)
(* blocks of the local loops, and who may still replace the media of a job *)
(* whose row was taken away or whose cancellation was recorded.            *)
(***************************************************************************)
EXTENDS Fleet, TLAPS

-----------------------------------------------------------------------------
(* The workers table.  Every function of WorkerRepository keeps a row      *)
(* usable in the sense of RegisteredUsable.                                *)

Usable(w) == w.status = "registered" => w.enabled /\ w.token # NoHost

UsableRow(w, x) == x \in Worker /\ (w \in Remote => Usable(x))

TableInv == \A w \in Keys : UsableRow(w, reg[w])
RegInv == reg \in [Keys -> Worker] /\ TableInv

\* A write of one row that keeps the table.
Writes(w, x) == UsableRow(w, x) /\ reg' = [reg EXCEPT ![w] = x]

\* A write of one row by a function that keeps it usable keeps the table
\* (every WorkerRepository method that flushes a worker).
LEMMA WriteKeeps ==
    ASSUME RegInv, NEW w \in Keys, NEW x, Writes(w, x)
    PROVE  RegInv'
BY DEF RegInv, TableInv, UsableRow, Writes

\* register_remote_worker leaves an enabled row with a new token, whoever
\* receives the answer.
LEMMA RegisteredKeeps ==
    ASSUME NEW w \in Worker, NEW h \in Hosts \cup {Nobody}, NEW health \in {"healthy", "failed"}
    PROVE  Registered(w, h, health) \in Worker /\ Usable(Registered(w, h, health))
BY RegistryAssumption DEF Registered, Worker, Usable, Present

\* A spent pairing token shown for a key only lowers its status (register_worker).
LEMMA AuthFailedKeeps ==
    ASSUME NEW w \in Worker, Usable(w)
    PROVE  AuthFailed(w) \in Worker /\ Usable(AuthFailed(w))
BY DEF AuthFailed, Worker, Usable

\* A heartbeat makes a worker registered only when it is enabled (record_heartbeat).
LEMMA BeatenKeeps ==
    ASSUME NEW w \in Worker, Usable(w), NEW health \in {"healthy", "failed"}
    PROVE  Beaten(w, health) \in Worker /\ Usable(Beaten(w, health))
BY DEF Beaten, Worker, Usable

\* Enabling a remote worker without a token leaves it pending (set_enabled).
LEMMA EnabledKeeps ==
    ASSUME NEW w \in Worker, NEW local \in BOOLEAN
    PROVE  Enabled(w, local) \in Worker /\ (~local => Usable(Enabled(w, local)))
BY DEF Enabled, Worker, Usable

\* Disabling always shows the worker as disabled (set_enabled).
LEMMA DisabledKeeps ==
    ASSUME NEW w \in Worker
    PROVE  Disabled(w) \in Worker /\ Usable(Disabled(w))
BY DEF Disabled, Worker, Usable

\* New, deleted and never seen workers are not registered; the local one has
\* a row of its own (create_remote_onboarding, delete_worker).
LEMMA RowsOfTheirOwn ==
    /\ Pending \in Worker /\ Usable(Pending)
    /\ Deleted \in Worker /\ Usable(Deleted)
    /\ NeverSeen \in Worker /\ Usable(NeverSeen)
    /\ LocalWorker \in Worker
BY DEF Pending, Deleted, NeverSeen, LocalWorker, Worker, Usable

\* Time changes no status in the row (pairing tokens and heartbeats age).
LEMMA AgingKeeps ==
    ASSUME NEW w \in Worker, Usable(w)
    PROVE  /\ [w EXCEPT !.pairing = "expired"] \in Worker
           /\ Usable([w EXCEPT !.pairing = "expired"])
           /\ [w EXCEPT !.beat = "old"] \in Worker
           /\ Usable([w EXCEPT !.beat = "old"])
BY DEF Worker, Usable

-----------------------------------------------------------------------------
\* The table starts with the local worker and with deleted or unknown remote ones.
LEMMA TableStarts == Init => RegInv
BY RowsOfTheirOwn, FleetAssumption DEF Init, RegInv, TableInv, UsableRow, Keys

\* Every action that writes the table writes one row, with one of the functions.
LEMMA TableKept == RegInv /\ [Next]_vars => RegInv'
<1> SUFFICES ASSUME RegInv, [Next]_vars PROVE RegInv'
    OBVIOUS
<1>0. /\ \A w \in Keys : reg[w] \in Worker /\ (w \in Remote => Usable(reg[w]))
      /\ \A h \in Hosts : KeyOf[h] \in Remote /\ KeyOf[h] \in Keys
      /\ Remote \subseteq Keys /\ Local \in Keys /\ Local \notin Remote
    BY FleetAssumption DEF RegInv, TableInv, UsableRow, Keys
<1>1. CASE UNCHANGED reg
    BY <1>1 DEF RegInv, TableInv
<1>2. ASSUME NEW h \in Hosts, Register(h) PROVE RegInv'
    <2> DEFINE w == KeyOf[h]
    <2>1. CASE reg' = [reg EXCEPT ![w] = AuthFailed(reg[w])]
        <3>1. Writes(w, AuthFailed(reg[w]))
            BY <1>0, <2>1, AuthFailedKeeps DEF Writes, UsableRow
        <3> QED BY <1>0, <3>1, WriteKeeps
    <2>2. ASSUME NEW x \in Hosts \cup {Nobody}, NEW health \in {"healthy", "failed"},
                 reg' = [reg EXCEPT ![w] = Registered(reg[w], x, health)]
          PROVE  RegInv'
        <3>1. Writes(w, Registered(reg[w], x, health))
            BY <1>0, <2>2, RegisteredKeeps DEF Writes, UsableRow
        <3> QED BY <1>0, <3>1, WriteKeeps
    <2>3. \/ UNCHANGED reg
          \/ reg' = [reg EXCEPT ![w] = AuthFailed(reg[w])]
          \/ \E health \in {"healthy", "failed"}, x \in Hosts \cup {Nobody} :
                reg' = [reg EXCEPT ![w] = Registered(reg[w], x, health)]
        BY <1>2 DEF Register
    <2> QED BY <1>1, <2>1, <2>2, <2>3
<1>3. ASSUME NEW h \in Hosts, Beat(h) PROVE RegInv'
    <2>1. ASSUME NEW health \in {"healthy", "failed"},
                 reg' = [reg EXCEPT ![KeyOf[h]] = Beaten(reg[KeyOf[h]], health)]
          PROVE  RegInv'
        <3>1. Writes(KeyOf[h], Beaten(reg[KeyOf[h]], health))
            BY <1>0, <2>1, BeatenKeeps DEF Writes, UsableRow
        <3> QED BY <1>0, <3>1, WriteKeeps
    <2> QED BY <1>1, <1>3, <2>1 DEF Beat
<1>4. ASSUME NEW w \in Remote, Onboard(w) PROVE RegInv'
    <2>1. Writes(w, Pending)
        BY <1>4, RowsOfTheirOwn DEF Onboard, Writes, UsableRow
    <2> QED BY <1>0, <2>1, WriteKeeps
<1>5. ASSUME NEW w \in Remote, Expire(w) PROVE RegInv'
    <2>1. Writes(w, [reg[w] EXCEPT !.pairing = "expired"])
        BY <1>0, <1>5, AgingKeeps DEF Expire, Writes, UsableRow
    <2> QED BY <1>0, <2>1, WriteKeeps
<1>6. ASSUME NEW w \in Remote, Delete(w) PROVE RegInv'
    <2>1. Writes(w, Deleted)
        BY <1>6, RowsOfTheirOwn DEF Delete, Writes, UsableRow
    <2> QED BY <1>0, <2>1, WriteKeeps
<1>7. ASSUME NEW w \in Keys, SetEnabled(w) PROVE RegInv'
    <2>1. Writes(w, Enabled(reg[w], w = Local))
        BY <1>0, <1>7, EnabledKeeps DEF SetEnabled, Writes, UsableRow
    <2> QED BY <2>1, WriteKeeps
<1>8. ASSUME NEW w \in Keys, SetDisabled(w) PROVE RegInv'
    <2>1. Writes(w, Disabled(reg[w]))
        BY <1>0, <1>8, DisabledKeeps DEF SetDisabled, Writes, UsableRow
    <2> QED BY <2>1, WriteKeeps
<1>9. ASSUME NEW w \in Keys, HeartbeatAges(w) PROVE RegInv'
    <2>1. reg[w] \in Worker /\ (w \in Remote => Usable(reg[w]))
        BY <1>0
    <2>2. Writes(w, [reg[w] EXCEPT !.beat = "old"])
        BY <1>9, <2>1 DEF HeartbeatAges, Writes, UsableRow, Worker, Usable
    <2> QED BY <2>2, WriteKeeps
\* The other actions leave the table alone.
<1>10. ASSUME NEW h \in Hosts,
              \/ Restart(h) \/ Crash(h) \/ ForgetPairing(h) \/ Poll(h) \/ Claim(h)
              \/ EncodeProgress(h) \/ ExecuteStep(h)
       PROVE  UNCHANGED reg
    BY <1>10 DEF Restart, Crash, ForgetPairing, Poll, Claim, EncodeProgress, ExecuteStep,
       Start, Encode, BeginVerify, Verify, BeginReplace, Place, Submit, ReportFailure,
       Reports, Sends, server
<1>11. ASSUME NEW r \in Runs,
              \/ LocalClaim(r) \/ LocalProgress(r) \/ Break(r) \/ LocalRestart(r)
              \/ LoopStep(r)
       PROVE  UNCHANGED reg
    BY <1>11 DEF LocalClaim, LocalProgress, Break, LocalRestart, LoopStep, Activate, Launch,
       LocalEncode, LocalPlace, Close, Record, server
<1>12. ASSUME NEW c \in Loops, LoopCrash(c) PROVE UNCHANGED reg
    BY <1>12 DEF LoopCrash, server
<1>13. ASSUME NEW j \in Jobs,
              \/ CancelQueued(j) \/ CancelRemote(j) \/ CancelLocal(j) \/ Silence(j)
              \/ Sweep(j)
       PROVE  UNCHANGED reg
    BY <1>13 DEF CancelQueued, CancelRemote, CancelLocal, Silence, Sweep
<1>14. UNCHANGED vars => UNCHANGED reg
    BY DEF vars
<1> QED
    BY <1>1, <1>2, <1>3, <1>4, <1>5, <1>6, <1>7, <1>8, <1>9, <1>10, <1>11, <1>12, <1>13,
       <1>14 DEF Next

\* A remote worker shown as registered is enabled and has been issued a token,
\* for any number of workers and machines (WorkerRepository).
THEOREM RegisteredStaysUsable == Spec => []RegisteredUsable
<1>1. RegInv => RegisteredUsable
    BY FleetAssumption DEF RegInv, TableInv, UsableRow, Usable, RegisteredUsable, Keys
<1> QED BY <1>1, TableStarts, TableKept, PTL DEF Spec

-----------------------------------------------------------------------------
(* What the processes hold.  An agent that executes has a job, one that     *)
(* submits has a result; so has a run of a loop.                            *)

RowsTyped == row \in [Jobs -> Row]

Sound(a) ==
    /\ a \in Agent
    /\ a.phase \notin {"absent", "down", "idle", "beaten"} => a.job \in Jobs
    /\ a.phase = "sending" => a.result \in Result
AgentsSound == agent \in [Hosts -> Agent] /\ \A h \in Hosts : Sound(agent[h])

SoundRun(x) ==
    /\ x \in Run
    /\ x.phase \notin {"absent", "down", "idle"} => x.job \in Jobs
    /\ x.phase \in {"closing", "recording"} => x.result \in Result
RunsSound == run \in [Runs -> Run] /\ \A r \in Runs : SoundRun(run[r])

ControlsTyped == control \in [Loops -> Control]

\* A write of one agent keeps the others (each is a process of its own).
LEMMA AgentWrites ==
    ASSUME AgentsSound, NEW h \in Hosts, NEW a, Sound(a), agent' = [agent EXCEPT ![h] = a]
    PROVE  AgentsSound'
BY DEF AgentsSound, Sound

\* Every call an agent makes and every step of its execution keep what it holds
\* (process_once, execute), the answers lost included.
LEMMA AgentsKept ==
    ASSUME AgentsSound, RowsTyped, [Next]_vars
    PROVE  AgentsSound'
<1> USE DEF AgentPhase, Executing
<1>0. \A h \in Hosts : Sound(agent[h])
    BY DEF AgentsSound
<1>1. ASSUME NEW h \in Hosts, Stops(h) PROVE AgentsSound'
    <2>1. Sound([agent[h] EXCEPT !.phase = "down", !.job = NoJob, !.heard = FALSE,
                                 !.result = "none"])
        BY <1>0 DEF Sound, Agent
    <2> QED BY <1>1, <2>1, AgentWrites DEF Stops
<1>2. ASSUME NEW h \in Hosts, NEW phase \in AgentPhase, Goes(h, phase),
             phase \in {"idle", "beaten"} \/ (agent[h].job \in Jobs /\ phase # "sending")
      PROVE  AgentsSound'
    <2>1. Sound([agent[h] EXCEPT !.phase = phase])
        BY <1>0, <1>2 DEF Sound, Agent
    <2> QED BY <1>2, <2>1, AgentWrites DEF Goes
<1>3. ASSUME NEW h \in Hosts, NEW result \in Result, agent[h].job \in Jobs
      PROVE  Sound(Sending(h, result)) /\ Sound(Failing(h))
    BY <1>0, <1>3 DEF Sound, Agent, Sending, Failing
<1>4. ASSUME NEW h \in Hosts, NEW result \in Result, Sends(h, result), agent[h].job \in Jobs
      PROVE  AgentsSound'
    BY <1>3, <1>4, AgentWrites DEF Sends
<1>5. ASSUME NEW h \in Hosts, Restart(h) PROVE AgentsSound'
    <2> DEFINE pair == agent[h].pair
    <2>1. Sound([agent[h] EXCEPT !.phase = "idle",
                                 !.pair = IF pair = "used" THEN "open" ELSE pair])
        BY <1>0 DEF Sound, Agent
    <2> QED BY <1>5, <2>1, AgentWrites DEF Restart
<1>6. ASSUME NEW h \in Hosts, ForgetPairing(h) PROVE AgentsSound'
    <2>1. Sound([agent[h] EXCEPT !.pair = "none"])
        BY <1>0 DEF Sound, Agent
    <2> QED BY <1>6, <2>1, AgentWrites DEF ForgetPairing
<1>7. ASSUME NEW h \in Hosts, Rejected(h) PROVE AgentsSound'
    <2>1. Sound([agent[h] EXCEPT !.stored = FALSE])
        BY <1>0 DEF Sound, Agent
    <2> QED BY <1>1, <1>7, <2>1, AgentWrites DEF Rejected
<1>8. ASSUME NEW h \in Hosts, Register(h) PROVE AgentsSound'
    <2> DEFINE pair == agent[h].pair
               registered == [agent[h] EXCEPT !.stored = TRUE,
                                  !.pair = IF pair = "open" THEN "used" ELSE pair]
    <2>1. Sound(registered)
        BY <1>0 DEF Sound, Agent
    <2>2. Stops(h) \/ agent' = [agent EXCEPT ![h] = registered]
        BY <1>8 DEF Register
    <2> QED BY <1>1, <2>1, <2>2, AgentWrites
<1>9. ASSUME NEW h \in Hosts, Beat(h) PROVE AgentsSound'
    BY <1>1, <1>2, <1>7, <1>9 DEF Beat, Fails
<1>10. ASSUME NEW h \in Hosts, Poll(h) PROVE AgentsSound'
    <2>1. ASSUME NEW j \in Jobs
          PROVE  Sound([agent[h] EXCEPT !.phase = "offered", !.job = j])
        BY <1>0 DEF Sound, Agent
    <2>2. \/ Stops(h) \/ Rejected(h) \/ Goes(h, "idle")
          \/ \E j \in Jobs :
                agent' = [agent EXCEPT ![h] = [agent[h] EXCEPT !.phase = "offered", !.job = j]]
        BY <1>10 DEF Poll, Fails
    <2> QED BY <1>1, <1>2, <1>7, <2>1, <2>2, AgentWrites
<1>11. ASSUME NEW h \in Hosts, Claim(h) PROVE AgentsSound'
    <2>1. agent[h].job \in Jobs
        BY <1>0, <1>11 DEF Claim, Sound
    <2> QED BY <1>1, <1>2, <1>11, <2>1 DEF Claim
<1>12. ASSUME NEW h \in Hosts, NEW next \in Executing, NEW after, Sound(after),
              Reports(h, next, after), agent[h].job \in Jobs
       PROVE AgentsSound'
    <2> DEFINE told == Hears(agent[h].heard, row[agent[h].job].cancel)
               heard == [agent[h] EXCEPT !.phase = next, !.heard = told]
    <2>0. told \in BOOLEAN
        BY DEF Hears
    <2>1. Sound(heard)
        <3> HIDE DEF told
        <3> QED BY <1>0, <1>12, <2>0 DEF Sound, Agent
    <2>2. agent' = [agent EXCEPT ![h] = heard] \/ agent' = [agent EXCEPT ![h] = after]
        BY <1>12 DEF Reports
    <2> QED BY <1>12, <2>1, <2>2, AgentWrites
<1>13. ASSUME NEW h \in Hosts, EncodeProgress(h) \/ ExecuteStep(h) PROVE AgentsSound'
    <2>1. agent[h].job \in Jobs
        BY <1>0, <1>13 DEF Sound, EncodeProgress, ExecuteStep, Start, Encode, BeginVerify,
           Verify, BeginReplace, Place, Submit, ReportFailure
    <2>2. CASE EncodeProgress(h) \/ Start(h) \/ BeginVerify(h) \/ BeginReplace(h)
        BY <1>3, <1>12, <2>1, <2>2
           DEF EncodeProgress, Start, BeginVerify, BeginReplace, Result
    <2>3. CASE Encode(h) \/ Verify(h)
        BY <1>2, <1>4, <2>1, <2>3 DEF Encode, Verify, Result
    <2>4. CASE Place(h)
        BY <1>3, <1>4, <2>1, <2>4, AgentWrites DEF Place, Result
    <2>5. CASE Submit(h)
        <3>1. Sound([agent[h] EXCEPT !.phase = "idle", !.job = NoJob, !.heard = FALSE,
                                     !.result = "none"])
            BY <1>0 DEF Sound, Agent
        <3> QED BY <1>2, <2>1, <2>5, <3>1, AgentWrites DEF Submit
    <2>6. CASE ReportFailure(h)
        BY <1>1, <2>6 DEF ReportFailure
    <2> QED BY <1>13, <2>2, <2>3, <2>4, <2>5, <2>6 DEF ExecuteStep
<1>14. ASSUME UNCHANGED agent PROVE AgentsSound'
    BY <1>14 DEF AgentsSound, Sound
<1>15. ASSUME NEW r \in Runs,
              \/ LocalClaim(r) \/ LocalProgress(r) \/ Break(r) \/ LocalRestart(r)
              \/ LoopStep(r)
       PROVE  UNCHANGED agent
    BY <1>15 DEF LocalClaim, LocalProgress, Break, LocalRestart, LoopStep, Activate, Launch,
       LocalEncode, LocalPlace, Close, Record
<1>16. ASSUME NEW j \in Jobs,
              \/ CancelQueued(j) \/ CancelRemote(j) \/ CancelLocal(j) \/ Silence(j)
              \/ Sweep(j)
       PROVE  UNCHANGED agent
    BY <1>16 DEF CancelQueued, CancelRemote, CancelLocal, Silence, Sweep
<1>17. ASSUME NEW w \in Keys,
              \/ SetEnabled(w) \/ SetDisabled(w) \/ HeartbeatAges(w) \/ Onboard(w)
              \/ Expire(w) \/ Delete(w)
       PROVE  UNCHANGED agent
    BY <1>17 DEF SetEnabled, SetDisabled, HeartbeatAges, Onboard, Expire, Delete
<1>18. ASSUME NEW c \in Loops, LoopCrash(c) PROVE UNCHANGED agent
    BY <1>18 DEF LoopCrash
<1>19. ASSUME NEW h \in Hosts, Crash(h) PROVE AgentsSound'
    BY <1>1, <1>19 DEF Crash
<1> QED
    BY <1>5, <1>6, <1>8, <1>9, <1>10, <1>11, <1>13, <1>14, <1>15, <1>16, <1>17, <1>18,
       <1>19 DEF Next, vars, Keys

\* What a step makes of the jobs table: one row is written, or the rows of a
\* worker lose it, and no row is queued again.
RowWrite(j, x) ==
    /\ x \in Row /\ (x.status = "pending" => row[j].status = "pending")
    /\ row' = [row EXCEPT ![j] = x]

RowsForward ==
    /\ RowsTyped'
    /\ \A j \in Jobs : row'[j].status = "pending" => row[j].status = "pending"

\* A write of one row (JobRepository).
LEMMA RowWrites ==
    ASSUME RowsTyped, NEW j \in Jobs, NEW x, RowWrite(j, x)
    PROVE  RowsForward
BY DEF RowsTyped, RowWrite, RowsForward

\* mark_result and mark_interrupted, progress, and the claim.
LEMMA RowFunctions ==
    ASSUME RowsTyped, NEW j \in Jobs
    PROVE  /\ \A s \in Final : RowEnded(j, s) => RowsForward
           /\ RowTouched(j) => RowsForward
           /\ \A w \in Keys : RowClaimed(w, j) => RowsForward /\ row'[j].status # "pending"
<1>1. ASSUME NEW s \in Final, RowEnded(j, s) PROVE RowsForward
    <2>1. RowWrite(j, [row[j] EXCEPT !.status = s, !.worker = NoWorker, !.contact = "fresh"])
        BY <1>1 DEF RowEnded, RowWrite, RowsTyped, Row, Final
    <2> QED BY <2>1, RowWrites
<1>2. ASSUME RowTouched(j) PROVE RowsForward
    <2>1. RowWrite(j, [row[j] EXCEPT !.contact = "fresh"])
        BY <1>2 DEF RowTouched, RowWrite, RowsTyped, Row
    <2> QED BY <2>1, RowWrites
<1>3. ASSUME NEW w \in Keys, RowClaimed(w, j) PROVE RowsForward /\ row'[j].status # "pending"
    <2>1. RowWrite(j, [row[j] EXCEPT !.status = "running", !.worker = w, !.contact = "fresh"])
        BY <1>3 DEF RowClaimed, RowWrite, RowsTyped, Row
    <2>2. row'[j].status = "running"
        BY <1>3 DEF RowClaimed, RowsTyped
    <2> QED BY <2>1, <2>2, RowWrites
<1> QED BY <1>1, <1>2, <1>3

\* No handler, run or sweep queues a row again: a retry is a new row.
LEMMA RowsKept ==
    ASSUME RowsTyped, AgentsSound, RunsSound, [Next]_vars
    PROVE  RowsForward
<1>0. /\ \A h \in Hosts : Sound(agent[h]) /\ KeyOf[h] \in Keys
      /\ \A r \in Runs : SoundRun(run[r])
      /\ Result \subseteq Final /\ Local \in Keys
    BY FleetAssumption DEF AgentsSound, RunsSound, Result, Final, Keys
<1>1. ASSUME UNCHANGED row PROVE RowsForward
    BY <1>1 DEF RowsForward, RowsTyped
<1>2. ASSUME NEW h \in Hosts, Claim(h) PROVE RowsForward
    BY <1>0, <1>1, <1>2, RowFunctions DEF Claim, Sound
<1>3. ASSUME NEW h \in Hosts, NEW next, NEW after, Reports(h, next, after), agent[h].job \in Jobs
      PROVE  RowsForward
    BY <1>1, <1>3, RowFunctions DEF Reports
<1>4. ASSUME NEW h \in Hosts, EncodeProgress(h) \/ ExecuteStep(h) PROVE RowsForward
    <2>1. agent[h].job \in Jobs
        BY <1>0, <1>4 DEF Sound, EncodeProgress, ExecuteStep, Start, Encode, BeginVerify,
           Verify, BeginReplace, Place, Submit, ReportFailure
    <2>2. CASE EncodeProgress(h) \/ Start(h) \/ BeginVerify(h) \/ BeginReplace(h)
        BY <1>3, <2>1, <2>2 DEF EncodeProgress, Start, BeginVerify, BeginReplace
    <2>3. CASE Encode(h) \/ Verify(h) \/ Place(h)
        BY <1>1, <2>3 DEF Encode, Verify, Place, Sends, server
    <2>4. CASE Submit(h)
        <3>1. Recorded(agent[h].job, agent[h].result) \in Final
            BY <1>0, <2>4 DEF Submit, Sound, Recorded, Final, Result
        <3> QED BY <1>1, <2>1, <2>4, <3>1, RowFunctions DEF Submit
    <2>5. CASE ReportFailure(h)
        BY <1>1, <2>1, <2>5, RowFunctions DEF ReportFailure, Final
    <2> QED BY <1>4, <2>2, <2>3, <2>4, <2>5 DEF ExecuteStep
<1>5. ASSUME NEW h \in Hosts,
             \/ Restart(h) \/ Crash(h) \/ ForgetPairing(h) \/ Register(h) \/ Beat(h) \/ Poll(h)
      PROVE  UNCHANGED row
    BY <1>5 DEF Restart, Crash, ForgetPairing, Register, Beat, Poll, server
<1>6. ASSUME NEW r \in Runs, LocalClaim(r) PROVE RowsForward
    BY <1>0, <1>6, RowFunctions DEF LocalClaim
<1>7. ASSUME NEW r \in Runs, LocalProgress(r) PROVE RowsForward
    BY <1>0, <1>7, RowFunctions DEF LocalProgress, SoundRun
<1>8. ASSUME NEW r \in Runs, Record(r) PROVE RowsForward
    BY <1>0, <1>8, RowFunctions DEF Record, SoundRun
<1>9. ASSUME NEW r \in Runs,
             \/ Break(r) \/ LocalRestart(r) \/ Activate(r) \/ Launch(r) \/ LocalEncode(r)
             \/ LocalPlace(r) \/ Close(r)
      PROVE  UNCHANGED row
    BY <1>9 DEF Break, LocalRestart, Activate, Launch, LocalEncode, LocalPlace, Close, server
<1>10. ASSUME NEW c \in Loops, LoopCrash(c) PROVE UNCHANGED row
    BY <1>10 DEF LoopCrash, server
<1>11. ASSUME NEW j \in Jobs, CancelQueued(j) PROVE RowsForward
    <2>1. RowWrite(j, [row[j] EXCEPT !.status = "cancelled", !.cancel = TRUE])
        BY <1>11 DEF CancelQueued, RowWrite, RowsTyped, Row, Final
    <2> QED BY <2>1, RowWrites
<1>12. ASSUME NEW j \in Jobs, CancelRemote(j) PROVE RowsForward
    <2>1. RowWrite(j, [row[j] EXCEPT !.cancel = TRUE, !.contact = "fresh"])
        BY <1>12 DEF CancelRemote, RowWrite, RowsTyped, Row
    <2> QED BY <2>1, RowWrites
<1>13. ASSUME NEW j \in Jobs, CancelLocal(j) PROVE RowsForward
    BY <1>1, <1>13, RowFunctions DEF CancelLocal
<1>14. ASSUME NEW j \in Jobs, Silence(j) PROVE RowsForward
    <2>1. RowWrite(j, [row[j] EXCEPT !.contact = "stale"])
        BY <1>14 DEF Silence, RowWrite, RowsTyped, Row
    <2> QED BY <2>1, RowWrites
<1>15. ASSUME NEW j \in Jobs, Sweep(j) PROVE RowsForward
    BY <1>15, RowFunctions DEF Sweep, Final
<1>16. ASSUME NEW w \in Keys, SetEnabled(w) \/ SetDisabled(w) \/ HeartbeatAges(w)
       PROVE  UNCHANGED row
    BY <1>16 DEF SetEnabled, SetDisabled, HeartbeatAges
<1>17. ASSUME NEW w \in Remote, Onboard(w) \/ Expire(w) PROVE UNCHANGED row
    BY <1>17 DEF Onboard, Expire
<1>18. ASSUME NEW w \in Remote, Delete(w) PROVE RowsForward
    BY <1>18 DEF Delete, RowsForward, RowsTyped, Row
<1>19. UNCHANGED vars => UNCHANGED row
    BY DEF vars
<1> QED
    BY <1>1, <1>2, <1>4, <1>5, <1>6, <1>7, <1>8, <1>9, <1>10, <1>11, <1>12, <1>13, <1>14,
       <1>15, <1>16, <1>17, <1>18, <1>19 DEF Next, LoopStep
-----------------------------------------------------------------------------
(* The control blocks.                                                      *)

\* No two runs have one job: a claim takes a queued row, and none is queued again.
OneRunPerJob ==
    /\ \A r \in Runs : run[r].job \in Jobs => row[run[r].job].status # "pending"
    /\ \A r, q \in Runs : run[r].job \in Jobs /\ run[r].job = run[q].job => r = q

\* A block that names a run's process has that run's job as its active one.
NamesItsJob(c, r) ==
    control[c].process = r =>
        /\ LoopOf[r] = c
        /\ control[c].active = run[r].job
        /\ run[r].phase \in {"encoding", "verifying", "closing"}

\* Cancellation of a terminated run's job stays recorded until the run closes.
KilledKnown(r) ==
    run[r].killed => run[r].phase = "encoding" /\ run[r].job \in Mine(r).ids

BlocksRight ==
    /\ \A c \in Loops, r \in Runs : NamesItsJob(c, r)
    /\ \A r \in Runs : KilledKnown(r)

LoopInv == RunsSound /\ ControlsTyped /\ OneRunPerJob /\ BlocksRight

\* Steps that are not the loops' leave them alone (cancel_job of a remote job,
\* the agents' calls, the sweep).
LEMMA LoopsRest ==
    ASSUME LoopInv, UNCHANGED locals, RowsForward
    PROVE  LoopInv'
BY DEF LoopInv, RunsSound, SoundRun, ControlsTyped, OneRunPerJob, BlocksRight, NamesItsJob,
   KilledKnown, Mine, locals, RowsForward

\* A run goes on with its job, or without one.
RunWrite(r, x) ==
    /\ SoundRun(x) /\ (x.job \in Jobs => x.job = run[r].job)
    /\ run' = [run EXCEPT ![r] = x]

\* A run that goes on shares its job with no other (run_once_with_summary).
LEMMA RunWrites ==
    ASSUME RunsSound, OneRunPerJob, RowsForward, NEW r \in Runs, NEW x, RunWrite(r, x)
    PROVE  RunsSound' /\ OneRunPerJob'
<1>1. RunsSound'
    BY DEF RunWrite, RunsSound, SoundRun
<1>2. \A q \in Runs : run'[q].job \in Jobs => run'[q].job = run[q].job
    BY DEF RunWrite, RunsSound
<1> QED BY <1>1, <1>2 DEF OneRunPerJob, RowsForward

\* What _set_active_job, _set_active_process, _clear_active_job and
\* request_cancel leave of a block.
LEMMA BlockFunctions ==
    ASSUME NEW c \in Control, NEW j \in Jobs, NEW r \in Runs
    PROVE  /\ SetActive(c, j) \in Control /\ SetProcess(c, j, r) \in Control
           /\ ClearActive(c, j) \in Control
           /\ SetActive(c, j).process = NoRun /\ SetActive(c, j).ids = c.ids
           /\ SetProcess(c, j, r).process = r /\ SetProcess(c, j, r).active = j
           /\ SetProcess(c, j, r).ids = c.ids
           /\ ClearActive(c, j).ids = c.ids \ {j}
           /\ ClearActive(c, j).process # NoRun =>
                 /\ ClearActive(c, j).process = c.process
                 /\ ClearActive(c, j).active = c.active
                 /\ c.active # j
BY ControlAssumption DEF Control, SetActive, SetProcess, ClearActive

\* A run that keeps or drops what it does while nobody holds its process.
LEMMA QuietWrites ==
    ASSUME LoopInv, RowsForward, NEW r \in Runs, NEW x, RunWrite(r, x), ~x.killed,
           UNCHANGED control,
           \/ run[r].phase \notin {"encoding", "verifying", "closing"}
           \/ /\ x.phase \in {"encoding", "verifying", "closing"}
              /\ x.job = run[r].job
    PROVE  LoopInv'
<1>1. RunsSound' /\ OneRunPerJob'
    BY RunWrites DEF LoopInv
<1>2. run'[r] = x /\ \A q \in Runs \ {r} : run'[q] = run[q]
    BY DEF LoopInv, RunsSound, RunWrite
<1>3. BlocksRight'
    BY <1>2 DEF LoopInv, BlocksRight, KilledKnown, NamesItsJob, Mine
<1> QED BY <1>1, <1>3 DEF LoopInv, ControlsTyped

\* The finally clause of a run forgets its own job only (_clear_active_job).
LEMMA ClearWrites ==
    ASSUME LoopInv, RowsForward, NEW r \in Runs, NEW x, RunWrite(r, x), ~x.killed,
           run[r].job \in Jobs, Control1(r, ClearActive(Mine(r), run[r].job))
    PROVE  LoopInv'
<1> USE FleetAssumption, ControlAssumption
<1>1. control' = [control EXCEPT ![LoopOf[r]] = ClearActive(Mine(r), run[r].job)]
    BY DEF Control1
<1>2. RunsSound' /\ OneRunPerJob'
    BY RunWrites DEF LoopInv
<1>3. Mine(r) \in Control
    BY DEF LoopInv, ControlsTyped, Mine
<1>4. ControlsTyped'
    BY <1>1, <1>3, BlockFunctions DEF LoopInv, ControlsTyped
<1>5. run'[r] = x /\ \A q \in Runs \ {r} : run'[q] = run[q] /\ run[q].job # run[r].job
    BY DEF LoopInv, OneRunPerJob, RunWrite, RunsSound
<1>6. ASSUME NEW c \in Loops, NEW q \in Runs PROVE NamesItsJob(c, q)'
    <2>1. NamesItsJob(c, q) /\ NamesItsJob(c, r)
        BY DEF LoopInv, BlocksRight
    <2>2. CASE c # LoopOf[r]
        BY <1>1, <1>5, <2>1, <2>2 DEF LoopInv, ControlsTyped, NamesItsJob
    <2>3. CASE c = LoopOf[r]
        <3>1. control'[c] = ClearActive(control[c], run[r].job)
            BY <1>1, <2>3 DEF LoopInv, ControlsTyped, Mine
        <3>2. control'[c].process = q =>
                 /\ control[c].process = q /\ control'[c].active = control[c].active
                 /\ control[c].active # run[r].job
            BY <1>3, <2>3, <3>1, BlockFunctions DEF Mine
        <3> QED BY <1>5, <2>1, <3>2 DEF NamesItsJob
    <2> QED BY <2>2, <2>3
<1>7. ASSUME NEW q \in Runs PROVE KilledKnown(q)'
    <2>1. CASE q = r
        BY <1>5, <2>1 DEF KilledKnown
    <2>2. CASE q # r
        <3>1. Mine(q)' = Mine(q) \/ Mine(q)' = ClearActive(Mine(q), run[r].job)
            BY <1>1 DEF LoopInv, ControlsTyped, Mine
        <3>2. Mine(q) \in Control
            BY DEF LoopInv, ControlsTyped, Mine
        <3>3. Mine(q).ids \ {run[r].job} \subseteq Mine(q)'.ids
            BY <3>1, <3>2, BlockFunctions
        <3> QED BY <1>5, <2>2, <3>3 DEF LoopInv, BlocksRight, KilledKnown
    <2> QED BY <2>1, <2>2
<1> QED BY <1>2, <1>4, <1>6, <1>7 DEF LoopInv, BlocksRight

\* Every step of a run, a death of a loop's process and a cancellation keep the
\* blocks right (LocalWorkerLoop).
LEMMA LoopsKept ==
    ASSUME LoopInv, RowsTyped, RowsForward, [Next]_vars
    PROVE  LoopInv'
<1> USE FleetAssumption, ControlAssumption
<1>0. /\ \A r \in Runs : SoundRun(run[r]) /\ KilledKnown(r) /\ Mine(r) \in Control
      /\ \A c \in Loops, r \in Runs : NamesItsJob(c, r)
    BY DEF LoopInv, RunsSound, ControlsTyped, BlocksRight, Mine
<1>1. ASSUME NEW r \in Runs, LocalClaim(r) PROVE LoopInv'
    <2>1. PICK j \in Jobs :
             /\ Claimable(Local, j) /\ RowClaimed(Local, j)
             /\ run' = [run EXCEPT ![r] = [run[r] EXCEPT !.phase = "claimed", !.job = j]]
        BY <1>1 DEF LocalClaim
    <2>2. row[j].status = "pending" /\ row'[j].status = "running"
        BY <2>1 DEF Claimable, RowClaimed, RowsTyped
    <2>3. SoundRun([run[r] EXCEPT !.phase = "claimed", !.job = j])
        BY <1>0 DEF SoundRun, Run, RunPhase
    <2>4. RunsSound'
        BY <2>1, <2>3 DEF LoopInv, RunsSound, SoundRun
    <2>5. /\ \A q \in Runs \ {r} : run'[q] = run[q] /\ run[q].job # j
          /\ run'[r].job = j /\ run'[r].killed = run[r].killed
        BY <1>0, <2>1, <2>2 DEF LoopInv, OneRunPerJob, RunsSound, SoundRun, Run
    <2>6. OneRunPerJob'
        BY <2>2, <2>5 DEF LoopInv, OneRunPerJob, RowsForward
    <2>7. ~run[r].killed /\ \A c \in Loops : control[c].process # r
        BY <1>0, <1>1 DEF LocalClaim, KilledKnown, NamesItsJob
    <2>8. BlocksRight'
        BY <1>0, <1>1, <2>5, <2>7 DEF LocalClaim, BlocksRight, KilledKnown, NamesItsJob, Mine
    <2> QED BY <1>1, <2>4, <2>6, <2>8 DEF LoopInv, LocalClaim, ControlsTyped
<1>2. ASSUME NEW r \in Runs, Activate(r) PROVE LoopInv'
    <2>1. /\ run[r].phase = "claimed" /\ run[r].job \in Jobs
          /\ control' = [control EXCEPT ![LoopOf[r]] = SetActive(Mine(r), run[r].job)]
        BY <1>0, <1>2 DEF Activate, Control1, SoundRun
    <2>2. RunWrite(r, [run[r] EXCEPT !.phase = "active"])
        BY <1>0, <1>2 DEF Activate, RunGoes, SoundRun, Run, RunPhase, RunWrite
    <2>3. RunsSound' /\ OneRunPerJob'
        BY <2>2, RunWrites DEF LoopInv
    <2>4. ControlsTyped'
        BY <1>0, <2>1, BlockFunctions DEF LoopInv, ControlsTyped
    <2>5. /\ \A q \in Runs \ {r} : run'[q] = run[q]
          /\ run'[r].killed = run[r].killed /\ ~run[r].killed
        BY <1>0, <2>1, <2>2 DEF RunWrite, LoopInv, RunsSound, SoundRun, Run, KilledKnown
    <2>6. ASSUME NEW c \in Loops
          PROVE  /\ control'[c].ids = control[c].ids
                 /\ control'[c] = control[c] \/ control'[c].process = NoRun
                 /\ control[c].process # r
        BY <1>0, <2>1, BlockFunctions DEF LoopInv, ControlsTyped, NamesItsJob, Mine
    <2>7. BlocksRight'
        BY <1>0, <2>5, <2>6 DEF BlocksRight, KilledKnown, NamesItsJob, Mine
    <2> QED BY <2>3, <2>4, <2>7 DEF LoopInv
<1>3. ASSUME NEW r \in Runs, Launch(r) PROVE LoopInv'
    <2> DEFINE killed == run[r].job \in Mine(r).ids
               x == [run[r] EXCEPT !.phase = "encoding", !.killed = killed]
    <2>1. /\ run[r].phase = "active" /\ run[r].job \in Jobs /\ run' = [run EXCEPT ![r] = x]
          /\ control' = [control EXCEPT ![LoopOf[r]] = SetProcess(Mine(r), run[r].job, r)]
        BY <1>0, <1>3 DEF Launch, Control1, SoundRun
    <2>2. killed \in BOOLEAN
        OBVIOUS
    <2>3. x.phase = "encoding" /\ x.job = run[r].job /\ (x.killed <=> killed) /\ SoundRun(x)
        <3> HIDE DEF killed
        <3> QED BY <1>0, <2>1, <2>2 DEF SoundRun, Run, RunPhase
    <2>4. RunsSound' /\ OneRunPerJob'
        BY <2>1, <2>3, RunWrites DEF LoopInv, RunWrite
    <2>5. ControlsTyped'
        BY <1>0, <2>1, BlockFunctions DEF LoopInv, ControlsTyped
    <2>6. run'[r] = x /\ \A q \in Runs \ {r} : run'[q] = run[q]
        BY <2>1 DEF LoopInv, RunsSound
    <2>7. ASSUME NEW c \in Loops
          PROVE  /\ control'[c].ids = control[c].ids /\ control[c].process # r
                 /\ \/ control'[c] = control[c]
                    \/ /\ c = LoopOf[r] /\ control'[c].process = r
                       /\ control'[c].active = run[r].job
        <3>1. NamesItsJob(c, r)
            BY <1>0
        <3>2. control[c].process # r
            BY <2>1, <3>1 DEF NamesItsJob
        <3>3. CASE c # LoopOf[r]
            BY <2>1, <3>2, <3>3 DEF LoopInv, ControlsTyped
        <3>4. CASE c = LoopOf[r]
            <4>1. control'[c] = SetProcess(Mine(r), run[r].job, r) /\ Mine(r) = control[c]
                BY <2>1, <3>4 DEF LoopInv, ControlsTyped, Mine
            <4> QED BY <1>0, <2>1, <3>2, <3>4, <4>1, BlockFunctions
        <3> QED BY <3>3, <3>4
    <2>8. ASSUME NEW c \in Loops, NEW q \in Runs PROVE NamesItsJob(c, q)'
        <3> HIDE DEF x
        <3> QED BY <1>0, <2>3, <2>6, <2>7 DEF NamesItsJob
    <2>9. ASSUME NEW q \in Runs PROVE KilledKnown(q)'
        <3>1. Mine(q)'.ids = Mine(q).ids
            BY <2>7 DEF Mine
        <3>2. CASE q = r
            <4> HIDE DEF x
            <4> QED BY <2>3, <2>6, <3>1, <3>2 DEF KilledKnown
        <3>3. CASE q # r
            BY <1>0, <2>6, <3>1, <3>3 DEF KilledKnown
        <3> QED BY <3>2, <3>3
    <2> QED BY <2>4, <2>5, <2>8, <2>9 DEF LoopInv, BlocksRight
<1>4. ASSUME NEW r \in Runs, NEW result \in Result, RunEnds(r, result), UNCHANGED control,
             run[r].phase \in {"encoding", "verifying"}
      PROVE  LoopInv'
    <2> DEFINE x == [run[r] EXCEPT !.phase = "closing", !.result = result, !.killed = FALSE]
    <2>1. RunWrite(r, x) /\ ~x.killed /\ x.phase = "closing" /\ x.job = run[r].job
        BY <1>0, <1>4 DEF RunEnds, SoundRun, Run, RunPhase, RunWrite
    <2> HIDE DEF x
    <2> QED BY <1>4, <2>1, QuietWrites
<1>5. ASSUME NEW r \in Runs, LocalEncode(r) PROVE LoopInv'
    <2>1. CASE \E result \in Result : RunEnds(r, result)
        BY <1>4, <1>5, <2>1 DEF LocalEncode
    <2>2. CASE ~run[r].killed /\ RunGoes(r, "verifying")
        <3> DEFINE x == [run[r] EXCEPT !.phase = "verifying"]
        <3>1. RunWrite(r, x) /\ ~x.killed /\ x.phase = "verifying" /\ x.job = run[r].job
            BY <1>0, <1>5, <2>2
               DEF LocalEncode, RunGoes, SoundRun, Run, RunPhase, RunWrite
        <3> HIDE DEF x
        <3> QED BY <1>5, <3>1, QuietWrites DEF LocalEncode
    <2> QED BY <1>5, <2>1, <2>2 DEF LocalEncode, Result
<1>6. ASSUME NEW r \in Runs, LocalPlace(r) PROVE LoopInv'
    BY <1>4, <1>6 DEF LocalPlace, Result
<1>7. ASSUME NEW r \in Runs, Close(r) PROVE LoopInv'
    <2> DEFINE x == [run[r] EXCEPT !.phase = "recording"]
    <2>1. RunWrite(r, x) /\ ~x.killed
        BY <1>0, <1>7 DEF Close, RunGoes, SoundRun, Run, RunPhase, RunWrite, KilledKnown
    <2>2. run[r].job \in Jobs /\ Control1(r, ClearActive(Mine(r), run[r].job))
        BY <1>0, <1>7 DEF Close, SoundRun
    <2> HIDE DEF x
    <2> QED BY <2>1, <2>2, ClearWrites
<1>8. ASSUME NEW r \in Runs, Record(r) PROVE LoopInv'
    <2>1. RunWrite(r, Blank("idle")) /\ ~Blank("idle").killed
        BY <1>8 DEF Record, SoundRun, Run, RunPhase, RunWrite, Blank
    <2> QED BY <1>8, <2>1, QuietWrites DEF Record
<1>9. ASSUME NEW r \in Runs, Break(r) PROVE LoopInv'
    <2>1. RunWrite(r, Blank("down")) /\ ~Blank("down").killed
        BY <1>9 DEF Break, SoundRun, Run, RunPhase, RunWrite, Blank
    <2>2. run[r].job \in Jobs /\ Control1(r, ClearActive(Mine(r), run[r].job))
        BY <1>0, <1>9 DEF Break, SoundRun
    <2> QED BY <2>1, <2>2, ClearWrites
<1>10. ASSUME NEW r \in Runs, LocalRestart(r) PROVE LoopInv'
    <2> DEFINE x == [run[r] EXCEPT !.phase = "idle"]
    <2>1. RunWrite(r, x) /\ ~x.killed
        BY <1>0, <1>10 DEF LocalRestart, RunGoes, SoundRun, Run, RunPhase, RunWrite, KilledKnown
    <2> HIDE DEF x
    <2> QED BY <1>10, <2>1, QuietWrites DEF LocalRestart
<1>11. ASSUME NEW c \in Loops, LoopCrash(c) PROVE LoopInv'
    <2>1. \A q \in Runs : run'[q] = run[q] \/ run'[q] = Blank("down")
        BY <1>11 DEF LoopCrash
    <2>2. SoundRun(Blank("down"))
        BY DEF SoundRun, Blank, Run, RunPhase
    <2>3. RunsSound'
        BY <1>0, <1>11, <2>1, <2>2 DEF LoopCrash, LoopInv, RunsSound, SoundRun
    <2>4. OneRunPerJob'
        BY <2>1 DEF LoopInv, OneRunPerJob, RowsForward, Blank
    <2>5. ControlsTyped'
        BY <1>11 DEF LoopCrash, LoopInv, ControlsTyped, Quiet, Control
    <2>6. \A q \in Runs : IF LoopOf[q] = c THEN ~run'[q].killed
                                          ELSE run'[q] = run[q] /\ Mine(q)' = Mine(q)
        BY <1>0, <1>11 DEF LoopCrash, Blank, KilledKnown, Mine, LoopInv, ControlsTyped
    <2>7. \A d \in Loops : IF d = c THEN control'[d].process = NoRun
                                    ELSE control'[d] = control[d]
        BY <1>11 DEF LoopCrash, LoopInv, ControlsTyped, Quiet
    <2>8. BlocksRight'
        BY <1>0, <2>6, <2>7 DEF BlocksRight, KilledKnown, NamesItsJob
    <2> QED BY <2>3, <2>4, <2>5, <2>8 DEF LoopInv
<1>12. ASSUME NEW j \in Jobs, CancelLocal(j) PROVE LoopInv'
    <2>1. control' = [control EXCEPT ![Api] = [control[Api] EXCEPT !.ids = control[Api].ids \cup {j}]]
        BY <1>12 DEF CancelLocal, Requested
    <2>2. \A q \in Runs : \/ run'[q] = run[q]
                          \/ /\ q \in Stopped(j) /\ run[q].phase = "encoding"
                             /\ run'[q] = [run[q] EXCEPT !.killed = TRUE]
        BY <1>12 DEF CancelLocal
    <2>3. \A q \in Runs : /\ run'[q].job = run[q].job /\ run'[q].phase = run[q].phase
                          /\ SoundRun(run'[q])
        <3> SUFFICES ASSUME NEW q \in Runs, run'[q] = [run[q] EXCEPT !.killed = TRUE]
                     PROVE  /\ run'[q].job = run[q].job /\ run'[q].phase = run[q].phase
                            /\ SoundRun(run'[q])
            BY <1>0, <2>2
        <3>1. SoundRun(run[q])
            BY <1>0
        <3> QED BY <3>1 DEF SoundRun, Run
    <2>4. RunsSound'
        BY <1>12, <2>3 DEF CancelLocal, RunsSound, SoundRun
    <2>5. OneRunPerJob'
        BY <2>3 DEF LoopInv, OneRunPerJob, RowsForward
    <2>6. ControlsTyped'
        BY <2>1 DEF LoopInv, ControlsTyped, Control
    <2>7. /\ \A c \in Loops : /\ control'[c].process = control[c].process
                              /\ control'[c].active = control[c].active
                              /\ control[c].ids \subseteq control'[c].ids
          /\ j \in control'[Api].ids
        BY <2>1 DEF LoopInv, ControlsTyped, Control
    <2>8. ASSUME NEW q \in Runs PROVE KilledKnown(q)'
        <3>1. CASE run'[q] = run[q]
            BY <1>0, <2>7, <3>1 DEF KilledKnown, Mine
        <3>2. CASE q \in Stopped(j) /\ run[q].phase = "encoding"
            <4>1. LoopOf[q] = Api /\ run[q].job = j
                BY <1>0, <3>2 DEF Stopped, Accepts, NamesItsJob
            <4> QED BY <2>3, <2>7, <3>2, <4>1 DEF KilledKnown, Mine
        <3> QED BY <2>2, <3>1, <3>2
    <2>9. ASSUME NEW c \in Loops, NEW q \in Runs PROVE NamesItsJob(c, q)'
        BY <1>0, <2>3, <2>7 DEF NamesItsJob
    <2> QED BY <2>4, <2>5, <2>6, <2>8, <2>9 DEF LoopInv, BlocksRight
<1>13. ASSUME NEW h \in Hosts,
              \/ Restart(h) \/ Crash(h) \/ ForgetPairing(h) \/ Register(h) \/ Beat(h)
              \/ Poll(h) \/ Claim(h) \/ EncodeProgress(h) \/ ExecuteStep(h)
       PROVE  UNCHANGED locals
    BY <1>13 DEF Restart, Crash, ForgetPairing, Register, Beat, Poll, Claim, EncodeProgress,
       ExecuteStep, Start, Encode, BeginVerify, Verify, BeginReplace, Place, Submit,
       ReportFailure, Reports, Sends
<1>14. ASSUME NEW j \in Jobs,
              CancelQueued(j) \/ CancelRemote(j) \/ Silence(j) \/ Sweep(j)
       PROVE  UNCHANGED locals
    BY <1>14 DEF CancelQueued, CancelRemote, Silence, Sweep
<1>15. ASSUME NEW w \in Keys,
              \/ SetEnabled(w) \/ SetDisabled(w) \/ HeartbeatAges(w) \/ Onboard(w)
              \/ Expire(w) \/ Delete(w)
       PROVE  UNCHANGED locals
    BY <1>15 DEF SetEnabled, SetDisabled, HeartbeatAges, Onboard, Expire, Delete
<1>16. ASSUME NEW r \in Runs, LocalProgress(r) PROVE UNCHANGED locals
    BY <1>16 DEF LocalProgress
<1>17. UNCHANGED vars => UNCHANGED locals
    BY DEF vars, locals
<1> QED
    BY <1>1, <1>2, <1>3, <1>5, <1>6, <1>7, <1>8, <1>9, <1>10, <1>11, <1>12, <1>13, <1>14,
       <1>15, <1>16, <1>17, LoopsRest DEF Next, LoopStep, Keys

-----------------------------------------------------------------------------
MediaTyped == media \in [Jobs -> {"original", "replaced"}]

FleetInv == RegInv /\ RowsTyped /\ AgentsSound /\ LoopInv /\ MediaTyped

\* Nothing runs and no process is held before the first step.
LEMMA FleetStarts == Init => FleetInv
<1> SUFFICES ASSUME Init PROVE FleetInv
    OBVIOUS
<1> USE FleetAssumption, ControlAssumption
<1>1. RegInv
    BY TableStarts
<1>2. RowsTyped
    <2> DEFINE First == {[status |-> s, worker |-> NoWorker, cancel |-> FALSE,
                          contact |-> "fresh"] : s \in {"none", "pending"}}
    <2>1. ASSUME NEW s \in {"none", "pending"}
          PROVE  [status |-> s, worker |-> NoWorker, cancel |-> FALSE, contact |-> "fresh"]
                 \in Row
        BY DEF Row
    <2>2. First \subseteq Row
        BY <2>1
    <2>3. row \in [Jobs -> First]
        BY DEF Init
    <2> HIDE DEF First
    <2> QED BY <2>2, <2>3 DEF RowsTyped
<1>3. MediaTyped
    BY DEF Init, MediaTyped
<1>4. AgentsSound
    BY DEF Init, AgentsSound, Sound, Agent, AgentPhase, Installed
<1>5. RunsSound
    BY DEF Init, RunsSound, SoundRun, Run, RunPhase, Blank
<1>6. ControlsTyped /\ OneRunPerJob /\ BlocksRight
    BY DEF Init, ControlsTyped, Control, Quiet, Blank, OneRunPerJob, BlocksRight,
       NamesItsJob, KilledKnown
<1> QED BY <1>1, <1>2, <1>3, <1>4, <1>5, <1>6 DEF FleetInv, LoopInv

\* Only a placement changes the media, to "replaced" (place_verified_output).
LEMMA MediaKept == MediaTyped /\ [Next]_vars => MediaTyped'
<1> SUFFICES ASSUME MediaTyped, [Next]_vars PROVE MediaTyped'
    OBVIOUS
<1>1. ASSUME NEW h \in Hosts,
             \/ Restart(h) \/ Crash(h) \/ ForgetPairing(h) \/ Register(h) \/ Beat(h)
             \/ Poll(h) \/ Claim(h) \/ EncodeProgress(h) \/ ExecuteStep(h)
      PROVE  UNCHANGED media \/ media' = [media EXCEPT ![agent[h].job] = "replaced"]
    BY <1>1 DEF Restart, Crash, ForgetPairing, Register, Beat, Poll, Claim, EncodeProgress,
       ExecuteStep, Start, Encode, BeginVerify, Verify, BeginReplace, Place, Submit,
       ReportFailure, Reports, Sends
<1>2. ASSUME NEW r \in Runs,
             \/ LocalClaim(r) \/ LocalProgress(r) \/ Break(r) \/ LocalRestart(r)
             \/ LoopStep(r)
      PROVE  UNCHANGED media \/ media' = [media EXCEPT ![run[r].job] = "replaced"]
    BY <1>2 DEF LocalClaim, LocalProgress, Break, LocalRestart, LoopStep, Activate, Launch,
       LocalEncode, LocalPlace, Close, Record
<1>3. ASSUME NEW j \in Jobs,
             \/ CancelQueued(j) \/ CancelRemote(j) \/ CancelLocal(j) \/ Silence(j)
             \/ Sweep(j)
      PROVE  UNCHANGED media
    BY <1>3 DEF CancelQueued, CancelRemote, CancelLocal, Silence, Sweep
<1>4. ASSUME NEW w \in Keys,
             \/ SetEnabled(w) \/ SetDisabled(w) \/ HeartbeatAges(w) \/ Onboard(w)
             \/ Expire(w) \/ Delete(w)
      PROVE  UNCHANGED media
    BY <1>4 DEF SetEnabled, SetDisabled, HeartbeatAges, Onboard, Expire, Delete
<1>5. ASSUME NEW c \in Loops, LoopCrash(c) PROVE UNCHANGED media
    BY <1>5 DEF LoopCrash
<1>6. \/ UNCHANGED media
      \/ \E j : media' = [media EXCEPT ![j] = "replaced"]
    BY <1>1, <1>2, <1>3, <1>4, <1>5 DEF Next, vars, Keys
<1> QED BY <1>6 DEF MediaTyped

\* Every step keeps all of it.
LEMMA FleetKept == FleetInv /\ [Next]_vars => FleetInv'
<1> SUFFICES ASSUME FleetInv, [Next]_vars PROVE FleetInv'
    OBVIOUS
<1>1. RegInv' /\ AgentsSound' /\ MediaTyped'
    BY TableKept, AgentsKept, MediaKept DEF FleetInv
<1>2. RowsForward
    BY RowsKept DEF FleetInv, LoopInv
<1>3. LoopInv'
    BY <1>2, LoopsKept DEF FleetInv
<1> QED BY <1>1, <1>2, <1>3 DEF FleetInv, RowsForward

\* Every row, process and block keeps its type, for any machines, loops and jobs
\* and whatever calls are lost.
THEOREM TypeCorrect == Spec => []TypeOK
<1>1. FleetInv => TypeOK
    BY DEF FleetInv, RegInv, RowsTyped, AgentsSound, LoopInv, RunsSound, ControlsTyped,
       MediaTyped, TypeOK
<1> QED BY <1>1, FleetStarts, FleetKept, PTL DEF Spec

\* An ffmpeg that was terminated ran for a job whose cancellation was requested,
\* for any number of loops, runs and jobs (request_cancel, _set_active_process,
\* _clear_active_job).
THEOREM StopsOnlyItsOwn == Spec => []StopsOwnProcess
<1>1. FleetInv => StopsOwnProcess
    BY DEF FleetInv, LoopInv, BlocksRight, KilledKnown, StopsOwnProcess
<1> QED BY <1>1, FleetStarts, FleetKept, PTL DEF Spec

-----------------------------------------------------------------------------
(* Tokens.                                                                 *)

\* A worker that can still be paired has no token yet, nor has one whose row
\* was never inserted.
Unpaired(x) == x.pairing = "open" \/ x.life = "none" => x.token = NoHost
TokenInv == \A w \in Keys : Unpaired(reg[w])

\* What the functions of WorkerRepository make of the token of a row.
LEMMA TokenFunctions ==
    ASSUME NEW w \in Worker, Unpaired(w)
    PROVE  /\ AuthFailed(w).token = w.token /\ Unpaired(AuthFailed(w))
           /\ \A health : Beaten(w, health).token = w.token /\ Unpaired(Beaten(w, health))
           /\ \A local : Enabled(w, local).token = w.token /\ Unpaired(Enabled(w, local))
           /\ Disabled(w).token = w.token /\ Unpaired(Disabled(w))
           /\ \A h, health : Unpaired(Registered(w, h, health))
BY DEF AuthFailed, Beaten, Enabled, Disabled, Registered, Unpaired, Worker

\* A row is rewritten with its token, or an agent registers for it, or it is
\* new, or deleted.
TokenStep(w) ==
    \/ reg'[w].token = reg[w].token
    \/ reg[w].life = "none"
    \/ reg'[w].life = "deleted"
    \/ \E h \in Hosts : /\ KeyOf[h] = w /\ agent'[h] # agent[h]
                        /\ IF agent[h].pair = "none" THEN agent[h].secret
                                                     ELSE reg[w].pairing = "open"

\* Every write of a row is a token step and leaves it unpaired or not.
LEMMA TokensKept ==
    ASSUME FleetInv, TokenInv, [Next]_vars
    PROVE  TokenInv' /\ \A w \in Keys : TokenStep(w)
<1>0. /\ reg \in [Keys -> Worker] /\ agent \in [Hosts -> Agent]
      /\ \A w \in Keys : reg[w] \in Worker /\ Unpaired(reg[w])
      /\ \A h \in Hosts : KeyOf[h] \in Keys
      /\ Remote \subseteq Keys
    BY FleetAssumption DEF FleetInv, RegInv, AgentsSound, TokenInv, Keys
<1>1. ASSUME UNCHANGED reg
      PROVE  TokenInv' /\ \A w \in Keys : TokenStep(w)
    BY <1>1 DEF TokenInv, TokenStep, Unpaired
<1>2. ASSUME NEW w \in Keys, NEW x, reg' = [reg EXCEPT ![w] = x], Unpaired(x), TokenStep(w)
      PROVE  TokenInv' /\ \A v \in Keys : TokenStep(v)
    <2>1. reg'[w] = x /\ \A v \in Keys : v # w => reg'[v] = reg[v]
        BY <1>0, <1>2
    <2>2. TokenInv'
        BY <1>0, <1>2, <2>1 DEF TokenInv, Unpaired
    <2> QED BY <1>2, <2>1, <2>2 DEF TokenStep
<1>3. ASSUME NEW w \in Keys, NEW x, reg' = [reg EXCEPT ![w] = x], Unpaired(x),
             x.token = reg[w].token
      PROVE  TokenInv' /\ \A v \in Keys : TokenStep(v)
    <2>1. TokenStep(w)
        BY <1>0, <1>3 DEF TokenStep
    <2> QED BY <1>2, <1>3, <2>1
<1>4. ASSUME NEW h \in Hosts, Register(h)
      PROVE  TokenInv' /\ \A w \in Keys : TokenStep(w)
    <2> DEFINE w == KeyOf[h]
    <2>1. CASE reg' = [reg EXCEPT ![w] = AuthFailed(reg[w])]
        BY <1>0, <1>3, <2>1, TokenFunctions
    <2>2. ASSUME NEW x, NEW health, reg' = [reg EXCEPT ![w] = Registered(reg[w], x, health)],
                 IF agent[h].pair = "none" THEN agent[h].secret ELSE reg[w].pairing = "open",
                 agent'[h] # agent[h]
          PROVE  TokenInv' /\ \A v \in Keys : TokenStep(v)
        <3>1. TokenStep(w)
            BY <2>2 DEF TokenStep
        <3>2. Unpaired(Registered(reg[w], x, health))
            BY <1>0, TokenFunctions
        <3> QED BY <1>0, <1>2, <2>2, <3>1, <3>2
    <2>3. ASSUME Stops(h) PROVE agent'[h] # agent[h]
        <3>1. agent'[h].phase = "down"
            BY <1>0, <2>3 DEF Stops, Agent
        <3> QED BY <1>4, <3>1 DEF Register
    <2>4. ASSUME NEW pair, agent' = [agent EXCEPT ![h] = [@ EXCEPT !.stored = TRUE, !.pair = pair]]
          PROVE  agent'[h] # agent[h]
        <3>1. agent'[h].stored = TRUE
            BY <1>0, <2>4 DEF Agent
        <3> QED BY <1>4, <3>1 DEF Register
    <2>5. \/ UNCHANGED reg
          \/ reg' = [reg EXCEPT ![w] = AuthFailed(reg[w])]
          \/ /\ IF agent[h].pair = "none" THEN agent[h].secret ELSE reg[w].pairing = "open"
             /\ \E x, health : reg' = [reg EXCEPT ![w] = Registered(reg[w], x, health)]
             /\ \/ Stops(h)
                \/ \E pair : agent' = [agent EXCEPT ![h] = [@ EXCEPT !.stored = TRUE, !.pair = pair]]
        BY <1>4 DEF Register
    <2> QED BY <1>1, <2>1, <2>2, <2>3, <2>4, <2>5
<1>5. ASSUME NEW h \in Hosts, Beat(h)
      PROVE  TokenInv' /\ \A w \in Keys : TokenStep(w)
    <2>1. \/ UNCHANGED reg
          \/ \E health : reg' = [reg EXCEPT ![KeyOf[h]] = Beaten(reg[KeyOf[h]], health)]
        BY <1>5 DEF Beat
    <2> QED BY <1>0, <1>1, <1>3, <2>1, TokenFunctions
<1>6. ASSUME NEW w \in Remote, Onboard(w)
      PROVE  TokenInv' /\ \A v \in Keys : TokenStep(v)
    <2>1. Unpaired(Pending) /\ TokenStep(w)
        BY <1>6 DEF Onboard, TokenStep, Unpaired, Pending, NeverSeen
    <2> QED BY <1>0, <1>2, <1>6, <2>1 DEF Onboard
<1>7. ASSUME NEW w \in Remote, Delete(w)
      PROVE  TokenInv' /\ \A v \in Keys : TokenStep(v)
    <2>1. Unpaired(Deleted) /\ Deleted.life = "deleted"
        BY DEF Unpaired, Deleted, NeverSeen
    <2>2. reg' = [reg EXCEPT ![w] = Deleted] /\ reg'[w] = Deleted
        BY <1>0, <1>7 DEF Delete
    <2>3. TokenStep(w)
        BY <2>1, <2>2 DEF TokenStep
    <2> QED BY <1>0, <1>2, <2>1, <2>2, <2>3
<1>8. ASSUME NEW w \in Keys, NEW x, reg' = [reg EXCEPT ![w] = x],
             \/ reg[w].pairing = "open" /\ x = [reg[w] EXCEPT !.pairing = "expired"]
             \/ reg[w].beat = "fresh" /\ x = [reg[w] EXCEPT !.beat = "old"]
      PROVE  TokenInv' /\ \A v \in Keys : TokenStep(v)
    <2>1. x.token = reg[w].token /\ Unpaired(x)
        BY <1>0, <1>8 DEF Worker, Unpaired
    <2> QED BY <1>3, <1>8, <2>1
<1>9. ASSUME NEW w \in Remote, Expire(w)
      PROVE  TokenInv' /\ \A v \in Keys : TokenStep(v)
    BY <1>0, <1>8, <1>9 DEF Expire
<1>10. ASSUME NEW w \in Keys, HeartbeatAges(w)
      PROVE  TokenInv' /\ \A v \in Keys : TokenStep(v)
    BY <1>0, <1>8, <1>10 DEF HeartbeatAges
<1>11. ASSUME NEW w \in Keys, SetEnabled(w) \/ SetDisabled(w)
       PROVE  TokenInv' /\ \A v \in Keys : TokenStep(v)
    BY <1>0, <1>3, <1>11, TokenFunctions DEF SetEnabled, SetDisabled
<1>12. ASSUME NEW h \in Hosts,
              \/ Restart(h) \/ Crash(h) \/ ForgetPairing(h) \/ Poll(h) \/ Claim(h)
              \/ EncodeProgress(h) \/ ExecuteStep(h)
       PROVE  UNCHANGED reg
    BY <1>12 DEF Restart, Crash, ForgetPairing, Poll, Claim, EncodeProgress, ExecuteStep,
       Start, Encode, BeginVerify, Verify, BeginReplace, Place, Submit, ReportFailure,
       Reports, Sends, server
<1>13. ASSUME NEW r \in Runs,
              \/ LocalClaim(r) \/ LocalProgress(r) \/ Break(r) \/ LocalRestart(r)
              \/ LoopStep(r)
       PROVE  UNCHANGED reg
    BY <1>13 DEF LocalClaim, LocalProgress, Break, LocalRestart, LoopStep, Activate, Launch,
       LocalEncode, LocalPlace, Close, Record, server
<1>14. ASSUME \/ \E c \in Loops : LoopCrash(c)
              \/ \E j \in Jobs : \/ CancelQueued(j) \/ CancelRemote(j) \/ CancelLocal(j)
                                 \/ Silence(j) \/ Sweep(j)
              \/ UNCHANGED vars
       PROVE  UNCHANGED reg
    BY <1>14 DEF LoopCrash, CancelQueued, CancelRemote, CancelLocal, Silence, Sweep, server, vars
<1> QED
    BY <1>1, <1>4, <1>5, <1>6, <1>7, <1>9, <1>10, <1>11, <1>12, <1>13, <1>14 DEF Next

\* What PairedOnce says of one step.
Once ==
    \A w \in Remote :
        reg[w].token # NoHost /\ reg'[w].token # reg[w].token
        => \/ reg'[w].life = "deleted"
           \/ \E h \in Hosts : /\ KeyOf[h] = w /\ agent[h].secret
                               /\ agent'[h] # agent[h]

\* A pairing token is good for one registration (PairedOnce), for any workers
\* and machines: a token, once issued, is replaced by a registration with the
\* secret or goes with its row (register_worker, register_remote_worker).
THEOREM PairsOnce == Spec => PairedOnce
<1>1. Init => TokenInv
    BY DEF Init, TokenInv, Unpaired, LocalWorker, Deleted, NeverSeen
<1>2. FleetInv /\ TokenInv /\ [Next]_vars => TokenInv'
    BY TokensKept
<1>3. FleetInv /\ TokenInv /\ [Next]_vars => Once
    <2> SUFFICES ASSUME FleetInv, TokenInv, [Next]_vars, NEW w \in Remote,
                        reg[w].token # NoHost, reg'[w].token # reg[w].token
                 PROVE  \/ reg'[w].life = "deleted"
                        \/ \E h \in Hosts : /\ KeyOf[h] = w /\ agent[h].secret
                                            /\ agent'[h] # agent[h]
        BY DEF Once
    <2>1. w \in Keys
        BY DEF Keys
    <2>2. reg[w].life # "none" /\ reg[w].pairing # "open"
        BY <2>1 DEF TokenInv, Unpaired
    <2>3. TokenStep(w)
        BY <2>1, TokensKept
    <2> QED BY <2>2, <2>3 DEF TokenStep
<1>4. FleetInv /\ TokenInv /\ [Next]_vars => [Once]_vars
    BY <1>3
<1> QED BY <1>1, <1>2, <1>4, FleetStarts, FleetKept, PTL DEF Spec, PairedOnce, Once

-----------------------------------------------------------------------------
(* Who executes a job.                                                     *)

Busy(h, j) == agent[h].job = j /\ agent[h].phase \in Executing
EarlyRun == {"claimed", "active", "encoding"}
Over == {"closing", "recording"}

\* What a step makes of a row: no row is queued again, an ended one stays
\* ended and a cancellation that was recorded stays recorded.
RowStep(j) ==
    /\ row'[j].status \in {"none", "pending"} => row[j].status \in {"none", "pending"}
    /\ row[j].status \in Final => row'[j].status \in Final
    /\ row[j].cancel => row'[j].cancel

\* A claim is granted for a queued row.
Granted(j) == row[j].status = "pending" /\ row'[j].status = "running"

\* The answer to a progress report reaches the agent.
Told(h, j) ==
    /\ Busy(h, j) /\ Holds(KeyOf[h], j)
    /\ agent'[h].heard = (agent[h].heard \/ row[j].cancel)
    /\ \/ agent[h].phase \in {"claimed", "encoding"} /\ agent'[h].phase = "encoding"
       \/ agent[h].phase = "staged" /\ agent'[h].phase = "verifying"
       \/ agent[h].phase = "verified" /\ agent'[h].phase = "replacing"

\* The execution goes on without asking.
Went(h, j) ==
    /\ Busy(h, j) /\ agent'[h].heard = agent[h].heard
    /\ \/ agent'[h].phase = agent[h].phase
       \/ ~agent[h].heard /\ agent[h].phase = "encoding" /\ agent'[h].phase = "staged"
       \/ ~agent[h].heard /\ agent[h].phase = "verifying" /\ agent'[h].phase = "verified"

\* How an agent comes to execute j after a step.
AgentStep(h, j) ==
    Busy(h, j)' => \/ Granted(j) /\ agent'[h].phase = "claimed"
                   \/ Told(h, j)
                   \/ Went(h, j)

\* How a run comes to have j after a step.
RunStep(r, j) ==
    run'[r].job = j =>
        \/ Granted(j) /\ run'[r].phase = "claimed"
        \/ /\ run[r].job = j
           /\ run[r].phase \in Over => run'[r].phase \in Over
           /\ run[r].phase \in EarlyRun =>
                 \/ run'[r].phase \in Over
                 \/ run'[r].phase = "verifying" /\ j \notin Mine(r).ids
                 \/ run'[r].phase \in EarlyRun /\ (j \in Mine(r).ids => j \in Mine(r)'.ids)

\* Who replaces the media of j.
MediaStep(j) ==
    \/ media'[j] = media[j]
    \/ \E h \in Hosts : /\ Busy(h, j) /\ agent[h].phase = "replacing"
                        /\ agent'[h].phase = "sending"
    \/ \E r \in Runs : /\ run[r].job = j /\ run[r].phase = "verifying"
                       /\ run'[r].phase = "closing"

\* One process acts in a step.
OneActs ==
    \/ UNCHANGED agent
    \/ UNCHANGED run /\ \E h \in Hosts : \A g \in Hosts \ {h} : agent'[g] = agent[g]

\* Steps of the operator, of the workers table and of the sweep move no agent.
LEMMA AgentsRest ==
    ASSUME \/ \E r \in Runs : \/ LocalClaim(r) \/ LocalProgress(r) \/ Break(r)
                              \/ LocalRestart(r) \/ LoopStep(r)
           \/ \E c \in Loops : LoopCrash(c)
           \/ \E w \in Keys : \/ SetEnabled(w) \/ SetDisabled(w) \/ HeartbeatAges(w)
           \/ \E w \in Remote : Onboard(w) \/ Expire(w) \/ Delete(w)
           \/ \E j \in Jobs : \/ CancelQueued(j) \/ CancelRemote(j) \/ CancelLocal(j)
                              \/ Silence(j) \/ Sweep(j)
           \/ UNCHANGED vars
    PROVE  UNCHANGED agent
<1>1. ASSUME NEW r \in Runs,
             \/ LocalClaim(r) \/ LocalProgress(r) \/ Break(r) \/ LocalRestart(r)
             \/ LoopStep(r)
      PROVE  UNCHANGED agent
    BY <1>1 DEF LocalClaim, LocalProgress, Break, LocalRestart, LoopStep, Activate, Launch,
       LocalEncode, LocalPlace, Close, Record
<1>2. ASSUME NEW j \in Jobs,
             \/ CancelQueued(j) \/ CancelRemote(j) \/ CancelLocal(j) \/ Silence(j)
             \/ Sweep(j)
      PROVE  UNCHANGED agent
    BY <1>2 DEF CancelQueued, CancelRemote, CancelLocal, Silence, Sweep
<1>3. ASSUME NEW w,
             \/ SetEnabled(w) \/ SetDisabled(w) \/ HeartbeatAges(w) \/ Onboard(w)
             \/ Expire(w) \/ Delete(w)
      PROVE  UNCHANGED agent
    BY <1>3 DEF SetEnabled, SetDisabled, HeartbeatAges, Onboard, Expire, Delete
<1>4. ASSUME NEW c \in Loops, LoopCrash(c) PROVE UNCHANGED agent
    BY <1>4 DEF LoopCrash
<1> QED BY <1>1, <1>2, <1>3, <1>4 DEF vars

\* Every call an agent makes and every step of its execution (process_once,
\* execute, report_job_progress).
LEMMA AgentSteps ==
    ASSUME FleetInv, [Next]_vars
    PROVE  OneActs /\ \A h \in Hosts, j \in Jobs : AgentStep(h, j)
<1> USE DEF Executing
<1>0. /\ agent \in [Hosts -> Agent] /\ \A h \in Hosts : Sound(agent[h])
      /\ row \in [Jobs -> Row]
    BY DEF FleetInv, AgentsSound, RowsTyped
<1>1. ASSUME UNCHANGED agent
      PROVE  OneActs /\ \A h \in Hosts, j \in Jobs : AgentStep(h, j)
    BY <1>1 DEF OneActs, AgentStep, Busy, Went
<1>2. ASSUME NEW h \in Hosts, NEW a, agent' = [agent EXCEPT ![h] = a], UNCHANGED run,
             \A j \in Jobs : AgentStep(h, j)
      PROVE  OneActs /\ \A g \in Hosts, j \in Jobs : AgentStep(g, j)
    <2>1. \A g \in Hosts \ {h} : agent'[g] = agent[g]
        BY <1>0, <1>2
    <2>2. ASSUME NEW g \in Hosts, NEW j \in Jobs, g # h PROVE AgentStep(g, j)
        BY <2>1, <2>2 DEF AgentStep, Busy, Went
    <2> QED BY <1>2, <2>1, <2>2 DEF OneActs
<1>3. ASSUME NEW h \in Hosts, NEW a, agent' = [agent EXCEPT ![h] = a], UNCHANGED run,
             a.phase \notin Executing
      PROVE  OneActs /\ \A g \in Hosts, j \in Jobs : AgentStep(g, j)
    <2>1. agent'[h] = a
        BY <1>0, <1>3
    <2>2. \A j \in Jobs : AgentStep(h, j)
        BY <1>3, <2>1 DEF AgentStep, Busy
    <2> QED BY <1>2, <1>3, <2>2
<1>4. ASSUME NEW h \in Hosts, NEW a, agent' = [agent EXCEPT ![h] = a], UNCHANGED run,
             a.phase = agent[h].phase, a.job = agent[h].job, a.heard = agent[h].heard
      PROVE  OneActs /\ \A g \in Hosts, j \in Jobs : AgentStep(g, j)
    <2>1. agent'[h] = a
        BY <1>0, <1>4
    <2>2. \A j \in Jobs : AgentStep(h, j)
        BY <1>4, <2>1 DEF AgentStep, Busy, Went
    <2> QED BY <1>2, <1>4, <2>2
<1>5. ASSUME NEW h \in Hosts, Stops(h), UNCHANGED run
      PROVE  OneActs /\ \A g \in Hosts, j \in Jobs : AgentStep(g, j)
    <2> DEFINE a == [agent[h] EXCEPT !.phase = "down", !.job = NoJob, !.heard = FALSE,
                                     !.result = "none"]
    <2>1. agent' = [agent EXCEPT ![h] = a] /\ a.phase = "down"
        BY <1>0, <1>5 DEF Stops, Agent
    <2> HIDE DEF a
    <2> QED BY <1>3, <1>5, <2>1
<1>6. ASSUME NEW h \in Hosts, NEW phase, Goes(h, phase), UNCHANGED run, phase \notin Executing
      PROVE  OneActs /\ \A g \in Hosts, j \in Jobs : AgentStep(g, j)
    <2> DEFINE a == [agent[h] EXCEPT !.phase = phase]
    <2>1. agent' = [agent EXCEPT ![h] = a] /\ a.phase = phase
        BY <1>0, <1>6 DEF Goes, Agent
    <2> HIDE DEF a
    <2> QED BY <1>3, <1>6, <2>1
<1>7. ASSUME NEW h \in Hosts
      PROVE  /\ Failing(h).phase \notin Executing
             /\ \A result : Sending(h, result).phase \notin Executing
    BY <1>0 DEF Failing, Sending, Agent
<1>8. ASSUME NEW h \in Hosts, NEW result, Sends(h, result)
      PROVE  OneActs /\ \A g \in Hosts, j \in Jobs : AgentStep(g, j)
    <2>1. UNCHANGED run
        BY <1>8 DEF Sends, locals
    <2> QED BY <1>3, <1>7, <1>8, <2>1 DEF Sends
<1>9. ASSUME NEW h \in Hosts, Rejected(h), UNCHANGED run
      PROVE  OneActs /\ \A g \in Hosts, j \in Jobs : AgentStep(g, j)
    <2> DEFINE a == [agent[h] EXCEPT !.stored = FALSE]
    <2>1. a.phase = agent[h].phase /\ a.job = agent[h].job /\ a.heard = agent[h].heard
        BY <1>0 DEF Agent
    <2>2. Stops(h) \/ agent' = [agent EXCEPT ![h] = a]
        BY <1>9 DEF Rejected
    <2> HIDE DEF a
    <2> QED BY <1>4, <1>5, <1>9, <2>1, <2>2
<1>10. ASSUME NEW h \in Hosts, Restart(h)
       PROVE  OneActs /\ \A g \in Hosts, j \in Jobs : AgentStep(g, j)
    <2> DEFINE pair == agent[h].pair
               a == [agent[h] EXCEPT !.phase = "idle",
                                     !.pair = IF pair = "used" THEN "open" ELSE pair]
    <2>1. agent' = [agent EXCEPT ![h] = a] /\ a.phase = "idle" /\ UNCHANGED run
        BY <1>0, <1>10 DEF Restart, Agent, locals
    <2> HIDE DEF a
    <2> QED BY <1>3, <2>1
<1>11. ASSUME NEW h \in Hosts, ForgetPairing(h)
       PROVE  OneActs /\ \A g \in Hosts, j \in Jobs : AgentStep(g, j)
    <2> DEFINE a == [agent[h] EXCEPT !.pair = "none"]
    <2>1. /\ agent' = [agent EXCEPT ![h] = a] /\ UNCHANGED run
          /\ a.phase = agent[h].phase /\ a.job = agent[h].job /\ a.heard = agent[h].heard
        BY <1>0, <1>11 DEF ForgetPairing, Agent, locals
    <2> HIDE DEF a
    <2> QED BY <1>4, <2>1
<1>12. ASSUME NEW h \in Hosts, Register(h)
       PROVE  OneActs /\ \A g \in Hosts, j \in Jobs : AgentStep(g, j)
    <2> DEFINE pair == agent[h].pair
               a == [agent[h] EXCEPT !.stored = TRUE,
                                     !.pair = IF pair = "open" THEN "used" ELSE pair]
    <2>1. a.phase = agent[h].phase /\ a.job = agent[h].job /\ a.heard = agent[h].heard
        BY <1>0 DEF Agent
    <2>2. UNCHANGED run /\ (Stops(h) \/ agent' = [agent EXCEPT ![h] = a])
        BY <1>12 DEF Register, locals
    <2> HIDE DEF a
    <2> QED BY <1>4, <1>5, <2>1, <2>2
<1>13. ASSUME NEW h \in Hosts, Beat(h)
       PROVE  OneActs /\ \A g \in Hosts, j \in Jobs : AgentStep(g, j)
    <2>1. UNCHANGED run /\ (Stops(h) \/ Rejected(h) \/ Goes(h, "beaten"))
        BY <1>13 DEF Beat, Fails, locals
    <2> QED BY <1>5, <1>6, <1>9, <2>1
<1>14. ASSUME NEW h \in Hosts, Poll(h)
       PROVE  OneActs /\ \A g \in Hosts, j \in Jobs : AgentStep(g, j)
    <2>1. ASSUME NEW i \in Jobs, UNCHANGED run,
                 agent' = [agent EXCEPT ![h] = [agent[h] EXCEPT !.phase = "offered", !.job = i]]
          PROVE  OneActs /\ \A g \in Hosts, j \in Jobs : AgentStep(g, j)
        <3> DEFINE a == [agent[h] EXCEPT !.phase = "offered", !.job = i]
        <3>1. agent' = [agent EXCEPT ![h] = a] /\ a.phase = "offered"
            BY <1>0, <2>1 DEF Agent
        <3> HIDE DEF a
        <3> QED BY <1>3, <2>1, <3>1
    <2>2. /\ UNCHANGED run
          /\ \/ Stops(h) \/ Rejected(h) \/ Goes(h, "idle")
             \/ \E i \in Jobs :
                  agent' = [agent EXCEPT ![h] = [agent[h] EXCEPT !.phase = "offered", !.job = i]]
        BY <1>14 DEF Poll, Fails, locals
    <2> QED BY <1>5, <1>6, <1>9, <2>1, <2>2
<1>15. ASSUME NEW h \in Hosts, Claim(h)
       PROVE  OneActs /\ \A g \in Hosts, j \in Jobs : AgentStep(g, j)
    <2> DEFINE i == agent[h].job
               a == [agent[h] EXCEPT !.phase = "claimed"]
    <2>1. UNCHANGED run /\ i \in Jobs
        BY <1>0, <1>15 DEF Claim, Sound, locals
    <2>2. CASE Stops(h)
        BY <1>5, <2>1, <2>2
    <2>3. CASE Goes(h, "claimed") /\ Claimable(KeyOf[h], i) /\ RowClaimed(KeyOf[h], i)
        <3>1. Granted(i)
            BY <1>0, <2>1, <2>3 DEF Granted, Claimable, RowClaimed, Row
        <3>2. agent' = [agent EXCEPT ![h] = a] /\ a.phase = "claimed" /\ a.job = i
            BY <1>0, <2>3 DEF Goes, Agent
        <3> HIDE DEF a
        <3>3. \A j \in Jobs : AgentStep(h, j)
            BY <1>0, <3>1, <3>2 DEF AgentStep, Busy
        <3> QED BY <1>2, <2>1, <3>2, <3>3
    <2> QED BY <1>15, <2>2, <2>3 DEF Claim
<1>16. ASSUME NEW h \in Hosts, NEW next \in {"encoding", "verifying", "replacing"}, NEW after,
              Reports(h, next, after), after.phase \notin Executing,
              \/ agent[h].phase \in {"claimed", "encoding"} /\ next = "encoding"
              \/ agent[h].phase = "staged" /\ next = "verifying"
              \/ agent[h].phase = "verified" /\ next = "replacing"
       PROVE  OneActs /\ \A g \in Hosts, j \in Jobs : AgentStep(g, j)
    <2> DEFINE i == agent[h].job
               heard == Hears(agent[h].heard, row[i].cancel)
               a == [agent[h] EXCEPT !.phase = next, !.heard = heard]
    <2>1. UNCHANGED run
        BY <1>16 DEF Reports, locals
    <2>2. \/ agent' = [agent EXCEPT ![h] = after]
          \/ Holds(KeyOf[h], i) /\ agent' = [agent EXCEPT ![h] = a]
        BY <1>16 DEF Reports
    <2>3. a.phase = next /\ a.job = i /\ a.heard = heard
        <3> HIDE DEF heard
        <3> QED BY <1>0 DEF Agent
    <2>4. heard = (agent[h].heard \/ row[i].cancel)
        BY DEF Hears
    <2> HIDE DEF a, heard
    <2>5. ASSUME Holds(KeyOf[h], i), agent' = [agent EXCEPT ![h] = a], NEW j \in Jobs
          PROVE  AgentStep(h, j)
        <3>1. agent'[h] = a
            BY <1>0, <2>5
        <3> SUFFICES ASSUME Busy(h, j)' PROVE Told(h, j)
            BY DEF AgentStep
        <3>2. i = j
            BY <2>3, <3>1 DEF Busy
        <3>3. agent'[h].heard = (agent[h].heard \/ row[j].cancel)
            BY <2>3, <2>4, <3>1, <3>2
        <3> QED BY <1>16, <2>3, <2>5, <3>1, <3>2, <3>3 DEF Told, Busy
    <2> QED BY <1>2, <1>3, <1>16, <2>1, <2>2, <2>5
<1>17. ASSUME NEW h \in Hosts, NEW phase, Goes(h, phase), UNCHANGED run, ~agent[h].heard,
              \/ agent[h].phase = "encoding" /\ phase = "staged"
              \/ agent[h].phase = "verifying" /\ phase = "verified"
       PROVE  OneActs /\ \A g \in Hosts, j \in Jobs : AgentStep(g, j)
    <2> DEFINE a == [agent[h] EXCEPT !.phase = phase]
    <2>1. /\ agent' = [agent EXCEPT ![h] = a] /\ a.phase = phase
          /\ a.job = agent[h].job /\ a.heard = agent[h].heard
        BY <1>0, <1>17 DEF Goes, Agent
    <2> HIDE DEF a
    <2>2. agent'[h] = a
        BY <1>0, <2>1
    <2>3. \A j \in Jobs : AgentStep(h, j)
        BY <1>17, <2>1, <2>2 DEF AgentStep, Busy, Went
    <2> QED BY <1>2, <1>17, <2>1, <2>3
<1>18. ASSUME NEW h \in Hosts, EncodeProgress(h) \/ Start(h) \/ BeginVerify(h) \/ BeginReplace(h)
       PROVE  OneActs /\ \A g \in Hosts, j \in Jobs : AgentStep(g, j)
    BY <1>7, <1>16, <1>18 DEF EncodeProgress, Start, BeginVerify, BeginReplace
<1>19. ASSUME NEW h \in Hosts, Encode(h) \/ Verify(h)
       PROVE  OneActs /\ \A g \in Hosts, j \in Jobs : AgentStep(g, j)
    BY <1>8, <1>17, <1>19 DEF Encode, Verify, locals
<1>20. ASSUME NEW h \in Hosts, Place(h)
       PROVE  OneActs /\ \A g \in Hosts, j \in Jobs : AgentStep(g, j)
    <2>1. \/ Sends(h, "failed")
          \/ UNCHANGED run /\ agent' = [agent EXCEPT ![h] = Sending(h, "completed")]
        BY <1>20 DEF Place, locals
    <2> QED BY <1>3, <1>7, <1>8, <2>1
<1>21. ASSUME NEW h \in Hosts, Submit(h)
       PROVE  OneActs /\ \A g \in Hosts, j \in Jobs : AgentStep(g, j)
    <2> DEFINE a == [agent[h] EXCEPT !.phase = "idle", !.job = NoJob, !.heard = FALSE,
                                     !.result = "none"]
    <2>1. UNCHANGED run /\ (Goes(h, "failing") \/ agent' = [agent EXCEPT ![h] = a])
        BY <1>21 DEF Submit, locals
    <2>2. a.phase = "idle"
        BY <1>0 DEF Agent
    <2> HIDE DEF a
    <2> QED BY <1>3, <1>6, <2>1, <2>2
<1>22. ASSUME NEW h \in Hosts, ReportFailure(h) \/ Crash(h)
       PROVE  OneActs /\ \A g \in Hosts, j \in Jobs : AgentStep(g, j)
    BY <1>5, <1>22 DEF ReportFailure, Crash, locals
<1> QED
    BY <1>1, <1>10, <1>11, <1>12, <1>13, <1>14, <1>15, <1>18, <1>19, <1>20, <1>21, <1>22,
       AgentsRest DEF Next, ExecuteStep

\* A write of one row by anybody.
LEMMA RowWriteSteps ==
    ASSUME RowsTyped, NEW j \in Jobs, NEW x, row' = [row EXCEPT ![j] = x],
           x.status \in {"none", "pending"} => row[j].status \in {"none", "pending"},
           row[j].status \in Final => x.status \in Final,
           row[j].cancel => x.cancel
    PROVE  \A i \in Jobs : RowStep(i)
BY DEF RowsTyped, RowStep

\* mark_result, mark_interrupted, progress and the claim, each with its row.
LEMMA RowFunctionSteps ==
    ASSUME RowsTyped, NEW j \in Jobs
    PROVE  /\ \A s \in Final : RowEnded(j, s) => \A i \in Jobs : RowStep(i)
           /\ RowTouched(j) => \A i \in Jobs : RowStep(i)
           /\ \A w : RowClaimed(w, j) /\ row[j].status = "pending" => \A i \in Jobs : RowStep(i)
<1>0. row[j] \in Row
    BY DEF RowsTyped
<1>1. ASSUME NEW s \in Final, RowEnded(j, s) PROVE \A i \in Jobs : RowStep(i)
    <2> DEFINE x == [row[j] EXCEPT !.status = s, !.worker = NoWorker, !.contact = "fresh"]
    <2>1. /\ row' = [row EXCEPT ![j] = x] /\ x.status = s /\ x.cancel = row[j].cancel
          /\ s \notin {"none", "pending"}
        BY <1>0, <1>1 DEF RowEnded, Row, Final
    <2> HIDE DEF x
    <2> QED BY <2>1, RowWriteSteps
<1>2. ASSUME RowTouched(j) PROVE \A i \in Jobs : RowStep(i)
    <2> DEFINE x == [row[j] EXCEPT !.contact = "fresh"]
    <2>1. row' = [row EXCEPT ![j] = x] /\ x.status = row[j].status /\ x.cancel = row[j].cancel
        BY <1>0, <1>2 DEF RowTouched, Row
    <2> HIDE DEF x
    <2> QED BY <2>1, RowWriteSteps
<1>3. ASSUME NEW w, RowClaimed(w, j), row[j].status = "pending"
      PROVE  \A i \in Jobs : RowStep(i)
    <2> DEFINE x == [row[j] EXCEPT !.status = "running", !.worker = w, !.contact = "fresh"]
    <2>1. /\ row' = [row EXCEPT ![j] = x] /\ x.status = "running" /\ x.cancel = row[j].cancel
        BY <1>0, <1>3 DEF RowClaimed, Row
    <2> HIDE DEF x
    <2> QED BY <1>3, <2>1, RowWriteSteps DEF Final
<1> QED BY <1>1, <1>2, <1>3

\* No handler, run or sweep undoes the end or the cancellation of a row.
LEMMA RowSteps ==
    ASSUME FleetInv, [Next]_vars
    PROVE  \A j \in Jobs : RowStep(j)
<1>0. /\ \A h \in Hosts : Sound(agent[h]) /\ KeyOf[h] \in Keys
      /\ \A r \in Runs : SoundRun(run[r])
      /\ Result \subseteq Final /\ Local \in Keys
      /\ RowsTyped
    BY FleetAssumption DEF FleetInv, LoopInv, AgentsSound, RunsSound, Result, Final, Keys
<1>1. ASSUME UNCHANGED row PROVE \A j \in Jobs : RowStep(j)
    BY <1>1 DEF RowStep
<1>2. ASSUME NEW h \in Hosts, Claim(h) PROVE \A j \in Jobs : RowStep(j)
    BY <1>0, <1>1, <1>2, RowFunctionSteps DEF Claim, Claimable, Sound
<1>3. ASSUME NEW h \in Hosts, NEW next, NEW after, Reports(h, next, after), agent[h].job \in Jobs
      PROVE  \A j \in Jobs : RowStep(j)
    BY <1>0, <1>1, <1>3, RowFunctionSteps DEF Reports
<1>4. ASSUME NEW h \in Hosts, EncodeProgress(h) \/ ExecuteStep(h)
      PROVE  \A j \in Jobs : RowStep(j)
    <2>1. agent[h].job \in Jobs
        BY <1>0, <1>4 DEF Sound, EncodeProgress, ExecuteStep, Start, Encode, BeginVerify,
           Verify, BeginReplace, Place, Submit, ReportFailure
    <2>2. CASE EncodeProgress(h) \/ Start(h) \/ BeginVerify(h) \/ BeginReplace(h)
        BY <1>3, <2>1, <2>2 DEF EncodeProgress, Start, BeginVerify, BeginReplace
    <2>3. CASE Encode(h) \/ Verify(h) \/ Place(h)
        BY <1>1, <2>3 DEF Encode, Verify, Place, Sends, server
    <2>4. CASE Submit(h)
        <3>1. Recorded(agent[h].job, agent[h].result) \in Final
            BY <1>0, <2>4 DEF Submit, Sound, Recorded, Final, Result
        <3> QED BY <1>0, <1>1, <2>1, <2>4, <3>1, RowFunctionSteps DEF Submit
    <2>5. CASE ReportFailure(h)
        BY <1>0, <1>1, <2>1, <2>5, RowFunctionSteps DEF ReportFailure, Final
    <2> QED BY <1>4, <2>2, <2>3, <2>4, <2>5 DEF ExecuteStep
<1>5. ASSUME NEW h \in Hosts,
             \/ Restart(h) \/ Crash(h) \/ ForgetPairing(h) \/ Register(h) \/ Beat(h) \/ Poll(h)
      PROVE  UNCHANGED row
    BY <1>5 DEF Restart, Crash, ForgetPairing, Register, Beat, Poll, server
<1>6. ASSUME NEW r \in Runs, LocalClaim(r) PROVE \A j \in Jobs : RowStep(j)
    BY <1>0, <1>6, RowFunctionSteps DEF LocalClaim, Claimable
<1>7. ASSUME NEW r \in Runs, LocalProgress(r) PROVE \A j \in Jobs : RowStep(j)
    BY <1>0, <1>7, RowFunctionSteps DEF LocalProgress, SoundRun
<1>8. ASSUME NEW r \in Runs, Record(r) PROVE \A j \in Jobs : RowStep(j)
    BY <1>0, <1>8, RowFunctionSteps DEF Record, SoundRun
<1>9. ASSUME NEW r \in Runs,
             \/ Break(r) \/ LocalRestart(r) \/ Activate(r) \/ Launch(r) \/ LocalEncode(r)
             \/ LocalPlace(r) \/ Close(r)
      PROVE  UNCHANGED row
    BY <1>9 DEF Break, LocalRestart, Activate, Launch, LocalEncode, LocalPlace, Close, server
<1>10. ASSUME NEW c \in Loops, LoopCrash(c) PROVE UNCHANGED row
    BY <1>10 DEF LoopCrash, server
<1>11. ASSUME NEW j \in Jobs, CancelQueued(j) PROVE \A i \in Jobs : RowStep(i)
    <2> DEFINE x == [row[j] EXCEPT !.status = "cancelled", !.cancel = TRUE]
    <2>1. row' = [row EXCEPT ![j] = x] /\ x.status = "cancelled" /\ x.cancel
        BY <1>0, <1>11 DEF CancelQueued, RowsTyped, Row
    <2> HIDE DEF x
    <2> QED BY <1>0, <1>11, <2>1, RowWriteSteps DEF CancelQueued, Final
<1>12. ASSUME NEW j \in Jobs, CancelRemote(j) PROVE \A i \in Jobs : RowStep(i)
    <2> DEFINE x == [row[j] EXCEPT !.cancel = TRUE, !.contact = "fresh"]
    <2>1. row' = [row EXCEPT ![j] = x] /\ x.status = row[j].status /\ x.cancel
        BY <1>0, <1>12 DEF CancelRemote, RowsTyped, Row
    <2> HIDE DEF x
    <2> QED BY <1>0, <2>1, RowWriteSteps
<1>13. ASSUME NEW j \in Jobs, CancelLocal(j) PROVE \A i \in Jobs : RowStep(i)
    BY <1>0, <1>1, <1>13, RowFunctionSteps DEF CancelLocal
<1>14. ASSUME NEW j \in Jobs, Silence(j) PROVE \A i \in Jobs : RowStep(i)
    <2> DEFINE x == [row[j] EXCEPT !.contact = "stale"]
    <2>1. row' = [row EXCEPT ![j] = x] /\ x.status = row[j].status /\ x.cancel = row[j].cancel
        BY <1>0, <1>14 DEF Silence, RowsTyped, Row
    <2> HIDE DEF x
    <2> QED BY <1>0, <2>1, RowWriteSteps
<1>15. ASSUME NEW j \in Jobs, Sweep(j) PROVE \A i \in Jobs : RowStep(i)
    BY <1>0, <1>15, RowFunctionSteps DEF Sweep, Final
<1>16. ASSUME NEW w \in Keys, SetEnabled(w) \/ SetDisabled(w) \/ HeartbeatAges(w)
       PROVE  UNCHANGED row
    BY <1>16 DEF SetEnabled, SetDisabled, HeartbeatAges
<1>17. ASSUME NEW w \in Remote, Onboard(w) \/ Expire(w) PROVE UNCHANGED row
    BY <1>17 DEF Onboard, Expire
<1>18. ASSUME NEW w \in Remote, Delete(w) PROVE \A j \in Jobs : RowStep(j)
    <2>1. \A j \in Jobs : row'[j].status = row[j].status /\ row'[j].cancel = row[j].cancel
        BY <1>0, <1>18 DEF Delete, RowsTyped, Row
    <2> QED BY <2>1 DEF RowStep
<1>19. UNCHANGED vars => UNCHANGED row
    BY DEF vars
<1> QED
    BY <1>1, <1>2, <1>4, <1>5, <1>6, <1>7, <1>8, <1>9, <1>10, <1>11, <1>12, <1>13, <1>14,
       <1>15, <1>16, <1>17, <1>18, <1>19 DEF Next, LoopStep

\* A step that leaves the runs and what their loops know of cancellations alone.
LEMMA RunsRest ==
    ASSUME UNCHANGED run, \A q \in Runs : Mine(q).ids \subseteq Mine(q)'.ids
    PROVE  \A q \in Runs, j \in Jobs : RunStep(q, j)
BY DEF RunStep

\* A step of one run: the others keep what they have, if the loop forgets the
\* cancellation of at most that run's job.
LEMMA OneRunSteps ==
    ASSUME LoopInv, NEW r \in Runs, NEW x, run' = [run EXCEPT ![r] = x],
           \A q \in Runs \ {r} : Mine(q).ids \ ({run[r].job} \cap Jobs) \subseteq Mine(q)'.ids,
           \A j \in Jobs : RunStep(r, j)
    PROVE  \A q \in Runs, j \in Jobs : RunStep(q, j)
<1> SUFFICES ASSUME NEW q \in Runs, NEW j \in Jobs, q # r PROVE RunStep(q, j)
    OBVIOUS
<1>1. run'[q] = run[q]
    BY DEF LoopInv, RunsSound
<1>2. run[q].job = j => run[r].job # j
    BY DEF LoopInv, OneRunPerJob
<1> QED BY <1>1, <1>2 DEF RunStep, Over, EarlyRun

\* Every step of a run, a death of a loop's process and a cancellation
\* (run_once_with_summary, request_cancel).
LEMMA RunSteps ==
    ASSUME FleetInv, [Next]_vars
    PROVE  \A r \in Runs, j \in Jobs : RunStep(r, j)
<1> USE FleetAssumption, ControlAssumption
<1>0. /\ run \in [Runs -> Run] /\ \A r \in Runs : SoundRun(run[r]) /\ Mine(r) \in Control
      /\ control \in [Loops -> Control] /\ LoopInv
      /\ row \in [Jobs -> Row]
    BY DEF FleetInv, LoopInv, RunsSound, ControlsTyped, RowsTyped, Mine
<1>1. ASSUME UNCHANGED locals PROVE \A r \in Runs, j \in Jobs : RunStep(r, j)
    BY <1>1, RunsRest DEF locals, Mine
<1>2. ASSUME NEW r \in Runs, NEW x, run' = [run EXCEPT ![r] = x],
             \A q \in Runs : Mine(q).ids \ ({run[r].job} \cap Jobs) \subseteq Mine(q)'.ids,
             \A j \in Jobs : x.job # j
      PROVE  \A q \in Runs, j \in Jobs : RunStep(q, j)
    <2>1. \A j \in Jobs : RunStep(r, j)
        BY <1>0, <1>2 DEF RunStep
    <2> QED BY <1>0, <1>2, <2>1, OneRunSteps
<1>3. ASSUME NEW r \in Runs, NEW x, run' = [run EXCEPT ![r] = x],
             \A q \in Runs : Mine(q).ids \ ({run[r].job} \cap Jobs) \subseteq Mine(q)'.ids,
             x.job = run[r].job,
             \/ x.phase \in Over
             \/ /\ x.phase = "verifying" /\ run[r].phase = "encoding"
                /\ run[r].job \notin Mine(r).ids
             \/ /\ x.phase \in EarlyRun /\ run[r].phase \in EarlyRun
                /\ Mine(r).ids \subseteq Mine(r)'.ids
      PROVE  \A q \in Runs, j \in Jobs : RunStep(q, j)
    <2>1. run'[r] = x
        BY <1>0, <1>3
    <2>2. \A j \in Jobs : RunStep(r, j)
        BY <1>3, <2>1 DEF RunStep, Over, EarlyRun
    <2> QED BY <1>0, <1>3, <2>2, OneRunSteps
<1>4. ASSUME UNCHANGED control, NEW r \in Runs
      PROVE  /\ \A q \in Runs : Mine(q).ids \ ({run[r].job} \cap Jobs) \subseteq Mine(q)'.ids
             /\ Mine(r).ids \subseteq Mine(r)'.ids
    BY <1>4 DEF Mine
<1>5. ASSUME NEW r \in Runs, NEW c, Control1(r, c), NEW q \in Runs
      PROVE  Mine(q)' = IF LoopOf[q] = LoopOf[r] THEN c ELSE Mine(q)
    BY <1>0, <1>5 DEF Control1, Mine
<1>6. ASSUME NEW r \in Runs, LocalClaim(r) PROVE \A q \in Runs, j \in Jobs : RunStep(q, j)
    <2>1. PICK i \in Jobs :
             /\ Claimable(Local, i) /\ RowClaimed(Local, i)
             /\ run' = [run EXCEPT ![r] = [run[r] EXCEPT !.phase = "claimed", !.job = i]]
        BY <1>6 DEF LocalClaim
    <2> DEFINE x == [run[r] EXCEPT !.phase = "claimed", !.job = i]
    <2>2. Granted(i)
        BY <1>0, <2>1 DEF Granted, Claimable, RowClaimed, Row
    <2>3. run' = [run EXCEPT ![r] = x] /\ x.phase = "claimed" /\ x.job = i
        BY <1>0, <2>1 DEF Run
    <2> HIDE DEF x
    <2>4. run'[r] = x
        BY <1>0, <2>3
    <2>5. \A j \in Jobs : RunStep(r, j)
        BY <2>2, <2>3, <2>4 DEF RunStep
    <2> QED BY <1>0, <1>4, <1>6, <2>3, <2>5, OneRunSteps DEF LocalClaim
<1>7. ASSUME NEW r \in Runs, Activate(r) PROVE \A q \in Runs, j \in Jobs : RunStep(q, j)
    <2> DEFINE x == [run[r] EXCEPT !.phase = "active"]
    <2>1. /\ run' = [run EXCEPT ![r] = x] /\ x.phase = "active" /\ x.job = run[r].job
          /\ run[r].phase = "claimed" /\ run[r].job \in Jobs
          /\ Control1(r, SetActive(Mine(r), run[r].job))
        BY <1>0, <1>7 DEF Activate, RunGoes, Run, SoundRun
    <2>2. SetActive(Mine(r), run[r].job).ids = Mine(r).ids
        BY <1>0, <2>1, BlockFunctions
    <2>3. \A q \in Runs : Mine(q)'.ids = Mine(q).ids
        BY <1>5, <2>1, <2>2 DEF Mine
    <2> HIDE DEF x
    <2> QED BY <1>3, <2>1, <2>3 DEF EarlyRun
<1>8. ASSUME NEW r \in Runs, Launch(r) PROVE \A q \in Runs, j \in Jobs : RunStep(q, j)
    <2> DEFINE killed == run[r].job \in Mine(r).ids
               x == [run[r] EXCEPT !.phase = "encoding", !.killed = killed]
    <2>1. /\ run' = [run EXCEPT ![r] = x]
          /\ run[r].phase = "active" /\ run[r].job \in Jobs
          /\ Control1(r, SetProcess(Mine(r), run[r].job, r))
        BY <1>0, <1>8 DEF Launch, SoundRun
    <2>2. x.phase = "encoding" /\ x.job = run[r].job
        <3> HIDE DEF killed
        <3> QED BY <1>0 DEF Run
    <2>3. SetProcess(Mine(r), run[r].job, r).ids = Mine(r).ids
        BY <1>0, <2>1, BlockFunctions
    <2>4. \A q \in Runs : Mine(q)'.ids = Mine(q).ids
        BY <1>5, <2>1, <2>3 DEF Mine
    <2> HIDE DEF x
    <2> QED BY <1>3, <2>1, <2>2, <2>4 DEF EarlyRun
<1>9. ASSUME NEW r \in Runs, NEW result, RunEnds(r, result), UNCHANGED control
      PROVE  \A q \in Runs, j \in Jobs : RunStep(q, j)
    <2> DEFINE x == [run[r] EXCEPT !.phase = "closing", !.result = result, !.killed = FALSE]
    <2>1. run' = [run EXCEPT ![r] = x] /\ x.phase = "closing" /\ x.job = run[r].job
        BY <1>0, <1>9 DEF RunEnds, Run
    <2> HIDE DEF x
    <2> QED BY <1>3, <1>4, <1>9, <2>1 DEF Over
<1>10. ASSUME NEW r \in Runs, LocalEncode(r) PROVE \A q \in Runs, j \in Jobs : RunStep(q, j)
    <2> DEFINE x == [run[r] EXCEPT !.phase = "verifying"]
    <2>1. x.phase = "verifying" /\ x.job = run[r].job
        BY <1>0 DEF Run
    <2>2. \/ RunEnds(r, "cancelled") \/ RunEnds(r, "failed")
          \/ run[r].job \notin Mine(r).ids /\ run' = [run EXCEPT ![r] = x]
        BY <1>10 DEF LocalEncode, RunGoes
    <2> HIDE DEF x
    <2> QED BY <1>3, <1>4, <1>9, <1>10, <2>1, <2>2 DEF LocalEncode
<1>11. ASSUME NEW r \in Runs, LocalPlace(r) PROVE \A q \in Runs, j \in Jobs : RunStep(q, j)
    BY <1>9, <1>11 DEF LocalPlace
<1>12. ASSUME NEW r \in Runs, run[r].job \in Jobs, Control1(r, ClearActive(Mine(r), run[r].job))
       PROVE  \A q \in Runs : Mine(q).ids \ ({run[r].job} \cap Jobs) \subseteq Mine(q)'.ids
    <2>1. ClearActive(Mine(r), run[r].job).ids = Mine(r).ids \ {run[r].job}
        BY <1>0, <1>12, BlockFunctions
    <2> QED BY <1>5, <1>12, <2>1 DEF Mine
<1>13. ASSUME NEW r \in Runs, Close(r) PROVE \A q \in Runs, j \in Jobs : RunStep(q, j)
    <2> DEFINE x == [run[r] EXCEPT !.phase = "recording"]
    <2>1. /\ run' = [run EXCEPT ![r] = x] /\ x.phase = "recording" /\ x.job = run[r].job
          /\ run[r].job \in Jobs /\ Control1(r, ClearActive(Mine(r), run[r].job))
        BY <1>0, <1>13 DEF Close, RunGoes, Run, SoundRun
    <2> HIDE DEF x
    <2> QED BY <1>3, <1>12, <2>1 DEF Over
<1>14. \A j \in Jobs : Blank("idle").job # j /\ Blank("down").job # j
    BY DEF Blank
<1>15. ASSUME NEW r \in Runs, Record(r) PROVE \A q \in Runs, j \in Jobs : RunStep(q, j)
    <2> DEFINE x == Blank("idle")
    <2>1. run' = [run EXCEPT ![r] = x] /\ UNCHANGED control /\ \A j \in Jobs : x.job # j
        BY <1>14, <1>15 DEF Record
    <2> HIDE DEF x
    <2> QED BY <1>2, <1>4, <2>1
<1>16. ASSUME NEW r \in Runs, Break(r) PROVE \A q \in Runs, j \in Jobs : RunStep(q, j)
    <2> DEFINE x == Blank("down")
    <2>1. run' = [run EXCEPT ![r] = x] /\ \A j \in Jobs : x.job # j
        BY <1>14, <1>16 DEF Break
    <2>2. run[r].job \in Jobs /\ Control1(r, ClearActive(Mine(r), run[r].job))
        BY <1>0, <1>16 DEF Break, SoundRun
    <2> HIDE DEF x
    <2> QED BY <1>2, <1>12, <2>1, <2>2
<1>17. ASSUME NEW r \in Runs, LocalRestart(r) PROVE \A q \in Runs, j \in Jobs : RunStep(q, j)
    <2> DEFINE x == [run[r] EXCEPT !.phase = "idle"]
    <2>1. run' = [run EXCEPT ![r] = x] /\ x.job = run[r].job /\ run[r].phase = "down"
        BY <1>0, <1>17 DEF LocalRestart, RunGoes, Run
    <2> HIDE DEF x
    <2>2. run'[r] = x
        BY <1>0, <2>1
    <2>3. \A j \in Jobs : RunStep(r, j)
        BY <2>1, <2>2 DEF RunStep, Over, EarlyRun
    <2> QED BY <1>0, <1>4, <1>17, <2>1, <2>3, OneRunSteps DEF LocalRestart
<1>18. ASSUME NEW c \in Loops, LoopCrash(c) PROVE \A q \in Runs, j \in Jobs : RunStep(q, j)
    <2> SUFFICES ASSUME NEW q \in Runs, NEW j \in Jobs PROVE RunStep(q, j)
        OBVIOUS
    <2>1. CASE run'[q] = Blank("down")
        BY <1>14, <2>1 DEF RunStep
    <2>2. CASE LoopOf[q] # c
        <3>1. run'[q] = run[q] /\ Mine(q)' = Mine(q)
            BY <1>0, <1>18, <2>2 DEF LoopCrash, Mine
        <3> QED BY <3>1 DEF RunStep, Over, EarlyRun
    <2>3. CASE run'[q] = run[q] /\ run[q].phase = "absent"
        BY <2>3 DEF RunStep, Over, EarlyRun
    <2> QED BY <1>18, <2>1, <2>2, <2>3 DEF LoopCrash
<1>19. ASSUME NEW i \in Jobs, CancelLocal(i) PROVE \A q \in Runs, j \in Jobs : RunStep(q, j)
    <2>1. \A q \in Runs : run'[q].job = run[q].job /\ run'[q].phase = run[q].phase
        <3> SUFFICES ASSUME NEW q \in Runs, run'[q] = [run[q] EXCEPT !.killed = TRUE]
                     PROVE  run'[q].job = run[q].job /\ run'[q].phase = run[q].phase
            BY <1>19 DEF CancelLocal
        <3> QED BY <1>0 DEF Run
    <2>2. control' = [control EXCEPT ![Api] = [control[Api] EXCEPT !.ids = control[Api].ids \cup {i}]]
        BY <1>19 DEF CancelLocal, Requested
    <2>3. \A q \in Runs : Mine(q).ids \subseteq Mine(q)'.ids
        BY <1>0, <2>2 DEF Mine, Control
    <2> QED BY <2>1, <2>3 DEF RunStep, Over, EarlyRun
<1>20. ASSUME NEW h \in Hosts,
              \/ Restart(h) \/ Crash(h) \/ ForgetPairing(h) \/ Register(h) \/ Beat(h)
              \/ Poll(h) \/ Claim(h) \/ EncodeProgress(h) \/ ExecuteStep(h)
       PROVE  UNCHANGED locals
    BY <1>20 DEF Restart, Crash, ForgetPairing, Register, Beat, Poll, Claim, EncodeProgress,
       ExecuteStep, Start, Encode, BeginVerify, Verify, BeginReplace, Place, Submit,
       ReportFailure, Reports, Sends
<1>21. ASSUME NEW j \in Jobs,
              CancelQueued(j) \/ CancelRemote(j) \/ Silence(j) \/ Sweep(j)
       PROVE  UNCHANGED locals
    BY <1>21 DEF CancelQueued, CancelRemote, Silence, Sweep
<1>22. ASSUME NEW w \in Keys,
              \/ SetEnabled(w) \/ SetDisabled(w) \/ HeartbeatAges(w) \/ Onboard(w)
              \/ Expire(w) \/ Delete(w)
       PROVE  UNCHANGED locals
    BY <1>22 DEF SetEnabled, SetDisabled, HeartbeatAges, Onboard, Expire, Delete
<1>23. ASSUME NEW r \in Runs, LocalProgress(r) PROVE UNCHANGED locals
    BY <1>23 DEF LocalProgress
<1>24. UNCHANGED vars => UNCHANGED locals
    BY DEF vars, locals
<1> QED
    BY <1>1, <1>6, <1>7, <1>8, <1>10, <1>11, <1>13, <1>15, <1>16, <1>17, <1>18, <1>19,
       <1>20, <1>21, <1>22, <1>23, <1>24 DEF Next, LoopStep, Keys

\* The media of a job is replaced by an agent or a run that has reached the
\* placement (place_verified_output).
LEMMA MediaSteps ==
    ASSUME FleetInv, [Next]_vars
    PROVE  \A j \in Jobs : MediaStep(j)
<1> USE DEF Executing
<1>0. /\ agent \in [Hosts -> Agent] /\ run \in [Runs -> Run]
      /\ media \in [Jobs -> {"original", "replaced"}]
    BY DEF FleetInv, AgentsSound, LoopInv, RunsSound, MediaTyped
<1>1. ASSUME UNCHANGED media PROVE \A j \in Jobs : MediaStep(j)
    BY <1>1 DEF MediaStep
<1>2. ASSUME NEW h \in Hosts, Place(h) PROVE \A j \in Jobs : MediaStep(j)
    <2>1. CASE Sends(h, "failed")
        BY <1>1, <2>1 DEF Sends
    <2>2. CASE /\ media' = [media EXCEPT ![agent[h].job] = "replaced"]
               /\ agent' = [agent EXCEPT ![h] = Sending(h, "completed")]
        <3>1. agent'[h].phase = "sending"
            BY <1>0, <2>2 DEF Sending, Agent
        <3>2. \A j \in Jobs : j # agent[h].job => media'[j] = media[j]
            BY <1>0, <2>2
        <3> QED BY <1>2, <3>1, <3>2 DEF Place, MediaStep, Busy
    <2> QED BY <1>2, <2>1, <2>2 DEF Place
<1>3. ASSUME NEW r \in Runs, LocalPlace(r) PROVE \A j \in Jobs : MediaStep(j)
    <2>1. CASE media' = [media EXCEPT ![run[r].job] = "replaced"] /\ RunEnds(r, "completed")
        <3>1. run'[r].phase = "closing"
            BY <1>0, <2>1 DEF RunEnds, Run
        <3>2. \A j \in Jobs : j # run[r].job => media'[j] = media[j]
            BY <1>0, <2>1
        <3> QED BY <1>3, <3>1, <3>2 DEF LocalPlace, MediaStep
    <2> QED BY <1>1, <1>3, <2>1 DEF LocalPlace
<1>4. ASSUME NEW h \in Hosts,
             \/ Restart(h) \/ Crash(h) \/ ForgetPairing(h) \/ Register(h) \/ Beat(h)
             \/ Poll(h) \/ Claim(h) \/ EncodeProgress(h) \/ Start(h) \/ Encode(h)
             \/ BeginVerify(h) \/ Verify(h) \/ BeginReplace(h) \/ Submit(h) \/ ReportFailure(h)
      PROVE  UNCHANGED media
    BY <1>4 DEF Restart, Crash, ForgetPairing, Register, Beat, Poll, Claim, EncodeProgress,
       Start, Encode, BeginVerify, Verify, BeginReplace, Submit, ReportFailure, Reports, Sends
<1>5. ASSUME NEW r \in Runs,
             \/ LocalClaim(r) \/ LocalProgress(r) \/ Break(r) \/ LocalRestart(r)
             \/ Activate(r) \/ Launch(r) \/ LocalEncode(r) \/ Close(r) \/ Record(r)
      PROVE  UNCHANGED media
    BY <1>5 DEF LocalClaim, LocalProgress, Break, LocalRestart, Activate, Launch,
       LocalEncode, Close, Record
<1>6. ASSUME NEW j \in Jobs,
             \/ CancelQueued(j) \/ CancelRemote(j) \/ CancelLocal(j) \/ Silence(j)
             \/ Sweep(j)
      PROVE  UNCHANGED media
    BY <1>6 DEF CancelQueued, CancelRemote, CancelLocal, Silence, Sweep
<1>7. ASSUME NEW w \in Keys,
             \/ SetEnabled(w) \/ SetDisabled(w) \/ HeartbeatAges(w) \/ Onboard(w)
             \/ Expire(w) \/ Delete(w)
      PROVE  UNCHANGED media
    BY <1>7 DEF SetEnabled, SetDisabled, HeartbeatAges, Onboard, Expire, Delete
<1>8. ASSUME NEW c \in Loops, LoopCrash(c) PROVE UNCHANGED media
    BY <1>8 DEF LoopCrash
<1>9. UNCHANGED vars => UNCHANGED media
    BY DEF vars
<1> QED
    BY <1>1, <1>2, <1>3, <1>4, <1>5, <1>6, <1>7, <1>8, <1>9 DEF Next, ExecuteStep, LoopStep, Keys

-----------------------------------------------------------------------------
(* A job has one executor at a time, and none before its claim.            *)

NoneActive(j) == (\A h \in Hosts : ~Busy(h, j)) /\ \A r \in Runs : run[r].job # j

Sole(j) ==
    /\ row[j].status \in {"none", "pending"} => media[j] = "original" /\ NoneActive(j)
    /\ \A h, g \in Hosts : Busy(h, j) /\ Busy(g, j) => h = g
    /\ \A h \in Hosts, r \in Runs : Busy(h, j) => run[r].job # j
    /\ media[j] = "replaced" =>
          /\ \A h \in Hosts : ~Busy(h, j)
          /\ \A r \in Runs : run[r].job = j => run[r].phase \in Over
AllSole == \A j \in Jobs : Sole(j)

\* An agent that executes after a step did so before it or was granted a queued job.
LEMMA BusyComes ==
    ASSUME NEW h \in Hosts, NEW j \in Jobs, AgentStep(h, j), Busy(h, j)'
    PROVE  Busy(h, j) \/ Granted(j)
BY DEF AgentStep, Told, Went

\* Claims, placements and crashes keep the one executor (claim_pending_for_worker).
LEMMA SoleKept ==
    ASSUME FleetInv, AllSole, [Next]_vars
    PROVE  AllSole'
<1> SUFFICES ASSUME NEW j \in Jobs PROVE Sole(j)'
    BY DEF AllSole
<1>0. /\ Sole(j) /\ RowStep(j) /\ MediaStep(j) /\ OneActs
      /\ \A h \in Hosts : AgentStep(h, j)
      /\ \A r \in Runs : RunStep(r, j)
      /\ media[j] \in {"original", "replaced"}
      /\ \A r, q \in Runs : run[r].job = j /\ run[q].job = j => r = q
    BY AgentSteps, RowSteps, RunSteps, MediaSteps
       DEF AllSole, FleetInv, MediaTyped, LoopInv, OneRunPerJob
<1>1. Granted(j) => NoneActive(j) /\ media[j] = "original"
    BY <1>0 DEF Granted, Sole
<1>2. Granted(j) => row'[j].status = "running"
    BY DEF Granted
<1>3. \A h \in Hosts : Busy(h, j)' => Busy(h, j) \/ Granted(j)
    BY <1>0, BusyComes
<1>4. \A r \in Runs : run'[r].job = j => run[r].job = j \/ Granted(j)
    BY <1>0 DEF RunStep
<1>5. media[j] = "original" /\ media'[j] # "original" =>
         \/ \E h \in Hosts : Busy(h, j) /\ agent'[h].phase = "sending"
         \/ \E r \in Runs : run[r].job = j /\ run'[r].phase = "closing"
    BY <1>0 DEF MediaStep
<1>6. ASSUME row'[j].status \in {"none", "pending"}
      PROVE  media'[j] = "original" /\ NoneActive(j)'
    <2>1. media[j] = "original" /\ NoneActive(j) /\ ~Granted(j)
        BY <1>0, <1>2, <1>6 DEF Sole, RowStep
    <2> QED BY <1>3, <1>4, <1>5, <2>1 DEF NoneActive
<1>7. ASSUME NEW h \in Hosts, NEW g \in Hosts, Busy(h, j)', Busy(g, j)' PROVE h = g
    <2>1. CASE Granted(j)
        <3>1. agent'[h] # agent[h] /\ agent'[g] # agent[g]
            BY <1>1, <1>7, <2>1 DEF NoneActive, Busy
        <3> QED BY <1>0, <3>1 DEF OneActs
    <2>2. CASE ~Granted(j)
        BY <1>0, <1>3, <1>7, <2>2 DEF Sole
    <2> QED BY <2>1, <2>2
<1>8. ASSUME NEW h \in Hosts, NEW r \in Runs, Busy(h, j)' PROVE run'[r].job # j
    <2>1. CASE Granted(j)
        <3>1. agent'[h] # agent[h]
            BY <1>1, <1>8, <2>1 DEF NoneActive, Busy
        <3>2. UNCHANGED run
            BY <1>0, <3>1 DEF OneActs
        <3> QED BY <1>1, <2>1, <3>2 DEF NoneActive
    <2>2. CASE ~Granted(j)
        BY <1>0, <1>3, <1>4, <1>8, <2>2 DEF Sole
    <2> QED BY <2>1, <2>2
<1>9. ASSUME media'[j] = "replaced"
      PROVE  /\ \A h \in Hosts : ~Busy(h, j)'
             /\ \A r \in Runs : run'[r].job = j => run'[r].phase \in Over
    <2>1. CASE media[j] = "replaced"
        <3>1. ~Granted(j) /\ \A h \in Hosts : ~Busy(h, j)
            BY <1>0, <1>1, <2>1 DEF Sole
        <3>2. \A r \in Runs : run[r].job = j => run[r].phase \in Over
            BY <1>0, <2>1 DEF Sole
        <3> QED BY <1>0, <1>3, <3>1, <3>2 DEF RunStep
    <2>2. ASSUME NEW h \in Hosts, Busy(h, j), agent'[h].phase = "sending"
          PROVE  (\A g \in Hosts : ~Busy(g, j)') /\ \A r \in Runs : run'[r].job # j
        <3>1. ~Granted(j) /\ ~Busy(h, j)'
            BY <1>1, <2>2 DEF NoneActive, Busy, Executing
        <3>2. \A g \in Hosts : Busy(g, j) => g = h
            BY <1>0, <2>2 DEF Sole
        <3>3. \A r \in Runs : run[r].job # j
            BY <1>0, <2>2 DEF Sole
        <3> QED BY <1>3, <1>4, <3>1, <3>2, <3>3
    <2>3. ASSUME NEW r \in Runs, run[r].job = j, run'[r].phase = "closing"
          PROVE  /\ \A g \in Hosts : ~Busy(g, j)'
                 /\ \A q \in Runs : run'[q].job = j => run'[q].phase \in Over
        <3>1. ~Granted(j) /\ \A g \in Hosts : ~Busy(g, j)
            BY <1>0, <1>1, <2>3 DEF NoneActive, Sole
        <3>2. \A q \in Runs : run[q].job = j => q = r
            BY <1>0, <2>3
        <3> QED BY <1>3, <1>4, <2>3, <3>1, <3>2 DEF Over
    <2> QED BY <1>0, <1>5, <1>9, <2>1, <2>2, <2>3
<1> QED BY <1>6, <1>7, <1>8, <1>9 DEF Sole

\* Before the first step nobody executes anything.
LEMMA SoleStarts == Init => AllSole
<1> SUFFICES ASSUME Init, NEW j \in Jobs PROVE Sole(j)
    BY DEF AllSole
<1>1. NoneActive(j)
    BY ControlAssumption DEF Init, NoneActive, Busy, Executing, Installed, Blank
<1> QED BY <1>1 DEF Init, Sole, NoneActive

\* In every reachable state a job has at most one executor.
LEMMA AlwaysSole == Spec => [](FleetInv /\ AllSole)
BY FleetStarts, FleetKept, SoleStarts, SoleKept, PTL DEF Spec

-----------------------------------------------------------------------------
(* A row that was taken away before the placement was announced.           *)

TakenAway(j) ==
    /\ row[j].status \in Final /\ media[j] = "original"
    /\ \A h \in Hosts : ~(agent[h].phase = "replacing" /\ agent[h].job = j)
    /\ \A r \in Runs : run[r].job # j

\* It stays so: the answer an agent needs to place is refused, and no claim is
\* granted (report_job_progress, claim_pending_for_worker).
LEMMA StaysTakenAway ==
    ASSUME FleetInv, [Next]_vars, NEW j \in Jobs, TakenAway(j)
    PROVE  TakenAway(j)'
<1>0. /\ RowStep(j) /\ MediaStep(j)
      /\ \A h \in Hosts : AgentStep(h, j)
      /\ \A r \in Runs : RunStep(r, j)
    BY AgentSteps, RowSteps, RunSteps, MediaSteps
<1>1. ~Granted(j) /\ row[j].status # "running"
    BY DEF Granted, TakenAway, Final
<1>2. ASSUME NEW h \in Hosts, agent'[h].phase = "replacing", agent'[h].job = j PROVE FALSE
    <2>1. Busy(h, j)'
        BY <1>2 DEF Busy, Executing
    <2>2. ~Told(h, j)
        BY <1>1 DEF Told, Holds
    <2>3. Went(h, j)
        BY <1>0, <1>1, <2>1, <2>2 DEF AgentStep
    <2> QED BY <1>2, <2>3 DEF Went, Busy, TakenAway
<1>3. \A r \in Runs : run'[r].job # j
    BY <1>0, <1>1 DEF RunStep, TakenAway
<1>4. row'[j].status \in Final
    BY <1>0 DEF RowStep, TakenAway
<1>5. media'[j] = "original"
    BY <1>0 DEF MediaStep, Busy, TakenAway
<1> QED BY <1>2, <1>3, <1>4, <1>5 DEF TakenAway

\* An agent whose row was taken away before it was told to place does not
\* replace the media later (NoLateReplacement), for any machines, loops and jobs
\* and whatever is lost or restarted (report_job_progress, _verify_and_place).
THEOREM NeverReplacesLate == Spec => NoLateReplacement
<1> SUFFICES ASSUME NEW j \in Jobs PROVE Spec => [](TakenAway(j) => [](media[j] = "original"))
    BY DEF NoLateReplacement, TakenAway
<1>1. FleetInv /\ TakenAway(j) /\ [Next]_vars => TakenAway(j)'
    BY StaysTakenAway
<1>2. TakenAway(j) => media[j] = "original"
    BY DEF TakenAway
<1> QED BY <1>1, <1>2, FleetStarts, FleetKept, PTL DEF Spec

-----------------------------------------------------------------------------
(* A cancellation recorded in time.                                        *)

\* The next answer the agent needs carries the cancellation, or it was heard.
Warned(h, j) ==
    /\ row[j].cancel
    /\ \/ agent[h].phase \in {"claimed", "encoding", "staged"}
       \/ agent[h].phase = "verifying" /\ agent[h].heard

\* The look at the flag when ffmpeg ends is still to come, or has found it.
Halted(r, j) ==
    \/ run[r].phase \in Over
    \/ run[r].phase \in EarlyRun /\ j \in Mine(r).ids

Heeded(j) ==
    /\ row[j].status \notin {"none", "pending"} /\ media[j] = "original"
    /\ \A h \in Hosts : Busy(h, j) => Warned(h, j)
    /\ \A r \in Runs : run[r].job = j => Halted(r, j)

\* What CancellationHeeded calls a cancellation recorded in time.
InTime(j) ==
    \/ row[j].cancel /\ \E h \in Hosts : EarlyOn(h, j) /\ Holds(KeyOf[h], j)
    \/ \E r \in Runs : /\ run[r].job = j
                       /\ j \in Mine(r).ids
                       /\ run[r].phase \in {"claimed", "active", "encoding"}

\* Then the one executor is warned.
LEMMA InTimeHeeded ==
    ASSUME FleetInv, AllSole, NEW j \in Jobs, InTime(j)
    PROVE  Heeded(j)
<1>0. /\ Sole(j) /\ media[j] \in {"original", "replaced"}
      /\ \A r, q \in Runs : run[r].job = j /\ run[q].job = j => r = q
    BY DEF AllSole, FleetInv, MediaTyped, LoopInv, OneRunPerJob
<1>1. ASSUME row[j].cancel, NEW h \in Hosts, EarlyOn(h, j), Holds(KeyOf[h], j)
      PROVE  Heeded(j)
    <2>1. Busy(h, j) /\ Warned(h, j)
        BY <1>1 DEF EarlyOn, Busy, Executing, Warned
    <2>2. row[j].status \notin {"none", "pending"}
        BY <1>1 DEF Holds
    <2>3. media[j] = "original"
        BY <1>0, <2>1 DEF Sole
    <2>4. \A g \in Hosts : Busy(g, j) => g = h
        BY <1>0, <2>1 DEF Sole
    <2>5. \A r \in Runs : run[r].job # j
        BY <1>0, <2>1 DEF Sole
    <2> QED BY <2>1, <2>2, <2>3, <2>4, <2>5 DEF Heeded
<1>2. ASSUME NEW r \in Runs, run[r].job = j, j \in Mine(r).ids,
             run[r].phase \in {"claimed", "active", "encoding"}
      PROVE  Heeded(j)
    <2>1. Halted(r, j) /\ run[r].phase \notin Over
        BY <1>2 DEF Halted, EarlyRun, Over
    <2>2. row[j].status \notin {"none", "pending"}
        BY <1>0, <1>2 DEF Sole, NoneActive
    <2>3. media[j] = "original"
        BY <1>0, <1>2, <2>1 DEF Sole
    <2>4. \A h \in Hosts : ~Busy(h, j)
        BY <1>0, <1>2 DEF Sole
    <2>5. \A q \in Runs : run[q].job = j => q = r
        BY <1>0, <1>2
    <2> QED BY <2>1, <2>2, <2>3, <2>4, <2>5 DEF Heeded
<1> QED BY <1>1, <1>2 DEF InTime

\* And stays warned to the end of its execution (report_job_progress, execute,
\* FFmpegClient.run).
LEMMA StaysHeeded ==
    ASSUME FleetInv, [Next]_vars, NEW j \in Jobs, Heeded(j)
    PROVE  Heeded(j)'
<1>0. /\ RowStep(j) /\ MediaStep(j)
      /\ \A h \in Hosts : AgentStep(h, j)
      /\ \A r \in Runs : RunStep(r, j)
    BY AgentSteps, RowSteps, RunSteps, MediaSteps
<1>1. ~Granted(j) /\ row'[j].status \notin {"none", "pending"}
    BY <1>0 DEF Granted, RowStep, Heeded
<1>2. ASSUME NEW h \in Hosts, Busy(h, j)' PROVE Warned(h, j)'
    <2>1. Told(h, j) \/ Went(h, j)
        BY <1>0, <1>1, <1>2 DEF AgentStep
    <2>2. Warned(h, j) /\ row'[j].cancel
        BY <1>0, <2>1 DEF Told, Went, Heeded, RowStep, Warned
    <2>3. CASE Told(h, j)
        BY <2>2, <2>3 DEF Told, Warned
    <2>4. CASE Went(h, j)
        BY <2>2, <2>4 DEF Went, Warned
    <2> QED BY <2>1, <2>3, <2>4
<1>3. ASSUME NEW r \in Runs, run'[r].job = j PROVE Halted(r, j)'
    <2>1. run[r].job = j /\ Halted(r, j)
        BY <1>0, <1>1, <1>3 DEF RunStep, Heeded
    <2>2. CASE run[r].phase \in Over
        BY <1>0, <1>1, <1>3, <2>2 DEF RunStep, Halted
    <2>3. CASE run[r].phase \in EarlyRun /\ j \in Mine(r).ids
        BY <1>0, <1>1, <1>3, <2>3 DEF RunStep, Halted
    <2> QED BY <2>1, <2>2, <2>3 DEF Halted
<1>4. media'[j] = "original"
    <2>1. ASSUME NEW h \in Hosts, Busy(h, j) PROVE agent[h].phase # "replacing"
        BY <2>1 DEF Heeded, Warned
    <2>2. ASSUME NEW r \in Runs, run[r].job = j PROVE run[r].phase # "verifying"
        BY <2>2 DEF Heeded, Halted, Over, EarlyRun
    <2> QED BY <1>0, <2>1, <2>2 DEF MediaStep, Heeded
<1> QED BY <1>1, <1>2, <1>3, <1>4 DEF Heeded

\* A cancellation recorded while the job is still being encoded keeps its media
\* (CancellationHeeded), for any machines, loops and jobs (report_job_progress,
\* request_cancel, execute).
THEOREM HeedsCancellation == Spec => CancellationHeeded
<1> SUFFICES ASSUME NEW j \in Jobs PROVE Spec => [](InTime(j) => [](media[j] = "original"))
    BY DEF CancellationHeeded, InTime
<1>1. FleetInv /\ AllSole /\ InTime(j) => Heeded(j)
    BY InTimeHeeded
<1>2. FleetInv /\ Heeded(j) /\ [Next]_vars => Heeded(j)'
    BY StaysHeeded
<1>3. Heeded(j) => media[j] = "original"
    BY DEF Heeded
<1> QED BY <1>1, <1>2, <1>3, AlwaysSole, PTL DEF Spec
=============================================================================
