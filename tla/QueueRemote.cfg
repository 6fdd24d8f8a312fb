\* A remote agent, one API session, the orchestrator; results, retries, skips, cancellations and orchestration interleave.
SPECIFICATION Spec
CONSTANTS
    j1 = j1  j2 = j2  f1 = f1  f2 = f2  loc = loc  rem = rem  loop = loop  agent = agent
    s1 = s1  s2 = s2
    NoJob = NoJob  NoWorker = NoWorker  NoFile = NoFile  Keep = Keep
    Jobs = {j1, j2}
    Files = {f1}
    Workers = {rem}
    Remote = {rem}
    Executors = {agent}
    ApiLoops = {}
    Sessions = {s1}
    Orch = orch
    Protected = {}
    Outcomes = {"completed", "failed", "cancelled"}
    Split = {"cancel", "retry", "skip", "submit", "report", "orchestrate"}
    MaxAutomatedRetries = 1
    MaxAttempt = 2
    WorkerOf <- OnRemote
    Cap <- OneEach
SYMMETRY Interchangeable
INVARIANTS
    OneActivePerFile
    QueuedFileHasJob
PROPERTIES
    FailureFollowedUp
