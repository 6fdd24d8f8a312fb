\* A local loop, one API session, the orchestrator, two files; cancellations, clear_queue and orchestration interleave.
SPECIFICATION Spec
CONSTANTS
    j1 = j1  j2 = j2  f1 = f1  f2 = f2  loc = loc  rem = rem  loop = loop  agent = agent
    s1 = s1  s2 = s2
    NoJob = NoJob  NoWorker = NoWorker  NoFile = NoFile  Keep = Keep
    Jobs = {j1, j2}
    Files = {f1, f2}
    Workers = {loc}
    Remote = {}
    Executors = {loop}
    ApiLoops = {loop}
    Sessions = {s1}
    Orch = orch
    Protected = {}
    Outcomes = {"completed", "failed", "cancelled"}
    Split = {"cancel", "clear_queue", "orchestrate"}
    MaxAutomatedRetries = 1
    MaxAttempt = 2
    WorkerOf <- OnLocal
    Cap <- OneEach
SYMMETRY Interchangeable
INVARIANTS
    TypeOK
    OneActivePerFile
    CapacityRespected
    QueuedFileHasJob
PROPERTIES
    FailureFollowedUp
