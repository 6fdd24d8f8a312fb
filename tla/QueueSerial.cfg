\* Both kinds of executor, all results; every handler runs alone from read to commit.
SPECIFICATION Spec
CONSTANTS
    j1 = j1  j2 = j2  f1 = f1  f2 = f2  loc = loc  rem = rem  loop = loop  agent = agent
    s1 = s1  s2 = s2
    NoJob = NoJob  NoWorker = NoWorker  NoFile = NoFile  Keep = Keep
    Jobs = {j1, j2}
    Files = {f1}
    Workers = {loc, rem}
    Remote = {rem}
    Executors = {loop, agent}
    ApiLoops = {loop}
    Sessions = {s1}
    Orch = orch
    Protected = {}
    Outcomes = {"completed", "failed", "skipped", "manual_review", "cancelled"}
    Split = {}
    MaxAutomatedRetries = 1
    MaxAttempt = 2
    WorkerOf <- OnBoth
    Cap <- OneEach
SYMMETRY Interchangeable

    
PROPERTIES
    KeepsLifecycle
