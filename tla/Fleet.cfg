SPECIFICATION MCSpec
CONSTANTS
    w1 = w1
    h1 = h1
    h2 = h2
    j1 = j1
    j2 = j2
    r1 = r1
    r2 = r2
    api = api
    local = local
    Hosts = {h1, h2}
    NoHost = NoHost
    Nobody = Nobody
    Jobs = {j1, j2}
    Runs = {r1, r2}
    NoJob = NoJob
    NoRun = NoRun
    Remote = {w1}
    Local = local
    KeyOf <- MCKeyOf
    Loops = {api}
    LoopOf <- MCLoopOf
    Api = api
    LocalCap = 2
    NoWorker = NoWorker
INVARIANTS TypeOK RegisteredUsable StopsOwnProcess
PROPERTIES PairedOnce CancellationHeeded NoLateReplacement RunningSettles
CHECK_DEADLOCK FALSE
