SPECIFICATION MCSpec
CONSTANTS
    Caller = {c1, c2}
    Reviewer = c1
    MaxJobs = 2
    MaxPlans = 2
    MaxTries = 1
    Policies = {"day", "delete"}
    Strategies = {"fail", "replace"}
    Operation = {o1, o2}
    MaxFiles = 3
    BatchSize = 2
    Token = {t1, t2, t3}
    Request = {r1, r2}
    NoToken = NoToken
    Days = 3
    Slots = 4
    Boundaries <- MCBoundaries
    Name <- MCName
    Mappings <- MCMappings
    Scratches <- MCScratches
    MediaFiles <- MCMediaFiles
    MediaRoots <- MCMediaRoots
    ServerScratch <- MCServerScratch
    Mounted <- MCMounted
    Writable <- MCWritable
    NoPath = NoPath
INVARIANTS
    TypeOK
    
    WatchQueuesOnce
    
    CancelPrompt
    SingleUse
    LogoutRevokes
    OpeningIsNext
    ReturnsToFile

    
    
CONSTRAINT
    LibraryBound
CHECK_DEADLOCK FALSE
