SPECIFICATION MCSpec
CONSTANTS
    Caller = {c1}
    Reviewer = c1
    MaxJobs = 2
    MaxPlans = 2
    MaxTries = 1
    Policies = {"day"}
    Strategies = {"fail"}
    Operation = {o1}
    MaxFiles = 1
    BatchSize = 1
    Token = {t1, t2}
    Request = {r1}
    NoToken = NoToken
    Days = 1
    Slots = 4
    Boundaries <- MCBoundaries
    Name <- MCName
    Mappings <- MCMappings
    Scratches <- MCScratches
    MediaFiles <- MCMediaFiles
    MediaRoots <- MCMediaRoots
    ServerScratch <- MCServerScratch
    Mounted <- MCMounted
    Writable <- MCWritable
    NoPath = NoPath
INVARIANTS
    MappingsValidate
CHECK_DEADLOCK FALSE
