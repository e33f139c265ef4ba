\* A registry validated and then changed: repeated Validate, new streams, new pools.
CONSTANTS
    e1 = e1
    e2 = e2
    idx = idx
    lc = lc
    p1 = p1
    userStream = userStream
    lazy = lazy
    logc = logc
    search = search
    async = async
    other = other
    Entities <- MCEntities
    Prefix <- MCPrefix
    LogEntities = {e2}
    SearchEntities = {}
    BadEntities = {}
    Indices = {idx}
    LocalPools = {lc}
    SqlPools = {p1}
    Streams <- MCStreams
    Groups <- MCGroups
    LazyChannel = lazy
    LogChannel = logc
    SearchChannel = search
    AsyncGroup = async
    NotReg = NotReg
    IOFails = TRUE
    MaxCfg = 2
    MaxValidate = 2

SPECIFICATION Spec
CHECK_DEADLOCK FALSE
INVARIANT ValidatedRegistryImmutable
