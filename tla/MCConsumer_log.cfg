\* Synchronous flushes with an audit log, the consumer crashing before Ack.
CONSTANTS
    e1 = e1
    e2 = e2
    v1 = v1
    v2 = v2
    Ent <- MCEnt
    Val <- MCVal
    NULL = NULL
    Miss = Miss
    NilMark = NilMark
    AutoInc = 2
    MaxId = 4
    MaxTracked = 3
    TrackLimit = 3
    HasRedis = FALSE
    HasLog = TRUE
    RetrackNew = FALSE
    ReuseLazy = FALSE
    LazyFlushes = FALSE
    DBFails = FALSE
    CrashEnabled = TRUE

SPECIFICATION ConsumerSpec
CONSTRAINT LogStreamBound
VIEW LogView
SYMMETRY Symmetry
INVARIANTS
    SettledLogDescribesRows
