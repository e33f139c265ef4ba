\* Checked flushes whose statements may fail, with and without a transaction,
\* interleaved with lazy flushes (whose envelopes no consumer runs here).
CONSTANTS
    e1 = e1
    e2 = e2
    v1 = v1
    v2 = v2
    Ent <- MCEnt
    Val <- MCVal
    NULL = NULL
    Miss = Miss
    NilMark = NilMark
    AutoInc = 2
    MaxId = 4
    MaxTracked = 3
    TrackLimit = 3
    HasRedis = TRUE
    HasLog = TRUE
    RetrackNew = FALSE
    ReuseLazy = FALSE
    LazyFlushes = TRUE
    DBFails = TRUE

SPECIFICATION Spec
SYMMETRY Symmetry
CONSTRAINT StreamBound
CONSTRAINT RedisFlusherBound
VIEW DBView
INVARIANTS
    AtMostOneRowPerEntity
