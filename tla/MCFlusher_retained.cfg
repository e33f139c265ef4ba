\* Synchronous flushes by one reused flusher, checked against WriteThrough.
CONSTANTS
    e1 = e1
    e2 = e2
    v1 = v1
    v2 = v2
    Ent <- MCEnt
    Val <- MCVal
    NULL = NULL
    Miss = Miss
    NilMark = NilMark
    AutoInc = 2
    MaxId = 4
    MaxTracked = 3
    TrackLimit = 3
    HasRedis = TRUE
    HasLog = TRUE
    RetrackNew = FALSE
    ReuseLazy = FALSE
    LazyFlushes = FALSE
    DBFails = FALSE

SPECIFICATION Spec
CONSTRAINT StreamBound
SYMMETRY Symmetry
PROPERTY
    RefinesWriteThrough
