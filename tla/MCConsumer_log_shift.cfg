\* Lazy inserts with an audit log: which ids do the insert events get?
CONSTANTS
    e1 = e1
    e2 = e2
    v1 = v1
    v2 = v2
    Ent <- MCEnt
    Val <- MCVal
    NULL = NULL
    Miss = Miss
    NilMark = NilMark
    AutoInc = 2
    MaxId = 4
    MaxTracked = 2
    TrackLimit = 3
    HasRedis = TRUE
    HasLog = TRUE
    RetrackNew = FALSE
    ReuseLazy = FALSE
    LazyFlushes = TRUE
    DBFails = FALSE
    CrashEnabled = FALSE

SPECIFICATION ConsumerSpec
CONSTRAINT StreamBound
VIEW StoreView
SYMMETRY Symmetry
PROPERTIES
    InsertEventNamesItsRow
