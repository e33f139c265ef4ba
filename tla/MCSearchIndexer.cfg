\* Four rows in pages of two (two full pages, then an empty one), three restarts,
\* two concurrent row updates, failing Execs and an expiring cursor.
CONSTANTS
    v1 = v1
    v2 = v2
    Val <- MCVal
    Ids = {1, 2, 3, 4}
    NULL = NULL
    Batch = 2
    RedisFails = TRUE
    MaxCrashes = 3
    MaxUpdates = 2

SPECIFICATION Spec
\* The consumer blocks on the stream once the event is handled and the
\* application stops: the system really stops there.
CHECK_DEADLOCK FALSE
INVARIANTS
    TypeOK
    CursorBehindDocs
PROPERTIES
    IndexerConverges
    RefinesIndexRebuild
