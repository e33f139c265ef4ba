------------------------------- MODULE Flusher -------------------------------
(***************************************************************************)
(* The flush engine of the ORM (src/edit_entity_field.go, type flusher)    *)
(* for one entity schema whose only data column is Name, with a local     *)
(* cache, optionally a Redis cache and an audit log, and one dirty stream *)
(* that tracks Name.                                                       *)
(*                                                                         *)
(* One application goroutine owns a flusher: it edits entities, tracks    *)
(* them and flushes them synchronously, in a transaction or lazily.  A    *)
(* whole flushTrackedEntities call runs under the flusher mutex and is    *)
(* one step.  A DB error inside a checked flush (FlushWithCheck,          *)
(* FlushWithFullCheck, FlushInTransactionWithCheck) stops the call at the *)
(* statement that failed; which statement fails is a nondeterministic     *)
(* choice.                                                                 *)
(*                                                                         *)
(* Fields marked "ghost" are not in the code: they record which entity    *)
(* object a row or an event came from, so the properties can name it.     *)
(***************************************************************************)
EXTENDS Integers, Sequences, SequencesExt

CONSTANTS
    Ent,          \* entity objects of the schema (model values)
    Val,          \* values the Name column can take
    NULL,         \* nil: no "before" / "changes" in a log record
    Miss,         \* the local cache has no entry for the key
    NilMark,      \* cacheNilValue, the tombstone a delete stores locally
    AutoInc,      \* the pool's auto_increment_increment
    MaxId,        \* bound: the highest row id the table may reach
    MaxTracked,   \* bound: the longest trackedEntities list
    TrackLimit,   \* the 10000 of "track limit 10000 exceeded"
    HasRedis,     \* the schema has a Redis cache
    HasLog,       \* the schema has an audit log table
    RetrackNew,   \* the application may Track an unsaved entity twice
    ReuseLazy,    \* the application may Track an entity again after FlushLazy inserted it
    LazyFlushes,  \* the application calls FlushLazy
    DBFails       \* a statement of a checked flush may fail

ASSUME /\ AutoInc \in Nat \ {0}
       /\ MaxId \in Nat \ {0}
       /\ TrackLimit \in Nat \ {0}
       /\ MaxTracked \in Nat

VARIABLES
    ent,      \* ent[e]: Name field, ID, DbData Name, orm.inDB, orm.delete,
              \* lazyIns (ghost): a FlushLazy has put its INSERT in an envelope
    rows,     \* the table: id -> [ent (ghost), val, live]; a deleted row is not live
    nextId,   \* the table's next AUTO_INCREMENT value
    local,    \* local cache: row key prefix:id -> value | NilMark | Miss
    tracked,  \* flusher.trackedEntities
    counter,  \* flusher.trackedEntitiesCounter
    rflush,   \* flusher.redisFlusher: commands queued, not yet executed
    dirtyQ,   \* the dirty stream tracking Name
    logQ,     \* orm-log-channel
    lazyQ     \* orm-lazy-channel

vars == <<ent, rows, nextId, local, tracked, counter, rflush, dirtyQ, logQ, lazyQ>>

Ids == 1..MaxId
Keys == 0..MaxId         \* prefix:0 is the key a lazily inserted row is given

Row == [ent: Ent, val: Val, live: BOOLEAN]
DirtyEv == [A: {"i", "u", "d"}, I: Keys, E: Ent]           \* E: ghost
LogRec == [ID: Keys, before: Val \cup {NULL}, changes: Val \cup {NULL}, E: Ent]
NoCommands == [dels |-> <<>>, dirty |-> <<>>, log |-> <<>>, lazy |-> <<>>]

(***************************************************************************)
(* orm.getDirtyBind: an entity marked to delete, not yet in the DB, or    *)
(* whose Name differs from its DbData has a bind to flush.                *)
(***************************************************************************)
IsDirty(r) == r.del \/ ~r.inDB \/ r.name # r.data

Live(tbl, i) == i \in DOMAIN tbl /\ tbl[i].live
RowVal(tbl, i) == IF Live(tbl, i) THEN tbl[i].val ELSE NilMark

(***************************************************************************)
(* The flush accumulator: entities as the flush changes them; the insert  *)
(* list, updateSQLs and the deleted entities (insertReflectValues,        *)
(* updateSQLs, deleteBinds); localCacheSets / localCacheDeletes; the      *)
(* redis flusher; the lazy map's q, l and d.                               *)
(***************************************************************************)
InitAcc == [ent |-> ent, ins |-> <<>>, upd |-> <<>>, dels |-> <<>>,
            lsets |-> <<>>, ldels |-> <<>>, rf |-> rflush,
            q |-> <<>>, l |-> <<>>, d |-> <<>>]

\* addDirtyQueues: the event {A, I, E} for the entity's dirty stream (which tracks "ORM").
DirtyEvent(action, id, e) == [A |-> action, I |-> id, E |-> e]

\* addToLogQueue: a log record when the table has a log, none otherwise.
LogRecords(id, before, changes, e) ==
    IF HasLog THEN <<[ID |-> id, before |-> before, changes |-> changes, E |-> e]>> ELSE <<>>

\* fillLazyQuery: the query is appended, "l" and "d" are replaced.
FillLazyQuery(A, query, logs, dirties) ==
    [A EXCEPT !.q = Append(@, query),
              !.l = IF logs # <<>> THEN logs ELSE @,
              !.d = IF dirties # <<>> THEN dirties ELSE @]

\* Variant of UpdateCacheAfterUpdate: the log record takes its changes from
\* the old DbData.
UpdateCacheAfterUpdateLogsOld(A, e, lazy) ==
    LET r   == A.ent[e]
        ev  == DirtyEvent("u", r.id, e)
        lgs == LogRecords(r.id, r.data, r.data, e)
        B == [A EXCEPT !.ent[e].data = r.name,
                       !.lsets = Append(@, <<r.id, r.name>>),
                       !.rf.dels = IF HasRedis THEN Append(@, r.id) ELSE @,
                       !.rf.dirty = IF lazy THEN @ ELSE Append(@, ev),
                       !.rf.log = IF lazy THEN @ ELSE @ \o lgs]
    IN IF lazy
       THEN FillLazyQuery(B, [kind |-> "update", id |-> r.id, val |-> r.name], lgs, <<ev>>)
       ELSE [B EXCEPT !.upd = Append(@, [id |-> r.id, val |-> r.name])]

(***************************************************************************)
(* The UPDATE branch of the loop: updateCacheAfterUpdate (DbData takes    *)
(* the bind at once, a local set of the new row, a redis Del of the row   *)
(* key, the "u" event and the log record published, or returned when      *)
(* lazy) then updateSQLs, or fillLazyQuery when lazy.                     *)
(***************************************************************************)
UpdateCacheAfterUpdate(A, e, lazy) ==
    LET r   == A.ent[e]
        ev  == DirtyEvent("u", r.id, e)
        lgs == LogRecords(r.id, r.data, r.name, e)
        B == [A EXCEPT !.ent[e].data = r.name,
                       !.lsets = Append(@, <<r.id, r.name>>),
                       !.rf.dels = IF HasRedis THEN Append(@, r.id) ELSE @,
                       !.rf.dirty = IF lazy THEN @ ELSE Append(@, ev),
                       !.rf.log = IF lazy THEN @ ELSE @ \o lgs]
    IN IF lazy
       THEN FillLazyQuery(B, [kind |-> "update", id |-> r.id, val |-> r.name], lgs, <<ev>>)
       ELSE [B EXCEPT !.upd = Append(@, [id |-> r.id, val |-> r.name])]

\* One iteration of the loop over the tracked entities in flusher.flush.
LoopStep(lazy, A, e) ==
    LET r == A.ent[e] IN
    IF ~IsDirty(r) THEN A
    ELSE IF r.del THEN [A EXCEPT !.dels = Append(@, e)]
    ELSE IF ~r.inDB THEN [A EXCEPT !.ins = Append(@, e)]
    ELSE UpdateCacheAfterUpdate(A, e, lazy)

FlushLoop(lazy) == FoldLeft(LAMBDA A, e : LoopStep(lazy, A, e), InitAcc, tracked)

\* The rows one batched INSERT creates: nextId, nextId + AutoInc, ...
InsertedRows(A) ==
    [i \in {nextId + (k - 1) * AutoInc : k \in DOMAIN A.ins} |->
        [ent |-> A.ins[(i - nextId) \div AutoInc + 1],
         val |-> A.ent[A.ins[(i - nextId) \div AutoInc + 1]].name,
         live |-> TRUE]]

\* Variant of StampInserted: the running id is not advanced.
StampInsertedSameId(P, e) ==
    LET A == P[1]
        cur == P[2]
        r == A.ent[e]
        insertedID == IF r.id = 0 THEN cur ELSE r.id
    IN << [A EXCEPT !.ent[e] = [r EXCEPT !.id = insertedID, !.data = r.name, !.inDB = TRUE],
                    !.lsets = Append(@, <<insertedID, r.name>>),
                    !.rf.dels = IF HasRedis THEN Append(@, insertedID) ELSE @,
                    !.rf.log = @ \o LogRecords(insertedID, NULL, r.name, e),
                    !.rf.dirty = Append(@, DirtyEvent("i", insertedID, e))],
         cur >>

(***************************************************************************)
(* After the INSERT, per inserted entity: injectBind, then if its ID is   *)
(* still 0 it takes id and id = id + autoincrement; updateCacheForInserted *)
(* queues the local set, the redis Del, the log and the "i" event.        *)
(***************************************************************************)
StampInserted(P, e) ==
    LET A == P[1]
        cur == P[2]
        r == A.ent[e]
        insertedID == IF r.id = 0 THEN cur ELSE r.id
    IN << [A EXCEPT !.ent[e] = [r EXCEPT !.id = insertedID, !.data = r.name, !.inDB = TRUE],
                    !.lsets = Append(@, <<insertedID, r.name>>),
                    !.rf.dels = IF HasRedis THEN Append(@, insertedID) ELSE @,
                    !.rf.log = @ \o LogRecords(insertedID, NULL, r.name, e),
                    !.rf.dirty = Append(@, DirtyEvent("i", insertedID, e))],
         IF r.id = 0 THEN cur + AutoInc ELSE cur >>

InsertPhase(A) == FoldLeft(StampInserted, <<A, nextId>>, A.ins)[1]

(***************************************************************************)
(* The lazy INSERT branch: updateCacheForInserted(entity, true, 0, bind)  *)
(* per row (the entity is left unsaved, key prefix:0 goes to the local    *)
(* deletes and the redis Dels), then one fillLazyQuery with every row's   *)
(* log record and "i" event, all with id 0.                                *)
(***************************************************************************)
LazyInsertPhase(A) ==
    LET n == Len(A.ins)
        logs == [k \in 1..n |-> [ID |-> 0, before |-> NULL, changes |-> A.ent[A.ins[k]].name, E |-> A.ins[k]]]
        dirties == [k \in 1..n |-> DirtyEvent("i", 0, A.ins[k])]
        zeros == [k \in 1..n |-> 0]
        B == [A EXCEPT !.ldels = @ \o zeros,
                       !.rf.dels = IF HasRedis THEN @ \o zeros ELSE @,
                       !.ent = [x \in Ent |-> IF x \in Range(A.ins)
                                             THEN [A.ent[x] EXCEPT !.lazyIns = TRUE]
                                             ELSE A.ent[x]]]
        query == [kind |-> "insert", rows |-> [k \in 1..n |-> [ent |-> A.ins[k], val |-> A.ent[A.ins[k]].name]]]
    IN IF n = 0 THEN A
       ELSE FillLazyQuery(B, query, IF HasLog THEN logs ELSE <<>>, dirties)

\* deleteBinds[t] is a map id -> entity: of two entities with one id the later wins.
DeleteIds(A) == {A.ent[A.dels[k]].id : k \in DOMAIN A.dels}
DeletedBy(A, id) == A.dels[CHOOSE k \in DOMAIN A.dels :
                        /\ A.ent[A.dels[k]].id = id
                        /\ \A j \in DOMAIN A.dels : A.ent[A.dels[j]].id = id => j <= k]

\* Variant of DeletePhase: no tombstone is set in the local cache.
DeletePhaseNoTombstone(A, lazy) ==
    LET ids == SetToSortSeq(DeleteIds(A), LAMBDA x, y : x < y)
        by(k) == DeletedBy(A, ids[k])
        evs == [k \in DOMAIN ids |-> DirtyEvent("d", ids[k], by(k))]
        lgs == [k \in DOMAIN ids |-> [ID |-> ids[k], before |-> A.ent[by(k)].data,
                                       changes |-> NULL, E |-> by(k)]]
        logs == IF HasLog THEN lgs ELSE <<>>
        B == [A EXCEPT !.rf.dels = IF HasRedis THEN @ \o ids ELSE @,
                       !.rf.dirty = IF lazy THEN @ ELSE @ \o evs,
                       !.rf.log = IF lazy THEN @ ELSE @ \o logs]
    IN IF ids = <<>> THEN A
       ELSE IF lazy THEN FillLazyQuery(B, [kind |-> "delete", ids |-> DeleteIds(A)], logs, evs)
       ELSE B

(***************************************************************************)
(* The delete part of the root flush, per deleted id: the "d" event and a *)
(* log record with the old DbData (published after the DELETE, or put in  *)
(* the lazy map with the DELETE query), the NilMark set locally and the   *)
(* row key Del in redis.                                                   *)
(***************************************************************************)
DeletePhase(A, lazy) ==
    LET ids == SetToSortSeq(DeleteIds(A), LAMBDA x, y : x < y)
        by(k) == DeletedBy(A, ids[k])
        evs == [k \in DOMAIN ids |-> DirtyEvent("d", ids[k], by(k))]
        lgs == [k \in DOMAIN ids |-> [ID |-> ids[k], before |-> A.ent[by(k)].data,
                                       changes |-> NULL, E |-> by(k)]]
        logs == IF HasLog THEN lgs ELSE <<>>
        B == [A EXCEPT !.lsets = @ \o [k \in DOMAIN ids |-> <<ids[k], NilMark>>],
                       !.rf.dels = IF HasRedis THEN @ \o ids ELSE @,
                       !.rf.dirty = IF lazy THEN @ ELSE @ \o evs,
                       !.rf.log = IF lazy THEN @ ELSE @ \o logs]
    IN IF ids = <<>> THEN A
       ELSE IF lazy THEN FillLazyQuery(B, [kind |-> "delete", ids |-> DeleteIds(A)], logs, evs)
       ELSE B

\* LocalCache.MSet: pairs applied in order, the last one for a key wins.
MSet(cache, pairs) ==
    [k \in DOMAIN cache |->
        LET hits == {i \in DOMAIN pairs : pairs[i][1] = k}
        IN IF hits = {} THEN cache[k]
           ELSE pairs[CHOOSE i \in hits : \A j \in hits : j <= i][2]]

\* LocalCache.Remove
RemoveKeys(cache, keys) == [k \in DOMAIN cache |-> IF k \in Range(keys) THEN Miss ELSE cache[k]]

\* UPDATE ... WHERE ID = id: an id with no row matches nothing.
ApplyUpdates(tbl, upd) ==
    [i \in DOMAIN tbl |->
        LET hits == {k \in DOMAIN upd : upd[k].id = i}
        IN IF hits = {} \/ ~tbl[i].live THEN tbl[i]
           ELSE [tbl[i] EXCEPT !.val = upd[CHOOSE k \in hits : \A j \in hits : j <= k].val]]

ApplyDeletes(tbl, ids) == [i \in DOMAIN tbl |-> IF i \in ids THEN [tbl[i] EXCEPT !.live = FALSE] ELSE tbl[i]]

\* redisFlusher.Flush: the Dels, then the queued stream publishes in order.
FlushRedis(rf) ==
    /\ dirtyQ' = dirtyQ \o rf.dirty
    /\ logQ' = logQ \o rf.log
    /\ lazyQ' = lazyQ \o rf.lazy

(***************************************************************************)
(* The flusher after a call: trackedEntities and the counter are kept    *)
(* (clear(), which ends every flush, resets neither) unless the call ran  *)
(* Clear(); the redis flusher is left as given.                           *)
(***************************************************************************)
FlusherAfter(cleared, rf) ==
    /\ tracked' = IF cleared THEN <<>> ELSE tracked
    /\ counter' = IF cleared THEN 0 ELSE counter
    /\ rflush' = rf

\* Room in the id space for the rows a flush inserts.
IdsFit(A) == nextId + Len(A.ins) * AutoInc <= MaxId + 1

-----------------------------------------------------------------------------
(***************************************************************************)
(* Application operations                                                  *)
(***************************************************************************)

\* The application assigns the entity's Name field (a deleted entity is not edited).
SetName(e, v) ==
    /\ ~ent[e].del
    /\ ent[e].name # v
    /\ ent' = [ent EXCEPT ![e].name = v]
    /\ UNCHANGED <<rows, nextId, local, tracked, counter, rflush, dirtyQ, logQ, lazyQ>>

(***************************************************************************)
(* flusher.Track: append, count, and panic when the count is exactly      *)
(* TrackLimit + 1.  The panic comes after the append and the increment,   *)
(* so it leaves the state as the step without it would.                   *)
(***************************************************************************)
TrackEntity(e) ==
    /\ Len(tracked) < MaxTracked
    /\ RetrackNew \/ ent[e].inDB \/ e \notin Range(tracked)
    /\ ReuseLazy \/ ~ent[e].lazyIns
    /\ tracked' = Append(tracked, e)
    /\ counter' = counter + 1

Track(e) ==
    /\ TrackEntity(e)
    /\ UNCHANGED <<ent, rows, nextId, local, rflush, dirtyQ, logQ, lazyQ>>

\* flusher.Delete / ForceDelete: markToDelete, then Track.
Delete(e) ==
    /\ ~ent[e].del
    /\ ent' = [ent EXCEPT ![e].del = TRUE]
    /\ TrackEntity(e)
    /\ UNCHANGED <<rows, nextId, local, rflush, dirtyQ, logQ, lazyQ>>

\* Variant of Clear: the counter is not reset.
ClearKeepsCounter ==
    /\ tracked # <<>>
    /\ tracked' = <<>>
    /\ UNCHANGED <<ent, rows, nextId, local, counter, rflush, dirtyQ, logQ, lazyQ>>

\* flusher.Clear
Clear ==
    /\ tracked # <<>>
    /\ tracked' = <<>>
    /\ counter' = 0
    /\ UNCHANGED <<ent, rows, nextId, local, rflush, dirtyQ, logQ, lazyQ>>

(***************************************************************************)
(* GetByID reading through the local cache: a miss loads the row and      *)
(* stores it, or the NilMark when there is no row.                         *)
(***************************************************************************)
LoadByID(k) ==
    /\ local[k] = Miss
    /\ local' = [local EXCEPT ![k] = RowVal(rows, k)]
    /\ UNCHANGED <<ent, rows, nextId, tracked, counter, rflush, dirtyQ, logQ, lazyQ>>

(***************************************************************************)
(* Flush / FlushInTransaction and the checked variants, when every        *)
(* statement succeeds: the loop, the INSERT and the ids, the UPDATEs, the *)
(* DELETE, the local cache (Remove, MSet; after Commit in a transaction), *)
(* the redis flusher (executed now, or after Commit), then clear().  In a *)
(* transaction the same effects happen, at Commit.                         *)
(***************************************************************************)
FlushSync ==
    /\ counter > 0
    /\ LET A0 == FlushLoop(FALSE)
           A1 == IF A0.ins = <<>> THEN A0 ELSE InsertPhase(A0)
           A2 == DeletePhase(A1, FALSE)
       IN /\ IdsFit(A0)
          /\ ent' = A2.ent
          /\ rows' = ApplyDeletes(ApplyUpdates(rows @@ InsertedRows(A0), A0.upd), DeleteIds(A2))
          /\ nextId' = nextId + Len(A0.ins) * AutoInc
          /\ local' = MSet(RemoveKeys(local, A2.ldels), A2.lsets)
          /\ FlushRedis(A2.rf)
          /\ FlusherAfter(FALSE, NoCommands)

\* Two or more UPDATEs of a pool run as one multi-statement query, inside a
\* forced transaction only from this many on.
ForcedTransactionMin == 3

\* Variant of FlushFails: the entities of a committed INSERT are left unsaved.
FlushFailsUnstamped(tx, at, k) ==
    /\ DBFails
    /\ counter > 0
    /\ LET A0 == FlushLoop(FALSE)
           inserted == at # "insert"
           A1 == IF A0.ins = <<>> \/ ~inserted THEN A0 ELSE InsertPhase(A0)
           batched == Len(A0.upd) > 1 /\ Len(A0.upd) < ForcedTransactionMin
           doneUpd == CASE at = "update" /\ batched -> SubSeq(A0.upd, 1, k - 1)
                        [] at = "update" -> <<>>
                        [] OTHER -> A0.upd
       IN /\ IdsFit(A0)
          /\ CASE at = "insert" -> A0.ins # <<>>
               [] at = "update" -> k \in DOMAIN A0.upd
               [] at = "delete" -> A0.dels # <<>>
          /\ at # "update" => k = 1
          /\ ent' = A0.ent
          /\ rows' = IF tx \/ ~inserted THEN rows
                     ELSE ApplyUpdates(rows @@ InsertedRows(A0), doneUpd)
          /\ nextId' = IF inserted THEN nextId + Len(A0.ins) * AutoInc ELSE nextId
          /\ UNCHANGED <<local, dirtyQ, logQ, lazyQ>>
          /\ FlusherAfter(TRUE, A1.rf)

(***************************************************************************)
(* A checked flush whose statement `at` fails (for the UPDATEs, the k-th  *)
(* of the multi-statement query).  The loop has already changed the       *)
(* entities and queued commands in the redis flusher; the statements      *)
(* before the failure stay committed unless in a transaction, which is    *)
(* rolled back (AUTO_INCREMENT values are not given back); no cache is    *)
(* touched and nothing is published; the recover handler calls Clear().   *)
(***************************************************************************)
FlushFails(tx, at, k) ==
    /\ DBFails
    /\ counter > 0
    /\ LET A0 == FlushLoop(FALSE)
           inserted == at # "insert"
           A1 == IF A0.ins = <<>> \/ ~inserted THEN A0 ELSE InsertPhase(A0)
           batched == Len(A0.upd) > 1 /\ Len(A0.upd) < ForcedTransactionMin
           doneUpd == CASE at = "update" /\ batched -> SubSeq(A0.upd, 1, k - 1)
                        [] at = "update" -> <<>>
                        [] OTHER -> A0.upd
       IN /\ IdsFit(A0)
          /\ CASE at = "insert" -> A0.ins # <<>>
               [] at = "update" -> k \in DOMAIN A0.upd
               [] at = "delete" -> A0.dels # <<>>
          /\ at # "update" => k = 1
          /\ ent' = A1.ent
          /\ rows' = IF tx \/ ~inserted THEN rows
                     ELSE ApplyUpdates(rows @@ InsertedRows(A0), doneUpd)
          /\ nextId' = IF inserted THEN nextId + Len(A0.ins) * AutoInc ELSE nextId
          /\ UNCHANGED <<local, dirtyQ, logQ, lazyQ>>
          /\ FlusherAfter(TRUE, A1.rf)

(***************************************************************************)
(* FlushLazy: no statement runs.  The lazy map collects the queries, the  *)
(* log and dirty events, the local deletes ("cl") and the redis flusher's *)
(* Dels ("cr"); local sets are applied now; the map is published on the  *)
(* lazy channel when the redis flusher is executed.                       *)
(***************************************************************************)
FlushLazy ==
    /\ LazyFlushes
    /\ counter > 0
    /\ LET A0 == FlushLoop(TRUE)
           A1 == LazyInsertPhase(A0)
           A2 == DeletePhase(A1, TRUE)
           env == [q |-> A2.q, l |-> A2.l, d |-> A2.d, cr |-> A2.rf.dels, cl |-> A2.ldels]
       IN /\ ent' = A2.ent
          /\ local' = MSet(local, A2.lsets)
          /\ FlushRedis([A2.rf EXCEPT !.lazy = Append(@, env)])
          /\ UNCHANGED <<rows, nextId>>
          /\ FlusherAfter(FALSE, NoCommands)

-----------------------------------------------------------------------------

Init ==
    /\ ent \in [Ent -> {[name |-> v, id |-> 0, data |-> NULL, inDB |-> FALSE, del |-> FALSE, lazyIns |-> FALSE] : v \in Val}]
    /\ rows = <<>>
    /\ nextId = 1
    /\ local = [k \in Keys |-> Miss]
    /\ tracked = <<>>
    /\ counter = 0
    /\ rflush = NoCommands
    /\ dirtyQ = <<>>
    /\ logQ = <<>>
    /\ lazyQ = <<>>

Next ==
    \/ \E e \in Ent, v \in Val : SetName(e, v)
    \/ \E e \in Ent : Track(e) \/ Delete(e)
    \/ Clear
    \/ \E k \in Ids : LoadByID(k)
    \/ FlushSync
    \/ \E tx \in BOOLEAN, at \in {"insert", "update", "delete"}, k \in 1..MaxTracked :
          FlushFails(tx, at, k)
    \/ FlushLazy

Spec == Init /\ [][Next]_vars

-----------------------------------------------------------------------------
(***************************************************************************)
(* Properties                                                              *)
(***************************************************************************)

EntRec == [name: Val, id: Keys, data: Val \cup {NULL}, inDB: BOOLEAN, del: BOOLEAN, lazyIns: BOOLEAN]

TypeOK ==
    /\ ent \in [Ent -> EntRec]
    /\ DOMAIN rows \subseteq Ids
    /\ \A i \in DOMAIN rows : rows[i] \in Row
    /\ nextId \in 1..(MaxId + 1)
    /\ local \in [Keys -> Val \cup {Miss, NilMark}]
    /\ tracked \in Seq(Ent) /\ counter = Len(tracked)
    /\ Range(rflush.dirty) \subseteq DirtyEv /\ Range(rflush.log) \subseteq LogRec
    /\ Range(dirtyQ) \subseteq DirtyEv /\ Range(logQ) \subseteq LogRec

(***************************************************************************)
(* Every saved entity names its own row: an entity that is in the DB and  *)
(* not deleted has an ID whose row it inserted and whose value is its     *)
(* DbData.  About the id assignment after the batched INSERT              *)
(* (id + autoincrement) and DbData being injected before the statements   *)
(* run.                                                                    *)
(***************************************************************************)
EntityMatchesRow ==
    \A e \in Ent : ent[e].inDB /\ ~ent[e].del =>
        /\ ent[e].id \in DOMAIN rows
        /\ rows[ent[e].id].live
        /\ rows[ent[e].id].ent = e
        /\ rows[ent[e].id].val = ent[e].data

(***************************************************************************)
(* No cache divergence (spec invariant 1): a local cache entry for a row  *)
(* key is the row's value, or the NilMark when the row does not exist.    *)
(* About the order of the UPDATE/INSERT/DELETE statements and the         *)
(* localCacheSets applied after them.                                      *)
(***************************************************************************)
LocalCacheCoherent ==
    \A k \in Ids : local[k] # Miss => local[k] = RowVal(rows, k)

LastIndex(s, P(_)) == IF \E i \in DOMAIN s : P(s[i])
                      THEN CHOOSE i \in DOMAIN s : P(s[i]) /\ \A j \in DOMAIN s : P(s[j]) => j <= i
                      ELSE 0

(***************************************************************************)
(* The streams describe the table: the last dirty event of a row id says  *)
(* "d" exactly when the row is gone, and otherwise names the entity whose *)
(* row it is; the last audit log record of an id carries the row's value *)
(* as its changes, or none when the row is gone.  About the events the    *)
(* flush publishes through the redis flusher after its statements.        *)
(***************************************************************************)
StreamsDescribeDB ==
    \A i \in Ids :
        /\ LET d == LastIndex(dirtyQ, LAMBDA ev : ev.I = i)
           IN d > 0 => IF dirtyQ[d].A = "d" THEN RowVal(rows, i) = NilMark
                       ELSE RowVal(rows, i) # NilMark /\ rows[i].ent = dirtyQ[d].E
        /\ LET g == LastIndex(logQ, LAMBDA lg : lg.ID = i)
           IN g > 0 => IF logQ[g].changes = NULL THEN RowVal(rows, i) = NilMark
                       ELSE RowVal(rows, i) = logQ[g].changes

(***************************************************************************)
(* An entity object is inserted at most once: no two rows of the table    *)
(* come from the same entity.  About when a flush marks an inserted       *)
(* entity as saved (injectBind, inDB) relative to its INSERT committing,  *)
(* including flushes that fail or roll back part way.                     *)
(***************************************************************************)
AtMostOneRowPerEntity ==
    \A i, j \in DOMAIN rows : i # j => rows[i].ent # rows[j].ent

(***************************************************************************)
(* A row is deleted once:the dirty stream carries at most one "d" event  *)
(* per id.  About trackedEntities surviving a successful flush.           *)
(***************************************************************************)
DeleteEventOnce ==
    \A i, j \in DOMAIN dirtyQ :
        i < j /\ dirtyQ[i].A = "d" /\ dirtyQ[j].A = "d" /\ dirtyQ[i].I \in Ids
            => dirtyQ[i].I # dirtyQ[j].I

(***************************************************************************)
(* The tracked-entity hard cap of the spec: a flusher never holds more    *)
(* than TrackLimit entities.  About the counter check in Track.           *)
(***************************************************************************)
TrackedWithinLimit == Len(tracked) <= TrackLimit

(***************************************************************************)
(* Spec 3: a flush that returns has written every tracked entity's       *)
(* current Name to its own row (or deleted it), touched no other row, and *)
(* the entities have left the tracked set.  Under the mapping below every *)
(* step must be an Edit, Track, Delete, Clear or Flush of WriteThrough.   *)
(* About flushTrackedEntities ending with clear(), which resets the       *)
(* statement and cache lists but not trackedEntities: a later flush      *)
(* writes the same entities again, which the abstract Flush forbids.     *)
(***************************************************************************)
RowOf(e) == {i \in DOMAIN rows : rows[i].ent = e /\ rows[i].live}

TableOf == [e \in Ent |-> IF RowOf(e) = {} THEN NULL ELSE rows[CHOOSE i \in RowOf(e) : TRUE].val]

WT == INSTANCE WriteThrough WITH
        app <- [e \in Ent |-> [name |-> ent[e].name, del |-> ent[e].del]],
        table <- TableOf,
        pending <- Range(tracked)

RefinesWriteThrough == WT!Spec

====
