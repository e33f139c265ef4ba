-------------------------- MODULE BackgroundConsumer --------------------------
(***************************************************************************)
(* The BackgroundConsumer (src/unnamed/part_000, handleLazy,              *)
(* handleQueries, handleCache, handleLogEvent, handleLog) composed with   *)
(* the flush engine that feeds it.  The consumer reads orm-lazy-channel   *)
(* and orm-log-channel one event at a time and acknowledges an event only *)
(* after handling it: a crash (or a panic) before Ack leaves the event in *)
(* the stream, to be handled again.                                       *)
(***************************************************************************)
EXTENDS Flusher

CONSTANTS
    CrashEnabled  \* the consumer process may stop between two steps of a handler

VARIABLES
    logTable      \* the audit log table: one record per row written by handleLog

allVars == <<vars, logTable>>

\* Variant of ExecQuery: the running id is not advanced between events.
ExecQuerySameId(S, query) ==
    CASE query.kind = "insert" ->
            LET n == Len(query.rows)
                L == S.nextId
            IN [S EXCEPT
                  !.rows = @ @@ [i \in {L + (k - 1) * AutoInc : k \in 1..n} |->
                               [ent |-> query.rows[(i - L) \div AutoInc + 1].ent,
                                val |-> query.rows[(i - L) \div AutoInc + 1].val, live |-> TRUE]],
                  !.nextId = L + n * AutoInc,
                  !.l = [j \in DOMAIN S.l |-> [S.l[j] EXCEPT !.ID = L]],
                  !.d = [j \in DOMAIN S.d |-> [S.d[j] EXCEPT !.I = L]],
                  !.ids = Append(@, L)]
      [] query.kind = "update" ->
            [S EXCEPT !.rows = ApplyUpdates(@, <<[id |-> query.id, val |-> query.val]>>),
                      !.ids = Append(@, 0)]
      [] query.kind = "delete" ->
            [S EXCEPT !.rows = ApplyDeletes(@, query.ids), !.ids = Append(@, 0)]

(***************************************************************************)
(* handleQueries, the statement loop: each query of "q" runs in order.    *)
(* After an INSERT, id = LastInsertId and the "l" records, then the "d"   *)
(* events, are given id, id + autoincrement, ... in one running sequence; *)
(* ids[i] is the INSERT's LastInsertId, 0 for other statements.           *)
(***************************************************************************)
ExecQuery(S, query) ==
    CASE query.kind = "insert" ->
            LET n == Len(query.rows)
                L == S.nextId
                nl == Len(S.l)
            IN [S EXCEPT
                  !.rows = @ @@ [i \in {L + (k - 1) * AutoInc : k \in 1..n} |->
                               [ent |-> query.rows[(i - L) \div AutoInc + 1].ent,
                                val |-> query.rows[(i - L) \div AutoInc + 1].val, live |-> TRUE]],
                  !.nextId = L + n * AutoInc,
                  !.l = [j \in DOMAIN S.l |-> [S.l[j] EXCEPT !.ID = L + (j - 1) * AutoInc]],
                  !.d = [j \in DOMAIN S.d |-> [S.d[j] EXCEPT !.I = L + (nl + j - 1) * AutoInc]],
                  !.ids = Append(@, L)]
      [] query.kind = "update" ->
            [S EXCEPT !.rows = ApplyUpdates(@, <<[id |-> query.id, val |-> query.val]>>),
                      !.ids = Append(@, 0)]
      [] query.kind = "delete" ->
            [S EXCEPT !.rows = ApplyDeletes(@, query.ids), !.ids = Append(@, 0)]

HandleQueries(env) ==
    FoldLeft(ExecQuery, [rows |-> rows, nextId |-> nextId, l |-> env.l, d |-> env.d, ids |-> <<>>], env.q)

\* Room in the id space for every row the envelope inserts.
EnvFits(env) ==
    nextId + AutoInc * FoldLeft(LAMBDA n, query : IF query.kind = "insert" THEN n + Len(query.rows) ELSE n,
                                0, env.q) <= MaxId + 1

(***************************************************************************)
(* handleCache, "cr": idKey counts every key of the list; a key ending in *)
(* ":0" is given ids[idKey].  With more keys before it than queries in    *)
(* the envelope the index is out of range and the handler panics.         *)
(***************************************************************************)
CachePanics(env, ids) ==
    \E k \in DOMAIN env.cr : env.cr[k] = 0 /\ k > Len(ids)

\* handleCache, "cl": the local keys are removed as they were recorded.
RemoveLocalKeys(env) == RemoveKeys(local, env.cl)

(***************************************************************************)
(* handleLazy: handleQueries (the statements, then handleLog for every    *)
(* "l" record, then the "d" events published), handleCache, then Ack.     *)
(* `stop` is how far the handler gets: "ack" is the whole handler; "sql", *)
(* "log", "dirty" and "cache" stop after that part when the process       *)
(* crashes; a panic in handleCache stops it after "dirty".                *)
(***************************************************************************)
HandleLazy(stop) ==
    /\ lazyQ # <<>>
    /\ LET env == Head(lazyQ)
           S == HandleQueries(env)
           panics == HasRedis /\ CachePanics(env, S.ids)
           reached(p) == CASE p = "sql" -> TRUE
                           [] p = "log" -> stop \in {"log", "dirty", "cache", "ack"}
                           [] p = "dirty" -> stop \in {"dirty", "cache", "ack"}
                           [] p = "cache" -> stop \in {"cache", "ack"} /\ ~panics
                           [] p = "ack" -> stop = "ack" /\ ~panics
       IN /\ EnvFits(env)
          /\ stop # "ack" => CrashEnabled
          /\ rows' = S.rows
          /\ nextId' = S.nextId
          /\ logTable' = IF reached("log") THEN logTable \o S.l ELSE logTable
          /\ dirtyQ' = IF reached("dirty") THEN dirtyQ \o S.d ELSE dirtyQ
          /\ local' = IF reached("cache") THEN RemoveLocalKeys(env) ELSE local
          /\ lazyQ' = IF reached("ack") THEN Tail(lazyQ) ELSE lazyQ
          /\ UNCHANGED <<ent, tracked, counter, rflush, logQ>>

\* handleLogEvent: handleLog writes the record, then Ack; a crash between them.
HandleLogEvent(acked) ==
    /\ logQ # <<>>
    /\ ~acked => CrashEnabled
    /\ logTable' = Append(logTable, Head(logQ))
    /\ logQ' = IF acked THEN Tail(logQ) ELSE logQ
    /\ UNCHANGED <<ent, rows, nextId, local, tracked, counter, rflush, dirtyQ, lazyQ>>

-----------------------------------------------------------------------------

ConsumerInit == Init /\ logTable = <<>>

\* The application and flusher steps of Next but the failing flush (checked
\* alone by Flusher's runs); none of them writes the log table.
ConsumerNext ==
    \/ \E e \in Ent, v \in Val : SetName(e, v) /\ UNCHANGED logTable
    \/ \E e \in Ent : (Track(e) \/ Delete(e)) /\ UNCHANGED logTable
    \/ Clear /\ UNCHANGED logTable
    \/ \E k \in Ids : LoadByID(k) /\ UNCHANGED logTable
    \/ FlushSync /\ UNCHANGED logTable
    \/ FlushLazy /\ UNCHANGED logTable
    \/ \E stop \in {"sql", "log", "dirty", "cache", "ack"} : HandleLazy(stop)
    \/ \E acked \in BOOLEAN : HandleLogEvent(acked)

ConsumerSpec == ConsumerInit /\ [][ConsumerNext]_allVars

-----------------------------------------------------------------------------
(***************************************************************************)
(* Properties                                                              *)
(***************************************************************************)

ConsumerTypeOK == TypeOK /\ Range(logTable) \subseteq LogRec

\* The events a step appends to the dirty stream (it is only appended to).
Published == {i \in DOMAIN dirtyQ' : i > Len(dirtyQ)}

\* The event names a row that its entity inserted (rows are never forgotten).
NamesRowOfItsEntity(ev) == ev.I \in DOMAIN rows' /\ rows'[ev.I].ent = ev.E

(***************************************************************************)
(* Every insert event published on the dirty stream names a row that its  *)
(* entity inserted.  About the ids handleQueries gives the "d" events of  *)
(* a lazy INSERT (LastInsertId + k * autoincrement) and those a sync      *)
(* INSERT stamps.                                                          *)
(***************************************************************************)
InsertEventNamesItsRow ==
    [][\A i \in Published : dirtyQ'[i].A = "i" => NamesRowOfItsEntity(dirtyQ'[i])]_allVars

(***************************************************************************)
(* Every delete event published for a row id names a row that the deleted *)
(* entity had.  About the lazy map keeping only the last "d" list and     *)
(* handleQueries rewriting that list's ids after an INSERT.               *)
(***************************************************************************)
DeleteEventNamesItsRow ==
    [][\A i \in Published : dirtyQ'[i].A = "d" /\ dirtyQ'[i].I \in Ids =>
                              NamesRowOfItsEntity(dirtyQ'[i])]_allVars

(***************************************************************************)
(* Once every envelope and every log event has been consumed, the audit   *)
(* log describes the table: each row's last log record carries its        *)
(* current value, or no changes when it was deleted.  About the log       *)
(* records a flush emits and the ones a lazy envelope keeps ("l").        *)
(***************************************************************************)
SettledLogDescribesRows ==
    lazyQ = <<>> /\ logQ = <<>> =>
        \A i \in DOMAIN rows :
            LET g == LastIndex(logTable, LAMBDA lg : lg.ID = i)
            IN /\ g > 0
               /\ logTable[g].changes = IF rows[i].live THEN rows[i].val ELSE NULL

(***************************************************************************)
(* Once the consumer has handled every lazy envelope, a local cache entry *)
(* for a row key is the row's value or the NilMark of a missing row (spec *)
(* invariant 1, and scenario S3: the consumer resolves prefix:0 to the    *)
(* inserted id).  About the "cl" keys of handleCache and the local sets a *)
(* lazy flush applies before its statements run.                          *)
(***************************************************************************)
SettledLocalCacheCoherent == lazyQ = <<>> => LocalCacheCoherent

(***************************************************************************)
(* Once the consumer has handled every lazy envelope, every saved entity  *)
(* is its row again.  About a lazy UPDATE replayed after a later          *)
(* synchronous flush of the same entity.                                   *)
(***************************************************************************)
SettledEntityMatchesRow == lazyQ = <<>> => EntityMatchesRow

====
