----------------------------- MODULE SearchIndexer -----------------------------
(***************************************************************************)
(* handleRedisIndexerEvent (src/unnamed/part_000 235-296): the consumer   *)
(* rebuilding a new version of a redis search index from the table, one   *)
(* Indexer page at a time, through a RedisPipeLine pusher, with its       *)
(* cursor persisted in redis.  The application keeps updating rows: a     *)
(* flush writes the row and its search document (fillRedisSearchFromBind, *)
(* src/edit_entity_field.go 897-922).  The consumer process may stop at   *)
(* any step and is restarted; the event, never acknowledged by the        *)
(* handler, is then handled again.  One indexed field per row; the        *)
(* document of row i is docs[i], NULL until written.                      *)
(***************************************************************************)
EXTENDS Naturals, Sequences, SequencesExt

CONSTANTS
    Ids,         \* the table's row ids (a set of positive naturals)
    Val,         \* values of the indexed field
    NULL,
    Batch,       \* rows per Indexer page
    RedisFails,  \* a pipeline Exec may fail after running some commands
    MaxCrashes,  \* bound: consumer stops (crash or panic) and restarts
    MaxUpdates   \* bound: row updates flushed by the application

ASSUME Batch \in Nat \ {0} /\ Ids \subseteq Nat \ {0}

VARIABLES
    rows,     \* the table: id -> indexed field
    docs,     \* the search documents (redis hashes): id -> value | NULL
    indices,  \* FT._LIST: the older index version and the new one
    cursor,   \* redisSearchForceIndexLastIDKey..., NULL when absent
    pc,       \* "idle", "index", "flush", "save", "finish"
    id,       \* the handler's local id
    pipe,     \* pusher.pipeline
    page,     \* what the last Indexer call returned
    evt,      \* the indexer event: "pending" (to handle) or "handled" (not acked)
    crashes,
    updates

vars == <<rows, docs, indices, cursor, pc, id, pipe, page, evt, crashes, updates>>

P == INSTANCE RedisPipeLine

NoPage == [got |-> <<>>, nextID |-> 0, hasMore |-> FALSE]

(***************************************************************************)
(* The index's Indexer (application code): the rows with ID > lastID in   *)
(* ID order, at most Batch of them, each pushed as an HSet of its          *)
(* document; hasMore when the page is full, nextID the page's last id.     *)
(***************************************************************************)
Indexer(lastID) ==
    LET later == SetToSortSeq({i \in Ids : i > lastID}, <)
        got == SubSeq(later, 1, IF Len(later) < Batch THEN Len(later) ELSE Batch)
    IN [got |-> got, nextID |-> IF Len(got) = Batch THEN got[Batch] ELSE 0,
        hasMore |-> Len(got) = Batch]

\* The pusher queues one HSet per document on its pipeline.
PushDocs(p, got) == FoldLeft(LAMBDA q, i : P!Queue(q, [op |-> "hset", key |-> i, val |-> rows[i]]), p, got)

\* The consumer stops: local state is lost, the unacknowledged event is redelivered.
Stop ==
    /\ crashes < MaxCrashes
    /\ crashes' = crashes + 1
    /\ pc' = "idle"
    /\ evt' = "pending"
    /\ id' = 0
    /\ pipe' = P!NewPipeLine
    /\ page' = NoPage

\* Variant of Start: the loop resumes after the cursor, not from it.
StartAfterCursor ==
    /\ pc = "idle"
    /\ evt = "pending"
    /\ pc' = "index"
    /\ id' = IF cursor = NULL THEN 0 ELSE cursor + 1
    /\ pipe' = P!NewPipeLine
    /\ UNCHANGED <<rows, docs, indices, cursor, page, evt, crashes, updates>>

(***************************************************************************)
(* The handler up to the loop: a new pusher pipeline, and the cursor read *)
(* from redis (0 when absent).                                             *)
(***************************************************************************)
Start ==
    /\ pc = "idle"
    /\ evt = "pending"
    /\ pc' = "index"
    /\ id' = IF cursor = NULL THEN 0 ELSE cursor
    /\ pipe' = P!NewPipeLine
    /\ UNCHANGED <<rows, docs, indices, cursor, page, evt, crashes, updates>>

\* Variant of IndexerRead: the cursor is persisted as soon as the page is read.
IndexerReadSavesCursor ==
    /\ pc = "index"
    /\ page' = Indexer(id)
    /\ pipe' = PushDocs(pipe, Indexer(id).got)
    /\ cursor' = IF Indexer(id).hasMore THEN Indexer(id).nextID ELSE cursor
    /\ pc' = "flush"
    /\ UNCHANGED <<rows, docs, indices, id, evt, crashes, updates>>

\* newID, hasNext := indexDefinition.Indexer(r.engine, id, pusher)
IndexerRead ==
    /\ pc = "index"
    /\ page' = Indexer(id)
    /\ pipe' = PushDocs(pipe, Indexer(id).got)
    /\ pc' = "flush"
    /\ UNCHANGED <<rows, docs, indices, cursor, id, evt, crashes, updates>>

\* redisSearchIndexPusher.Flush (not in src/) leaves the pusher a new pipeline.
PusherFlushed == P!NewPipeLine

(***************************************************************************)
(* if pusher.pipeline.commands > 0 { pusher.Flush() }: the pusher (not   *)
(* in src/) executes its pipeline and takes a new one.  A failing Exec,   *)
(* after the server ran its first n commands, panics: the consumer stops. *)
(***************************************************************************)
Flush ==
    /\ pc = "flush"
    /\ \/ /\ pipe.commands = 0
          /\ pc' = "save"
          /\ UNCHANGED <<docs, pipe, crashes, evt, id, page>>
       \/ /\ pipe.commands > 0
          /\ ~P!ExecPanics(pipe)
          /\ docs' = P!RunCommands(pipe, docs, Len(pipe.cmds))
          /\ pipe' = PusherFlushed
          /\ pc' = "save"
          /\ UNCHANGED <<crashes, evt, id, page>>
       \/ /\ pipe.commands > 0
          /\ RedisFails
          /\ \E n \in 0..(Len(pipe.cmds) - 1) : docs' = P!RunCommands(pipe, docs, n)
          /\ Stop
    /\ UNCHANGED <<rows, indices, cursor, updates>>

\* Variant of SaveCursor: the cursor is set without the hasMore check.
SaveCursorUnguarded ==
    /\ pc = "save"
    /\ cursor' = page.nextID
    /\ IF ~page.hasMore
       THEN /\ pc' = "finish"
            /\ UNCHANGED <<id, crashes, evt, pipe, page>>
       ELSE /\ id' = page.nextID
            /\ pc' = "index"
            /\ UNCHANGED <<crashes, evt, pipe, page>>
    /\ UNCHANGED <<rows, docs, indices, updates>>

\* Variant of SaveCursor: the loop does not move id to nextID.
SaveCursorSameId ==
    /\ pc = "save"
    /\ IF ~page.hasMore
       THEN /\ pc' = "finish"
            /\ UNCHANGED <<cursor, id, crashes, evt, pipe, page>>
       ELSE /\ cursor' = page.nextID
            /\ pc' = "index"
            /\ UNCHANGED <<id, crashes, evt, pipe, page>>
    /\ UNCHANGED <<rows, docs, indices, updates>>

(***************************************************************************)
(* After the flush: a full page Sets nextID as the cursor, then the loop  *)
(* check: nextID <= id panics with "loop detected" (the consumer stops,   *)
(* the cursor already Set), otherwise id = nextID and the loop goes on.   *)
(* The last page ends the loop.  The modelled Indexer always advances,    *)
(* so the panic branch is kept for fidelity and is not taken.             *)
(***************************************************************************)
SaveCursor ==
    /\ pc = "save"
    /\ IF ~page.hasMore
       THEN /\ pc' = "finish"
            /\ UNCHANGED <<cursor, id, crashes, evt, pipe, page>>
       ELSE /\ cursor' = page.nextID
            /\ IF page.nextID <= id
               THEN Stop
               ELSE /\ id' = page.nextID
                    /\ pc' = "index"
                    /\ UNCHANGED <<crashes, evt, pipe, page>>
    /\ UNCHANGED <<rows, docs, indices, updates>>

(***************************************************************************)
(* The last page: the cursor key is deleted and every older version of    *)
(* the index (name prefix, smaller IndexID) dropped; the handler returns  *)
(* without acknowledging the event.                                        *)
(***************************************************************************)
Finish ==
    /\ pc = "finish"
    /\ cursor' = NULL
    /\ indices' = indices \ {"old"}
    /\ pc' = "idle"
    /\ evt' = "handled"
    /\ UNCHANGED <<rows, docs, id, pipe, page, crashes, updates>>

\* The consumer process stops at any point of the handler, or after it.
Crash ==
    /\ pc # "idle" \/ evt = "handled"
    /\ Stop
    /\ UNCHANGED <<rows, docs, indices, cursor, updates>>

(***************************************************************************)
(* The cursor key was Set with a TTL of 86400 seconds: redis drops it     *)
(* when a day passes without the next Set, typically while the consumer   *)
(* is down.  No clock is modelled; the key may expire whenever it exists. *)
(* The handler then reads no cursor and starts the rebuild again from 0.  *)
(***************************************************************************)
CursorExpires ==
    /\ cursor # NULL
    /\ cursor' = NULL
    /\ UNCHANGED <<rows, docs, indices, pc, id, pipe, page, evt, crashes, updates>>

(***************************************************************************)
(* A flush of the application updating the indexed field of a row writes  *)
(* the row, then fillRedisSearchFromBind HSets its document.  The bind of *)
(* an update holds only the changed field, so bind["FakeDelete"] is      *)
(* absent and the Del branch is not taken; soft deletes are not modelled. *)
(***************************************************************************)
UpdateRow(i, v) ==
    /\ updates < MaxUpdates
    /\ rows[i] # v
    /\ rows' = [rows EXCEPT ![i] = v]
    /\ docs' = [docs EXCEPT ![i] = v]
    /\ updates' = updates + 1
    /\ UNCHANGED <<indices, cursor, pc, id, pipe, page, evt, crashes>>

Init ==
    /\ rows \in [Ids -> Val]
    /\ docs = [i \in Ids |-> NULL]
    /\ indices = {"old", "new"}
    /\ cursor = NULL
    /\ pc = "idle"
    /\ id = 0
    /\ pipe = P!NewPipeLine
    /\ page = NoPage
    /\ evt = "pending"
    /\ crashes = 0
    /\ updates = 0

Handler == Start \/ IndexerRead \/ Flush \/ SaveCursor \/ Finish

Next ==
    \/ Handler
    \/ Crash
    \/ CursorExpires
    \/ \E i \in Ids, v \in Val : UpdateRow(i, v)

(***************************************************************************)
(* The consumer's Digest loop keeps calling the handler while it holds an *)
(* event: its steps are weakly fair.  Crashes, cursor expiry and the      *)
(* application's updates are not.                                          *)
(***************************************************************************)
Spec == Init /\ [][Next]_vars /\ WF_vars(Handler)

-----------------------------------------------------------------------------

TypeOK ==
    /\ rows \in [Ids -> Val]
    /\ docs \in [Ids -> Val \cup {NULL}]
    /\ cursor \in Ids \cup {NULL}
    /\ pc \in {"idle", "index", "flush", "save", "finish"}
    /\ evt \in {"pending", "handled"}

\* Every row has a document and the older index version is gone.
IndexComplete == "old" \notin indices /\ \A i \in Ids : docs[i] # NULL

(***************************************************************************)
(* The persisted cursor never runs ahead of the documents: every row up   *)
(* to it has been written to redis, so a restarted handler that resumes   *)
(* from the cursor skips no row.  About the order of pusher.Flush and the *)
(* cursor Set in the handler's loop, across consumer restarts.            *)
(***************************************************************************)
CursorBehindDocs ==
    cursor # NULL => \A i \in Ids : i <= cursor => docs[i] # NULL

(***************************************************************************)
(* The handler implements IndexRebuild: under the mapping below every     *)
(* step is a step of the abstract rebuild, so the older index version is  *)
(* dropped and the event handled only once every row has a document, no  *)
(* document is ever removed, and (under the consumer's fairness) a        *)
(* pending rebuild with complete documents is finished.  About the loop   *)
(* ending on the first page that is not full, the cursor resumed after a  *)
(* restart, and the event that is never acknowledged.                     *)
(***************************************************************************)
Rebuild == INSTANCE IndexRebuild WITH handled <- (evt = "handled")

RefinesIndexRebuild == Rebuild!Spec

(***************************************************************************)
(* Once crashes and updates stop, the handler ends with the event handled,*)
(* the cursor deleted and the new index complete, and it stays so.  About *)
(* the loop advancing id to nextID and ending, under weak fairness of the *)
(* consumer.                                                               *)
(***************************************************************************)
IndexerConverges == <>[](pc = "idle" /\ evt = "handled" /\ cursor = NULL /\ IndexComplete)

====
