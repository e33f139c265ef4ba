# TLA+ models of latolukasz/orm: flusher, background consumer, search indexer, registry

This directory holds TLA+ models of the write path of the ORM in `src/`:
- the flusher, which turns tracked entities into SQL statements, cache updates and stream events;
- the background consumer, which executes lazily flushed statements and writes the audit log;
- the redis search indexer, which rebuilds an index page by page through a redis pipeline;
- the Registry, whose Validate builds the validated registry that engines use.

All models are checked with TLC.

## 1. The system: inventory

| Part | Source | State it keeps | Operations that change state |
|---|---|---|---|
| Flusher | `src/edit_entity_field.go` 146-1013 | `trackedEntities`, `trackedEntitiesCounter`, `updateSQLs`, `deleteBinds`, `lazyMap`, `localCacheSets`, `localCacheDeletes`, `redisFlusher`. Each entity also carries its `orm` state: `inDB`, `delete`, `dBData` and the ID. | `Track`, `Delete`/`ForceDelete`, `Clear`, `Flush`, `FlushWithCheck`, `FlushInTransaction(WithCheck)`, `FlushWithFullCheck`, `FlushLazy`, `MarkDirty` |
| flush internals | same file, 302-1013 | per call: the insert, update and delete buffers | the dirty loop, INSERT with id stamping, the UPDATE batch (forced transaction from 3 statements), DELETE (with cascade), local cache MSet/Remove, redis deletes, log and dirty events, the lazy envelope (`fillLazyQuery`), `clear` |
| EditEntityField | same file, 10-117 | the DB row | one direct UPDATE of one field |
| BackgroundConsumer | `src/unnamed/part_000` 43-297 | the streams `orm-lazy-channel` and `orm-log-channel` (redis), the MySQL tables, the audit log table | `handleLazy` (`handleQueries`, `handleLog`, dirty publish, `handleCache`, Ack), `handleLogEvent`, `handleRedisIndexerEvent` |
| Bind setters | `src/unnamed/part_000` 308-1009 | none (pure) | conversions and range checks of field values |
| LocalCache | `src/local_cache.go` | an LRU map of key to value | `Set`, `MSet`, `Remove`, `GetSet`, `HMset`, `Clear` |
| DB wrapper | `src/db.go` | the connection and `inTransaction` | `Begin`, `Commit`, `Rollback`, `Exec`, `Query` |
| RedisPipeLine | `src/redis_pipeline.go` | queued commands and the `executed` flag | the command builders, `Exec` |
| Registry | `src/registry.go` | the configuration maps, the stream maps, the pool configs | `Register*`, `Validate` |

How the parts interact:
- The application edits entities and then calls `Track`/`Delete` on a flusher.
- A `Flush*` call then does all of the following, under the flusher's mutex:
  - runs the SQL for every dirty tracked entity;
  - stamps inserted ids into the entities;
  - sets or removes local cache keys;
  - queues redis deletes, audit-log events (`orm-log-channel`) and dirty events (the entity's dirty streams).
- `FlushLazy` runs no SQL. It publishes one envelope with the statements (`q`), log records (`l`), dirty events (`d`) and cache keys (`cr`, `cl`). Lazily inserted rows have no id yet, so their keys end in `:0`.
- The BackgroundConsumer reads the streams and acknowledges an event only after handling it. A consumer that stops earlier gets the event again.
  - For a lazy envelope, it executes the statements and renumbers the `l` and `d` records from `LastInsertId`.
  - It writes the audit log, publishes the dirty events and deletes the cache keys, resolving `:0` keys to the inserted ids.

What is hard:
- **Partial failure:**
  - ids are stamped before commit;
  - statements outside a transaction commit one by one;
  - cache updates come after the statements.
- **Reuse of a flusher:** `clear` keeps the tracked list.
- **Id arithmetic:** `LastInsertId + k * autoincrement`, both in the flusher and again in the consumer.
- **The lazy envelope:** it is one map that successive statements overwrite.
- **At-least-once consumption:** a crash or panic before Ack causes a replay.
- **Multi-pool transactions:** Begin, Commit and the deferred Rollback are loops over pools, and a panic in any call leaves the loop half-way.
- **Resumable indexing:** the indexer persists a cursor in redis between pages and never acknowledges its event, so every restart resumes or redoes the work.
- **Ordering:** a lazy envelope against later synchronous flushes.

Properties the parts need:
- Saved entities equal their rows.
- The local cache never contradicts the table.
- The newest event and log record of each row describe it.
- Every event names the row of its own entity.
- No entity owns two rows.
- The audit log describes the table once it is consumed.

## 2. Modules

### `Flusher.tla`: the flusher and the state it writes

Its state:
- `ent`: the application's entity objects, including `orm.inDB`, `delete`, `dBData` and the ID.
- `rows`: the table.
- `nextId`: the auto-increment counter.
- `local`: the local cache, keyed by row id; key 0 stands for the `prefix:0` key.
- `tracked` and `counter`: the flusher's fields.
- `rflush`: its `redisFlusher` buffers.
- `dirtyQ`, `logQ` and `lazyQ`: the streams.

Its actions, each one a whole call under the mutex:
- `SetName` (the application edits a field);
- `Track`, `Delete`, `Clear`;
- `LoadByID` (a cache read-through);
- `FlushSync` (`Flush`/`FlushInTransaction`);
- `FlushFails` (a checked flush whose INSERT, UPDATE or DELETE raises, in or out of a transaction);
- `FlushLazy`.

The body of `flush` is made of the following operators:
- `FlushLoop`, a fold of `LoopStep` over the tracked list, which is the dirty-detection loop;
- `InsertPhase`, a fold of `StampInserted`;
- `LazyInsertPhase`, `ApplyUpdates`, `DeletePhase`, `FillLazyQuery`;
- `FlusherAfter`, which is `clear()`: it keeps `tracked` and `counter` (only `Clear()` resets them) and leaves the redis flusher as given.

The model has one flusher that the application reuses for every call, as a `flusher` object allows; what one flush leaves in it is what the next one starts from.

Constants:
- `LazyFlushes` and `DBFails` enable those actions.
- `HasRedis` and `HasLog`: the entity has a redis cache or an audit log.
- `RetrackNew` and `ReuseLazy`: whether an application tracks one new object twice, or reuses a lazily inserted object.

### `BackgroundConsumer.tla`: the consumer composed with the flusher

It EXTENDS `Flusher` and adds the following:
- `logTable`;
- `HandleLazy(stop)`:
  - it is the whole `handleLazy`, with `ExecQuery` folded over the envelope by `HandleQueries`;
  - `stop` says how far it gets before the process stops: after the SQL, the log, the dirty publish or the cache, or through to Ack;
  - the `handleCache` panic (`CachePanics`) stops it before Ack;
- `HandleLogEvent(acked)`.

### `EditEntityField.tla`: merging field edits before a flush

Each goroutine's call is two actions:
- `Call(t, e, v)`: the setter and the getter read, outside the flush mutex, with the early return when the values are equal;
- `Locked(t)`: the `LoadOrCompute` merge under the mutex. It creates or overwrites `editableFields` binds, sets the field of a tracked editable or insertable entity, or returns the error for an entity marked to delete.

`MarkTracked` stands for the application tracking the entity through another API (not in `src/`). The ghost `lastEdit` records the last call that returned nil. The `Flush` that materialises the map is not in `src/` and is not modelled.

### `BindSetters.tla`: the integer bind setter

`NumberBindSetter(c, v)` is `createNumberFieldBindSetter` after the type switch:
- `AsUint64` and `AsInt64` are the type switch;
- `ToSigned` is the `int64(asUint64)` conversion;
- `Trunc` is the float truncation.

Go's 64-bit integers are `W`-bit integers, and conversions wrap modulo `2^W`. `SpecSetter` is the integer rule of the bind pipeline. A `Bind(c, v)` step calls the setter on any column (signed or unsigned, nullable or not, narrow or full width) and any input (nil, nil pointer, every integer kind, strings in and out of range, floats, unsupported types).

### `RedisPipeLine.tla` and `SearchIndexer.tla`: the search indexer

`RedisPipeLine.tla` has operators on a pipeline record:
- `Queue` counts and queues a command;
- `RunCommands` folds the first `n` commands over the redis store;
- `ExecPanics` and `Executed` are the `executed` flag of `Exec`.

`SearchIndexer.tla` is `handleRedisIndexerEvent` (`src/unnamed/part_000` 235-296). Its state:
- `rows`, the table;
- `docs`, the search documents;
- `indices`, the old and the new index version;
- `cursor`, the redis key with the last indexed id;
- the handler's `pc`, `id`, `pipe` and `page`, which a restart loses;
- `evt`, the event, which the handler never acknowledges.

Its actions are the handler's steps:
- `Start`, which reads the cursor;
- `IndexerRead`, one page of the application's `Indexer` pushed as HSets;
- `Flush`, the pusher flush, which may run only a prefix and panic. `redisSearchIndexPusher.Flush` is not in `src/`; `PusherFlushed` is its effect, a new pipeline;
- `SaveCursor`, which Sets the cursor and then makes the loop check: `nextID <= id` panics with "loop detected" and stops the consumer. The modelled `Indexer` always advances, so that branch is kept but never taken;
- `Finish`, which deletes the cursor and drops the old index.

There are three other actions:
- `Crash`, a consumer stop with redelivery;
- `CursorExpires`, the cursor key dropped by redis when its 86400-second TTL (part_000 275) runs out. No clock is modelled, so the key may expire whenever it exists; a later `Start` then finds no cursor and rebuilds from id 0;
- `UpdateRow(i, v)`, an application flush that writes a row and its document. An update's bind has no `FakeDelete` key, so `fillRedisSearchFromBind`'s Del branch is not taken; soft deletes are not modelled.

### `IndexRebuild.tla`: what the search indexer promises

`IndexRebuild.tla` is an abstract specification, written from what `handleRedisIndexerEvent` is for rather than from a line of code. It has the same `rows`, `docs` and `indices` and a boolean `handled`. Its actions are:
- `Update(i, v)`, an application write of a row and its document;
- `WriteDocs`, any change of documents that only adds or overwrites values;
- `Finish`, allowed only when every row has a document: it drops the old index version and marks the event handled;
- `Redeliver`, a handled event delivered again.

Its specification asks weak fairness of `Finish`.

`SearchIndexer.tla` instantiates it with the refinement mapping `handled <- (evt = "handled")`; `rows`, `docs`, `indices` and the constants map to themselves. `RefinesIndexRebuild == Rebuild!Spec` is checked as a temporal property. Every handler step, crash and application write is then a step of `IndexRebuild` or a stuttering step, and a fair handler satisfies the abstract fairness.

### `WriteThrough.tla`: what a synchronous flush promises

`WriteThrough.tla` is the flusher as the application sees it, with no ids, statements, caches or streams. Its state:
- `app`, each entity object's Name and delete mark;
- `table`, for each entity, the Name of its live row, or `NULL`;
- `pending`, the tracked set.

Its actions are `Edit(e, v)`, `Track(e)`, `Delete(e)` (mark and track), `Clear`, and `Flush`. `Flush` writes, for every tracked entity at once, its current Name, or no row if it is marked to delete; it leaves every other entity's row alone and empties the tracked set. This is the lifecycle of spec section 3 and the flush protocol of 4.2.

`Flusher.tla` instantiates it as `WT` with this refinement mapping:
- `app <- [e |-> [name |-> ent[e].name, del |-> ent[e].del]]`;
- `table <- TableOf`, the value of the entity's live row, found through the rows' ghost `ent` field;
- `pending <- Range(tracked)`.

`RefinesWriteThrough == WT!Spec` is the property of the violation run `flusher_retained`. The flush writes the rows as `Flush` does, but `flushTrackedEntities` ends with `clear()`, which keeps `trackedEntities`. So after `Track(e)` and a flush, `pending` is still `{e}`, which the abstract `Flush` forbids (spec section 3: entities leave the tracked set on a successful Flush). The next flush of the same flusher writes `e` again.

### `Registry.tla`: registration and Validate

It models `src/registry.go`. Its state:
- `entities`, `searchIndices` and `localPools`, the maps Validate copies;
- `sqlCfg`, the `*mySQLPoolConfig` object registered for each pool code, and `client`, which Validate call opened each object's client;
- `streams`, `r.redisStreamPools` and `r.redisStreamGroups` as one map from name to groups;
- `validated`, the validated registries returned so far.

A validated registry is a record of its copies, the config objects it points to, and `seen`: the streams and clients it showed when Validate returned. `ValidatedView(v)` is what it shows now. That is the Registry's current stream map, because Validate assigns the map itself (lines 188-189), and the current client of each config it points to.

Its actions are:
- `RegisterEntity`, `RegisterRedisSearchIndex`, `RegisterLocalCache`;
- `RegisterMySQLPool`, which makes a new config object;
- `RegisterRedisStream`, which panics on a name already registered;
- `ValidateOpenFails`, an I/O error in the MySQL loop after some pools got their new client;
- `Validate`, in which every pool gets a new client. A duplicated cache prefix then returns an error before the consumer streams are registered (`ConsumerStreams`), and a checkStruct error returns after they are.

Map iteration order only decides which pools were opened before a failure, so that is a nondeterministic subset. `initTableSchema` and `checkStruct` are not in `src/`. Their outcome per entity is given by constants: `Prefix`, `LogEntities`, `SearchEntities` and `BadEntities`.

### MC modules

`MCSearchIndexer.tla` uses values `{v1, v2}`.

`MCRegistry.tla` uses two entities with different prefixes (one with a log table), one search index, one MySQL pool that may be registered twice, a user stream, the three consumer channels and two groups; Validate may be called twice.

`MCEditEntityField.tla` uses one entity, two values and two goroutines (symmetric). `MCBindSetters.tla` sets `W = 4`, so uint64 is 0..15, int64 is -8..7 and the narrow column has 2 bits.

`MCFlusher.tla` and `MCBackgroundConsumer.tla` give TLC the following:
- entities `{e1, e2}` and values `{v1, v2}` as model values;
- symmetry over the entities, which is sound because no action names a particular entity;
- `StreamBound`, a bound on the explored stream lengths, and `RedisFlusherBound`, a bound on the redis commands a failed flush leaves in the reused flusher;
- views that drop variables no action reads. The caches and the streams are written but never read by the flusher's DB-side actions, so a property of the kept variables is checked soundly.

Still planned for later sittings:
- a second table for references and cascade;
- a duplicate-log property for `handleLogEvent`;
- a pass run for the Registry and one for the local cache (LRU, TTL and the GetSet read-through).

## 3. Runs

`search_indexer` uses four rows in pages of two, so a rebuild reads two full pages and then an empty one, with an empty flush. It allows three restarts and two row updates; Exec may fail and the cursor may expire at any time. Three restarts let a rebuild be interrupted once in each page.

The flusher and consumer runs use 2 entities, 2 values, autoincrement 2 and ids up to 4 (8 for `consumer_cache_panic`, which needs room for a replayed two-row INSERT). The bounds are:
- `MaxTracked` 3 for the flusher runs, 2 for the consumer runs;
- at most 4 stream entries;
- at most 1 lazy envelope in flight.

These bounds are enough for every case the properties are about:
- two inserts in one flush;
- insert plus delete, and insert plus update, in one lazy envelope;
- a flush after a reuse;
- a replay.

Runs that pass:

| Run | Checks | What it shows |
|---|---|---|
| `flusher_sync` | `TypeOK`, `EntityMatchesRow`, `LocalCacheCoherent`, `StreamsDescribeDB` | Synchronous flushes of one reused flusher keep entities, table, local cache, newest dirty event and newest log record in agreement, across all interleavings of edits, tracks, deletes, clears and cache reads. |
| `flusher_failures` | `AtMostOneRowPerEntity` | With one reused flusher, a failing checked flush, with partial multi-UPDATEs outside a transaction and interleaved with lazy flushes, never gives one entity two live rows. |
| `consumer_lazy` | `ConsumerTypeOK`, `InsertEventNamesItsRow` (action property) | Without the audit log, the ids the consumer gives lazy insert events are right, crashes before Ack included. |
| `consumer_log` | `SettledLogDescribesRows` | The log consumer, crashes before Ack and the records they duplicate included, leaves a log whose last record per row is the row. |
| `setters_unsigned` | `UnsignedSetterMatchesSpec` | For unsigned columns, the integer setter accepts exactly the in-range values of every input kind, and binds them unchanged. |
| `search_indexer` | `TypeOK`, `CursorBehindDocs`, `IndexerConverges` (liveness), `RefinesIndexRebuild` (refinement) | With restarts, partly executed pipelines and an expiring cursor, the saved cursor never runs ahead of the documents, a fair consumer finishes the index, and the handler implements `IndexRebuild`: documents are only added or overwritten, and the old index is dropped only when the new one is complete. |

Runs that find a violation (see `findings` in `PROJECT.json`):

| Run | Property | What TLC finds |
|---|---|---|
| `flusher_fail_saved` | `EntityMatchesRow` | Ids stamped before the commit survive the rollback. |
| `flusher_retained` | `RefinesWriteThrough` (refinement) | A flush that returns leaves its entities tracked, because `clear()` keeps `trackedEntities`; spec section 3 says they leave the tracked set. |
| `consumer_log_shift` | `InsertEventNamesItsRow` | With the log on, dirty ids continue after the log ids. |
| `consumer_cache_panic` | `AtMostOneRowPerEntity` | The `idKey` index goes out of range for a 2-row insert; it panics, is redelivered and duplicates rows. |
| `edit_back` | `PendingIsLastEdit` | Editing a field and then editing it back to the original returns early, and the first edit stays pending. |
| `registry_aliasing` | `ValidatedRegistryImmutable` | A stream registered after Validate appears in the validated registry, which shares the Registry's stream maps. A second Validate likewise replaces the client of the pool configs that earlier validated registries point to. The specification says the registry is immutable after Validate. |

TLC also showed further disagreements, listed as hazards with a note:
- the track-limit check comes after the append;
- an entity tracked twice shifts the ids;
- a lazy UPDATE is applied after a later synchronous one;
- a crash before Ack re-executes a lazy INSERT;
- `l` keeps only the last statement's log records;
- `cl` keys are not resolved from `:0`;
- a reused flusher deletes and announces a deleted entity again (`DeleteEventOnce`), a consequence of the `flusher_retained` finding;
- delete events of a lazy flush that also inserts are renumbered as inserted ids (`DeleteEventNamesItsRow`);
- an application update between the indexer's read and its pipeline flush is overwritten by the stale document;
- a uint64 above MaxInt64 given to a signed column wraps and is bound as a negative number (`SignedSetterMatchesSpec`, a constant formula; one input reaches it, so a unit test covers it better);
- a read-through fill of the local cache split into its read and its Set, with a flush in between, leaves a stale entry (`LocalCacheCoherent`, in a probe that splits `LoadByID`).
- a lazy envelope whose `handleCache` panics is redelivered and panics for ever, so the lazy stream never drains behind it (`<>[](lazyQ = <<>>)` under weak fairness of the handler's path to Ack, in a probe with `consumer_cache_panic`'s constants).

Each property of a passing run has a mutant in `PROJECT.json`: a plausible bug in the mapped definition that TLC then catches.

## 4. Fairness

`SearchIndexer` assumes weak fairness of `Handler`, the handler's own steps. The consumer's `Digest` loop keeps calling the handler while it holds the event, and nothing in the handler waits. `Crash`, `CursorExpires` and `UpdateRow` get no fairness: a process may stop, a key may expire and an application may write whenever it likes. Crashes and updates are bounded (`MaxCrashes`, `MaxUpdates`). Expiry needs no bound: it only removes a cursor, and only a later `SaveCursor` sets one again. `IndexerConverges` (`<>[]` of a finished, complete index) is checked under this fairness. `MCSearchIndexer.cfg` turns off deadlock checking because the system really stops once the event is handled and crashes and updates are used up.

The consumer and flusher models carry no fairness, and no liveness property is checked of them. A consumer may stop between `handleLog` and Ack any number of times, and nothing in `Digest` rules that out, so "the log stream drains" holds only under a fairness that assumes the Ack happens; such a property would restate the assumption.

`consumer_log` bounds the log events waiting at once (`LogStreamBound`, 3), but not the log table. Its view `LogView` keeps only each row's last log record, which is all `SettledLogDescribesRows` reads, so a crash that writes a record again returns to a state already seen.

## 5. Not modelled

These are left out, and why:
- **Out of scope for now:**
  - references between entities and cascade delete (they need a second table);
  - `onDuplicateKeyUpdate`;
  - cached-query index keys and redis search (more keys of the same kind);
  - `MarkDirty`;
  - the indexer's early Ack of an undecodable event or an unknown index, several indexes, and soft deletes of indexed rows (`fillRedisSearchFromBind`'s `FakeDelete` branch);
  - the float bind setter (`createFloatFieldBindSetter`); its disagreement with the float rule is a hazard.
- **Transactions over several pools:** `flushTrackedEntities` calls Begin, Commit and Rollback on a `*DB` type that is not in `src/`, and `dbImplementation.Begin` in `src/db.go` returns a new object instead of changing the pool, so the pool loops cannot be read from `src/`. A flush in a transaction is modelled by its effect on one pool.
- **Pure I/O or configuration:**
  - the DB wrapper's queries, prepared statements and connection handling;
  - the pipeline's typed `Result` getters;
  - the Registry's other Register calls (redis, sentinel, elastic, ClickHouse, enums, default encoding), which only put a config into a copied map, and Validate's ClickHouse loop, which behaves like its MySQL loop.
- **LRU eviction:** it can only remove entries.
- **Data races:** the unlocked read of `trackedEntitiesCounter` in `flushTrackedEntities`, and `HMset` writing a map that readers hold, are hazards with a note. `editEntityField`'s unlocked read of the struct field is modelled as an atomic read in `Call`. A torn read of a multi-word value is not modelled.
- **Time:** no clock is modelled. The cursor's TTL is an expiry that may happen at any time, and the local cache's GetSet TTL only makes a cached value older.
- **GetSet as two steps:** `LoadByID` reads the row and fills the cache in one step. Splitting it makes `LocalCacheCoherent` fail (see the hazards), and that is a known race of a read-through cache, not a flush bug.
- **GetAll** (`src/get_all.go`) only builds a search or a cached-reference read and changes no state.
