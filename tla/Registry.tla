------------------------------ MODULE Registry ------------------------------
(***************************************************************************)
(* The Registry (src/registry.go): the Register* calls that fill it and   *)
(* Validate, which builds a ValidatedRegistry from it.  Validate copies   *)
(* the entity, search index and local cache maps, but keeps pointers to  *)
(* the MySQL pool configs, whose client it replaces on every call, and   *)
(* hands the validated registry the Registry's own stream maps, after    *)
(* registering the consumer streams in them.  A validated registry here  *)
(* is a record of what it holds: its copies, the pool configs it points  *)
(* to, and "seen", what it showed when Validate returned.                *)
(***************************************************************************)
EXTENDS Naturals, Sequences, FiniteSets

CONSTANTS
    Entities,        \* entity types the application may register
    Prefix,          \* entity -> cache prefix of its table schema
    LogEntities,     \* entities whose schema has a log table
    SearchEntities,  \* entities whose schema has a redis search index
    BadEntities,     \* entities whose struct checkStruct rejects
    Indices,         \* redis search indices registered directly
    LocalPools,      \* local cache pool codes
    SqlPools,        \* MySQL pool codes
    Streams,         \* stream names, the three consumer channels included
    Groups,          \* consumer group names
    LazyChannel, LogChannel, SearchChannel, AsyncGroup,
    NotReg,          \* a stream name that is not registered
    IOFails,         \* sql.Open and the pool queries of Validate may fail
    MaxCfg,          \* bound on RegisterMySQLPool calls
    MaxValidate      \* bound on Validate calls

VARIABLES
    entities, searchIndices, localPools,
    sqlCfg,     \* pool code -> the config object registered for it (0: none)
    client,     \* config object -> the Validate call that opened its client (0: none)
    nCfg,       \* config objects created
    streams,    \* r.redisStreamPools/redisStreamGroups: name -> groups | NotReg
    gen,        \* Validate calls so far
    panicked,   \* RegisterRedisStream panicked
    validated   \* the validated registries returned

vars == <<entities, searchIndices, localPools, sqlCfg, client, nCfg, streams,
          gen, panicked, validated>>

Cfgs == 1..MaxCfg

RegCfgs == {sqlCfg[p] : p \in {q \in SqlPools : sqlCfg[q] # 0}}

\* What a validated registry shows now: the Registry's stream maps, and the
\* clients of the pool configs it points to.
ValidatedView(v) == [streams |-> streams, clients |-> [c \in v.cfgs |-> client[c]]]

TypeOK ==
    /\ entities \subseteq Entities /\ searchIndices \subseteq Indices
    /\ localPools \subseteq LocalPools
    /\ sqlCfg \in [SqlPools -> 0..MaxCfg] /\ client \in [Cfgs -> 0..MaxValidate]
    /\ streams \in [Streams -> {NotReg} \cup SUBSET Groups]
    /\ panicked \in BOOLEAN

RegisterEntity(e) ==
    /\ entities' = entities \cup {e}
    /\ UNCHANGED <<searchIndices, localPools, sqlCfg, client, nCfg, streams, gen, validated>>

RegisterRedisSearchIndex(i) ==
    /\ searchIndices' = searchIndices \cup {i}
    /\ UNCHANGED <<entities, localPools, sqlCfg, client, nCfg, streams, gen, validated>>

RegisterLocalCache(c) ==
    /\ localPools' = localPools \cup {c}
    /\ UNCHANGED <<entities, searchIndices, sqlCfg, client, nCfg, streams, gen, validated>>

\* registerSQLPool makes a new config object, without a client, for the code.
RegisterMySQLPool(p) ==
    /\ nCfg < MaxCfg
    /\ nCfg' = nCfg + 1
    /\ sqlCfg' = [sqlCfg EXCEPT ![p] = nCfg + 1]
    /\ UNCHANGED <<entities, searchIndices, localPools, client, streams, gen, validated>>

\* A name already registered panics ("stream with name ... aleady exists").
RegisterRedisStream(name, gs) ==
    \/ /\ streams[name] # NotReg
       /\ panicked' = TRUE
       /\ UNCHANGED streams
    \/ /\ streams[name] = NotReg
       /\ streams' = [streams EXCEPT ![name] = gs]
       /\ UNCHANGED panicked

\* The MySQL loop of Validate: each config in "done" gets the client this call opens.
OpenClients(done) == [c \in Cfgs |-> IF c \in done THEN gen + 1 ELSE client[c]]

PrefixClash == \E a, b \in entities : a # b /\ Prefix[a] = Prefix[b]

HasLog == entities \cap LogEntities # {}

HasSearch == searchIndices # {} \/ entities \cap SearchEntities # {}

WithStream(s, name) == IF s[name] = NotReg THEN [s EXCEPT ![name] = {AsyncGroup}] ELSE s

ConsumerStreams(s) ==
    LET lazy == WithStream(s, LazyChannel)
        log  == IF HasLog THEN WithStream(lazy, LogChannel) ELSE lazy
    IN  IF HasSearch THEN WithStream(log, SearchChannel) ELSE log

\* sql.Open or a query fails on a pool, after the configs in "done" got new clients.
ValidateOpenFails ==
    /\ IOFails
    /\ \E done \in SUBSET RegCfgs :
          /\ done # RegCfgs
          /\ client' = OpenClients(done)
    /\ gen' = gen + 1
    /\ UNCHANGED <<entities, searchIndices, localPools, sqlCfg, nCfg, streams, validated>>

\* Validate with every pool opened: a duplicated cache prefix returns an error
\* before the streams are registered, a checkStruct error after.
Validate ==
    /\ client' = OpenClients(RegCfgs)
    /\ gen' = gen + 1
    /\ \/ /\ PrefixClash
          /\ UNCHANGED <<streams, validated>>
       \/ /\ ~PrefixClash
          /\ streams' = ConsumerStreams(streams)
          /\ \/ /\ entities \cap BadEntities # {}
                /\ UNCHANGED validated
             \/ /\ entities \cap BadEntities = {}
                /\ validated' = Append(validated,
                      [entities |-> entities, search |-> searchIndices,
                       local |-> localPools, cfgs |-> RegCfgs,
                       seen |-> [streams |-> streams',
                                 clients |-> [c \in RegCfgs |-> client'[c]]]])
    /\ UNCHANGED <<entities, searchIndices, localPools, sqlCfg, nCfg>>

Init ==
    /\ entities = {} /\ searchIndices = {} /\ localPools = {}
    /\ sqlCfg = [p \in SqlPools |-> 0] /\ client = [c \in Cfgs |-> 0] /\ nCfg = 0
    /\ streams = [s \in Streams |-> NotReg]
    /\ gen = 0 /\ panicked = FALSE /\ validated = <<>>

Next ==
    /\ ~panicked
    /\ \/ \E e \in Entities : RegisterEntity(e) /\ UNCHANGED panicked
       \/ \E i \in Indices : RegisterRedisSearchIndex(i) /\ UNCHANGED panicked
       \/ \E c \in LocalPools : RegisterLocalCache(c) /\ UNCHANGED panicked
       \/ \E p \in SqlPools : RegisterMySQLPool(p) /\ UNCHANGED panicked
       \/ \E s \in Streams, gs \in SUBSET Groups :
             RegisterRedisStream(s, gs)
             /\ UNCHANGED <<entities, searchIndices, localPools, sqlCfg, client, nCfg, gen, validated>>
       \/ gen < MaxValidate /\ (Validate \/ ValidateOpenFails) /\ UNCHANGED panicked

Spec == Init /\ [][Next]_vars

(***************************************************************************)
(* The specification says the registry is immutable after Validate: a     *)
(* validated registry shows, for ever, the streams and pool clients it    *)
(* showed when Validate returned.  It would not hold if Validate shared   *)
(* the stream maps (registry.go 188-189) or kept pointers to pool configs *)
(* whose client a later Validate replaces (registry.go 101).              *)
(***************************************************************************)
ValidatedRegistryImmutable ==
    \A i \in DOMAIN validated : ValidatedView(validated[i]) = validated[i].seen

====
