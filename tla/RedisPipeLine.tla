----------------------------- MODULE RedisPipeLine -----------------------------
(***************************************************************************)
(* RedisPipeLine (src/redis_pipeline.go) as operators on a pipeline       *)
(* record: the commands queued, the `commands` counter and the `executed` *)
(* flag.  The log slice and fillLogFields are logging only and left out.   *)
(* A command is a record [op, key, val]; the store is a function from     *)
(* keys to values, NULL for a missing key.                                 *)
(***************************************************************************)
EXTENDS Naturals, Sequences, SequencesExt

CONSTANT NULL

\* What engine.GetRedis(pool).PipeLine() hands out.
NewPipeLine == [cmds |-> <<>>, executed |-> FALSE, commands |-> 0]

(***************************************************************************)
(* Del, Get, Set, Expire, HIncrBy, HSet, HDel, XAdd: each counts the      *)
(* command and queues it on the go-redis pipeliner.                        *)
(***************************************************************************)
Queue(p, cmd) == [p EXCEPT !.cmds = Append(@, cmd), !.commands = @ + 1]

\* One command run by the server: HSet and Set write the key, Del removes it.
ApplyCommand(store, cmd) ==
    CASE cmd.op \in {"hset", "set"} -> [store EXCEPT ![cmd.key] = cmd.val]
      [] cmd.op = "del" -> [store EXCEPT ![cmd.key] = NULL]
      [] OTHER -> store

\* The first n queued commands, run by the server in order.
RunCommands(p, store, n) == FoldLeft(ApplyCommand, store, SubSeq(p.cmds, 1, n))

(***************************************************************************)
(* Exec: an executed pipeline panics ("pipeline is already executed");    *)
(* otherwise the commands are sent and executed is set, whatever the      *)
(* result; an error other than redis.Nil then panics in checkError, after *)
(* the server may have run only some of the commands.                     *)
(***************************************************************************)
ExecPanics(p) == p.executed
Executed(p) == [p EXCEPT !.executed = TRUE]

====
