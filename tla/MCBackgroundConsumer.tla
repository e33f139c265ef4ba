------------------------- MODULE MCBackgroundConsumer -------------------------
(***************************************************************************)
(* BackgroundConsumer instantiated for TLC: two entity objects, two Name  *)
(* values; MaxEvents bounds what TLC explores of the unbounded streams    *)
(* and of the log table.                                                   *)
(***************************************************************************)
EXTENDS BackgroundConsumer, TLC

CONSTANTS e1, e2, v1, v2

MCEnt == {e1, e2}
MCVal == {v1, v2}

\* bound: stream entries and log rows explored
MaxEvents == 4

\* bound: lazy envelopes waiting at once
MaxEnvelopes == 1

StreamBound ==
    /\ Len(lazyQ) <= MaxEnvelopes
    /\ Len(logQ) + Len(logTable) <= MaxEvents

\* bound for the log consumer: log events waiting at once; the log table
\* itself is left unbounded and kept in the view by its last record per row.
MaxLogWaiting == 3

LogStreamBound ==
    /\ Len(lazyQ) <= MaxEnvelopes
    /\ Len(logQ) <= MaxLogWaiting

Symmetry == Permutations(MCEnt)

(***************************************************************************)
(* Views: the local cache is read only by LoadByID's guard and written by *)
(* no action that reads anything else, so a property that does not read   *)
(* it is checked soundly without it; likewise the dirty stream, which no  *)
(* action reads (the properties about it are checked on the steps that    *)
(* append to it).  LogView keeps of the append-only log table only the   *)
(* last record of each row, all that SettledLogDescribesRows reads; a     *)
(* crash that writes a record again is then a step back to the same view. *)
(***************************************************************************)
StoreView == <<ent, rows, nextId, tracked, counter, rflush, logQ, lazyQ, logTable>>
LastLogRecord ==
    [i \in {lg.ID : lg \in Range(logTable)} |->
        logTable[LastIndex(logTable, LAMBDA lg : lg.ID = i)]]
LogView == <<ent, rows, nextId, tracked, counter, rflush, logQ, lazyQ, LastLogRecord>>
CacheView == <<ent, rows, nextId, tracked, counter, rflush, logQ, lazyQ, logTable, local>>

====
