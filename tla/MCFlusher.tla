----------------------------- MODULE MCFlusher ------------------------------
(***************************************************************************)
(* Flusher instantiated for TLC: two entity objects, two Name values.    *)
(* The streams are unbounded in the code; MaxEvents bounds what TLC       *)
(* explores of them.                                                       *)
(***************************************************************************)
EXTENDS Flusher, TLC

CONSTANTS e1, e2, v1, v2

MCEnt == {e1, e2}
MCVal == {v1, v2}

\* bound: stream entries explored
MaxEvents == 4

StreamBound == Len(dirtyQ) + Len(lazyQ) <= MaxEvents /\ Len(logQ) <= MaxEvents

\* bound: redis commands a reused flusher carries over from failed flushes
RedisFlusherBound ==
    Len(rflush.dels) + Len(rflush.dirty) + Len(rflush.log) + Len(rflush.lazy) <= MaxEvents

Symmetry == Permutations(MCEnt)

\* The DB side of the state.  The caches and the streams are written by the
\* flush and read by no action, so a property of the DB side alone is
\* checked soundly on this view.
DBView == <<ent, rows, nextId, tracked, counter, rflush>>

====
