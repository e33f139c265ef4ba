----------------------------- MODULE MCRegistry -----------------------------
EXTENDS Registry

CONSTANTS e1, e2, idx, lc, p1, userStream, lazy, logc, search, async, other

MCEntities == {e1, e2}
\* Two entity types with different table prefixes; e2 has a log table.
MCPrefix == [e \in MCEntities |-> IF e = e1 THEN "a" ELSE "b"]
MCStreams == {userStream, lazy, logc, search}
MCGroups == {async, other}
====
