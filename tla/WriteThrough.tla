----------------------------- MODULE WriteThrough -----------------------------
(***************************************************************************)
(* What a synchronous Flush promises the application (spec 4.2 and the    *)
(* lifecycle of 3): entities enter the tracked set by Track or Delete and *)
(* leave it on Flush or Clear, and a Flush makes the table hold, for      *)
(* every tracked entity at once, its current Name, or no row when it is  *)
(* marked to delete.  Rows of entities that are not tracked are left      *)
(* alone.  Ids, statements, caches and streams are not visible here.      *)
(***************************************************************************)
CONSTANTS Ent, Val, NULL

VARIABLES
    app,      \* the entity objects as the application sees them: [name, del]
    table,    \* entity -> the Name of its live row, NULL when it has none
    pending   \* the tracked entities

wvars == <<app, table, pending>>

\* What a flush writes for an entity.
Written(e) == IF app[e].del THEN NULL ELSE app[e].name

Edit(e, v) ==
    /\ ~app[e].del
    /\ app' = [app EXCEPT ![e].name = v]
    /\ UNCHANGED <<table, pending>>

Track(e) ==
    /\ pending' = pending \cup {e}
    /\ UNCHANGED <<app, table>>

Delete(e) ==
    /\ app' = [app EXCEPT ![e].del = TRUE]
    /\ pending' = pending \cup {e}
    /\ UNCHANGED table

Clear ==
    /\ pending' = {}
    /\ UNCHANGED <<app, table>>

Flush ==
    /\ pending # {}
    /\ table' = [e \in Ent |-> IF e \in pending THEN Written(e) ELSE table[e]]
    /\ pending' = {}
    /\ UNCHANGED app

Init ==
    /\ app \in [Ent -> [name : Val, del : {FALSE}]]
    /\ table = [e \in Ent |-> NULL]
    /\ pending = {}

Next ==
    \/ \E e \in Ent, v \in Val : Edit(e, v)
    \/ \E e \in Ent : Track(e) \/ Delete(e)
    \/ Clear
    \/ Flush

Spec == Init /\ [][Next]_wvars

====
