----------------------------- MODULE IndexRebuild -----------------------------
(***************************************************************************)
(* What rebuilding a redis search index promises, whatever the paging,   *)
(* cursors and restarts of the handler that does it: documents are only   *)
(* ever added or overwritten with values, the older index version is      *)
(* dropped, and the event handled, only once every row has a document,   *)
(* and the application's own flushes keep writing rows and documents      *)
(* together.  A handled event may be delivered again (it is never         *)
(* acknowledged), and then the rebuild is done again.                     *)
(***************************************************************************)
CONSTANTS Ids, Val, NULL

VARIABLES
    rows,     \* the table: id -> indexed field
    docs,     \* the search documents: id -> value | NULL
    indices,  \* the index versions present
    handled   \* the rebuild event has been handled

avars == <<rows, docs, indices, handled>>

Complete == \A i \in Ids : docs[i] # NULL

\* The application writes a row and its document.
Update(i, v) ==
    /\ rows' = [rows EXCEPT ![i] = v]
    /\ docs' = [docs EXCEPT ![i] = v]
    /\ UNCHANGED <<indices, handled>>

\* The rebuild writes documents; none is removed.
WriteDocs ==
    /\ docs' # docs
    /\ \A i \in Ids : docs'[i] # docs[i] => docs'[i] \in Val
    /\ UNCHANGED <<rows, indices, handled>>

\* The rebuild ends: the older version goes, the event is handled.
Finish ==
    /\ ~handled
    /\ Complete
    /\ indices' = indices \ {"old"}
    /\ handled' = TRUE
    /\ UNCHANGED <<rows, docs>>

\* The unacknowledged event is delivered again.
Redeliver ==
    /\ handled
    /\ handled' = FALSE
    /\ UNCHANGED <<rows, docs, indices>>

Init ==
    /\ rows \in [Ids -> Val]
    /\ docs = [i \in Ids |-> NULL]
    /\ indices = {"old", "new"}
    /\ handled = FALSE

Next ==
    \/ \E i \in Ids, v \in Val : Update(i, v)
    \/ WriteDocs
    \/ Finish
    \/ Redeliver

\* A pending rebuild whose documents are complete is eventually finished.
Spec == Init /\ [][Next]_avars /\ WF_avars(Finish)

====
