--------------------------- MODULE EditEntityField ---------------------------
(***************************************************************************)
(* editEntityField (src/edit_entity_field.go 14-82): a field edit merged  *)
(* into the context's tracked map before a Flush.  The setter runs and    *)
(* the entity's current value is read outside the flush mutex; the merge  *)
(* into the tracked map runs under it.  One field of each entity is       *)
(* modelled; unique-index columns (addUniqueIndexFieldsToBind) are left   *)
(* out.                                                                    *)
(***************************************************************************)
EXTENDS Naturals

CONSTANTS
    Ent,      \* entity objects
    Val,      \* values the field's bind setter accepts (canonical form)
    Threads,  \* goroutines calling EditEntityField
    NULL

VARIABLES
    field,    \* the entity struct's field, as the getter reads it
    kind,     \* what the tracked map holds for the entity's id
    newBind,  \* editableFields.newBind[field]
    oldBind,  \* editableFields.oldBind[field]
    pc,       \* "idle", or "locked": between the read and the mutex section
    arg,      \* the call in progress: entity, new value, value read
    lastEdit  \* ghost: the value of the last edit that returned nil

vars == <<field, kind, newBind, oldBind, pc, arg, lastEdit>>

\* editableFields, editableEntity, insertableEntity, or an entity marked to delete.
Kinds == {"none", "fields", "editable", "insertable", "delete"}

(***************************************************************************)
(* The part before the mutex: newValue = setter(value), v = getter(elem), *)
(* oldValue = setter(v); equal old and new values return nil at once.     *)
(***************************************************************************)
Call(t, e, v) ==
    /\ pc[t] = "idle"
    /\ IF field[e] = v
          THEN /\ lastEdit' = [lastEdit EXCEPT ![e] = v]
               /\ UNCHANGED <<field, kind, newBind, oldBind, pc, arg>>
          ELSE /\ pc' = [pc EXCEPT ![t] = "locked"]
               /\ arg' = [arg EXCEPT ![t] = [e |-> e, v |-> v, old |-> field[e]]]
               /\ UNCHANGED <<field, kind, newBind, oldBind, lastEdit>>

(***************************************************************************)
(* The mutex section: LoadOrCompute creates editableFields with both      *)
(* binds; a loaded editableFields gets both binds overwritten; an         *)
(* editable or insertable entity gets the field set on its struct; an     *)
(* entity marked to delete returns a BindError.                           *)
(***************************************************************************)
Locked(t) ==
    /\ pc[t] = "locked"
    /\ LET e == arg[t].e
           v == arg[t].v
           ok == kind[e] # "delete"
       IN /\ kind' = [kind EXCEPT ![e] = IF @ = "none" THEN "fields" ELSE @]
          /\ newBind' = IF kind[e] \in {"none", "fields"} THEN [newBind EXCEPT ![e] = v] ELSE newBind
          /\ oldBind' = IF kind[e] \in {"none", "fields"} THEN [oldBind EXCEPT ![e] = arg[t].old] ELSE oldBind
          /\ field' = IF kind[e] \in {"editable", "insertable"} THEN [field EXCEPT ![e] = v] ELSE field
          /\ lastEdit' = IF ok THEN [lastEdit EXCEPT ![e] = v] ELSE lastEdit
    /\ pc' = [pc EXCEPT ![t] = "idle"]
    /\ UNCHANGED arg

\* The application tracks the entity for update, insert or delete before editing it.
MarkTracked(e, k) ==
    /\ kind[e] = "none"
    /\ \A t \in Threads : pc[t] = "locked" => arg[t].e # e
    /\ kind' = [kind EXCEPT ![e] = k]
    /\ UNCHANGED <<field, newBind, oldBind, pc, arg, lastEdit>>

Init ==
    /\ field \in [Ent -> Val]
    /\ kind = [e \in Ent |-> "none"]
    /\ newBind = [e \in Ent |-> NULL]
    /\ oldBind = [e \in Ent |-> NULL]
    /\ pc = [t \in Threads |-> "idle"]
    /\ arg = [t \in Threads |-> [e |-> CHOOSE e \in Ent : TRUE, v |-> NULL, old |-> NULL]]
    /\ lastEdit = [e \in Ent |-> NULL]

Next ==
    \/ \E t \in Threads, e \in Ent, v \in Val : Call(t, e, v)
    \/ \E t \in Threads : Locked(t)
    \/ \E e \in Ent, k \in {"editable", "insertable", "delete"} : MarkTracked(e, k)

Spec == Init /\ [][Next]_vars

-----------------------------------------------------------------------------

TypeOK ==
    /\ field \in [Ent -> Val]
    /\ kind \in [Ent -> Kinds]
    /\ newBind \in [Ent -> Val \cup {NULL}]
    /\ oldBind \in [Ent -> Val \cup {NULL}]
    /\ pc \in [Threads -> {"idle", "locked"}]
    /\ lastEdit \in [Ent -> Val \cup {NULL}]

(***************************************************************************)
(* What a Flush will write for an entity is the value of the last         *)
(* EditEntityField call on it that returned nil (spec scenario S5: edits  *)
(* "x" then "y" flush newBind "y").  About the early return that compares *)
(* the new value with the struct's value, which field edits never change. *)
(***************************************************************************)
PendingIsLastEdit ==
    \A e \in Ent :
        /\ kind[e] = "fields" => newBind[e] = lastEdit[e]
        /\ kind[e] \in {"editable", "insertable"} /\ lastEdit[e] # NULL => field[e] = lastEdit[e]

====
