\* Edit a field and then edit it back to the entity's value.
CONSTANTS
    e1 = e1
    v1 = v1
    v2 = v2
    t1 = t1
    t2 = t2
    Ent <- MCEnt
    Val <- MCVal
    Threads <- MCThreads
    NULL = NULL

SPECIFICATION Spec
SYMMETRY Symmetry
INVARIANTS
    PendingIsLastEdit
