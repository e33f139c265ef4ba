-------------------------- MODULE MCEditEntityField ---------------------------
\* EditEntityField for TLC: one entity, two values, two goroutines.
EXTENDS EditEntityField, TLC

CONSTANTS e1, v1, v2, t1, t2

MCEnt == {e1}
MCVal == {v1, v2}
MCThreads == {t1, t2}

Symmetry == Permutations(MCThreads)

====
