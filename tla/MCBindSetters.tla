---------------------------- MODULE MCBindSetters -----------------------------
\* BindSetters for TLC: 4-bit integers stand for Go's 64-bit ones, so
\* uint64 is 0..15, int64 is -8..7 and the narrow column type has 2 bits.
EXTENDS BindSetters

====
