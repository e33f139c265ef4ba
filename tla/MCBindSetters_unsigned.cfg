\* Every column kind and input of the bounded domain: unsigned columns.
CONSTANTS
    W = 4
    NULL = NULL

SPECIFICATION Spec
INVARIANTS
    UnsignedSetterMatchesSpec
