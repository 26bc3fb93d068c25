SPECIFICATION Spec
INVARIANTS
    KaratsubaExact
CHECK_DEADLOCK FALSE
