SPECIFICATION Spec
INVARIANTS
    DisplayIsNumber
