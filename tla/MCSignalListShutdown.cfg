SPECIFICATION Spec
CONSTANTS
    Tasks = {t1, t2, t3}
    Exit = Exit
    null = null
SYMMETRY TaskSymmetry
INVARIANTS
    ShutdownKept
CHECK_DEADLOCK FALSE
