SPECIFICATION Spec
CONSTANTS
    Turns = {t1, t2}
    Durable = TRUE
SYMMETRY Symmetry
CHECK_DEADLOCK FALSE
INVARIANT
    QuietOnceQuiescent
