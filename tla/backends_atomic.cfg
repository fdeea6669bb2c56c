SPECIFICATION SerialSpec
CONSTANTS
    BackendIds = {b1, b2}
    Procs = {p1, p2}
    Loads = {0}
    Thresholds = {0}
    Referenced = {b2}
    NoRow = NoRow
    DbMayFail = FALSE
SYMMETRY Symmetry
INVARIANTS
    HeldIsCurrent
PROPERTIES
    CallsAreAtomic
