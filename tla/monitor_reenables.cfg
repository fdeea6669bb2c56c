SPECIFICATION RaceSpec
CONSTANTS
    BackendIds = {b1}
    Procs = {p1, p2}
    Loads = {0, 1}
    Thresholds = {0, 1}
    Referenced = {}
    NoRow = NoRow
    DbMayFail = FALSE
SYMMETRY Symmetry
PROPERTIES
    MonitorNeverEnables
