SPECIFICATION Spec
CONSTANTS
    MaxDepth = 2
    MaxBraces = 2
INVARIANTS MissedLoopsExplained MissedHandlersExplained
