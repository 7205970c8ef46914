SPECIFICATION Spec
CONSTANTS
    Backups = {b1}
    Stagings = {s1}
    Applies = {a1, a2}
    MaxWrites = 1
    MaxFaults = 4
    MaxCrashes = 1
    None = None
INVARIANTS
    LatestSurvives
    EndsWhole
PROPERTIES
    NeverReplaced
CHECK_DEADLOCK FALSE
SYMMETRY Swaps
