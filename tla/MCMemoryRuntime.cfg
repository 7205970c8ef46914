SPECIFICATION Spec
CONSTANTS
    Revisions <- ThreeRevisions
    MaxRetained = 2
    MaxOps = 3
    MaxPatches = 1
    MaxFaults = 1
INVARIANTS
    PointersProven
    QuietIsConsistent
PROPERTIES
    ServiceSurvivesUpdate
CHECK_DEADLOCK FALSE
