SPECIFICATION Spec
CONSTANTS
    r1 = r1
    r2 = r2
    Runs = {r1, r2}
    Request <- MCRequest
    Kinds <- MCKinds
    Capacity <- MCCapacity
    MaxActiveRuns = 2
    MaxAcquires = 2
    MaxTurns = 2
    MaxToolCalls = 1
    MaxCallsPerTurn = 1
    MaxCrashes = 1
    MaxFaults = 1
INVARIANTS
    LeasesHaveOwners
    RetryHasConsent
    NoOrphanedRun
PROPERTIES
    KeepsContract
    EveryRunEnds
CHECK_DEADLOCK FALSE
