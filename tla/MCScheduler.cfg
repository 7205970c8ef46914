SPECIFICATION Spec
CONSTANTS
    Requests <- MCRequests
    Kinds <- MCKinds
    Capacity <- MCCapacity
    MaxActiveRuns = 2
    MaxAcquires = 5
INVARIANTS
    LeasesMatchBooks
    WorkspaceExclusive
    WithinCapacity
    WorkConserving
PROPERTIES
    PeersInOrder
    PumpIsTheLoop
    EveryWaiterLeaves
CHECK_DEADLOCK FALSE
