SPECIFICATION Spec
CONSTANTS
    c1 = c1
    c2 = c2
    c3 = c3
    r1 = r1
    r2 = r2
    r3 = r3
    Calls = {c1, c2, c3}
    IdOf <- MCIdOf
    RunOf <- MCRunOf
    MaxPending = 2
    MaxHistory = 1
    NoRun = NoRun
INVARIANTS
    EntriesMatchPromises
    LateAnswersAreTrue
PROPERTIES
    OneWinner
    EveryWaitEnds
