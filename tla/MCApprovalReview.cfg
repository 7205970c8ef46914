SPECIFICATION Spec
CONSTANTS
    c1 = c1
    c2 = c2
    r1 = r1
    k1 = k1
    Calls = {c1, c2}
    IdOf <- MCIdOf
    RunOf <- MCRunOf
    KeyOf <- MCKeyOf
    PostureOf <- MCPostureOf
    LowRisk = {k1}
    MaxPending = 2
    MaxHistory = 1
    NoRun = NoRun
    None = None
INVARIANTS
    OneVerdict
PROPERTIES
    AllowIsWarranted
    KeepsAuthority
    EveryReviewEnds
CHECK_DEADLOCK FALSE
