SPECIFICATION MCSpec
CONSTANTS
    r1 = r1
    r2 = r2
    c1 = c1
    c2 = c2
    Acts = {a1, a2}
    McpRuns = {r1, r2}
    McpCalls = {c1, c2}
    McpRunOf <- MCRunOf
    Revisions = {1, 2, 3}
    ServerOf <- MCServerOf
    MaxPatches = 1
    None = None
INVARIANTS
    InUseIsOpen
    ReadyIsBound
    CallsAreOwn
PROPERTIES
    RetiredCloses
CHECK_DEADLOCK FALSE
