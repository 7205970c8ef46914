SPECIFICATION Spec
CONSTANTS
    r1 = r1
    r2 = r2
    write1 = write1
    write2 = write2
    push1 = push1
    push2 = push2
    write3 = write3
    write = write
    push = push
    Runs = {r1, r2}
    Calls = {write1, write2, push1, push2, write3}
    RunOf <- MCRunOf
    KeyOf <- MCKeyOf
    KindOf <- MCKindOf
    Processes = {push1, push2}
INVARIANTS
    EffectHasConsent
    ProcessesAreHeld
PROPERTIES
    EveryCallEnds
CHECK_DEADLOCK FALSE
