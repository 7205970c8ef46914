SPECIFICATION SseSpec
CONSTANTS
    MaxReconnects = 1
    MaxEvents = 4
    MaxRestarts = 1
INVARIANTS
    NoGapNoRepeat
PROPERTIES
    EveryEventArrives
CHECK_DEADLOCK FALSE
