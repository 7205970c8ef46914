SPECIFICATION FairSpec
CONSTANTS
    q1 = q1
    q2 = q2
    t1 = t1
    t2 = t2
    k1 = k1
    k2 = k2
    Requests = {q1}
    Retries = {r1}
    Todos = {t1}
    Keys = {k1, k2}
    TodoOf <- OneRequest
    KeyOf <- ItsKey
    Nobody = Nobody
    Clients = {c1, c2}
    Monitor = Monitor
    MaxAutoRetriesPerTodo = 3
    MaxFaults = 1
INVARIANTS
    BoundBeforeRun
    DeliveryIsEarned
    RetriedHoldsNothing
PROPERTIES
    SettledOnce
    EndedIsSettled
