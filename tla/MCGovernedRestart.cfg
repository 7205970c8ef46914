SPECIFICATION Spec
CONSTANTS
    q1 = q1
    q2 = q2
    t1 = t1
    t2 = t2
    k1 = k1
    k2 = k2
    Requests = {q1, q2}
    Retries = {}
    Todos = {t1}
    Keys = {k1, k2}
    TodoOf <- OneTodo
    KeyOf <- OwnKeys
    Nobody = Nobody
    Clients = {c1}
    Monitor = Monitor
    MaxAutoRetriesPerTodo = 3
    MaxFaults = 1
INVARIANTS
    RestartSucceeds
