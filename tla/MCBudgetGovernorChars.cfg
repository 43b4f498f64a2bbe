\* The budget governor alone, until the ledger of amounts forgets by size.
SPECIFICATION Spec
CONSTANTS
    Parts = {"budget"}
    Reservations = {b1, b2, b3}
    MaxConcurrent = 1
    CallLimit = 2
    AmountLimit = 3
    Interval = 1
    ReservePercent = 0
    ChargeShadow = FALSE
    Amounts = {0, 3}
    BudgetTime = 6
    MaxDenials = 0
    Keys = {k1, k2}
    Workers = {w1, w2}
    QueueCapacity = 1
    ShadowEvents = 3
    Refs = {"a", "b"}
    Durations = {0, 2}
    Kinds = {"timeout", "unavailable", "rate_limited", "overloaded", "authentication",
             "invalid_request", "unauthorized", "backend"}
    MaxChunks = 3
INVARIANT
    CharsRoll
CHECK_DEADLOCK FALSE
