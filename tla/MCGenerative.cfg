\* Three reservations for two slots, amounts that fill the window; two chains and
\* two workers with a queue of one; three chunks of two recordings and two
\* lengths, every error.
SPECIFICATION Spec
CONSTANTS
    Parts = {"budget", "shadow", "evidence", "joins", "route", "offers", "speech"}
    Reservations = {b1, b2, b3}
    MaxConcurrent = 2
    CallLimit = 2
    AmountLimit = 6
    Interval = 2
    ReservePercent = 50
    ChargeShadow = TRUE
    Amounts = {0, 3}
    BudgetTime = 3
    MaxDenials = 1
    Keys = {k1, k2}
    Workers = {w1, w2}
    QueueCapacity = 1
    ShadowEvents = 3
    Refs = {"a", "b"}
    Durations = {0, 2}
    Kinds = {"timeout", "unavailable", "rate_limited", "overloaded", "authentication",
             "invalid_request", "unauthorized", "backend"}
    MaxChunks = 3
INVARIANTS
    BudgetSound
    ShadowSound
    EvidenceSound
    RequestsSound
PROPERTY NoStaleEvidence
CHECK_DEADLOCK FALSE
