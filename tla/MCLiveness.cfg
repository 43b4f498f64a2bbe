SPECIFICATION FairSpec
CONSTANTS
    k1 = k1
    k2 = k2
    Nobody = Nobody
    w1 = w1
    w2 = w2
PROPERTIES
    OperatorAnswered
    WorkersFinish
    DeferredSettles
CHECK_DEADLOCK FALSE
