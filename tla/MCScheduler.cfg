SPECIFICATION Spec
CONSTANTS
    audio = audio
    face = face
    e1 = e1
    e2 = e2
    e3 = e3
    e4 = e4
    a1 = a1
    a2 = a2
    a3 = a3
    a4 = a4
    None = None
    Events <- MCEvents
    Assets <- MCAssets
    Channels <- MCChannels
    Plans <- MCPlans
    CallTimes <- MCCallTimes
    TimeMax = 40
    Spacing = 2
    HistoryCapacity = 1
    RetainAll = FALSE
    AllowLate = FALSE
    MaxGeneration = 3
INVARIANTS
    IndexConsistent
    Conservation
    CancelAtSafePoint
    TerminalTruth
PROPERTIES
    KeepsPromise
    AdvanceSettles
    PriorityRespected
    HandoffSpacing
