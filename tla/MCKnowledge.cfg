SPECIFICATION Spec
CONSTANTS
    StoreLimits <- StoreInstances
    EngineLimits <- EngineInstances
INVARIANTS
    MemorySound
    StoreSound
    EngineSound
PROPERTIES
    RightOnesGo
CHECK_DEADLOCK FALSE
