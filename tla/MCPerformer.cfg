SPECIFICATION Spec
CONSTANTS
    NoTrack = NoTrack
    PlayLimits <- PlayInstances
    TaskLimits <- TaskInstances
    CallLimits <- CallInstances
INVARIANTS
    PlaybackSound
    TasksSound
    ReflexSound
PROPERTIES
    ToolsFenced
CHECK_DEADLOCK FALSE
