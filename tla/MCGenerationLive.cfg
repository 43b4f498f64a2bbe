SPECIFICATION Spec
CONSTANTS
    donation = donation
    chat = chat
    chat2 = chat2
    NoEvent = NoEvent
    Events <- MCEvents1
    Rank <- MCRank1
    QueueCapacity = 1
    MaxGenerations = 3
    UniqueEvents = FALSE
    ProvidersPanic = FALSE
CHECK_DEADLOCK FALSE
PROPERTIES
    EveryGenerationSettles
