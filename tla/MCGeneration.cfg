SPECIFICATION Spec
CONSTANTS
    donation = donation
    chat = chat
    chat2 = chat2
    NoEvent = NoEvent
    Events <- MCEvents
    Rank <- MCRank
    QueueCapacity = 1
    MaxGenerations = 3
    UniqueEvents = FALSE
    ProvidersPanic = TRUE
CHECK_DEADLOCK FALSE
INVARIANTS
    CountersExact
    QuiescenceSound
    NoJobLost
    FencedNeverCommitted
    MailboxSufficient
    DiscardJustified
PROPERTIES
    CancelledNeverCommitted
