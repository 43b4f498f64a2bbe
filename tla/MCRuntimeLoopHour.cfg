\* The main loop alone, past its sixtieth minute.
SPECIFICATION Spec
CONSTANTS
    Parts = {"loop"}
    MaxRecordBytes = 2
    RawQueueCapacity = 2
    MaxBuffer = 4
    MaxLineBytes = 5
    MaxLines = 4
    Connections = {k1, k2}
    Records = {"blank", "content"}
    Requests <- FewRequests
    Uptimes = {0, 3599, 3600}
    RawCapacity = 1
    DispatchCapacity = 1
    RateCapacity = 1
    None = None
    Sources = {s1, s2}
    Correlations = {r1, r2, r3}
    Rate = 1
    Scale = 2
    Burst = 2
    QueueLimit = 2
    AuditLimit = 2
    MaxSources = 1
    SourceTtl = 4
    CorrelationLimit = 2
    SecurityTime = 4
    SecurityEvents = 4
    MaxInputs = 2
    TelemetryLimit = 1
    MaxTraces = 2
    DeferredCapacity = 2
    Devices = {"obs", "vts"}
    HasPassword = FALSE
    LinkNames = {"a"}
    MaxMessages = 2
    InitialDelay = 1
    MaxDelay = 3
    MaxCalls = 3
    LinkEvents = 2
    LinkTime = 3
INVARIANT
    SecretSuffices
