\* Response latency 2: safety of the port and refinement of the atomic memory.
SPECIFICATION MCSpec
CONSTANTS
    SIZE_BYTES = 20
    RESPONSE_LATENCY_CYCLES = 2
    Byte <- Bytes
    ZeroByte = 0
    PowerUpStorage <- PowerUps
    NoPayload = NoPayload
    ValueError = ValueError
    Requests <- MCRequests
    Backdoors <- MCBackdoors
INVARIANTS
    TypeOK
    TargetObeysProtocol
    OutstandingExact
    LatencyExact
    ReferenceAgrees
    ReferenceRaisesWhereRefused
PROPERTIES
    ImplementsAtomicMemory
