\* The watchdog expires on the second active edge; counters of three values; every
\* setting of the parameters that end a simulation.
SPECIFICATION ObserverSpec
CONSTANTS
    SIZE_BYTES = 16
    RESPONSE_LATENCY_CYCLES = 1
    Byte <- Bytes
    ZeroByte = 0
    PowerUpStorage <- PowerUps
    NoPayload = NoPayload
    Requests <- MCRequests
    Backdoors <- MCBackdoors
    MAX_CYCLES = 2
    COUNT_MODULUS = 3
    FailCodes = {1, 2}
    NoCode = 0
    None = None
    ActiveBound = 4
INVARIANTS
    SimTypeOK
    VerdictIsFirstRequest
    TimeoutExact
    StampsAgree
    TraceMatchesBus
    ExitStatusSound
