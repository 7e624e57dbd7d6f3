\* Response latency 1 with a free-running clock: requests are accepted and answered.
SPECIFICATION MCFairSpec
CONSTANTS
    SIZE_BYTES = 20
    RESPONSE_LATENCY_CYCLES = 1
    Byte <- Bytes
    ZeroByte = 0
    PowerUpStorage <- PowerUps
    NoPayload = NoPayload
    ValueError = ValueError
    Requests <- LiveRequests
    Backdoors <- LiveBackdoors
PROPERTIES
    SupportedRequestsAccepted
    AcceptedRequestsAnswered
