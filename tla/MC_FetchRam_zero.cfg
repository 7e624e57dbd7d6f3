\* Zero response latency with a free-running clock.
SPECIFICATION FairSpec
CONSTANTS
    SIZE_BYTES = 20
    RESPONSE_LATENCY_CYCLES = 0
    Byte <- Bytes
    ZeroByte = 0
    PowerUpStorage <- PowerUps
    NoPayload = NoPayload
    StartPcs <- Pcs
    Backdoors <- LiveBackdoors
INVARIANTS
    InFlightViewsAgree
PROPERTY
    FetchesDelivered
