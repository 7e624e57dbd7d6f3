\* Response latency 2, a slow caller, reset at any edge and backdoor stores.
SPECIFICATION Spec
CONSTANTS
    SIZE_BYTES = 20
    RESPONSE_LATENCY_CYCLES = 2
    Byte <- Bytes
    ZeroByte = 0
    PowerUpStorage <- PowerUps
    NoPayload = NoPayload
    StartPcs <- Pcs
    Backdoors <- MCBackdoors
INVARIANTS
    TypeOK
    NoFetchFatal
    InFlightViewsAgree
PROPERTY
    ImplementsInstructionFetch
