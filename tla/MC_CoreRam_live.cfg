\* Programs that wrap round the program counter, with a free-running clock.
SPECIFICATION FairSpec
CONSTANTS
    SIZE_BYTES = 16
    RESPONSE_LATENCY_CYCLES = 0
    Byte <- Bytes
    ZeroByte = 0
    PowerUpStorage <- LoopPrograms
    NoPayload = NoPayload
    WORD_BITS = 4
    PC_SPAN = 16
    StartPcs <- LoopPcs
    Upper <- Uppers
    ZeroUpper = "0"
    PowerUpGprs <- PowerUpRegisters
    PowerUpHiLo <- PowerUpPairs
    Backdoors <- LoopBackdoors
PROPERTIES
    KeepsRetiring
    StartedFetchesFinish
    StartedInstructionsRetire
