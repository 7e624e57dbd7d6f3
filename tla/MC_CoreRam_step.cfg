\* Self-modifying programs, reset and run_i at any edge, response latency 1.
SPECIFICATION Spec
CONSTANTS
    SIZE_BYTES = 20
    RESPONSE_LATENCY_CYCLES = 1
    Byte <- Bytes
    ZeroByte = 0
    PowerUpStorage <- StepPrograms
    NoPayload = NoPayload
    WORD_BITS = 4
    PC_SPAN = 64
    StartPcs <- StepPcs
    Upper <- Uppers
    ZeroUpper = "0"
    PowerUpGprs <- PowerUpRegisters
    PowerUpHiLo <- PowerUpPairs
    Backdoors <- StepBackdoors
INVARIANTS
    TypeOK
    NoFatalAssertion
    PhaseFollowsFetch
    FetchesAtPc
    CommitNeverSuppressed
    RetirementMatches
    ExecuteStopsOnlyIllegal
PROPERTY
    ImplementsMachine
