\* Every operation on boundary operands.
SPECIFICATION LockstepSpec
CONSTANTS
    WORD_BITS = 4
    Address <- Addresses
    Value <- NoBytes
    NoWord = NoWord
    PowerUp <- SinglePrograms
    Start <- Starts
    PcSpan = 4
    PC_MODULUS = 4
    Zero = "z"
    PowerUpRegisters <- OperandRegisters
    PowerUpPairs <- Pairs
    IndexError = IndexError
    ValueError = ValueError
INVARIANT
    ModelsAgree
