\* Every combination of the fields the two decoders examine.
SPECIFICATION LockstepSpec
CONSTANTS
    WORD_BITS = 4
    Address <- Addresses
    Value <- NoBytes
    NoWord = NoWord
    PowerUp <- DecodePrograms
    Start <- Starts
    PcSpan = 4
    PC_MODULUS = 4
    Zero = "z"
    PowerUpRegisters <- DecodeRegisters
    PowerUpPairs <- Pairs
    IndexError = IndexError
    ValueError = ValueError
INVARIANTS
    SupportAgrees
    EncodersInvertDecoder
