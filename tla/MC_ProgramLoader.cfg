\* Two loader calls on six bytes of memory, with the raw file rewritten at any time.
SPECIFICATION Spec
CONSTANTS
    ELF32_ADDRESS_SPACE_SIZE = 128
    MemorySize = 6
    MaxCalls = 2
    Requests <- MCRequests
    FileSizes <- Sizes
    Missing = Missing
    Blank = Blank
    ZeroByte = ZeroByte
    None = None
INVARIANTS
    TypeOK
    PublishedIsInMemory
PROPERTY
    ImplementsAtomicLoader
