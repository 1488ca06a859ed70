\* One of seven images, four threads for one stack slot and three TLS
\* slots, a heap that is resized, a host that may refuse any mapping; empty
\* and sub-page buffers, small and large alignments, a carveout that fills up.
SPECIFICATION MapSpec
CONSTANTS
    Space = 56
    PageSize = 2
    HostPage = 4
    HeapBase = 12
    HeapMax = 12
    StackBase = 24
    StackMax = 4
    HeapSizes = {3, 8}
    StackSizes = {5}
    MayFail = TRUE
    CarveoutBase = 24
    CarveoutSize = 8
    DefaultAlign = 2
    Sizes = {0, 1, 3}
    Aligns = {0, 1, 4}
    MaxEntries = 2
    CodeBase = 0
    NroImages <- AllNros
    NsoImages <- AllNsos
    HidBase = 36
    HidSize = 4
    StackSlotsBase = 40
    StackPerThread = 4
    TlsBase = 48
    TlsPerThread = 1
    RelrSlack = 16
    RelrLimit = 1
    MaxLoads = 1
    MaxThreads = 4
INVARIANTS HeapBacked ImageKept DataWritable ReferencesFollow ThreadsBacked
    BuffersDisjoint BufferBacked
PROPERTIES GuestMemoryKept HeapSparesBuffers
\* every bound may be used up
CHECK_DEADLOCK FALSE
