\* Three push buffers, each cut off at every word, in two submissions; three
\* guest threads on three host threads.
SPECIFICATION GameSpec
CONSTANTS
    Buffers <- MCBuffers
    MaxWords = 9
    MaxSubmits = 2
    None = None
    MaxThreads = 3
    MaxHosts = 3
INVARIANTS InBounds DrawsAccounted
PROPERTIES DrawsInOrder QueueDrains ExitEndsGuest
\* the guest may stop submitting, and its threads be gone
CHECK_DEADLOCK FALSE
