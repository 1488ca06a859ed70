\* Two render threads that keep one slot each, of which one cancels, and a
\* compositor; three guest threads on four host threads, so that two calls of
\* SvcStartThread can start one thread.
SPECIFICATION PartsSpec
CONSTANTS
    NumSlots = 3
    Producer = {p1, p2}
    Canceler = {p2}
    Consumer = {c1}
    MaxHeld = 1
    MaxThreads = 3
    MaxHosts = 4
INVARIANTS NoSlotStuck HeldIsDequeued OldestRecycled FinishedIsOver
\* the threads of a game may all be gone
CHECK_DEADLOCK FALSE
