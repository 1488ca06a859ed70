\* Three threads on one event; two threads on the handle table; two
\* breakpoints, two games and one client at a time; two writers on a ring of
\* three slots; straight programs and two ranges of SSY and SYNC.
SPECIFICATION PartsSpec
CONSTANTS
    Thread = {t1, t2, t3}
    Timeouts = {"zero", "finite", "infinite"}
    Caller = {c1, c2}
    MaxHandles = 4
    Code = {"main", "loop"}
    Images <- Two
    RingSize = 3
    Writer = {w1, w2}
    Channel = {"SVC"}
    Sizes = {1, 2}
    MaxSlots = 7
    Regions <- Programs
    MaxSize = 8
INVARIANTS NoLostWakeup HandleOwnsObject CodeRestored EventsKept
    ResultsStored MergesFollowNesting ExtractKeepsProgram
PROPERTIES ImplementsEvent HandlesStable StopEnds WindowHeals
\* the bounds may be used up, and the server be stopped
CHECK_DEADLOCK FALSE
