\* Two guest threads, sm, fs, hid with its object and the AM chain of shared
\* objects.  Three sessions when requests overlap, four when they do not.
\* Behaviours end when these were opened and closed.
SPECIFICATION RequestsSpec
CONSTANTS
    sm = sm
    fs = fs
    hid = hid
    appletOE = appletOE
    proxy = proxy
    selfCtl = selfCtl
    r1 = r1
    c1 = c1
    c2 = c2
    Null = null
    Sm = sm
    Client = {c1, c2}
    Named = {sm, fs, hid, appletOE}
    Shared = {proxy, selfCtl}
    Fresh = {r1}
    Subs <- AmSubs
    Parts <- AmParts
    Makers = {hid}
    Counters = {fs}
    MaxSessions = 4
    MaxObjects = 1
SYMMETRY Threads
CHECK_DEADLOCK FALSE
INVARIANTS IdsIncrease OneOwner SerialTargetAlive PointerCurrent
