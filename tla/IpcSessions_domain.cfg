\* The shortest case: sm and one file service in domain mode, one thread.
SPECIFICATION RequestsSpec
CONSTANTS
    sm = sm
    fs = fs
    hid = hid
    appletOE = appletOE
    proxy = proxy
    selfCtl = selfCtl
    r1 = r1
    c1 = c1
    c2 = c2
    Null = null
    Sm = sm
    Client = {c1}
    Named = {sm, fs}
    Shared = {}
    Fresh = {}
    Subs <- NoSubs
    Parts <- NoSubs
    Makers = {}
    Counters = {fs}
    MaxSessions = 2
    MaxObjects = 1
CHECK_DEADLOCK FALSE
INVARIANT OnlyRealSessions
