\* One thread waits without a timeout, another signals.
SPECIFICATION FairSpec
CONSTANTS
  t1 = t1
  t2 = t2
  e1 = e1
  Thread = {t1, t2}
  Event = {e1}
  Null = Null
  FakeHandle = FakeHandle
  HandleLists <- SingleEvent
  Timeouts = {"infinite"}
  Closable = {}
PROPERTY
  SignaledWaitReturns
\* every guest thread may have ended
CHECK_DEADLOCK FALSE
