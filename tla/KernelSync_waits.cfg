\* Two guest threads that make any call at any time and close the event.
SPECIFICATION FairSpec
CONSTANTS
  t1 = t1
  t2 = t2
  e1 = e1
  Thread = {t1, t2}
  Event = {e1}
  Null = Null
  FakeHandle = FakeHandle
  HandleLists <- MixedLists
  Timeouts = {"zero", "finite", "infinite"}
  Closable = {e1}
INVARIANTS
  WaiterLifetime
  AsleepCovered
  ResultJustified
\* every guest thread may have ended
CHECK_DEADLOCK FALSE
PROPERTY
  TimedWaitReturns
