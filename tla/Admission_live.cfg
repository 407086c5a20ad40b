SPECIFICATION FairSpec
CONSTANTS
  Tasks = {t1, t2}
  Agents = {a1, a2}
  NoAgent = NoAgent
  Schedules = {}
  MaxActive = 1
  MaxQueued = 1
  ThreadFaults = FALSE
  StorageFaults = FALSE
PROPERTIES
  QueuedIsServedOrExpires
  FinishedReleasesSlot
  ImplementsLifecycle
CHECK_DEADLOCK FALSE
