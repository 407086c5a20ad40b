SPECIFICATION Spec
CONSTANTS
  Tasks = {t1, t2, t3}
  Agents = {a1, a2, a3}
  NoAgent = NoAgent
  Schedules = {s1}
  MaxActive = 2
  MaxQueued = 1
  ThreadFaults = FALSE
  StorageFaults = FALSE
SYMMETRY Symmetric
INVARIANTS
  SlotBound
  NoSlotLeak
  WorkConserving
  Exclusive
PROPERTIES
  CleanupIsolated
  ShutdownSettles
CHECK_DEADLOCK FALSE
