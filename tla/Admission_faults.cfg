SPECIFICATION Spec
CONSTANTS
  Tasks = {t1, t2, t3}
  Agents = {a1, a2, a3}
  NoAgent = NoAgent
  Schedules = {s1}
  MaxActive = 1
  MaxQueued = 2
  ThreadFaults = TRUE
  StorageFaults = TRUE
SYMMETRY Symmetric

  
PROPERTIES
  FirstComeFirstServed
CHECK_DEADLOCK FALSE
