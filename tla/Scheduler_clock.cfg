SPECIFICATION FairSpec
CONSTANTS
  Schedules = {s1}
  Kinds = {"interval", "daily", "once"}
  Interval = 2
  Day = 3
  Hour = 1
  MaxTime = 6
  StorageFaults = TRUE
INVARIANTS
  OccurrencesSound
  DisabledIsQuiet
  IntervalKept
PROPERTIES
  DueIsFiredByLiveThread
