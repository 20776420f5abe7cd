\* Two rebuilds kept running by the cron, a command, a lost announcement, a crash and an overrun.
CONSTANTS
  d1 = d1
  d2 = d2
  w1 = w1
  e1 = e1
  None = None
  Gone = Gone
  Drain = {d1, d2}
  Writer = {w1}
  Entity = {e1}
  MaxWrites = 1
  MaxReindex = 1
  MaxForced = 1
  MaxLost = 1
  MaxCrashes = 1
  MaxOverruns = 1
SPECIFICATION FairSpec
INVARIANTS FreshMeansTrue
PROPERTIES IndexNeverGoesBack EventuallyBuilt
CHECK_DEADLOCK FALSE
