\* A job with a recipient and one without; a crash and an overrun.
CONSTANTS
  d1 = d1
  d2 = d2
  o1 = o1
  o2 = o2
  o3 = o3
  r1 = r1
  r2 = r2
  None = None
  Drain <- Drains
  Row = {o1, o2}
  Recipient = {r1}
  Audience <- EmptyJob
  Unreadable = {}
  MaxCrashes = 1
  MaxOverruns = 1
SPECIFICATION FairSpec
PROPERTIES EveryRowRetired
CHECK_DEADLOCK FALSE
