\* A job of two recipients and an unreadable row; a crash and an overrun.
CONSTANTS
  d1 = d1
  d2 = d2
  o1 = o1
  o2 = o2
  o3 = o3
  r1 = r1
  r2 = r2
  None = None
  Drain <- Drains
  Row = {o1, o3}
  Recipient = {r1, r2}
  Audience <- OneJob
  Unreadable = {o3}
  MaxCrashes = 1
  MaxOverruns = 1
SPECIFICATION Spec
SYMMETRY Symmetry
INVARIANTS RetiredMeansDelivered LeaseExclusive CopiesPaidFor NoStrandedRecipient HonestVerdict
PROPERTIES VerdictIsFinal PromiseKept
CHECK_DEADLOCK FALSE
