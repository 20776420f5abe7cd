\* Two requests at once, one may die, a speaker may act in the portal, then a request that runs alone.
CONSTANTS
  c1 = c1
  c2 = c2
  c3 = c3
  c4 = c4
  s1 = s1
  s2 = s2
  pa = pa
  r1 = r1
  r2 = r2
  t1 = t1
  None = None
  Call = {c1, c2, c3}
  Submission = {s1}
  Speaker = {pa}
  Author <- OneSpeaker
  Template = {t1}
  Decision = {"accept", "reject"}
  Reason = {r1}
  Expected = {None, 1}
  MaxParallel = 2
  MaxDirect = 0
  MaxCrashes = 1
  MaxPortal = 1
SPECIFICATION Spec
SYMMETRY CallSymmetry
INVARIANTS AnsweredMeansApplied AcceptancesAddUp
CHECK_DEADLOCK FALSE
