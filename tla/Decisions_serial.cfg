\* One request after the other, one may die, for two reasons.
CONSTANTS
  c1 = c1
  c2 = c2
  c3 = c3
  c4 = c4
  s1 = s1
  s2 = s2
  pa = pa
  r1 = r1
  r2 = r2
  t1 = t1
  None = None
  Call = {c1, c2, c3, c4}
  Submission = {s1, s2}
  Speaker = {pa}
  Author <- OneSpeaker
  Template = {t1}
  Decision = {"accept", "waitlist"}
  Reason = {r1, r2}
  Expected = {None}
  MaxParallel = 1
  MaxDirect = 1
  MaxCrashes = 1
  MaxPortal = 0
SPECIFICATION Spec
SYMMETRY CallSymmetry
INVARIANTS AnsweredMeansApplied NobodyLeftBehind AuthorsStand
CHECK_DEADLOCK FALSE
