CONSTANTS
  c1 = c1
  c2 = c2
  c3 = c3
  k1 = k1
  k2 = k2
  None = None
  Call = {c1, c2, c3}
  Person = {1, 2}
  Founder = 1
  Purposes = {"admin"}
  MaxDeaths = 1
  Submission = {1}
  Criterion = {k1, k2}
  Question <- Questions
  Menu <- Mixes
SYMMETRY Alike
SPECIFICATION SmallSpec
INVARIANTS OneSessionPerLink LastLinkWorks OrphanOnlyByRace HonestReview CommittedOnce
PROPERTIES AdminRemains ReviewedStays
CHECK_DEADLOCK FALSE
