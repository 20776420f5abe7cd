CONSTANTS
  d1 = d1
  d2 = d2
  c1 = c1
  c2 = c2
  c3 = c3
  p1 = p1
  s1 = s1
  s2 = s2
  u1 = u1
  u2 = u2
  None = None
  Request = {c1, c2, c3}
  Drain = {d1, d2}
  Speaker = {p1}
  Session = {s1, s2}
  FaceOf <- Faces
  Url = {u1, u2}
  MaxMishaps = 1
  Menu <- Mixes
SPECIFICATION SmallSpec
INVARIANTS EachVersionAnnounced OneRecordPerEvent NothingForgotten OneCopyEach
PROPERTIES EveryRowProcessed
CHECK_DEADLOCK FALSE
