CONSTANTS
  c1 = c1
  c2 = c2
  c3 = c3
  u1 = u1
  ea = ea
  eb = eb
  e0 = e0
  e1 = e1
  e2 = e2
  s1 = s1
  s2 = s2
  s3 = s3
  f = f
  g = g
  None = None
  Missing = Missing
  Call = {c1, c2, c3}
  Email = {ea, eb}
  EmailOf <- OneEmail
  SpeakersOf <- Casts
  Unguarded = {u1}
  UnguardedBy <- ByA
  Cap = 2
  Total = 2
  Retries = 25
  MaxDeaths = 1
  Editor = {e0, e1, e2}
  Field = {f, g}
  Drafts <- Less
  Sender = {s1, s2, s3}
  p1 = p1
  p2 = p2
  k1 = k1
  k2 = k2
  q = q
  Preview = {p1, p2}
  Key = {k1, k2}
  Placement = {q}
SPECIFICATION MCLive
INVARIANTS CapKept CappedOnlyWhenFull AnswersFitForm SentOnce InvitesOrdered
PROPERTIES EverySubmissionEnds
CHECK_DEADLOCK FALSE
