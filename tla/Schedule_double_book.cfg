\* A session loses its speakers, is placed again, and gets them back.
CONSTANTS
  c1 = c1
  c2 = c2
  c3 = c3
  s1 = s1
  s2 = s2
  ra = ra
  rb = rb
  pa = pa
  None = None
  Call = {c1, c2, c3}
  Session = {s1, s2}
  Room = {ra, rb}
  Speaker = {pa}
  Slot <- TwoSlots
  OpenSlot <- TwoSlots
  Lineup <- OneShared
  MaxDecisions = 2
  MaxVersion = 2
SPECIFICATION Spec
SYMMETRY Symmetry
INVARIANT NoSilentDoubleBook
CHECK_DEADLOCK FALSE
