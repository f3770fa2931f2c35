\* Two participants, two messages (perhaps of one client id), two calls at a time; one of them reads.
SPECIFICATION Spec
CONSTANTS
  None = None
  u1 = u1
  u2 = u2
  k1 = k1
  c1 = c1
  c2 = c2
  Users = {u1, u2}
  ClientIds = {k1}
  MaxId = 2
  Calls = {c1, c2}
  MaxTime = 2
  Readers = {u1}
SYMMETRY Symmetry
INVARIANTS
  RepeatsAnsweredWithOriginal
  StartAnnouncedAtMostOnce
  ReceiptsAgree
  PagesMissNothing
CHECK_DEADLOCK FALSE
