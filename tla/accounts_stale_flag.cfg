\* Two requests of one user at once: a request that only reads sets the flag by id over a change of number.
SPECIFICATION Spec
CONSTANTS
  None = None
  u1 = u1
  u2 = u2
  p1 = p1
  p2 = p2
  c1 = c1
  c2 = c2
  Users = {u1, u2}
  Phones = {p1, p2}
  Names = 2
  Calls = {c1, c2}
  OnePerUser = FALSE
SYMMETRY Symmetry
INVARIANT VerifiedWasConfirmed
CHECK_DEADLOCK FALSE
