\* Two keys tried for one engagement, two calls at a time, one of them lost half-way.
SPECIFICATION Spec
CONSTANTS
  None = None
  e1 = e1
  k1 = k1
  k2 = k2
  client = client
  provider = provider
  c1 = c1
  c2 = c2
  Engagements = {e1}
  Keys = {k1, k2}
  Parties = {client, provider}
  Calls = {c1, c2}
  MaxCrashes = 1
INVARIANTS
  OneSettlement
  WorkIsPaid
PROPERTIES
  DecidedStays
  PaidWorkStarts
  StartedWorkIsAnnounced
CHECK_DEADLOCK FALSE
