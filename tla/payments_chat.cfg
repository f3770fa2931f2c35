\* One payment; its call is lost once, then the client retries for ever.
SPECIFICATION Spec
CONSTANTS
  None = None
  e1 = e1
  k1 = k1
  k2 = k2
  client = client
  provider = provider
  c1 = c1
  c2 = c2
  Engagements = {e1}
  Keys = {k1}
  Parties = {client, provider}
  Calls = {c1, c2}
  MaxCrashes = 1
PROPERTY ReplayOpensChat
CHECK_DEADLOCK FALSE
