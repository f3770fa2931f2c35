\* Every handler runs to its end before the next one starts.
SPECIFICATION Spec
CONSTANTS
  None = None
  job = job
  direct = direct
  l1 = l1
  e1 = e1
  e2 = e2
  c1 = c1
  c2 = c2
  p1 = p1
  p2 = p2
  original = original
  Requests = {job}
  Listings = {l1}
  Engagements = {e1, e2}
  Calls = {c1}
  ListingOf <- ListingOfAll
  Legacy = {}
  Original = original
  Proposals = {p1, p2}
  Payable = {original, p1}
  MayCrash = FALSE
INVARIANT ClosedListingAnswersApplicants
CHECK_DEADLOCK FALSE
