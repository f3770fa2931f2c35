\* Two calls in flight; one engagement with an image, two payments with three documents and two
\* numbers; two users and two phone numbers; one post with one other user; six posts of a feed;
\* one service and one project; one signing key; three client addresses; one work request.
SPECIFICATION Spec
CONSTANTS
  None = None
  u1 = u1
  u2 = u2
  m1 = m1
  d1 = d1
  d2 = d2
  d3 = d3
  c1 = c1
  c2 = c2
  p1 = p1
  p2 = p2
  n1 = n1
  n2 = n2
  x = x
  y = y
  Assets = {m1, d1, d2, d3}
  Owner <- MCOwner
  Purpose <- MCPurpose
  Calls = {c1, c2}
  Client = u1
  Provider = u2
  Texts = {x, y}
  Window = 1
  MaxTime = 2
  Payments = {p1, p2}
  Numbers = {n1, n2}
  MaxAttempts = 2
  Users = {u1, u2}
  Phones = {p1, p2}
  Names = 2
  OnePerUser = TRUE
  Author = u1
  Viewers = {u2}
  Comments = {1}
  MaxLikes = 2
  PostIds = {1, 2, 3, 4, 5, 6}
  NewIds = {3}
  Times = {1, 2}
  Limit = 4
  Slack = 1
  MaxChanges = 2
  FeedAuthors = {"a", "b"}
  AuthorOf <- MCAuthorOf
  Services = {x}
  Projects = {y}
  Savers = {u2}
  MaxEdits = 3
  Kids = {1}
  Requests = {1, 2}
  Fresh = 10
  MaxStale = 15
  Gap = 1
  Timeout = 1
  Backoff <- MCBackoff
  Addresses = {"x1", "x2", "x3", "?"}
  Unknown = "?"
  Capacity = 2
  MaxBuckets = 2
  IdleTicks = 3
  Batch = 1
  Nothing = Nothing
  Absent = Absent
  Amounts = {5}
  AddonAmounts = {3}
  Dates <- MCDates
  Durations = {1, 13, 20}
  MaxDuration = 13
  MaxRange = 31
  Poster = u1
  Seekers = {u2}
  Prices = {0, 1}
  s1 = s1
  s2 = s2
  t1 = t1
  t2 = t2
  t3 = t3
  SkillKeys <- MCSkillKeys
  SkillNames = {t1, t2, t3}
  Tier <- MCTier
  Releases <- MCReleases
  Approved <- MCApproved
  SuggestCap = 1
  MaxSkills = 2
  Categories = {"Design", "Web", "Other"}
  OtherCategory = "Other"
  Design = "Design"
  Words = {"Design", "Web", "Other", "a craft"}
  TagSkills = {"Figma", "Branding"}
  Omitted = Omitted
  ItemsShown = {"profile", "service"}
  MaxTexts = 1
  RowIds = {1, 2, 3, 4}
  PageLimit = 2
  f1 = f1
  f2 = f2
  f3 = f3
  Files = {f1, f2, f3}
  FileOwner <- MCFileOwner
  MaxAttachments = 1
  UrlFiles = {f1, f2}
  UrlTtl = 4
  UrlMargin = 2
  UrlLimit = 1
  MaxLag = 1
  LastTick = 6
  MaxStamp = 7
  Cards = {"database", "supabase_backup", "uptime"}
  SetUp = {"database", "supabase_backup"}
  States = {"up", "unavailable"}
  FreshTicks = 1
  StaleTicks = 2
  LoadTicks = 1
SYMMETRY Symmetry
INVARIANTS
  AcceptedReviewStands
  BlindUntilPublished
  InvoicesStand
  VerifiedWasConfirmed
  PostsAgree
  PagesLoseNothing
  BudgetHolds
  DealIsKept
  ListingsHold
  AnswersWereVisible
  SkillsHold
  LabelsAgree
  FilesHold
  CachesLast
  UnreadIsUnseen
PROPERTIES
  ServiceEditsAreSerial
  KeysAreFresh
CHECK_DEADLOCK FALSE
