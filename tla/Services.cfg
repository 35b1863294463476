SPECIFICATION ServicesSpec
CONSTANTS
  Sources = {s1}
  NoSource = NoSource
  Ticks = {t1, t2}
  MaxDue = 2
  MaxDays = 2
  MaxEvents = 2
  Hooks = {h1, h2}
  Concurrency = 1
  MaxSends = 2
  MaxRows = 4
  MaxLosses = 1
  Editors = {e1, e2}
  MaxVersions = 3
  MaxNumber = 2
  MaxVersionRequests = 5
  MaxJobs = 2
  MaxTexts = 2
  MaxExecutions = 2
  MaxLapses = 2
  Urls = {u1, u2}
  TakeLimit = 2
  MaxFound = 2
  Pollers = {p1, p2}
  MaxTasks = 2
  MaxSearches = 2
  MaxUpsets = 1
  MaxChecks = 3
  MaxPages = 3
  MaxCheckTries = 2
  MaxBreaks = 1
  r1 = r1
  r2 = r2
  r3 = r3
  i1 = i1
  a1 = a1
  Records = {r1, r2, r3}
  Crawled = {r1, r2}
  SlugOf <- MCSlugOf
  SiteOf <- MCSiteOf
  DomainOf <- MCDomainOf
  Batches = {i1, a1}
  Imports = {i1}
  FileOf <- MCFileOf
  NoEdit = NoEdit
  MaxIngests = 2
  MaxTurns = 1
  People = {b1, b2}
  MaxSubscriptions = 1
  MaxSendings = 2
  MaxMailings = 2
  MaxOutages = 1
  Requests = {q1, q2}
  Limit = 1
  Window = 5
  BlockTime = 2
  Second = 3
  MaxHits = 3
  MaxDrops = 1
  Getters = {g1, g2}
  Unpublished = {2}
  MaxToolWrites = 3
  Ttl = 2
  Patience = 1
  MaxRedisFaults = 1
INVARIANTS
  ServicesTypeOK
  StrandedOnlyByFaults
  OneJobPerDue
  AttemptsBacked
  EveryDeliverySettles
  NumbersInOrder
  NewOnce
  PublishedIsNewest
  ChangesChain
  LostOnlyByBreaks
  SiteOnce
  CampaignReaches
  BurstBounded
  StaleBounded
PROPERTIES
  DueIsServed
  EventReaches
  CounterExpires
