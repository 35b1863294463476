SPECIFICATION GrowthFairSpec
CONSTANTS
  Callers = {j1, j2}
  Steps = 3
  MaxRuns = 2
  c0 = c0
  c1 = c1
  c2 = c2
  Categories = {c0, c1, c2}
  Default = c0
  CrawlLists <- MCCrawlLists
  EditLists <- MCEditLists
  Editor = Editor
  Crawls = {n1}
  NoDocument = NoDocument
  MaxIndex = 2
  MaxTries = 2
  MaxLoad = 2
INVARIANTS
  GrowthTypeOK
  KeysKept
  Categorised
  DocumentCurrent
  NewestCompleted
  StepsAgree
PROPERTY
  GrowthEnds
