SPECIFICATION GrowthSpec
CONSTANTS
  Callers = {j1}
  Steps = 3
  MaxRuns = 2
  c0 = c0
  c1 = c1
  c2 = c2
  Categories = {c0, c1, c2}
  Default = c0
  CrawlLists <- MCCrawlLists
  EditLists <- MCEditLists
  Editor = Editor
  Crawls = {}
  NoDocument = NoDocument
  MaxIndex = 1
  MaxTries = 2
  MaxLoad = 1
INVARIANT
  GeoMaterialized
