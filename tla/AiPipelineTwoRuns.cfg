\* Two runs of one tool at the same time, and a crawl that updates the tool.
SPECIFICATION Spec
CONSTANTS
  Runs = {r1, r2}
  NoRun = NoRun
  Generators = 2
  InMetadata = {2}
  MaxRounds = 2
  AutoPublish = TRUE
  MaxAttempts = 1
  MaxStalls = 0
  MaxCopies = 1
  MaxFaults = 0
  MaxRecrawls = 1
SYMMETRY Perms
INVARIANTS
  ShownIsApproved
  NothingLeftPending
