\* One run, one fault at any await; quality may fail until the last round.
SPECIFICATION FairSpec
CONSTANTS
  Runs = {r1}
  NoRun = NoRun
  Generators = 2
  InMetadata = {2}
  MaxRounds = 2
  AutoPublish = TRUE
  MaxAttempts = 2
  MaxStalls = 0
  MaxCopies = 2
  MaxFaults = 1
  MaxRecrawls = 0
INVARIANTS
  TypeOK
  PublishGate
  PublishedComplete
  RowsSettle
PROPERTIES
  RunEnds
