\* The documented fate of a rejected revision, with automatic publishing and one editor.
SPECIFICATION ReviewSpec
CONSTANTS
  Runs = {r1}
  NoRun = NoRun
  Generators = 2
  InMetadata = {2}
  MaxRounds = 1
  AutoPublish = TRUE
  MaxAttempts = 1
  MaxStalls = 0
  MaxCopies = 1
  MaxFaults = 0
  MaxRecrawls = 0
  Editors = {e1}
  NoTask = NoTask
  MaxRequests = 3
INVARIANT RejectedIsDiscarded
