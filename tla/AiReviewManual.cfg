\* Without automatic publishing: two editors review the revisions of a running pipeline.
SPECIFICATION ReviewSpec
CONSTANTS
  Runs = {r1}
  NoRun = NoRun
  Generators = 2
  InMetadata = {2}
  MaxRounds = 1
  AutoPublish = FALSE
  MaxAttempts = 1
  MaxStalls = 0
  MaxCopies = 1
  MaxFaults = 0
  MaxRecrawls = 1
  Editors = {e1, e2}
  NoTask = NoTask
  MaxRequests = 3
SYMMETRY EditorPerms
INVARIANTS
  ReviewTypeOK
  ShownAsApproved
