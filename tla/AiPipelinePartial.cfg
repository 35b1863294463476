\* The documented promise of a failed and retried generation: one run, one fault.
SPECIFICATION Spec
CONSTANTS
  Runs = {r1}
  NoRun = NoRun
  Generators = 2
  InMetadata = {2}
  MaxRounds = 1
  AutoPublish = TRUE
  MaxAttempts = 3
  MaxStalls = 1
  MaxCopies = 2
  MaxFaults = 1
  MaxRecrawls = 0
INVARIANT NoPartialPublish
