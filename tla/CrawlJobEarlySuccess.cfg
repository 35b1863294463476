\* The documented meaning of a completed job, without any fault.
SPECIFICATION Spec
CONSTANTS
  Items = {i1, i2}
  NoItem = NoItem
  MaxAttempts = 3
  MaxStalls = 1
  MaxCopies = 1
  MaxFaults = 0
INVARIANT SucceededMeansIngested
