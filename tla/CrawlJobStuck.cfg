\* A running job comes to its end, without any fault.
SPECIFICATION FairSpec
CONSTANTS
  Items = {i1, i2}
  NoItem = NoItem
  MaxAttempts = 3
  MaxStalls = 1
  MaxCopies = 1
  MaxFaults = 0
PROPERTY JobFinishes
