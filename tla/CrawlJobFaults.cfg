\* One item and one fault at any await: a rejection is retried, a crash is not.
SPECIFICATION FairSpec
CONSTANTS
  Items = {i1}
  NoItem = NoItem
  MaxAttempts = 2
  MaxStalls = 0
  MaxCopies = 2
  MaxFaults = 1
INVARIANTS
  NothingLost
PROPERTIES
  JourneyKept
  ItemsResolve
