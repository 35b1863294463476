\* Two items, no faults: every interleaving of the handlers.
SPECIFICATION Spec
CONSTANTS
  Items = {i1, i2}
  NoItem = NoItem
  MaxAttempts = 3
  MaxStalls = 1
  MaxCopies = 1
  MaxFaults = 0
SYMMETRY Perms
INVARIANTS
  TypeOK
  CompletedNeverOvercounts
  FoundBacked
  StuckOnlyByLostUpdate
