SPECIFICATION FairSpec
CONSTANTS
  NEvents = 2
  Contracts = {k1}
  MaxNow = 2
  Trading = {1}
  Exiting = {1, 2}
  MaxNotes = 1
  MaxCrashes = 1
INVARIANTS AckedKept RefusesOnlyCut
PROPERTIES SavedBook ExitsComplete
CHECK_DEADLOCK FALSE
