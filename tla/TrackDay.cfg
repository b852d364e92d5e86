SPECIFICATION FairSpec
CONSTANTS
  NDays = 2
  NBars = 4
  FlattenTick = 3
  Feed = "gappy"
  MaxCrashes = 1
INVARIANTS ReportMatchesLedger ReportedFlat EntriesBeforeFlatten
PROPERTIES Durable DayEnds
CHECK_DEADLOCK FALSE
