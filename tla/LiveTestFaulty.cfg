SPECIFICATION FairSpec
CONSTANTS
  Lot = 2
  Close = 8
  Hold = 2
  Buffer = 3
  Timeout = 1
  Poll = 1
  MaxLatency = 1
  MaxPre = 1
  Keying = "order_id"
  Faults = {"refuse", "lostack", "poll", "lag", "cancel", "latecancel", "reject", "audit", "withdraw", "positions", "payload"}
INVARIANTS TypeOK OneOrderPerLeg ExitCoveredByEntry PassLeavesNothing
PROPERTIES ExitBeforeClose RunEnds
CHECK_DEADLOCK FALSE
