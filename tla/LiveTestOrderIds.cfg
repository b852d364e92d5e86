SPECIFICATION FairSpec
CONSTANTS
  Lot = 2
  Close = 8
  Hold = 2
  Buffer = 3
  Timeout = 1
  Poll = 1
  MaxLatency = 1
  MaxPre = 1
  Keying = "provider_order_id"
  Faults = {}
PROPERTY CompletedIsConfirmed
CHECK_DEADLOCK FALSE
