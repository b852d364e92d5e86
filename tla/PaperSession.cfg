SPECIFICATION Spec
CONSTANTS
  Den = 10
  Slip = 1
  Fee = 1
  Fixed = 1
  StopPct = 2
  RiskPct = 1
  InitialCash = 60
  Lot = 1
  Mult = 1
  MaxQty = 5
  MaxNotional = 55
  MaxLoss = 8
  Prices = {8, 10, 20}
  NBars = 4
  MaxDay = 2
  MaxRestarts = 1
INVARIANTS BooksBalance EveryFillBooked OneFillPerCandle StopHolds NoPositionOverCap
CHECK_DEADLOCK FALSE
