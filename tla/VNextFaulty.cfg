CONSTANTS
    Machine = {a}
    OrderId = {o1, o2}
    Lot = 1
    MaxPos = 1
    Faults = {"resolve", "submit", "lostack", "status", "reconcile", "lag", "unmapped", "unknown", "rebuild", "crash"}
    NoOne = NoOne
    NoOrder = NoOrder
SPECIFICATION FairSpec
INVARIANTS TypeOK ReservationHeld
PROPERTY  TransitionSettles
CHECK_DEADLOCK FALSE
