CONSTANTS
    Machine = {a}
    OrderId = {o1, o2}
    Lot = 1
    MaxPos = 2
    Faults = {"status"}
    NoOne = NoOne
    NoOrder = NoOrder
SPECIFICATION Spec
INVARIANT NeverShort
