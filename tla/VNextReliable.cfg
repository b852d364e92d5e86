CONSTANTS
    Machine = {a, b}
    OrderId = {o1, o2, o3}
    Lot = 2
    MaxPos = 3
    Faults = {"submit", "unmapped"}
    NoOne = NoOne
    NoOrder = NoOrder
SPECIFICATION Spec
SYMMETRY Interchangeable
INVARIANTS NeverOversold SlotCoversAccount BeliefMatchesAccount
PROPERTY SlotSpec
