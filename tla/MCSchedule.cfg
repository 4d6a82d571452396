SPECIFICATION Spec
CONSTANTS
    Calls = {c1, c2, c3}
    MaxSignGoroutines = 1
    MaxFeeEntries = 3
    StatusMod = 5
INVARIANTS CapHolds SlotsCounted StatusTells
PROPERTY SlotsReturn
