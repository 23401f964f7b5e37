SPECIFICATION Spec
CONSTANTS
    first = first
    second = second
    Destinations = {first, second}
    Slots <- MCSlots
    Tasks = {1, 2, 3}
    PerDay = 2
    Window = 1
    MaxTime = 2
SYMMETRY MCSymmetry
INVARIANTS
    EveryDateKept
    SetupVerifiesDestination
PROPERTY VerifiedStays
CHECK_DEADLOCK FALSE
