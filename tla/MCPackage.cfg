SPECIFICATION Spec
CONSTANTS
    d1 = d1
    d2 = d2
    Data = {d1, d2}
    Shapes <- SmallShapes
    MAX_NUM_ELEMENTS = 4
CHECK_DEADLOCK FALSE
INVARIANTS
    StoredIsKept
    MarkedIsStored
    WalkSharesOutPlaces
    EmptyMeansNothingStored
    CopyIsSame
