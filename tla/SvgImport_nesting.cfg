SPECIFICATION Spec
CHECK_DEADLOCK FALSE
CONSTANTS
    Drift = 1
    UnitToMm <- Unit
    Documents <- MCDocuments
    Elements <- MCElements
    Places <- MCPlaces
INVARIANTS
    DrawnAsInSvg
