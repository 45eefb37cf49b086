CONSTANTS
    Nx = 14
    Ny = 14
    Sizes = {2, 5, 6, 7}
    MaxAmorphs = 6
    MaxAdded = 3
    Programs <- MCPrograms
    Starts = {1, 3}
SPECIFICATION Spec
INVARIANTS SameFromEverySide StairsFillExactly
PROPERTIES PlacedWhole
CHECK_DEADLOCK FALSE
