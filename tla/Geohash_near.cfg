\* Spots on both edges of the cells about the rims and the middle of either axis.
SPECIFICATION Spec
CONSTANTS
    Precisions = {1, 2, 3}
    Unit = 128
    Rows <- SomeRows
    Columns <- SomeColumns
CHECK_DEADLOCK FALSE
INVARIANT CellsAreTheGrid
PROPERTY NearbyIsFound
