\* A search, and settings that no route can keep.
SPECIFICATION Spec
CONSTANTS
    Places = {p, q}
    Sliders = {30}
    None = None
    MaxActions = 2
CHECK_DEADLOCK FALSE
INVARIANT SearchedHasSteps
