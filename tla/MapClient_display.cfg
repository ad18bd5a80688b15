\* Three actions of the user, with the greatest limit and none.
SPECIFICATION Spec
CONSTANTS
    Places = {p, q}
    Sliders = {29, 30}
    None = None
    MaxActions = 3
CHECK_DEADLOCK FALSE
INVARIANT RouteOnDisplay
PROPERTY LoadingEnds
