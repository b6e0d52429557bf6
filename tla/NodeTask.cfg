SPECIFICATION Spec
CONSTANTS
    Client = {c1, c2}
    MaxTicks = 1
INVARIANT OnlyTicksAreLost
PROPERTY CallsReturn
CHECK_DEADLOCK FALSE
