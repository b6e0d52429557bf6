SPECIFICATION Spec
CONSTANTS
    Client = {c1}
    MaxTicks = 1
PROPERTY AdvancePreparesNext
CHECK_DEADLOCK FALSE
