SPECIFICATION Spec
CONSTANTS
    Scalar = {0, 1, 2}
    Value = {1, 2}
    MaxIntervals = 3
PROPERTY Promise
CHECK_DEADLOCK FALSE
