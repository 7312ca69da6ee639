CONSTANTS
  Writers = {w1, w2}
  Sizes = {2}
  Limit = 3
SPECIFICATION Spec
INVARIANT CapturedWithinLimit
CHECK_DEADLOCK FALSE
