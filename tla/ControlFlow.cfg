CONSTANTS
  Statuses = {0, 1}
  MaxLevels = 2
  MaxDepth = 4
SPECIFICATION Spec
INVARIANTS TypeOK ErrexitAsSet
PROPERTIES JumpsArrive
