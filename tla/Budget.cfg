CONSTANTS
  Workers = {w1, w2, w3, w4}
  MaxNested = 2
  Resources <- MCResources
  Limit <- MCLimit
  Batch <- MCBatch
  MaxOpenFiles = 3
  CounterBound = 7
SYMMETRY Symmetry
SPECIFICATION Spec
INVARIANTS TypeOK LimitsKept SlotsAccounted
PROPERTIES RefusalJustified RefinesQuota
