CONSTANTS
  Names = {"a", "b"}
  MaxDepth = 3
  MaxNodes = 3
  MaxOperands = 2
  Aliasing = FALSE
SPECIFICATION Spec
INVARIANTS TypeOK OperandSurvives SuccessMeansDone NoClobberLosesNothing NothingElseTouched
