CONSTANTS
  Names = {"a", "b"}
  MaxDepth = 2
  MaxNodes = 2
  MaxOperands = 1
  Aliasing = TRUE
SPECIFICATION Spec
INVARIANTS CopyLeavesSource
