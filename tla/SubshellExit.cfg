CONSTANTS
  Statuses = {0, 1}
  MaxLevels = 2
  MaxDepth = 3
SPECIFICATION Spec
PROPERTIES SubshellContainsExit
