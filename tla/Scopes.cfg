CONSTANTS
  Names <- MCNames
  Values <- MCValues
  PrefixValues <- MCPrefixValues
  Arguments <- MCArguments
  MaxFunctionDepth = 2
  MaxSourceDepth = 1
  MaxNesting = 2
SPECIFICATION Spec
INVARIANTS TypeOK
PROPERTIES StackOfScopes
