CONSTANTS
  Width = 3
  Operands <- MCOperands
  MaxInt = 7
  Separators <- MCSeparators
  Trees <- MCTrees
  PatternChars <- MCPatternChars
  TextChars <- MCTextChars
  MaxPattern = 4
  MaxText = 3
  BraceTrees <- MCBraceTrees
  Parts <- MCParts
  MaxParts = 3
  VariableNames <- MCVariableNames
  Joiner = " "
  Stores <- MCStores
  Expressions <- MCExpressions
  LetterRuns <- MCLetterRuns
  DigitRuns <- MCDigitRuns
  MaxParserNesting = 3
  Programs <- MCScriptTrees
  Styles <- MCStyles
  Texts <- MCTexts
  MaxArguments = 3
  OptStrings <- MCOptStrings
  OptionWords <- MCOptionWords
  MaxOptionWords = 3
SPECIFICATION Spec
INVARIANTS ScriptsParseBack JoinedArgumentsReturn OptionsComeInOrder ArithmeticMeansTree RemovalIsExtreme ReplacesLeftmostLongest BracesGiveEveryChoice RangeIsComplete OnlyRestOfAtIsLost ParametersMeanTable
