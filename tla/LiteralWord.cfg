CONSTANTS
  Width = 3
  Operands <- MCOperands
  MaxInt = 3
  Separators <- MCSeparators
  Trees <- MCLeaves
  PatternChars <- MCAccented
  TextChars <- MCAccented
  MaxPattern = 2
  MaxText = 2
  BraceTrees <- MCFlat
  Parts <- MCParts
  MaxParts = 1
  VariableNames <- MCVariableNames
  Joiner = " "
  Stores <- MCStores
  Expressions <- MCExpressions
  LetterRuns <- MCLetterRuns
  DigitRuns <- MCDigitRuns
  MaxParserNesting = 3
  Programs = {}
  Styles = {}
  Texts <- MCTexts
  MaxArguments = 1
  OptStrings <- MCOptStrings
  OptionWords <- MCOptionWords
  MaxOptionWords = 1
SPECIFICATION Spec
INVARIANTS LiteralWordsSurvive
