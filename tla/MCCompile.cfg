SPECIFICATION CompileSpec
CONSTANTS
  CellBits = 16
  Amd64 = FALSE
  RuleStacks <- MCRuleStacks
  RuleReturns <- MCRuleReturns
  Words <- MCWords
  WordStacks <- MCWordStacks
  Turns <- MCTurns
  Programs <- MCPrograms
  ProgramStacks <- MCProgramStacks
  PrintedNumbers <- MCPrintedNumbers
  PrintBases <- MCPrintBases
  ReadTexts <- MCReadTexts
  ReadBases <- MCReadBases
  LiteralNumbers = {}
INVARIANTS
  AllTestsPass
  RewritesKeepMeaning
  PlusLoopCrosses
  NumbersRead
PROPERTIES
  OptimizerEnds
