SPECIFICATION CompileSpec
CONSTANTS
  CellBits = 16
  Amd64 = FALSE
  RuleStacks = {}
  RuleReturns <- MCRuleReturns
  Words = {}
  WordStacks <- MCWordStacks
  Turns = {}
  Programs = {}
  ProgramStacks <- MCProgramStacks
  PrintedNumbers <- MCPrintedNumbers
  PrintBases = {}
  ReadTexts = {}
  ReadBases <- MCReadBases
  LiteralNumbers = {53}
INVARIANTS
  LiteralsPushed
