SPECIFICATION Spec
CONSTANTS
  CellBits = 16
  Amd64 = TRUE
  RuleStacks <- MCRuleStacks
  RuleReturns <- MCRuleReturns
  Words <- MCWords
  WordStacks <- MCWordStacks
  Turns <- MCTurns
PROPERTIES
  ComparesAsNamed
