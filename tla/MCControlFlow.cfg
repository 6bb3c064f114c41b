SPECIFICATION Spec
CONSTANTS
    Words <- MCWords
    Rules <- MCRules
    MaxWords = 7
INVARIANTS JumpsMatchSource NestedWordsCompile StacksBalanced
PROPERTIES OptimizedRecompiles
CONSTRAINTS FewWords FewCases
