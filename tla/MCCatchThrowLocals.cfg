SPECIFICATION Spec
CONSTANTS
    XTs <- MCXTs
    Literals <- MCLiterals
    TextLow = 8
    CStack = 100
    MaxD = 2
    MaxR = 9
PROPERTIES CatchSavesLocals
VIEW LiveState
CONSTRAINT FewActivations FewLeftBehind
