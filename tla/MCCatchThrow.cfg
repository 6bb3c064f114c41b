SPECIFICATION Spec
CONSTANTS
    XTs <- MCXTs
    Literals <- MCLiterals
    TextLow = 8
    CStack = 100
    MaxD = 2
    MaxR = 9
INVARIANTS TypeOK HandlerChain LoclChain
PROPERTIES ThrowResumesInnermost ImplementsScopes
VIEW LiveState
CONSTRAINT FewActivations FewLeftBehind
