SPECIFICATION Spec
CONSTANTS
    Ln <- MCLn
    Phys <- MCPhys
    Reg <- MCReg
    Sizes <- MCSizes
    Values <- MCValues
    MaxR = 10
INVARIANTS LoclIsInnermost ReturnAddressesKept
PROPERTIES ImplementsLocalVars
CONSTRAINT FewWords
VIEW LiveState
