SPECIFICATION FairSpec
CONSTANTS
    Size = 3
    Lengths <- MCLengths
    Errors <- MCErrors
    MaxChars = 8
INVARIANTS OutputInOrder
PROPERTIES SuccessSendsAll Returns
