SPECIFICATION FairSpec
CONSTANTS
    Texts <- MCTexts
    Typed <- MCTyped
    Size = 3
INVARIANTS DataIsNext
PROPERTIES NothingSkipped ReadsAll
