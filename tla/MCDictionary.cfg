SPECIFICATION Spec
CONSTANTS
    Forth = forth
    User = user
    Root = root
    NewWids = {w1}
    NoWid = nowid
    Names <- MCNames
    Dict <- MCDict
    BuiltIns <- MCBuiltIns
    SearchOrderMax = 2
    DataSpace = 20
    SZ = 2
    SZt = 1
    HeaderSize = 2
    Orders <- MCOrders
CONSTRAINT Bounds
INVARIANTS TypeOK WordsApart FindsNewest CompletionsFound
PROPERTIES ImplementsWordLists BodiesStay
