SPECIFICATION Spec
CONSTANTS
    Keys <- MCKeys
    Vals <- MCVals
    Capacities <- MCCapacities
    Hash <- MCHash
INVARIANTS EachEntryInItsChain FindsAgree InsertFailsOnlyWhenFull
PROPERTIES EntriesStay ImplementsMap
CONSTRAINTS FewVals KeysInOrder
