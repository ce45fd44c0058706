SPECIFICATION MCSpec
CONSTANTS
    LeafItems = {"d", "e"}
    MaxLeaf = 5
    Children = {1, 2, 3, 4, 5, 6, 7, 8}
    KeyObjects = {1, 2, 3, 4, 5, 6, 7, 8}
    NodeKeys = {0, 1}
    MaxBranch = 4
INVARIANTS
    DeadEntriesAreFew
    ChildrenKnowTheirSlot
PROPERTIES
    EntriesAreAList
    ChildrenAreAList
