SPECIFICATION Spec
CONSTANTS
    Null = Null
    DuplicateKeys = "allow"
    EnableEntryIdLookup = TRUE
    MaxSequence = 6
    DeleteRebalancePolicy = "standard"
    MaxLeafEntries = 3
    MaxBranchChildren = 3
    AutoScale = FALSE
    Tiers <- NoTiers
    Cloning = TRUE
    Probes = {0, 1, 2, 3, 6}
    Keys = {1, 2}
    Loaded <- FewLoaded
    Batches <- FewBatches
    Ranges <- FewRanges
    Kinds <- AllKinds
    Mutations <- MCMutations
    Payloads <- NoPayloads
    MaxSerializedEntries = 9
INVARIANTS
    PointersAgree
    KeysGuideTheDescent
    BookkeepingAgrees
    EveryCallDoesWhatItPromises
    QueriesAgree
    PutManyIsPutEach
    AssertInvariantsDecides
PROPERTIES
    ImplementsInMemoryBTree
