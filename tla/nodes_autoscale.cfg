SPECIFICATION SerialSpec
CONSTANTS
    Null = Null
    DuplicateKeys = "replace"
    EnableEntryIdLookup = FALSE
    MaxSequence = 11
    DeleteRebalancePolicy = "standard"
    MaxLeafEntries = 3
    MaxBranchChildren = 3
    AutoScale = TRUE
    Tiers <- SmallTiers
    Cloning = TRUE
    Probes = {0, 1, 5, 11}
    Keys = {3, 11}
    Loaded <- FewLoaded
    Batches <- ScaleBatches
    Ranges <- ScaleRanges
    Kinds <- ScaleKinds
    Mutations <- MCMutations
    Payloads <- ScalePayloads
    MaxSerializedEntries = 9
INVARIANTS
    TreeIsSound
    BookkeepingAgrees
    RoundTrips
