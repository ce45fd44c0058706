SPECIFICATION LoadedSpec
CONSTANTS
    Null = Null
    DuplicateKeys = "reject"
    EnableEntryIdLookup = FALSE
    MaxSequence = 84
    DeleteRebalancePolicy = "lazy"
    MaxLeafEntries = 9
    MaxBranchChildren = 3
    AutoScale = FALSE
    Tiers <- NoTiers
    Cloning = FALSE
    Probes = {0, 4, 17, 18, 54, 90, 162}
    Keys = {9, 20, 64, 99, 144}
    Loaded <- DeepLoaded
    Batches <- DeepBatches
    Ranges <- DeepRanges
    Kinds <- DeepKinds
    Mutations <- MCMutations
    Payloads <- NoPayloads
    MaxSerializedEntries = 9
INVARIANTS
    TreeIsSound
    EveryCallDoesWhatItPromises
    QueriesAgree
