SPECIFICATION MCSpec
CONSTANTS
    Null = Null
    DuplicateKeys = "replace"
    EnableEntryIdLookup = TRUE
    MaxSequence = 34
    DeleteRebalancePolicy = "standard"
    MaxLeafEntries = 3
    MaxBranchChildren = 5
    AutoScale = FALSE
    Tiers <- NoTiers
    Cloning = FALSE
    Probes = {0, 7, 8, 24, 62}
    Keys = {27, 61}
    Loaded <- WideLoaded
    Batches <- WideBatches
    Ranges <- WideRanges
    Kinds <- WideKinds
    Mutations <- MCMutations
    Payloads <- NoPayloads
    MaxSerializedEntries = 9
    NewEntries <- OneEntry
    Grown = 12
    Fewest = 4
    MaxAdded = 7
INVARIANTS
    TreeIsSound
    EvaluatorsForeseeTheNodes
    BalanceIsKept
    RefillConverges
