SPECIFICATION LoadedTraverseSpec
CONSTANTS
    Null = Null
    DuplicateKeys = "reject"
    EnableEntryIdLookup = FALSE
    MaxSequence = 9
    DeleteRebalancePolicy = "standard"
    MaxLeafEntries = 3
    MaxBranchChildren = 3
    AutoScale = FALSE
    Tiers <- NoTiers
    Cloning = FALSE
    Probes = {}
    Keys = {2, 4, 6, 8}
    Loaded <- WalkLoaded
    Batches <- WalkBatches
    Ranges <- WalkRanges
    Kinds <- WalkKinds
    Mutations <- MCMutations
    Payloads <- NoPayloads
    MaxSerializedEntries = 9
    Traversals <- WalkTraversals
INVARIANTS
    TraversalIsFaithful
