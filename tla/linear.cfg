SPECIFICATION FairSpec
CONSTANTS
    Null = Null
    c1 = c1
    c2 = c2
    c3 = c3
    Coordinators = {c1, c2}
    Fingerprint <- OneConfig
    ReadMode <- Strong
    DuplicateKeys = "reject"
    EnableEntryIdLookup = FALSE
    MaxSequence = 10
    MaxRetries = 2
    MaxSyncMutationsPerBatch = 10
    Requests <- LinearRequests
    MaxOps = 3
    StaleReads = FALSE
    SpuriousRefusals = FALSE
    StoreFailures = TRUE
PROPERTIES
    ImplementsLinearTree
    EveryCallSettles
CHECK_DEADLOCK FALSE
