SPECIFICATION Spec
CONSTANTS
    Null = Null
    c1 = c1
    c2 = c2
    c3 = c3
    Coordinators = {c1, c2}
    Fingerprint <- OneConfig
    ReadMode <- Strong
    DuplicateKeys = "allow"
    EnableEntryIdLookup = FALSE
    MaxSequence = 1
    MaxRetries = 2
    MaxSyncMutationsPerBatch = 10
    Requests <- OverflowRequests
    MaxOps = 4
    StaleReads = FALSE
    SpuriousRefusals = FALSE
    StoreFailures = FALSE
PROPERTIES
    NewInstanceRecovers
CHECK_DEADLOCK FALSE
