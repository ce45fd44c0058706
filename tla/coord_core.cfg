SPECIFICATION Spec
CONSTANTS
    Null = Null
    c1 = c1
    c2 = c2
    c3 = c3
    Coordinators = {c1, c2}
    Fingerprint <- OneConfig
    ReadMode <- Mixed
    DuplicateKeys = "reject"
    EnableEntryIdLookup = FALSE
    MaxSequence = 10
    MaxRetries = 2
    MaxSyncMutationsPerBatch = 2
    Requests <- CoreRequests
    MaxOps = 4
    StaleReads = FALSE
    SpuriousRefusals = FALSE
    StoreFailures = FALSE
INVARIANTS
    TypeOK
    OversizedIsForGood
    WritesAreJudgedInPlace
    OnlyOverflowPoisons
    AnswersAreSequential
    AnswersAreFresh
    GivingUpMeansOthersCommitted
CHECK_DEADLOCK FALSE
