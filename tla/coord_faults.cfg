SPECIFICATION Spec
CONSTANTS
    Null = Null
    c1 = c1
    c2 = c2
    c3 = c3
    Coordinators = {c1, c2, c3}
    Fingerprint <- TwoConfigs
    ReadMode <- Strong
    DuplicateKeys = "allow"
    EnableEntryIdLookup = FALSE
    MaxSequence = 2
    MaxRetries = 2
    MaxSyncMutationsPerBatch = 2
    Requests <- FaultRequests
    MaxOps = 3
    StaleReads = TRUE
    SpuriousRefusals = TRUE
    StoreFailures = TRUE
SYMMETRY Symmetry
INVARIANTS
    ReplicaIsLogPrefix
    ConfigurationIsAgreed
    AtMostOnce
    EffectlessCallsLeaveNoTrace
    SessionIsMonotonic
    CorruptionIsInTheLog
    IdsAreHandedOutOnce
PROPERTIES
    CorruptionIsFinal
CHECK_DEADLOCK FALSE
