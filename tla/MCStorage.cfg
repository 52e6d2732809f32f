CONSTANTS
    ItemId = {1, 2, 4}
    MaxKey = 5
    Payload <- MCPayload
    Query <- MCQuery
    WordsOf <- MCWordsOf
    TrigramsOf <- MCTrigramsOf
    HostOf <- MCHostOf
    Extensions <- MCExtensions
    Target = 1
    SplitThreshold = 1
    MergeThreshold = 2
    NoItem = NoItem
    MaxGeneration = 3
    MaxDamage = 1
    Null = Null
    Proc = {p1, p2}
    OwnVault = {1}
    SharedVault = {2}
    Peer = {1}
    Stranger = 9
    Me = 0
    Password = {w1, w2}
    Base = {n1}
    MaxMutations = 2
    MaxSalt = 1
    MaxAudit = 2
    MaxTime = 2
    MaxCommands = 6
    Keep = 1
SPECIFICATION MCSpec
INVARIANTS
    RangesTile
    SegmentsAgree
    QueryIsScan
    ChainHolds
    AuditedIsStored
PROPERTIES
    GenerationSeals
    TamperEvident
    BackupIsRecoverable
    RestoreIsAtomic
SYMMETRY Symmetry
CHECK_DEADLOCK FALSE
